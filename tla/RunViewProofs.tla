---------------------------- MODULE RunViewProofs ----------------------------
(***************************************************************************)
(* The loads of a run's page implement Mirror, for any number of requests  *)
(* and any bounds.  The inductive invariant says what the generation of    *)
(* loadRun buys: at most one load is current, and what it was served is    *)
(* not older than what the page rendered last.                             *)
(***************************************************************************)
EXTENDS RunView, TLAPS

Request == [state : {"idle", "sent", "served"}, kind : Kinds, current : BOOLEAN, row : Nat]

Typed ==
  /\ row \in Nat /\ loaded \in Nat
  /\ requests \in [Requests -> Request]

\* Nothing the page was served or rendered is newer than the run.
NothingMadeUp ==
  /\ loaded <= row
  /\ \A r \in Requests : requests[r].row <= row

\* The newest load alone is current.
OneCurrent ==
  \A q, r \in Requests : requests[q].current /\ requests[r].current => q = r

\* It was served what was the run's row after the last rendering.
CurrentIsFresh ==
  \A r \in Requests :
    requests[r].current /\ requests[r].state = "served" => loaded <= requests[r].row

ViewInv == Typed /\ NothingMadeUp /\ OneCurrent /\ CurrentIsFresh

\* The steps of the server, of the stream and of the browser leave what the
\* invariant speaks of alone, but for new rows.
Elsewhere == UNCHANGED <<loaded, requests>> /\ row' \in {row, row + 1}

LEMMA ElsewhereKeeps ==
  ViewInv /\ Elsewhere => ViewInv'
<1>1. SUFFICES ASSUME ViewInv, Elsewhere PROVE ViewInv'
  OBVIOUS
<1>2. Typed'
  BY <1>1 DEF ViewInv, Typed, Elsewhere
<1>3. NothingMadeUp'
  <2>1. \A r \in Requests : requests[r].row \in Nat
    BY <1>1 DEF ViewInv, Typed, Request
  <2>2. QED
    BY <1>1, <2>1 DEF ViewInv, Typed, Elsewhere, NothingMadeUp
<1>4. OneCurrent' /\ CurrentIsFresh'
  BY <1>1 DEF ViewInv, Elsewhere, OneCurrent, CurrentIsFresh
<1>5. QED
  BY <1>2, <1>3, <1>4 DEF ViewInv

\* A new load is the only current request; an action's is not current.
LEMMA AskKeeps ==
  ASSUME NEW r \in Requests, NEW kind \in Kinds, ViewInv, Ask(r, kind), UNCHANGED <<row, loaded>>
  PROVE  ViewInv'
<1>1. \A q \in Requests :
        /\ requests'[q] \in Request
        /\ requests'[q].row <= row
        /\ requests'[q].current => \/ q = r /\ kind # "answer" /\ requests'[q].state = "sent"
                                   \/ q # r /\ kind = "answer" /\ requests[q].current
        /\ q # r => requests'[q].row = requests[q].row /\ requests'[q].state = requests[q].state
  <2>1. TAKE q \in Requests
  <2>2. CASE q = r
    <3> DEFINE newest == kind # "answer"
    <3>1. newest \in BOOLEAN /\ row \in Nat
      BY DEF ViewInv, Typed
    <3>2. requests'[q] = [state |-> "sent", kind |-> kind, current |-> newest, row |-> 0]
      BY <2>2 DEF Ask
    <3>3. newest => kind # "answer"
      OBVIOUS
    <3> HIDE DEF newest
    <3>4. requests'[q] \in Request /\ requests'[q].row <= row
      BY <3>1, <3>2 DEF Request
    <3>5. requests'[q].state = "sent" /\ (requests'[q].current => newest)
      BY <3>1, <3>2
    <3>6. QED
      BY <2>2, <3>3, <3>4, <3>5, Zenon
  <2>3. CASE q # r
    <3>1. requests'[q] = [requests[q] EXCEPT !.current = @ /\ kind = "answer"]
      BY <2>3 DEF Ask
    <3>2. requests[q] \in Request /\ requests[q].row <= row
      BY DEF ViewInv, Typed, NothingMadeUp
    <3>3. QED
      BY <2>3, <3>1, <3>2 DEF Request
  <2>4. QED
    BY <2>2, <2>3
<1>2. requests' \in [Requests -> Request]
  <2>1. requests' = [q \in Requests |-> requests'[q]]
    BY DEF Ask
  <2>2. QED
    BY <1>1, <2>1
<1>3. Typed' /\ NothingMadeUp'
  BY <1>1, <1>2 DEF ViewInv, Typed, NothingMadeUp
<1>4. OneCurrent'
  BY <1>1 DEF ViewInv, OneCurrent
<1>5. CurrentIsFresh'
  BY <1>1 DEF ViewInv, CurrentIsFresh
<1>6. QED
  BY <1>3, <1>4, <1>5 DEF ViewInv

\* What the server answers is the row of the moment.
LEMMA ServeKeeps ==
  ASSUME NEW r \in Requests, ViewInv, Serve(r)
  PROVE  ViewInv'
<1>1. row' = row /\ loaded' = loaded
  BY DEF Serve, server
<1>2. \A q \in Requests :
        /\ requests'[q] \in Request
        /\ requests'[q].current = requests[q].current
        /\ q = r => requests'[q].row = row
        /\ q # r => requests'[q] = requests[q]
  <2>1. TAKE q \in Requests
  <2>2. requests[q] \in Request /\ row \in Nat
    BY DEF ViewInv, Typed
  <2>3. CASE q = r
    <3>1. requests'[q] = [requests[q] EXCEPT !.state = "served", !.row = row]
      BY <2>3 DEF Serve, ViewInv, Typed
    <3>2. QED
      BY <2>2, <2>3, <3>1 DEF Request
  <2>4. CASE q # r
    BY <2>2, <2>4 DEF Serve, ViewInv, Typed
  <2>5. QED
    BY <2>3, <2>4
<1>3. requests' \in [Requests -> Request]
  <2>1. requests' = [q \in Requests |-> requests'[q]]
    BY DEF Serve, ViewInv, Typed
  <2>2. QED
    BY <1>2, <2>1
<1>4. Typed'
  BY <1>1, <1>3 DEF ViewInv, Typed
<1>5. NothingMadeUp'
  BY <1>1, <1>2 DEF ViewInv, Typed, NothingMadeUp
<1>6. OneCurrent'
  BY <1>2 DEF ViewInv, OneCurrent
<1>7. CurrentIsFresh'
  BY <1>1, <1>2 DEF ViewInv, Typed, NothingMadeUp, CurrentIsFresh
<1>8. QED
  BY <1>4, <1>5, <1>6, <1>7 DEF ViewInv

\* A request that is over is current no more.
LEMMA FreeKeeps ==
  ASSUME NEW r \in Requests, ViewInv, Free(r), row' = row,
         \/ loaded' = loaded
         \/ requests[r].state = "served" /\ requests[r].current /\ loaded' = requests[r].row
  PROVE  ViewInv'
<1>1. \A q \in Requests :
        /\ requests'[q] \in Request
        /\ q = r => requests'[q] = Idle
        /\ q # r => requests'[q] = requests[q]
  BY DEF Free, Idle, Request, Kinds, ViewInv, Typed
<1>2. requests' \in [Requests -> Request]
  <2>1. requests' = [q \in Requests |-> requests'[q]]
    BY DEF Free, ViewInv, Typed
  <2>2. QED
    BY <1>1, <2>1
<1>3. ~Idle.current /\ Idle.row = 0
  BY DEF Idle
<1>4. requests[r].row \in Nat /\ requests[r].row <= row
  BY DEF ViewInv, Typed, Request, NothingMadeUp
<1>5. Typed'
  BY <1>2, <1>4 DEF ViewInv, Typed
<1>6. NothingMadeUp'
  BY <1>1, <1>3, <1>4 DEF ViewInv, Typed, NothingMadeUp
<1>7. OneCurrent'
  BY <1>1, <1>3 DEF ViewInv, OneCurrent
<1>8. CurrentIsFresh'
  <2>1. CASE loaded' = loaded
    BY <1>1, <1>3, <2>1 DEF ViewInv, CurrentIsFresh
  <2>2. CASE requests[r].state = "served" /\ requests[r].current
    <3>1. \A q \in Requests : ~requests'[q].current
      BY <1>1, <1>3, <2>2 DEF ViewInv, OneCurrent
    <3>2. QED
      BY <3>1 DEF CurrentIsFresh
  <2>3. QED
    BY <2>1, <2>2
<1>9. QED
  BY <1>5, <1>6, <1>7, <1>8 DEF ViewInv

\* A reply that arrives is rendered by the page only when it is current.
LEMMA ArrivesRenders ==
  ASSUME NEW r \in Requests, Arrives(r)
  PROVE  /\ requests[r].state = "served" /\ Free(r) /\ row' = row
         /\ \/ loaded' = loaded
            \/ requests[r].current /\ loaded' = requests[r].row
  BY DEF Arrives, RefreshArrives, OpenArrives, Render, Renders, server

\* Every step is one of four kinds.
LEMMA StepKinds ==
  ASSUME [Next]_vars
  PROVE  \/ Elsewhere
         \/ \E r \in Requests, kind \in Kinds : Ask(r, kind) /\ UNCHANGED <<row, loaded>>
         \/ \E r \in Requests : Serve(r)
         \/ \E r \in Requests : Arrives(r)
         \/ \E r \in Requests : Free(r) /\ UNCHANGED <<row, loaded>>
<1>1. CASE Write \/ FailSilently \/ Announce \/ Activity
  BY <1>1 DEF Write, FailSilently, Announce, Activity, Elsewhere, page
<1>2. CASE Streaming \/ Leave
  BY <1>2 DEF Streaming, QueryRows, ReadStatus, Drain, Leave, Close, Elsewhere, page, server
<1>3. CASE Browser
  BY <1>3 DEF Browser, HandleEvent, StreamEnds, Reconnect, OnError, Elsewhere, page, server
<1>4. CASE Disconnect \/ Refused \/ Restart
  BY <1>4 DEF Disconnect, Refused, Restart, OnError, Elsewhere, page, server
<1>5. ASSUME NEW r \in Requests, Refresh(r) \/ Click(r) \/ Serve(r) \/ Arrives(r) \/ RequestFails(r)
      PROVE  \/ \E q \in Requests, kind \in Kinds : Ask(q, kind) /\ UNCHANGED <<row, loaded>>
             \/ \E q \in Requests : Serve(q)
             \/ \E q \in Requests : Arrives(q)
             \/ \E q \in Requests : Free(q) /\ UNCHANGED <<row, loaded>>
  <2>1. CASE Refresh(r)
    BY <2>1 DEF Refresh, Kinds, server
  <2>2. CASE Click(r)
    BY <2>2 DEF Click, server
  <2>3. CASE RequestFails(r)
    BY <2>3 DEF RequestFails, server
  <2>4. QED
    BY <1>5, <2>1, <2>2, <2>3
<1>6. CASE UNCHANGED vars
  BY <1>6 DEF vars, page, server, Elsewhere
<1>7. QED
  BY <1>1, <1>2, <1>3, <1>4, <1>5, <1>6 DEF Next

LEMMA ViewInvInit == Init => ViewInv
  BY DEF Init, ViewInv, Typed, NothingMadeUp, OneCurrent, CurrentIsFresh, Idle, Request, Kinds

LEMMA ViewInvNext == ViewInv /\ [Next]_vars => ViewInv'
<1>1. SUFFICES ASSUME ViewInv, [Next]_vars PROVE ViewInv'
  OBVIOUS
<1>2. CASE Elsewhere
  BY <1>1, <1>2, ElsewhereKeeps
<1>3. ASSUME NEW r \in Requests, NEW kind \in Kinds, Ask(r, kind), UNCHANGED <<row, loaded>>
      PROVE  ViewInv'
  BY <1>1, <1>3, AskKeeps
<1>4. ASSUME NEW r \in Requests, Serve(r) PROVE ViewInv'
  BY <1>1, <1>4, ServeKeeps
<1>5. ASSUME NEW r \in Requests, Arrives(r) PROVE ViewInv'
  BY <1>1, <1>5, ArrivesRenders, FreeKeeps
<1>6. ASSUME NEW r \in Requests, Free(r), UNCHANGED <<row, loaded>> PROVE ViewInv'
  BY <1>1, <1>6, FreeKeeps
<1>7. QED
  BY <1>1, <1>2, <1>3, <1>4, <1>5, <1>6, StepKinds

THEOREM ViewInvariant == Spec => []ViewInv
<1>1. QED
  BY ViewInvInit, ViewInvNext, PTL DEF Spec

\* A step of the page and the server is a step of the mirror.
LEMMA StepMirrors == ViewInv /\ [Next]_vars => [MirroredRun!Next]_(MirroredRun!vars)
<1>1. SUFFICES ASSUME ViewInv, [Next]_vars PROVE [MirroredRun!Next]_(MirroredRun!vars)
  OBVIOUS
<1>2. CASE Elsewhere
  BY <1>2 DEF Elsewhere, MirroredRun!Next, MirroredRun!Change, MirroredRun!vars
<1>3. ASSUME UNCHANGED <<row, loaded>> PROVE UNCHANGED MirroredRun!vars
  BY <1>3 DEF MirroredRun!vars
<1>4. ASSUME NEW r \in Requests, Serve(r) PROVE UNCHANGED <<row, loaded>>
  BY <1>4 DEF Serve, server
<1>5. ASSUME NEW r \in Requests, Arrives(r) PROVE MirroredRun!Look
  <2>1. /\ requests[r].state = "served" /\ row' = row
        /\ \/ loaded' = loaded
           \/ requests[r].current /\ loaded' = requests[r].row
    BY <1>5, ArrivesRenders
  <2>2. /\ row \in Nat /\ loaded \in Nat /\ requests[r].row \in Nat
        /\ loaded <= row /\ requests[r].row <= row
        /\ requests[r].current => loaded <= requests[r].row
    BY <1>1, <2>1 DEF ViewInv, Typed, Request, NothingMadeUp, CurrentIsFresh
  <2>3. QED
    BY <2>1, <2>2 DEF MirroredRun!Look
<1>6. QED
  BY <1>1, <1>2, <1>3, <1>4, <1>5, StepKinds DEF MirroredRun!Next

\* The page never goes back: with any number of requests under way, answered in
\* any order, the loads of a run's page implement Mirror.
THEOREM PageMirrorsRun == Spec => MirrorsRun
<1>1. Init => MirroredRun!Init
  BY DEF Init, MirroredRun!Init
<1>2. QED
  BY <1>1, ViewInvariant, StepMirrors, PTL DEF Spec, MirrorsRun, MirroredRun!Spec
-----------------------------------------------------------------------------
(* The stream is closed by the load that showed the end.                   *)

\* No refresh that could still be rendered is under way, or due.
NoRefreshLeft ==
  /\ timer = FALSE
  /\ \A r \in Requests : requests[r].kind = "refresh" => ~requests[r].current

ClosedInv == conn = "none" /\ gaps = {} => shown \in ends /\ NoRefreshLeft

\* A step that leaves the page's stream, its loads and its reason alone.
Keeps ==
  /\ UNCHANGED <<gaps, shown, timer>> /\ (conn' = "none" <=> conn = "none")
  /\ ends \subseteq ends'

LEMMA ServerCloses ==
  ASSUME ClosedInv, Keeps, UNCHANGED requests
  PROVE  ClosedInv'
  BY DEF ClosedInv, Keeps, NoRefreshLeft

\* What opens the stream, or gives a reason to be without one.
LEMMA ExcusedCloses ==
  ASSUME conn' # "none" \/ gaps' # {}
  PROVE  ClosedInv'
  BY DEF ClosedInv

LEMMA OnErrorCloses ==
  ASSUME NEW then, then # "none", OnError(then)
  PROVE  ClosedInv'
<1>1. conn' # "none" \/ gaps' # {}
  BY DEF OnError
<1>2. QED
  BY <1>1, ExcusedCloses

\* A click is no refresh.
LEMMA ClickCloses ==
  ASSUME NEW r \in Requests, ViewInv, ClosedInv, Click(r)
  PROVE  ClosedInv'
<1>1. PICK kind \in Kinds \ {"refresh"} : Ask(r, kind)
  BY DEF Click
<1>2. \A q \in Requests :
        requests'[q].kind = "refresh" /\ requests'[q].current =>
          requests[q].kind = "refresh" /\ requests[q].current
  <2>1. TAKE q \in Requests
  <2>2. CASE q = r
    <3>1. requests'[q].kind = kind
      BY <1>1, <2>2 DEF Ask
    <3>2. QED
      BY <1>1, <3>1
  <2>3. CASE q # r
    <3>1. requests'[q] = [requests[q] EXCEPT !.current = @ /\ kind = "answer"]
      BY <1>1, <2>3 DEF Ask
    <3>2. requests[q] \in Request
      BY DEF ViewInv, Typed
    <3>3. /\ requests'[q].kind = requests[q].kind
          /\ requests'[q].current => requests[q].current
      BY <3>1, <3>2 DEF Request
    <3>4. QED
      BY <3>3
  <2>4. QED
    BY <2>2, <2>3
<1>3. UNCHANGED <<conn, gaps, shown, ends, timer>>
  BY DEF Click, server, source
<1>4. QED
  BY <1>2, <1>3, Zenon DEF ClosedInv, NoRefreshLeft

\* A request that is served, or is over, becomes no refresh to be rendered.
LEMMA ServedCloses ==
  ASSUME NEW r \in Requests, ViewInv, ClosedInv, Serve(r) \/ RequestFails(r)
  PROVE  ClosedInv'
<1>1. \A q \in Requests :
        requests'[q].kind = "refresh" /\ requests'[q].current =>
          requests[q].kind = "refresh" /\ requests[q].current
  <2>1. TAKE q \in Requests
  <2>2. requests[q] \in Request /\ requests \in [Requests -> Request]
    BY DEF ViewInv, Typed
  <2>3. CASE Serve(r)
    <3>1. requests'[q] = IF q = r THEN [requests[q] EXCEPT !.state = "served", !.row = row]
                         ELSE requests[q]
      BY <2>2, <2>3 DEF Serve
    <3>2. QED
      BY <2>2, <3>1 DEF Request
  <2>4. CASE RequestFails(r)
    <3>1. requests'[q] = IF q = r THEN Idle ELSE requests[q]
      BY <2>2, <2>4 DEF RequestFails, Free
    <3>2. QED
      BY <3>1 DEF Idle
  <2>5. QED
    BY <2>3, <2>4
<1>2. UNCHANGED <<conn, gaps, shown, ends, timer>>
  BY DEF Serve, RequestFails, server, source
<1>3. QED
  BY <1>1, <1>2, Zenon DEF ClosedInv, NoRefreshLeft

\* A refresh that closes the stream for no other reason was the current request,
\* and there is no other; one that finds the stream closed is not rendered.
LEMMA RefreshArrivesCloses ==
  ASSUME NEW r \in Requests, ViewInv, ClosedInv, RefreshArrives(r)
  PROVE  ClosedInv'
<1>1. \A q \in Requests :
        requests'[q].kind = "refresh" /\ requests'[q].current => q # r /\ requests[q] = requests'[q]
  BY DEF RefreshArrives, Free, Idle, ViewInv, Typed
<1>2. requests[r].kind = "refresh" /\ UNCHANGED ends
  BY DEF RefreshArrives, server
<1>3. Renders(r) <=> requests[r].current
  BY <1>2 DEF Renders
<1>4. CASE Closes(r) /\ Renders(r)
  <2>1. timer' = FALSE /\ shown' \in ends
    BY <1>4 DEF RefreshArrives, Close, Closes, Render
  <2>2. \A q \in Requests : requests'[q].kind = "refresh" => ~requests'[q].current
    BY <1>1, <1>3, <1>4 DEF ViewInv, OneCurrent
  <2>3. QED
    BY <1>2, <2>1, <2>2 DEF ClosedInv, NoRefreshLeft
<1>5. CASE Closes(r) /\ ~Renders(r)
  <2>1. gaps' # {}
    BY <1>5 DEF RefreshArrives
  <2>2. QED
    BY <2>1, ExcusedCloses
<1>6. CASE ~Closes(r)
  <2>1. UNCHANGED <<conn, gaps, timer>> /\ Render(r)
    BY <1>6 DEF RefreshArrives, source
  <2>2. SUFFICES ASSUME conn = "none", gaps = {} PROVE shown' \in ends /\ NoRefreshLeft'
    BY <1>2, <2>1 DEF ClosedInv
  <2>3. shown \in ends /\ NoRefreshLeft
    BY <2>2 DEF ClosedInv
  <2>4. shown' = shown
    BY <1>2, <1>3, <2>1, <2>3 DEF NoRefreshLeft, Render
  <2>5. QED
    BY <1>1, <2>1, <2>3, <2>4 DEF NoRefreshLeft
<1>7. QED
  BY <1>4, <1>5, <1>6

LEMMA ClosedInvNext == ViewInv /\ ClosedInv /\ [Next]_vars => ClosedInv'
<1>1. SUFFICES ASSUME ViewInv, ClosedInv, [Next]_vars PROVE ClosedInv'
  OBVIOUS
<1>2. CASE Write \/ FailSilently \/ Announce \/ Activity
  <2>1. Keeps /\ UNCHANGED requests
    BY <1>2 DEF Write, FailSilently, Announce, Activity, Keeps, page, source
  <2>2. QED
    BY <1>1, <2>1, ServerCloses
<1>3. CASE Streaming \/ Reconnect \/ HandleEvent
  <2>1. CASE conn' # "none"
    BY <2>1, ExcusedCloses
  <2>2. CASE conn' = "none"
    <3>1. Keeps /\ UNCHANGED requests
      BY <1>3, <2>2 DEF Streaming, QueryRows, ReadStatus, Drain, Reconnect, HandleEvent, Listen,
                        Keeps, page, source, server
    <3>2. QED
      BY <1>1, <3>1, ServerCloses
  <2>3. QED
    BY <2>1, <2>2
<1>4. CASE StreamEnds \/ Disconnect \/ Refused \/ Restart
  BY <1>4, OnErrorCloses DEF StreamEnds, Disconnect, Refused, Restart
<1>5. CASE Leave
  BY <1>5, ExcusedCloses DEF Leave
<1>6. ASSUME NEW r \in Requests, Refresh(r) PROVE ClosedInv'
  BY <1>1, <1>6 DEF Refresh, ClosedInv, NoRefreshLeft, server, source
<1>7. ASSUME NEW r \in Requests, Click(r) PROVE ClosedInv'
  BY <1>1, <1>7, ClickCloses
<1>8. ASSUME NEW r \in Requests, Serve(r) \/ RequestFails(r) PROVE ClosedInv'
  BY <1>1, <1>8, ServedCloses
<1>9. ASSUME NEW r \in Requests, Arrives(r) PROVE ClosedInv'
  <2>1. CASE RefreshArrives(r)
    BY <1>1, <2>1, RefreshArrivesCloses
  <2>2. CASE OpenArrives(r)
    BY <2>2, ExcusedCloses DEF OpenArrives, Subscribe, Listen
  <2>3. QED
    BY <1>9, <2>1, <2>2 DEF Arrives
<1>10. CASE UNCHANGED vars
  BY <1>1, <1>10 DEF vars, page, source, server, ClosedInv, NoRefreshLeft
<1>11. QED
  BY <1>1, <1>2, <1>3, <1>4, <1>5, <1>6, <1>7, <1>8, <1>9, <1>10 DEF Next, Browser

\* A page whose stream was closed shows that the run is over, unless it was left,
\* met too many errors, or closed by a refresh that had been overtaken.
THEOREM ClosedPageShowsEnd == Spec => []ClosedShowsEnd
<1>1. Init => ClosedInv
  BY DEF Init, ClosedInv
<1>2. ClosedInv => ClosedShowsEnd
  BY DEF ClosedInv, ClosedShowsEnd
<1>3. QED
  BY <1>1, <1>2, ViewInvariant, ClosedInvNext, PTL DEF Spec
=============================================================================
