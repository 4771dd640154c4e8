------------------------------ MODULE RunView ------------------------------
(***************************************************************************)
(* How the page of the workbench follows a run: the event stream of the    *)
(* API (run_events in backend/main.py), the loads of the run (run_get) and *)
(* the page's own logic (loadRun, subscribeRun, scheduleRunRefresh and     *)
(* closeRunStream in public/app.js).  An event only tells the page to load *)
(* the run again, so an event is its id here, and the run's row is the     *)
(* number of times its status has been written.                            *)
(*                                                                         *)
(* The browser's EventSource is modelled from how the page uses it: a      *)
(* stream that breaks or ends is an error, and is asked for again from the *)
(* last id it delivered; one that the server refuses is never again.       *)
(***************************************************************************)
EXTENDS Naturals

CONSTANTS
  Requests,       \* the requests the page may have under way
  MaxErrors,      \* RUN_STREAM_MAX_ERRORS
  CapSetting,     \* run_events_cap in app_settings; 0 is none
  CapFallback,    \* MAX_RUN_EVENTS
  MaxRows, MaxOwed, MaxEvents, MaxClicks, MaxFaults   \* bounds

ASSUME ViewAssumption ==
  /\ MaxErrors \in Nat \ {0} /\ CapFallback \in Nat \ {0}
  /\ {CapSetting, MaxRows, MaxOwed, MaxEvents, MaxClicks, MaxFaults} \subseteq Nat

VARIABLES
  row,      \* how often the run's row has been written
  ends,     \* the writes that left a final status
  owed,     \* writes whose event is not written yet
  events,   \* the newest event
  poll,     \* the stream's generator: before it looks for "rows", after it found
            \* "none", or before it looks again ("drain")
  cursor,   \* the newest event it has sent
  conn,     \* the page's EventSource: "none", "open", "ended" by the server,
            \* "waiting" to reconnect, "refused" for good
  seen,     \* the newest event the page has handled
  errors,   \* runStreamErrors
  timer,    \* runRefreshTimer is set
  requests, \* what the page has asked for
  shown,    \* the write the page shows
  loaded,   \* the write the last load rendered
  gaps,     \* why the page may be without a stream of a run that goes on
  missed,   \* a request failed and none has rendered since
  clicks, faults

server == <<row, ends, owed, events>>
stream == <<poll, cursor>>
source == <<conn, seen, errors>>
page == <<timer, requests, shown, loaded, gaps, missed>>
vars == <<server, stream, source, page, clicks, faults>>

Kinds == {"refresh", "open", "answer"}
Idle == [state |-> "idle", kind |-> "refresh", current |-> FALSE, row |-> 0]

Init ==
  /\ row = 0 /\ ends = {} /\ owed = 0 /\ events = 1
  /\ poll = "rows" /\ cursor = 0
  /\ conn = "open" /\ seen = 0 /\ errors = 0
  /\ timer = FALSE /\ requests = [r \in Requests |-> Idle]
  /\ shown = 0 /\ loaded = 0 /\ gaps = {} /\ missed = FALSE
  /\ clicks = 0 /\ faults = 0

Over == row \in ends

-----------------------------------------------------------------------------
(* The server.                                                             *)

\* Mutant: a setting of 0 empties the feed.
CapAsSet(setting) == setting

\* retention_cap
RetentionCap(setting) == IF setting > 0 THEN setting ELSE CapFallback

\* The rows the stream's query finds: add_event trims the feed.
Rows == {e \in cursor + 1..events : e + RetentionCap(CapSetting) > events}

\* update_run: a handler, an action of the user or another page.  Its event
\* comes later, by a call of its own.
Write ==
  /\ row < MaxRows /\ owed < MaxOwed
  /\ row' = row + 1 /\ owed' = owed + 1
  /\ \E over \in BOOLEAN : ends' = IF over THEN ends \cup {row + 1} ELSE ends
  /\ UNCHANGED <<events, stream, source, page, clicks, faults>>

\* The end of the repair cycles is written without any event.
FailSilently ==
  /\ row < MaxRows /\ ~Over
  /\ row' = row + 1 /\ ends' = ends \cup {row + 1}
  /\ UNCHANGED <<owed, events, stream, source, page, clicks, faults>>

\* add_event, for a write ...
Announce ==
  /\ owed > 0
  /\ owed' = owed - 1 /\ events' = events + 1
  /\ UNCHANGED <<row, ends, stream, source, page, clicks, faults>>

\* ... or for what an agent does.
Activity ==
  /\ events < MaxEvents
  /\ events' = events + 1
  /\ UNCHANGED <<row, ends, owed, stream, source, page, clicks, faults>>

\* A round that finds rows reads the status too, and does nothing about it.
QueryRows ==
  /\ conn = "open" /\ poll = "rows"
  /\ IF Rows # {} THEN cursor' = events /\ UNCHANGED poll
     ELSE poll' = "none" /\ UNCHANGED cursor
  /\ UNCHANGED <<server, source, page, clicks, faults>>

\* A round that found nothing and then reads a final status is the last one.
ReadStatus ==
  /\ conn = "open" /\ poll = "none"
  /\ poll' = IF Over THEN "drain" ELSE "rows"
  /\ UNCHANGED <<server, cursor, source, page, clicks, faults>>

Drain ==
  /\ conn = "open" /\ poll = "drain"
  /\ cursor' = IF Rows # {} THEN events ELSE cursor
  /\ conn' = "ended" /\ poll' = "rows"
  /\ UNCHANGED <<server, seen, errors, page, clicks, faults>>

-----------------------------------------------------------------------------
(* The page's stream.                                                      *)

\* What a stream that is over had sent and not delivered is lost, ...
Dropped(after) == poll' = "rows" /\ cursor' = after /\ seen' = after

\* ... and the next one starts after the given event.
Listen(after) == conn' = "open" /\ Dropped(after)

\* closeRunStream.  The count of errors starts again with the next stream.
Close == conn' = "none" /\ timer' = FALSE /\ Dropped(0) /\ errors' = 0

\* subscribeRun: from the first event, whatever the page has seen before.
Subscribe == Listen(0) /\ errors' = 0 /\ timer' = FALSE /\ gaps' = {}

\* onEvent: a refresh, unless one is due already.
HandleEvent ==
  /\ conn \in {"open", "ended"} /\ seen < cursor
  /\ seen' = cursor /\ errors' = 0 /\ timer' = TRUE
  /\ UNCHANGED <<server, stream, conn, requests, shown, loaded, gaps, missed, clicks, faults>>

\* onerror: the last error closes the stream, the others refresh.
OnError(then) ==
  /\ IF errors + 1 >= MaxErrors
     THEN Close /\ gaps' = gaps \cup {"errors"}
     ELSE /\ conn' = then /\ timer' = TRUE /\ errors' = errors + 1
          /\ Dropped(seen) /\ UNCHANGED gaps
  /\ UNCHANGED <<requests, shown, loaded, missed, clicks>>

\* The server has ended the stream, and the page has read all of it.
StreamEnds == conn = "ended" /\ seen = cursor /\ OnError("waiting") /\ UNCHANGED <<server, faults>>

Reconnect ==
  /\ conn = "waiting"
  /\ Listen(seen)
  /\ UNCHANGED <<server, errors, page, clicks, faults>>

Disconnect ==
  /\ conn \in {"open", "ended"} /\ faults < MaxFaults
  /\ OnError("waiting") /\ faults' = faults + 1 /\ UNCHANGED server

\* An answer that is no event stream: the session is over, a gateway error.
Refused ==
  /\ conn = "waiting" /\ faults < MaxFaults
  /\ OnError("refused") /\ faults' = faults + 1 /\ UNCHANGED server

\* A write without its event stays so; the streams break with the server.
Restart ==
  /\ conn \in {"open", "ended"} /\ faults < MaxFaults /\ owed > 0
  /\ owed' = 0 /\ UNCHANGED <<row, ends, events>>
  /\ OnError("waiting") /\ faults' = faults + 1

-----------------------------------------------------------------------------
(* The page's requests.                                                    *)

Free(r) == requests' = [requests EXCEPT ![r] = Idle]

\* loadRun takes a new generation; what an action of the user answers has none.
\* The slots are alike, and the first free one is taken.
Ask(r, kind) ==
  /\ requests[r].state = "idle"
  /\ r = CHOOSE q \in Requests : requests[q].state = "idle"
  /\ requests' =
       [q \in Requests |->
          IF q = r
          THEN [state |-> "sent", kind |-> kind, current |-> kind # "answer", row |-> 0]
          ELSE [requests[q] EXCEPT !.current = @ /\ kind = "answer"]]

Refresh(r) ==
  /\ timer /\ timer' = FALSE
  /\ Ask(r, "refresh")
  /\ UNCHANGED <<server, stream, source, shown, loaded, gaps, missed, clicks, faults>>

\* The user opens the run or ends an action with a load and a subscription
\* ("open"), or approves or redoes the plan ("answer").  The action's own write is
\* a Write.
Click(r) ==
  /\ clicks < MaxClicks /\ clicks' = clicks + 1
  /\ \E kind \in Kinds \ {"refresh"} : Ask(r, kind)
  /\ UNCHANGED <<server, stream, source, timer, shown, loaded, gaps, missed, faults>>

\* run_get, or the row an action returns.
Serve(r) ==
  /\ requests[r].state = "sent"
  /\ requests' = [requests EXCEPT ![r].state = "served", ![r].row = row]
  /\ UNCHANGED <<server, stream, source, timer, shown, loaded, gaps, missed, clicks, faults>>

\* Mutant: every reply is rendered.
RendersAll(r) == TRUE

\* Only the newest load is rendered, and every answer.
Renders(r) == requests[r].current \/ requests[r].kind = "answer"

Render(r) ==
  /\ shown' = IF Renders(r) THEN requests[r].row ELSE shown
  /\ loaded' = IF Renders(r) /\ requests[r].kind # "answer" THEN requests[r].row ELSE loaded
  /\ missed' = (missed /\ ~Renders(r))

\* Mutant: a refresh of any status closes the stream.
ClosesAlways(r) == TRUE

\* A refresh closes the stream when it read a final status, rendered or not.
Closes(r) == requests[r].row \in ends

RefreshArrives(r) ==
  /\ requests[r].state = "served" /\ requests[r].kind = "refresh"
  /\ Render(r) /\ Free(r)
  /\ IF Closes(r)
     THEN /\ Close
          /\ gaps' = IF Renders(r) THEN gaps ELSE gaps \cup {"overtaken"}
     ELSE UNCHANGED <<stream, source, timer, gaps>>
  /\ UNCHANGED <<server, clicks, faults>>

\* The page subscribes even when its load was not the newest any more.
OpenArrives(r) ==
  /\ requests[r].state = "served" /\ requests[r].kind \in {"open", "answer"}
  /\ Render(r) /\ Free(r) /\ Subscribe
  /\ UNCHANGED <<server, clicks, faults>>

\* A refresh that fails is not repeated.
RequestFails(r) ==
  /\ requests[r].state # "idle" /\ faults < MaxFaults
  /\ Free(r)
  /\ missed' = TRUE /\ faults' = faults + 1
  /\ UNCHANGED <<server, stream, source, timer, shown, loaded, gaps, clicks>>

\* switchEditor, to another tab.  The tab of the run does not subscribe again.
Leave ==
  /\ clicks < MaxClicks /\ clicks' = clicks + 1
  /\ Close /\ gaps' = gaps \cup {"left"}
  /\ UNCHANGED <<server, requests, shown, loaded, missed, faults>>

-----------------------------------------------------------------------------
Browser == HandleEvent \/ StreamEnds \/ Reconnect
Streaming == QueryRows \/ ReadStatus \/ Drain
Arrives(r) == RefreshArrives(r) \/ OpenArrives(r)

Next ==
  \/ Write \/ FailSilently \/ Announce \/ Activity \/ Streaming \/ Restart
  \/ Browser \/ Disconnect \/ Refused \/ Leave
  \/ \E r \in Requests :
       Refresh(r) \/ Click(r) \/ Serve(r) \/ Arrives(r) \/ RequestFails(r)

Spec == Init /\ [][Next]_vars

\* The server polls and answers, handlers write their events, and the browser
\* delivers, reconnects and fires its timers.
FairSpec ==
  /\ Spec
  /\ WF_vars(Announce) /\ WF_vars(Streaming)
  /\ WF_vars(Browser)
  /\ WF_vars(\E r \in Requests : Refresh(r))
  /\ WF_vars(\E r \in Requests : Serve(r) \/ Arrives(r))

-----------------------------------------------------------------------------
TypeOK ==
  /\ row \in Nat /\ ends \subseteq 0..row /\ owed \in Nat /\ events \in Nat
  /\ poll \in {"rows", "none", "drain"} /\ cursor \in Nat
  /\ conn \in {"none", "open", "ended", "waiting", "refused"}
  /\ seen \in Nat /\ errors \in 0..MaxErrors /\ timer \in BOOLEAN
  /\ requests \in [Requests -> [state : {"idle", "sent", "served"}, kind : Kinds,
                                current : BOOLEAN, row : Nat]]
  /\ shown \in Nat /\ loaded \in Nat
  /\ gaps \subseteq {"errors", "overtaken", "left"}
  /\ missed \in BOOLEAN /\ clicks \in Nat /\ faults \in Nat

\* What loadRun renders never goes back and is never made up, however the
\* replies of a burst of refreshes, of clicks and of actions overtake each other.
\* An action's own answer is rendered without a generation, and can go back.
MirroredRun == INSTANCE Mirror WITH shown <- loaded
MirrorsRun == MirroredRun!Spec

\* A page without a stream shows a final status: the refresh that closes the
\* stream is the one that rendered it.  The exceptions are in gaps: too many
\* errors, another tab, and a refresh that read an older final status and was
\* overtaken by a later load.
ClosedShowsEnd == conn = "none" /\ gaps = {} => shown \in ends

\* A page with a stream comes to show the run as it is, even when the run ended
\* without an event, the event was written after the stream was closed, or a
\* restart swallowed it: the end of the stream makes the page load the run.
\* Not so when a refresh failed: nothing repeats it.
PageCatchesUp ==
  conn \notin {"none", "refused"} /\ shown # row
    ~> shown = row \/ conn \in {"none", "refused"} \/ missed
=============================================================================
