-------------------------- MODULE WorkerCallsProofs --------------------------
(***************************************************************************)
(* Theorems about the calls of the worker, for any number of calls,        *)
(* sessions, attempts and turns.  A call that is not in overlap has one    *)
(* session at most that has not left the worker, the last one posted; as   *)
(* long as it is alive the registry has it under the call's key.           *)
(***************************************************************************)
EXTENDS WorkerCalls, TLAPS

Labels == {"idle", "posting", "reading", "done", "raised", "stopped"}
Loops == {"none", "asking", "tool", "result", "error", "closing", "killed", "ended"}

Typed ==
  /\ pc \in [Calls -> Labels] /\ attempt \in [Calls -> Nat] /\ last \in [Calls -> Nat]
  /\ loop \in [Sessions -> Loops] /\ thread \in [Sessions -> BOOLEAN]
  /\ answer \in [Sessions -> {"none", "result", "error"}]
  /\ born \in [Sessions -> Nat] /\ received \in Nat
  /\ registry \in [Keys -> Sessions \cup {Unregistered}]
  /\ overlap \subseteq Calls

\* The next attempt has a session left.
Room ==
  \A c \in Calls :
    /\ pc[c] = "posting" =>
         /\ attempt[c] \in 1..MaxAttempts
         /\ last[c] + 1 + (MaxAttempts - attempt[c]) <= MaxSessions[c]
    /\ pc[c] = "reading" =>
         /\ attempt[c] \in 1..MaxAttempts /\ last[c] >= 1
         /\ last[c] + (MaxAttempts - attempt[c]) <= MaxSessions[c]

\* A session that was not posted yet is blank.
Blank ==
  \A s \in Sessions :
    /\ s[2] > last[s[1]] => loop[s] = "none"
    /\ loop[s] = "none" => ~thread[s] /\ answer[s] = "none"

\* A loop that is over without having been killed has no tool running.
Quiet ==
  \A s \in Sessions :
    /\ thread[s] => loop[s] \in {"tool", "killed", "ended"}
    /\ answer[s] # "none" => loop[s] \in {"closing", "ended"} /\ ~thread[s]

\* Nothing is left of the earlier sessions of a call posted over none.
Alone ==
  \A s \in Sessions :
    s[1] \notin overlap /\ s # Present(s[1]) => loop[s] \in {"none", "ended"} /\ ~thread[s]

\* Its session is the one a cancellation finds, and has outlived none.
Registered ==
  \A s \in Sessions :
    s[1] \notin overlap /\ Live(s) => registry[Key(s[1])] = s /\ born[s] = received

\* The session whose result was read writes no more.
Answered ==
  \A c \in Calls :
    pc[c] = "done" => /\ Present(c) \in Sessions
                      /\ loop[Present(c)] \in {"closing", "ended"} /\ ~thread[Present(c)]

CallInv == Typed /\ Room /\ Blank /\ Quiet /\ Alone /\ Registered /\ Answered

-----------------------------------------------------------------------------
LEMMA SessionIn ==
  \A c \in Calls : \A n \in 1..MaxSessions[c] : <<c, n>> \in Sessions
  BY DEF Sessions

LEMMA SessionShape ==
  \A s \in Sessions : s[1] \in Calls /\ s[2] \in Nat /\ s = <<s[1], s[2]>>
<1>1. TAKE s \in Sessions
<1>2. PICK c \in Calls : s \in {c} \X (1..MaxSessions[c])
  BY DEF Sessions
<1>3. MaxSessions[c] \in Nat
  BY CallAssumption
<1>4. QED
  BY <1>2, <1>3

LEMMA KeyInKeys ==
  /\ \A c \in Calls : Key(c) \in Keys
  /\ \A c, d \in Calls : Key(c) = Key(d) => c = d
  BY CallAssumption DEF Key, Keys

\* What a handler reads is a session.
LEMMA PresentIsSession ==
  ASSUME CallInv, NEW c \in Calls, pc[c] = "reading"
  PROVE  Present(c) \in Sessions
<1>1. last[c] \in Nat /\ MaxSessions[c] \in Nat /\ MaxAttempts \in Nat
  BY CallAssumption DEF CallInv, Typed
<1>2. last[c] \in 1..MaxSessions[c]
  BY <1>1 DEF CallInv, Room
<1>3. QED
  BY <1>2, SessionIn DEF Present

\* A step of one session of the worker: it ends for good, starts no tool but in a
\* live loop, and takes no entry away but at its end.
Progress(t) ==
  /\ loop[t] # "none" /\ loop'[t] \in Loops \ {"none"}
  /\ thread'[t] \in BOOLEAN
  /\ loop[t] \in {"closing", "ended"} => loop'[t] \in {"closing", "ended"} /\ (thread'[t] => thread[t])
  /\ loop[t] = "ended" => loop'[t] = "ended"
  /\ thread'[t] => loop'[t] \in {"tool", "killed", "ended"}
  /\ answer'[t] # "none" => loop'[t] \in {"closing", "ended"} /\ ~thread'[t]
  /\ loop'[t] \in {"asking", "tool"} => Live(t) /\ born'[t] = born[t]

LocalStep(t) ==
  /\ UNCHANGED <<pc, attempt, last, overlap, received>>
  /\ loop' \in [Sessions -> Loops] /\ thread' \in [Sessions -> BOOLEAN]
  /\ answer' \in [Sessions -> {"none", "result", "error"}] /\ born' \in [Sessions -> Nat]
  /\ \A s \in Sessions : s # t =>
       loop'[s] = loop[s] /\ thread'[s] = thread[s] /\ answer'[s] = answer[s] /\ born'[s] = born[s]
  /\ Progress(t)
  /\ \/ registry' = registry
     \/ /\ loop[t] \in {"closing", "killed"} /\ loop'[t] = "ended"
        /\ registry' = [registry EXCEPT ![Key(t[1])] = Unregistered]

LEMMA LocalStepKeeps ==
  ASSUME NEW t \in Sessions, CallInv, LocalStep(t)
  PROVE  CallInv'
<1>1. UNCHANGED <<pc, attempt, last, overlap, received>> /\ \A c : Present(c)' = Present(c)
  BY DEF LocalStep, Present
<1>2. /\ t[1] \in Calls
      /\ \A s \in Sessions : s # t =>
           loop'[s] = loop[s] /\ thread'[s] = thread[s] /\ answer'[s] = answer[s] /\ born'[s] = born[s]
  BY SessionShape DEF LocalStep
<1>3. Typed'
  <2>1. registry' \in [Keys -> Sessions \cup {Unregistered}]
    BY <1>2, KeyInKeys DEF LocalStep, CallInv, Typed
  <2>2. QED
    BY <1>1, <2>1 DEF LocalStep, CallInv, Typed
<1>4. Room'
  BY <1>1 DEF CallInv, Room
<1>5. Blank'
  BY <1>1, <1>2 DEF CallInv, Blank, LocalStep, Progress
<1>6. Quiet'
  BY <1>2 DEF CallInv, Quiet, LocalStep, Progress
<1>7. Alone'
  <2>1. ASSUME t[1] \notin overlap, t # Present(t[1]) PROVE loop'[t] = "ended" /\ ~thread'[t]
    BY <2>1 DEF CallInv, Alone, LocalStep, Progress
  <2>2. QED
    BY <1>1, <1>2, <2>1 DEF CallInv, Alone
<1>8. Registered'
  <2>1. SUFFICES ASSUME NEW s \in Sessions, s[1] \notin overlap, Live(s)'
                 PROVE  registry'[Key(s[1])] = s /\ born'[s] = received
    BY <1>1 DEF Registered, Key
  <2>2. Live(s) /\ born'[s] = born[s]
    BY <1>2, <2>1 DEF Live, LocalStep, Progress
  <2>3. registry[Key(s[1])] = s /\ born[s] = received
    BY <2>1, <2>2 DEF CallInv, Registered
  <2>4. s[1] \in Calls /\ Key(s[1]) \in Keys
    BY SessionShape, KeyInKeys
  <2>5. CASE registry' = registry
    BY <2>2, <2>3, <2>5
  <2>6. CASE /\ loop[t] \in {"closing", "killed"} /\ loop'[t] = "ended"
             /\ registry' = [registry EXCEPT ![Key(t[1])] = Unregistered]
    <3>1. s # t
      BY <2>1, <2>6 DEF Live
    <3>2. ~ (s[1] = t[1])
      <4>1. SUFFICES ASSUME s[1] = t[1] PROVE FALSE
        OBVIOUS
      <4>2. s = Present(s[1]) /\ t = Present(t[1])
        BY <2>1, <2>2, <2>6, <4>1 DEF CallInv, Alone, Live
      <4>3. QED
        BY <3>1, <4>1, <4>2
    <3>3. Key(s[1]) # Key(t[1])
      BY <1>2, <2>4, <3>2, KeyInKeys
    <3>4. registry'[Key(s[1])] = registry[Key(s[1])]
      BY <2>4, <2>6, <3>3 DEF CallInv, Typed
    <3>5. QED
      BY <2>2, <2>3, <3>4
  <2>7. QED
    BY <2>5, <2>6 DEF LocalStep
<1>9. Answered'
  <2>1. SUFFICES ASSUME NEW c \in Calls, pc[c] = "done"
                 PROVE  /\ Present(c) \in Sessions
                        /\ loop'[Present(c)] \in {"closing", "ended"} /\ ~thread'[Present(c)]
    BY <1>1 DEF Answered
  <2>2. /\ Present(c) \in Sessions
        /\ loop[Present(c)] \in {"closing", "ended"} /\ ~thread[Present(c)]
    BY <2>1 DEF CallInv, Answered
  <2>3. QED
    BY <1>2, <2>2 DEF LocalStep, Progress
<1>10. QED
  BY <1>3, <1>4, <1>5, <1>6, <1>7, <1>8, <1>9 DEF CallInv

\* Every step of the worker within one session is such a step.
LEMMA AgentIsLocal ==
  ASSUME NEW t \in Sessions, CallInv, Agent(t) \/ NoticeDrop(t)
  PROVE  LocalStep(t)
<1> USE DEF CallInv, Typed, LocalStep, Progress, Live, Loops
<1>1. CASE CallTool(t)
  BY <1>1 DEF CallTool, caller, Quiet
<1>2. CASE ToolEnds(t)
  BY <1>2 DEF ToolEnds, caller, Quiet, Blank
<1>3. CASE Stop(t)
  BY <1>3 DEF Stop, caller, Quiet
<1>4. CASE Deliver(t)
  BY <1>4 DEF Deliver, caller, Quiet
<1>5. CASE Finish(t)
  BY <1>5 DEF Finish, caller, Quiet
<1>6. CASE NoticeDrop(t)
  BY <1>6 DEF NoticeDrop, caller, Quiet
<1>7. QED
  BY <1>1, <1>2, <1>3, <1>4, <1>5, <1>6 DEF Agent

-----------------------------------------------------------------------------
(* The handler's steps, the cancellation and the restart.                  *)

\* A step of a handler that posts nothing: it only forgets an answer.
Quietly ==
  /\ UNCHANGED <<last, loop, thread, born, registry, overlap, received>>
  /\ answer' \in [Sessions -> {"none", "result", "error"}]
  /\ \A s \in Sessions : answer'[s] \in {answer[s], "none"}

LEMMA QuietlyKeeps ==
  ASSUME CallInv, Quietly, Room', Answered',
         pc' \in [Calls -> Labels], attempt' \in [Calls -> Nat]
  PROVE  CallInv'
<1>1. \A c : Present(c)' = Present(c)
  BY DEF Quietly, Present
<1>2. Typed'
  BY DEF CallInv, Typed, Quietly
<1>3. Blank' /\ Quiet'
  BY DEF CallInv, Blank, Quiet, Quietly
<1>4. Alone'
  BY <1>1 DEF CallInv, Alone, Quietly
<1>5. Registered'
  BY DEF CallInv, Registered, Live, Key, Quietly
<1>6. QED
  BY <1>2, <1>3, <1>4, <1>5 DEF CallInv

LEMMA BeginKeeps ==
  ASSUME CallInv, NEW c \in Calls, Begin(c)
  PROVE  CallInv'
<1>1. /\ Quietly /\ UNCHANGED answer
      /\ pc' = [pc EXCEPT ![c] = IF cancelled THEN "stopped" ELSE "posting"]
      /\ attempt' = IF cancelled THEN attempt ELSE [attempt EXCEPT ![c] = 1]
  BY DEF Begin, Go, session, Quietly, CallInv, Typed
<1>2. pc' \in [Calls -> Labels] /\ attempt' \in [Calls -> Nat]
  BY <1>1 DEF CallInv, Typed, Labels
<1>3. Room'
  <2>1. SUFFICES ASSUME NEW d \in Calls
                 PROVE  /\ pc'[d] = "posting" =>
                             /\ attempt'[d] \in 1..MaxAttempts
                             /\ last'[d] + 1 + (MaxAttempts - attempt'[d]) <= MaxSessions[d]
                        /\ pc'[d] = "reading" =>
                             /\ attempt'[d] \in 1..MaxAttempts /\ last'[d] >= 1
                             /\ last'[d] + (MaxAttempts - attempt'[d]) <= MaxSessions[d]
    BY DEF Room
  <2>2. last' = last /\ last[d] \in Nat /\ MaxAttempts \in Nat \ {0} /\ MaxSessions[d] \in Nat
    BY <1>1, CallAssumption DEF Quietly, CallInv, Typed
  <2>3. CASE d = c
    <3>1. last[c] + MaxAttempts <= MaxSessions[c]
      BY DEF Begin
    <3>2. pc'[d] = "posting" => attempt'[d] = 1
      BY <1>1, <2>3 DEF CallInv, Typed
    <3>3. pc'[d] # "reading"
      BY <1>1, <2>3 DEF CallInv, Typed
    <3>4. QED
      BY <2>2, <2>3, <3>1, <3>2, <3>3
  <2>4. CASE d # c
    <3>1. pc'[d] = pc[d] /\ attempt'[d] = attempt[d]
      BY <1>1, <2>4 DEF CallInv, Typed
    <3>2. QED
      BY <2>2, <3>1 DEF CallInv, Room
  <2>5. QED
    BY <2>3, <2>4
<1>4. Answered'
  <2>1. \A d \in Calls : pc'[d] = "done" => pc[d] = "done"
    BY <1>1 DEF CallInv, Typed
  <2>2. QED
    BY <1>1, <2>1 DEF Quietly, CallInv, Answered, Present
<1>5. QED
  BY <1>1, <1>2, <1>3, <1>4, QuietlyKeeps

\* The end of a call, its next one, and the retry of an attempt.
LEMMA ReturnKeeps ==
  ASSUME CallInv, NEW c \in Calls, ReadAnswer(c) \/ Retry(c) \/ Again(c)
  PROVE  CallInv'
<1>1. /\ Quietly
      /\ \E label \in Labels \ {"reading"} : pc' = [pc EXCEPT ![c] = label]
      /\ pc[c] \in {"reading", "done", "raised"}
  BY DEF ReadAnswer, Retry, Again, Go, Quietly, session, CallInv, Typed, Labels
<1>2. \A d \in Calls : d # c => pc'[d] = pc[d]
  BY <1>1 DEF CallInv, Typed
<1>3. /\ attempt' \in [Calls -> Nat]
      /\ \A d \in Calls : d # c => attempt'[d] = attempt[d]
      /\ pc'[c] = "posting" =>
           pc[c] = "reading" /\ attempt[c] < MaxAttempts /\ attempt'[c] = attempt[c] + 1
  BY DEF ReadAnswer, Retry, Again, Go, CallInv, Typed
<1>4. pc' \in [Calls -> Labels] /\ pc'[c] # "reading"
  BY <1>1 DEF CallInv, Typed, Labels
<1>5. Room'
  <2>1. SUFFICES ASSUME NEW d \in Calls
                 PROVE  /\ pc'[d] = "posting" =>
                             /\ attempt'[d] \in 1..MaxAttempts
                             /\ last'[d] + 1 + (MaxAttempts - attempt'[d]) <= MaxSessions[d]
                        /\ pc'[d] = "reading" =>
                             /\ attempt'[d] \in 1..MaxAttempts /\ last'[d] >= 1
                             /\ last'[d] + (MaxAttempts - attempt'[d]) <= MaxSessions[d]
    BY DEF Room
  <2>2. last' = last /\ last[d] \in Nat /\ MaxAttempts \in Nat \ {0} /\ MaxSessions[d] \in Nat
    BY <1>1, CallAssumption DEF Quietly, CallInv, Typed
  <2>3. CASE d = c
    <3>1. SUFFICES ASSUME pc'[c] = "posting"
                   PROVE  /\ attempt'[c] \in 1..MaxAttempts
                          /\ last[c] + 1 + (MaxAttempts - attempt'[c]) <= MaxSessions[c]
      BY <1>4, <2>2, <2>3
    <3>2. /\ attempt[c] \in 1..MaxAttempts
          /\ last[c] + (MaxAttempts - attempt[c]) <= MaxSessions[c]
      BY <1>3, <3>1 DEF CallInv, Room
    <3>3. QED
      BY <1>3, <2>2, <2>3, <3>1, <3>2
  <2>4. CASE d # c
    BY <1>2, <1>3, <2>2, <2>4 DEF CallInv, Room
  <2>5. QED
    BY <2>3, <2>4
<1>6. Answered'
  <2>1. SUFFICES ASSUME NEW d \in Calls, pc'[d] = "done"
                 PROVE  /\ Present(d) \in Sessions
                        /\ loop[Present(d)] \in {"closing", "ended"} /\ ~thread[Present(d)]
    BY <1>1 DEF Answered, Quietly, Present
  <2>2. CASE d # c
    BY <1>2, <2>1, <2>2 DEF CallInv, Answered
  <2>3. CASE d = c
    <3>1. pc[c] = "reading" /\ answer[Present(c)] # "none"
      BY <2>1, <2>3 DEF ReadAnswer, Retry, Again, Go, CallInv, Typed
    <3>2. Present(c) \in Sessions
      BY <3>1, PresentIsSession
    <3>3. QED
      BY <2>3, <3>1, <3>2 DEF CallInv, Quiet
  <2>4. QED
    BY <2>2, <2>3
<1>7. QED
  BY <1>1, <1>3, <1>4, <1>5, <1>6, QuietlyKeeps

\* A lost connection, and the run's cancellation before the worker hears of it.
LEMMA DropKeeps ==
  ASSUME CallInv, CancelRun \/ \E c \in Calls : Drop(c)
  PROVE  CallInv'
<1>1. Quietly /\ UNCHANGED <<pc, attempt, last, loop, thread>>
  BY DEF CancelRun, Drop, caller, session, Quietly, CallInv, Typed
<1>2. Room' /\ Answered'
  BY <1>1 DEF CallInv, Room, Answered, Present
<1>3. QED
  BY <1>1, <1>2, QuietlyKeeps DEF CallInv, Typed

\* A session that is posted was blank, and takes the call's key.
LEMMA PostKeeps ==
  ASSUME CallInv, NEW c \in Calls, Post(c)
  PROVE  CallInv'
<1> DEFINE new == <<c, last[c] + 1>>
<1>1. /\ last' = [last EXCEPT ![c] = @ + 1] /\ pc' = [pc EXCEPT ![c] = "reading"]
      /\ loop' = [loop EXCEPT ![new] = "asking"] /\ born' = [born EXCEPT ![new] = received]
      /\ registry' = [registry EXCEPT ![Key(c)] = new]
      /\ overlap' = IF Unfinished(c) THEN overlap \cup {c} ELSE overlap \ {c}
      /\ UNCHANGED <<attempt, thread, answer, received>>
      /\ pc[c] = "posting"
  BY DEF Post, Go
<1>2. /\ last[c] \in Nat /\ attempt[c] \in 1..MaxAttempts /\ MaxAttempts \in Nat
      /\ MaxSessions[c] \in Nat /\ last[c] + 1 + (MaxAttempts - attempt[c]) <= MaxSessions[c]
  BY <1>1, CallAssumption DEF CallInv, Typed, Room
<1>3. new \in Sessions /\ new[1] = c /\ new[2] = last[c] + 1
  <2>1. last[c] + 1 \in 1..MaxSessions[c]
    BY <1>2
  <2>2. QED
    BY <2>1, SessionIn
<1>4. loop[new] = "none" /\ ~thread[new] /\ answer[new] = "none"
  BY <1>2, <1>3 DEF CallInv, Blank
<1>5. /\ \A s \in Sessions : s # new => loop'[s] = loop[s] /\ born'[s] = born[s]
      /\ loop'[new] = "asking" /\ born'[new] = received
  BY <1>1, <1>3 DEF CallInv, Typed
<1>6. /\ \A d \in Calls : d # c => Present(d)' = Present(d) /\ last'[d] = last[d] /\ pc'[d] = pc[d]
      /\ Present(c)' = new /\ last'[c] = last[c] + 1 /\ pc'[c] = "reading"
  BY <1>1 DEF Present, CallInv, Typed
<1>7. \A d \in Calls : d # c => (d \in overlap' <=> d \in overlap)
  BY <1>1
<1> HIDE DEF new
<1>8. Typed'
  <2>1. registry' \in [Keys -> Sessions \cup {Unregistered}]
    BY <1>1, <1>3, KeyInKeys DEF CallInv, Typed
  <2>2. /\ pc' \in [Calls -> Labels] /\ last' \in [Calls -> Nat]
        /\ loop' \in [Sessions -> Loops] /\ born' \in [Sessions -> Nat] /\ overlap' \subseteq Calls
    BY <1>1, <1>2, <1>3 DEF CallInv, Typed, Labels, Loops
  <2>3. QED
    BY <1>1, <2>1, <2>2 DEF CallInv, Typed
<1>9. Room'
  <2>1. SUFFICES ASSUME NEW d \in Calls
                 PROVE  /\ pc'[d] = "posting" =>
                             /\ attempt'[d] \in 1..MaxAttempts
                             /\ last'[d] + 1 + (MaxAttempts - attempt'[d]) <= MaxSessions[d]
                        /\ pc'[d] = "reading" =>
                             /\ attempt'[d] \in 1..MaxAttempts /\ last'[d] >= 1
                             /\ last'[d] + (MaxAttempts - attempt'[d]) <= MaxSessions[d]
    BY DEF Room
  <2>2. CASE d = c
    BY <1>1, <1>2, <1>6, <2>2
  <2>3. CASE d # c
    BY <1>1, <1>6, <2>3 DEF CallInv, Room
  <2>4. QED
    BY <2>2, <2>3
<1>10. Blank'
  <2>1. SUFFICES ASSUME NEW s \in Sessions
                 PROVE  /\ s[2] > last'[s[1]] => loop'[s] = "none"
                        /\ loop'[s] = "none" => ~thread'[s] /\ answer'[s] = "none"
    BY DEF Blank
  <2>2. s[1] \in Calls /\ s[2] \in Nat /\ last[s[1]] \in Nat
    BY SessionShape DEF CallInv, Typed
  <2>3. CASE s = new
    BY <1>2, <1>3, <1>5, <1>6, <2>3
  <2>4. CASE s # new
    <3>1. s[2] > last'[s[1]] => s[2] > last[s[1]]
      BY <1>2, <1>6, <2>2
    <3>2. QED
      BY <1>1, <1>5, <2>4, <3>1 DEF CallInv, Blank
  <2>5. QED
    BY <2>3, <2>4
<1>11. Quiet'
  <2>1. SUFFICES ASSUME NEW s \in Sessions
                 PROVE  /\ thread'[s] => loop'[s] \in {"tool", "killed", "ended"}
                        /\ answer'[s] # "none" => loop'[s] \in {"closing", "ended"} /\ ~thread'[s]
    BY DEF Quiet
  <2>2. QED
    BY <1>1, <1>4, <1>5 DEF CallInv, Quiet
\* Nothing else of the call is left when it leaves overlap.
<1>12. ASSUME NEW s \in Sessions, s[1] = c, s # new, c \notin overlap'
       PROVE  loop[s] \in {"none", "ended"} /\ ~thread[s]
  BY <1>1, <1>12 DEF Unfinished
<1>13. Alone'
  <2>1. SUFFICES ASSUME NEW s \in Sessions, s[1] \notin overlap', s # Present(s[1])'
                 PROVE  loop'[s] \in {"none", "ended"} /\ ~thread'[s]
    BY DEF Alone
  <2>2. s[1] \in Calls
    BY SessionShape
  <2>3. CASE s[1] = c
    BY <1>1, <1>5, <1>6, <1>12, <2>1, <2>3
  <2>4. CASE s[1] # c
    <3>1. s # new /\ s[1] \notin overlap /\ s # Present(s[1])
      BY <1>3, <1>6, <1>7, <2>1, <2>2, <2>4
    <3>2. QED
      BY <1>1, <1>5, <3>1 DEF CallInv, Alone
  <2>5. QED
    BY <2>3, <2>4
<1>14. Registered'
  <2>1. SUFFICES ASSUME NEW s \in Sessions, s[1] \notin overlap', Live(s)'
                 PROVE  registry'[Key(s[1])] = s /\ born'[s] = received'
    BY DEF Registered, Key
  <2>2. s[1] \in Calls /\ Key(s[1]) \in Keys /\ Key(c) \in Keys
    BY SessionShape, KeyInKeys
  <2>3. CASE s = new
    BY <1>1, <1>3, <1>5, <2>2, <2>3 DEF CallInv, Typed
  <2>4. CASE s # new
    <3>1. Live(s)
      BY <1>5, <2>1, <2>4 DEF Live
    <3>2. s[1] # c
      BY <1>12, <2>1, <2>4, <3>1 DEF Live
    <3>3. registry[Key(s[1])] = s /\ born[s] = received
      BY <1>7, <2>1, <2>2, <3>1, <3>2 DEF CallInv, Registered
    <3>4. Key(s[1]) # Key(c)
      BY <2>2, <3>2, KeyInKeys
    <3>5. registry'[Key(s[1])] = registry[Key(s[1])]
      BY <1>1, <2>2, <3>4 DEF CallInv, Typed
    <3>6. QED
      BY <1>1, <1>5, <2>4, <3>3, <3>5
  <2>5. QED
    BY <2>3, <2>4
<1>15. Answered'
  <2>1. SUFFICES ASSUME NEW d \in Calls, pc'[d] = "done"
                 PROVE  /\ Present(d)' \in Sessions
                        /\ loop'[Present(d)'] \in {"closing", "ended"} /\ ~thread'[Present(d)']
    BY DEF Answered, Present
  <2>2. d # c
    BY <1>6, <2>1
  <2>3. /\ Present(d) \in Sessions /\ Present(d)' = Present(d)
        /\ loop[Present(d)] \in {"closing", "ended"} /\ ~thread[Present(d)]
    BY <1>6, <2>1, <2>2 DEF CallInv, Answered
  <2>4. Present(d) # new
    BY <1>3, <2>2 DEF Present
  <2>5. QED
    BY <1>1, <1>5, <2>3, <2>4
<1>16. QED
  BY <1>8, <1>9, <1>10, <1>11, <1>13, <1>14, <1>15 DEF CallInv

\* A cancellation kills what is registered: outside overlap, all that lives.
LEMMA CancelKeeps ==
  ASSUME CallInv, Cancel
  PROVE  CallInv'
<1>1. /\ UNCHANGED <<pc, attempt, last, thread, answer, born, registry, overlap>>
      /\ received' = received + 1 /\ received \in Nat
      /\ loop' = [s \in Sessions |->
                    IF Live(s) /\ registry[Key(s[1])] = s THEN "killed" ELSE loop[s]]
      /\ \A c : Present(c)' = Present(c)
  BY DEF Cancel, caller, CallInv, Typed, Present
<1>2. \A s \in Sessions :
        \/ Live(s) /\ registry[Key(s[1])] = s /\ loop'[s] = "killed"
        \/ ~(Live(s) /\ registry[Key(s[1])] = s) /\ loop'[s] = loop[s]
  BY <1>1
<1>3. Typed'
  <2>1. loop' \in [Sessions -> Loops]
    BY <1>1 DEF CallInv, Typed, Loops
  <2>2. QED
    BY <1>1, <2>1 DEF CallInv, Typed
<1>4. Room'
  BY <1>1 DEF CallInv, Room
<1>5. Blank' /\ Quiet'
  BY <1>1, <1>2 DEF CallInv, Blank, Quiet, Live
<1>6. Alone'
  BY <1>1, <1>2 DEF CallInv, Alone, Live
<1>7. Registered'
  <2>1. SUFFICES ASSUME NEW s \in Sessions, s[1] \notin overlap, Live(s)' PROVE FALSE
    BY <1>1 DEF Registered
  <2>2. Live(s) /\ registry[Key(s[1])] # s
    BY <1>2, <2>1 DEF Live
  <2>3. QED
    BY <2>1, <2>2 DEF CallInv, Registered
<1>8. Answered'
  <2>1. SUFFICES ASSUME NEW c \in Calls, pc[c] = "done"
                 PROVE  /\ Present(c) \in Sessions
                        /\ loop'[Present(c)] \in {"closing", "ended"} /\ ~thread[Present(c)]
    BY <1>1 DEF Answered
  <2>2. QED
    BY <1>2, <2>1 DEF CallInv, Answered, Live
<1>9. QED
  BY <1>3, <1>4, <1>5, <1>6, <1>7, <1>8 DEF CallInv

LEMMA RestartKeeps ==
  ASSUME CallInv, WorkerRestart
  PROVE  CallInv'
<1>1. /\ UNCHANGED <<pc, attempt, last, answer, overlap, received>>
      /\ loop' = [s \in Sessions |-> IF loop[s] = "none" THEN "none" ELSE "ended"]
      /\ thread' = [s \in Sessions |-> FALSE] /\ born' = [s \in Sessions |-> 0]
      /\ registry' = [k \in Keys |-> Unregistered]
      /\ \A c : Present(c)' = Present(c)
  BY DEF WorkerRestart, caller, Present
<1>2. \A s \in Sessions :
        /\ loop[s] = "none" => loop'[s] = "none"
        /\ loop[s] # "none" => loop'[s] = "ended"
        /\ ~thread'[s]
  BY <1>1
<1>3. Typed'
  BY <1>1 DEF CallInv, Typed, Loops
<1>4. Room'
  BY <1>1 DEF CallInv, Room
<1>5. Blank' /\ Quiet'
  BY <1>1, <1>2 DEF CallInv, Blank, Quiet
<1>6. Alone' /\ Registered'
  BY <1>1, <1>2 DEF Alone, Registered, Live
<1>7. Answered'
  <2>1. SUFFICES ASSUME NEW c \in Calls, pc[c] = "done"
                 PROVE  /\ Present(c) \in Sessions
                        /\ loop'[Present(c)] \in {"closing", "ended"} /\ ~thread'[Present(c)]
    BY <1>1 DEF Answered
  <2>2. QED
    BY <1>2, <2>1 DEF CallInv, Answered
<1>8. QED
  BY <1>3, <1>4, <1>5, <1>6, <1>7 DEF CallInv

-----------------------------------------------------------------------------
LEMMA CallInvInit == Init => CallInv
<1>1. SUFFICES ASSUME Init PROVE CallInv
  OBVIOUS
<1>2. Typed
  BY <1>1 DEF Init, Typed, Labels, Loops
<1>3. Room /\ Blank /\ Quiet /\ Alone /\ Answered
  BY <1>1 DEF Init, Room, Blank, Quiet, Alone, Answered
<1>4. Registered
  BY <1>1 DEF Init, Registered, Live
<1>5. QED
  BY <1>2, <1>3, <1>4 DEF CallInv

LEMMA CallInvNext == CallInv /\ [Next]_vars => CallInv'
<1>1. SUFFICES ASSUME CallInv, [Next]_vars PROVE CallInv'
  OBVIOUS
<1>2. ASSUME NEW c \in Calls, Begin(c) \/ Handler(c) \/ Again(c) \/ Drop(c) PROVE CallInv'
  BY <1>1, <1>2, BeginKeeps, ReturnKeeps, PostKeeps, DropKeeps DEF Handler
<1>3. ASSUME NEW s \in Sessions, Agent(s) \/ NoticeDrop(s) PROVE CallInv'
  BY <1>1, <1>3, AgentIsLocal, LocalStepKeeps
<1>4. CASE CancelRun \/ Cancel \/ WorkerRestart
  BY <1>1, <1>4, DropKeeps, CancelKeeps, RestartKeeps
<1>5. CASE UNCHANGED vars
  <2>1. Quietly /\ UNCHANGED <<pc, attempt, last, loop, thread>>
    BY <1>1, <1>5 DEF vars, Quietly, CallInv, Typed
  <2>2. Room' /\ Answered'
    BY <1>1, <2>1 DEF CallInv, Room, Answered, Present
  <2>3. QED
    BY <1>1, <2>1, <2>2, QuietlyKeeps DEF CallInv, Typed
<1>6. QED
  BY <1>1, <1>2, <1>3, <1>4, <1>5 DEF Next

THEOREM CallInvariant == Spec => []CallInv
<1>1. QED
  BY CallInvInit, CallInvNext, PTL DEF Spec

\* A cancellation reaches every agent at work, but those of a call that was
\* posted again over an earlier session.
THEOREM CancellationReaches == Spec => []CancelReaches
<1>1. CallInv => CancelReaches
  BY DEF CallInv, Typed, Registered, CancelReaches
<1>2. QED
  BY <1>1, CallInvariant, PTL

\* Nobody writes the worktree of a call whose result the handler has.
THEOREM StableResult == Spec => []ResultIsStable
<1>1. CallInv => ResultIsStable
  <2>1. SUFFICES ASSUME CallInv, NEW c \in Calls, pc[c] = "done", c \notin overlap,
                        NEW s \in Sessions, s[1] = c
                 PROVE  ~(Live(s) \/ thread[s])
    BY DEF ResultIsStable, AtWork
  <2>2. CASE s = Present(c)
    BY <2>1, <2>2 DEF CallInv, Answered, Live
  <2>3. CASE s # Present(c)
    BY <2>1, <2>3 DEF CallInv, Alone, Live
  <2>4. QED
    BY <2>2, <2>3
<1>2. QED
  BY <1>1, CallInvariant, PTL
=============================================================================
