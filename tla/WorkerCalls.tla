----------------------------- MODULE WorkerCalls -----------------------------
(***************************************************************************)
(* A call of the worker service (worker_call in backend/orchestrator.py,   *)
(* execute_stream and agent_loop in backend/worker.py): the handler posts, *)
(* the worker runs an agent loop with its tools in the staged worktree and *)
(* streams what it does, and the handler posts again when the connection   *)
(* fails or the stream ends without a result.  The worker keeps one entry  *)
(* per call in its registry, for the cancellation of the run.              *)
(*                                                                         *)
(* A session is one agent loop: the n-th one of a call.  Contents, usage   *)
(* and events are left out; a turn is a question to Ollama.                *)
(***************************************************************************)
EXTENDS Naturals

CONSTANTS
  Calls,        \* the calls of one run that can be under way at once
  NodeOf,       \* the node_id of each, or the run itself
  Unregistered, \* no session
  MaxAttempts,  \* attempts of worker_call
  MaxTurns,     \* max_turns of the agent loop
  MaxSessions, \* per call the sessions it may come to have: a bound
  MaxCancels, MaxFaults   \* bounds; a fault is a drop or a restart

\* Two calls with one key never run at once: a node's calls are sequential.
ASSUME CallAssumption ==
  /\ \A c, d \in Calls : NodeOf[c] = NodeOf[d] => c = d
  /\ MaxSessions \in [Calls -> Nat]
  /\ MaxAttempts \in Nat \ {0} /\ {MaxTurns, MaxCancels, MaxFaults} \subseteq Nat
  /\ Unregistered \notin Calls \X Nat

VARIABLES
  pc,        \* per call the handler's next step
  attempt,   \* attempts of the present worker_call
  last,      \* sessions posted so far
  loop,      \* per session: "none", a state of its agent loop, or "ended"
  turn,      \* turns of the loop
  thread,    \* a thread of the session runs a tool in the worktree
  linked,    \* the handler still reads the session's stream
  answer,    \* what the stream ended with: nothing, a result or an error
  born,      \* cancellations the worker had received when the session began
  registry,  \* per key the session a cancellation finds
  overlap,   \* calls posted again while an earlier session was still at work
  cancelled, \* the run's status
  received,  \* cancellations the worker has received
  faults

vars == <<pc, attempt, last, loop, turn, thread, linked, answer, born, registry,
          overlap, cancelled, received, faults>>
caller == <<pc, attempt, last>>
session == <<loop, turn, thread, linked, answer, born>>

Sessions == UNION {{c} \X (1..MaxSessions[c]) : c \in Calls}

\* Mutant: the key of a call does not name its node.
KeyOfRun(c) == "run"

\* _cancel_key
Key(c) == NodeOf[c]

\* What the registry is keyed by.
Keys == {NodeOf[c] : c \in Calls} \cup {"run"}

Init ==
  /\ pc = [c \in Calls |-> "idle"]
  /\ attempt = [c \in Calls |-> 0]
  /\ last = [c \in Calls |-> 0]
  /\ loop = [s \in Sessions |-> "none"]
  /\ turn = [s \in Sessions |-> 0]
  /\ thread = [s \in Sessions |-> FALSE]
  /\ linked = [s \in Sessions |-> FALSE]
  /\ answer = [s \in Sessions |-> "none"]
  /\ born = [s \in Sessions |-> 0]
  /\ registry = [k \in Keys |-> Unregistered]
  /\ overlap = {}
  /\ cancelled = FALSE
  /\ received = 0
  /\ faults = 0

\* The loop asks Ollama or waits for a tool.
Live(s) == loop[s] \in {"asking", "tool"}
\* Some agent of the call can still write its worktree ...
AtWork(c) == \E s \in Sessions : s[1] = c /\ (Live(s) \/ thread[s])
\* ... or take its entry away.
Unfinished(c) ==
  \E s \in Sessions : s[1] = c /\ (loop[s] \notin {"none", "ended"} \/ thread[s])
Present(c) == <<c, last[c]>>
Go(c, label) == pc' = [pc EXCEPT ![c] = label]

-----------------------------------------------------------------------------
(* The handler.                                                            *)

\* A handler looks at the run before the call.
Begin(c) ==
  /\ pc[c] = "idle" /\ last[c] + MaxAttempts <= MaxSessions[c]
  /\ IF cancelled THEN Go(c, "stopped") /\ UNCHANGED attempt
     ELSE Go(c, "posting") /\ attempt' = [attempt EXCEPT ![c] = 1]
  /\ UNCHANGED <<last, session, registry, overlap, cancelled, received, faults>>

\* execute_stream starts the loop and registers it, whatever its key held.
Post(c) ==
  /\ pc[c] = "posting"
  /\ LET s == <<c, last[c] + 1>>
     IN /\ last' = [last EXCEPT ![c] = @ + 1]
        /\ loop' = [loop EXCEPT ![s] = "asking"]
        /\ linked' = [linked EXCEPT ![s] = TRUE]
        /\ born' = [born EXCEPT ![s] = received]
        /\ registry' = [registry EXCEPT ![Key(c)] = s]
  /\ overlap' = IF Unfinished(c) THEN overlap \cup {c} ELSE overlap \ {c}
  /\ Go(c, "reading")
  /\ UNCHANGED <<attempt, turn, thread, answer, cancelled, received, faults>>

HangsUp(c) == linked' = [linked EXCEPT ![Present(c)] = FALSE]

\* The result, or an error line.
ReadAnswer(c) ==
  /\ pc[c] = "reading"
  /\ linked[Present(c)] /\ answer[Present(c)] # "none"
  /\ Go(c, IF answer[Present(c)] = "result" THEN "done" ELSE "raised")
  /\ answer' = [answer EXCEPT ![Present(c)] = "none"] /\ HangsUp(c)
  /\ UNCHANGED <<attempt, last, loop, turn, thread, born, registry, overlap, cancelled,
                 received, faults>>

\* The connection fails, or the stream ends without a result, as that of a
\* cancelled session does: the handler posts again while it has attempts, and
\* looks neither at the run nor at the worktree.
Retry(c) ==
  /\ pc[c] = "reading"
  /\ \/ ~linked[Present(c)]
     \/ loop[Present(c)] = "ended" /\ answer[Present(c)] = "none"
  /\ IF attempt[c] < MaxAttempts
     THEN Go(c, "posting") /\ attempt' = [attempt EXCEPT ![c] = @ + 1]
     ELSE Go(c, "raised") /\ UNCHANGED attempt
  /\ HangsUp(c)
  /\ UNCHANGED <<last, loop, turn, thread, answer, born, registry, overlap, cancelled,
                 received, faults>>

\* The node's next call: another attempt of its job, its verification, a repair.
Again(c) ==
  /\ pc[c] \in {"done", "raised"}
  /\ Go(c, "idle")
  /\ UNCHANGED <<attempt, last, session, registry, overlap, cancelled, received, faults>>

-----------------------------------------------------------------------------
(* The worker.                                                             *)

\* Mutant: a turn that calls tools is not counted.
CallToolUncounted(s) ==
  /\ loop[s] = "asking"
  /\ loop' = [loop EXCEPT ![s] = "tool"]
  /\ thread' = [thread EXCEPT ![s] = TRUE]
  /\ UNCHANGED <<caller, turn, linked, answer, born, registry, overlap, cancelled,
                 received, faults>>

CallTool(s) ==
  /\ loop[s] = "asking" /\ turn[s] < MaxTurns
  /\ loop' = [loop EXCEPT ![s] = "tool"]
  /\ turn' = [turn EXCEPT ![s] = @ + 1]
  /\ thread' = [thread EXCEPT ![s] = TRUE]
  /\ UNCHANGED <<caller, linked, answer, born, registry, overlap, cancelled,
                 received, faults>>

\* The loop awaits the thread; one whose loop was cancelled ends by itself.
ToolEnds(s) ==
  /\ thread[s]
  /\ thread' = [thread EXCEPT ![s] = FALSE]
  /\ loop' = [loop EXCEPT ![s] = IF @ = "tool" THEN "asking" ELSE @]
  /\ UNCHANGED <<caller, turn, linked, answer, born, registry, overlap, cancelled,
                 received, faults>>

\* Mutant: the time limit does not wait for a tool.
StopAnywhere(s) ==
  /\ Live(s)
  /\ \E result \in {"result", "error"} : loop' = [loop EXCEPT ![s] = result]
  /\ UNCHANGED <<caller, turn, thread, linked, answer, born, registry, overlap,
                 cancelled, received, faults>>

\* A final message, an empty one, the time or the turn limit is a result; Ollama
\* may also fail.
Stop(s) ==
  /\ loop[s] = "asking"
  /\ \E result \in {"result", "error"} : loop' = [loop EXCEPT ![s] = result]
  /\ UNCHANGED <<caller, turn, thread, linked, answer, born, registry, overlap,
                 cancelled, received, faults>>

\* The generator sees that the loop is over and sends the last line ...
Deliver(s) ==
  /\ loop[s] \in {"result", "error"}
  /\ answer' = [answer EXCEPT ![s] = IF linked[s] THEN loop[s] ELSE "none"]
  /\ loop' = [loop EXCEPT ![s] = "closing"]
  /\ UNCHANGED <<caller, turn, thread, linked, born, registry, overlap, cancelled,
                 received, faults>>

\* ... and at its end takes the entry of its key away, whoever it belongs to.
Finish(s) ==
  /\ loop[s] \in {"closing", "killed"}
  /\ loop' = [loop EXCEPT ![s] = "ended"]
  /\ registry' = [registry EXCEPT ![Key(s[1])] = Unregistered]
  /\ turn' = [turn EXCEPT ![s] = 0] /\ born' = [born EXCEPT ![s] = 0]
  /\ UNCHANGED <<caller, thread, linked, answer, overlap, cancelled,
                 received, faults>>

\* The worker notices that nobody reads the stream.
NoticeDrop(s) ==
  /\ ~linked[s] /\ Live(s)
  /\ loop' = [loop EXCEPT ![s] = "killed"]
  /\ UNCHANGED <<caller, turn, thread, linked, answer, born, registry, overlap,
                 cancelled, received, faults>>

-----------------------------------------------------------------------------
(* Cancellation and faults.                                                *)

CancelRun ==
  /\ cancelled' = TRUE
  /\ UNCHANGED <<caller, session, registry, overlap, received, faults>>

\* cancel_run then tells the worker, which kills every session it knows of.
\* The cancellation of a task that is over changes nothing.
Cancel ==
  /\ cancelled /\ received < MaxCancels
  /\ received' = received + 1
  /\ loop' = [s \in Sessions |->
                IF Live(s) /\ registry[Key(s[1])] = s THEN "killed" ELSE loop[s]]
  /\ UNCHANGED <<caller, turn, thread, linked, answer, born, registry, overlap,
                 cancelled, faults>>

\* The handler loses the connection (or reads longer than its timeout).
Drop(c) ==
  /\ pc[c] = "reading" /\ linked[Present(c)] /\ faults < MaxFaults
  /\ linked' = [linked EXCEPT ![Present(c)] = FALSE]
  /\ answer' = [answer EXCEPT ![Present(c)] = "none"]
  /\ faults' = faults + 1
  /\ UNCHANGED <<caller, loop, turn, thread, born, registry, overlap,
                 cancelled, received>>

WorkerRestart ==
  /\ faults < MaxFaults
  /\ loop' = [s \in Sessions |-> IF loop[s] = "none" THEN "none" ELSE "ended"]
  /\ turn' = [s \in Sessions |-> 0] /\ born' = [s \in Sessions |-> 0]
  /\ thread' = [s \in Sessions |-> FALSE]
  /\ linked' = [s \in Sessions |-> linked[s] /\ answer[s] # "none"]
  /\ registry' = [k \in Keys |-> Unregistered]
  /\ faults' = faults + 1
  /\ UNCHANGED <<caller, answer, overlap, cancelled, received>>

-----------------------------------------------------------------------------
Handler(c) == Post(c) \/ ReadAnswer(c) \/ Retry(c)

Agent(s) == CallTool(s) \/ ToolEnds(s) \/ Stop(s) \/ Deliver(s) \/ Finish(s)

\* The worker's part of a call.
Work(c) == \E s \in Sessions : s[1] = c /\ Agent(s)

Next ==
  \/ \E c \in Calls : Begin(c) \/ Handler(c) \/ Again(c) \/ Drop(c)
  \/ \E s \in Sessions : Agent(s) \/ NoticeDrop(s)
  \/ CancelRun \/ Cancel \/ WorkerRestart

Spec == Init /\ [][Next]_vars

\* Handlers and loops go on: Ollama and every tool have a timeout.  A
\* cancellation may never reach the worker, nor a drop be noticed.
FairSpec ==
  /\ Spec
  /\ \A c \in Calls : WF_vars(Handler(c)) /\ WF_vars(Work(c))

-----------------------------------------------------------------------------
TypeOK ==
  /\ pc \in [Calls -> {"idle", "posting", "reading", "done", "raised", "stopped"}]
  /\ attempt \in [Calls -> 0..MaxAttempts]
  /\ last \in [Calls -> Nat] /\ \A c \in Calls : last[c] <= MaxSessions[c]
  /\ loop \in [Sessions -> {"none", "asking", "tool", "result", "error", "closing",
                          "killed", "ended"}]
  /\ turn \in [Sessions -> 0..MaxTurns]
  /\ thread \in [Sessions -> BOOLEAN]
  /\ linked \in [Sessions -> BOOLEAN]
  /\ answer \in [Sessions -> {"none", "result", "error"}]
  /\ born \in [Sessions -> 0..MaxCancels]
  /\ registry \in [Keys -> Sessions \cup {Unregistered}]
  /\ overlap \subseteq Calls
  /\ cancelled \in BOOLEAN
  /\ received \in 0..MaxCancels
  /\ faults \in 0..MaxFaults

\* A cancellation misses no agent: one that was at work when the worker received
\* it is not at work any more, whichever others ended, and popped their keys, in
\* between.  Only a call posted again before its earlier session had left the
\* registry can hide from it: the earlier one's end takes its entry away.
CancelReaches ==
  \A s \in Sessions : Live(s) /\ born[s] < received => s[1] \in overlap

\* When a handler has the result of a call, nobody writes the call's worktree any
\* more: what is verified and merged is what the agent reported.  The exception
\* is again a call posted over an earlier session, as a retry does it: the
\* worktree is not staged again between two attempts.
ResultIsStable ==
  \A c \in Calls : pc[c] = "done" => c \in overlap \/ ~AtWork(c)

\* Every call comes back to its handler, however the worker, the connection and
\* the cancellations behave.
CallEnds ==
  \A c \in Calls : pc[c] \in {"posting", "reading"} ~> pc[c] \in {"done", "raised"}
=============================================================================
