-------------------------- MODULE TaskLineageProofs --------------------------
(***************************************************************************)
(* What is applied has been verified, for every set of files, every graph  *)
(* and every number of turns.                                              *)
(*                                                                         *)
(* The argument: from the Brain's verdict to the gate nobody writes the    *)
(* stage, so the last rows of the evidence are the checks of this very     *)
(* tree, one for each that qualifies for it.  The gate judges the rows of  *)
(* the latest row's tree, which therefore is the stage's.                  *)
(***************************************************************************)
EXTENDS TaskLineage, TLAPS

Checks == {"ruff", "pytest", "npm", "workspace-nonempty"}

\* The rows of this pass are the last ones, in the order of the checks, and
\* about the tree the Brain passed.
ThisPass ==
  /\ judged = {stage}
  /\ at \in 0..Len(QualifyingChecksFor(stage)) /\ at <= Len(evidence)
  /\ \A i \in 1..at :
       /\ evidence[Len(evidence) - at + i].tree = stage
       /\ evidence[Len(evidence) - at + i].check = QualifyingChecksFor(stage)[i]

NoneFailed == \A i \in DOMAIN evidence : evidence[i].tree = stage => evidence[i].ok

\* The inductive invariant.
VerifiedInv ==
  /\ evidence \in Seq(Range(evidence))
  /\ phase \in {"checking", "applied"} => ThisPass
  /\ phase = "applied" => at = Len(QualifyingChecksFor(stage)) /\ NoneFailed

-----------------------------------------------------------------------------
\* At least one check qualifies for a tree, whatever it holds.
LEMMA SomeCheckQualifies ==
  ASSUME NEW tree
  PROVE  /\ QualifyingChecksFor(tree) \in Seq(Checks)
         /\ Len(QualifyingChecksFor(tree)) \in {1, 2}
<1>1. /\ <<"ruff", "pytest">> \in Seq(Checks) /\ Len(<<"ruff", "pytest">>) = 2
      /\ <<"npm">> \in Seq(Checks) /\ Len(<<"npm">>) = 1
      /\ <<"workspace-nonempty">> \in Seq(Checks) /\ Len(<<"workspace-nonempty">>) = 1
  BY DEF Checks
<1>2. QualifyingChecksFor(tree) \in {<<"ruff", "pytest">>, <<"npm">>, <<"workspace-nonempty">>}
  BY DEF QualifyingChecksFor
<1> QED
  BY <1>1, <1>2

\* A row more.
LEMMA OneMoreRow ==
  ASSUME evidence \in Seq(Range(evidence)), NEW e, evidence' = Append(evidence, e)
  PROVE  /\ evidence' \in Seq(Range(evidence')) /\ Len(evidence) \in Nat
         /\ Len(evidence') = Len(evidence) + 1 /\ evidence'[Len(evidence')] = e
         /\ \A i \in 1..Len(evidence) : evidence'[i] = evidence[i]
<1> DEFINE S == Range(evidence) \cup {e}
<1>1. evidence \in Seq(S) /\ e \in S
  BY DEF Range
<1>2. /\ evidence' \in Seq(S) /\ Len(evidence) \in Nat
      /\ Len(evidence') = Len(evidence) + 1 /\ evidence'[Len(evidence')] = e
      /\ \A i \in 1..Len(evidence) : evidence'[i] = evidence[i]
  BY <1>1
<1>3. \A i \in 1..Len(evidence') : evidence'[i] \in Range(evidence')
  BY <1>2 DEF Range
<1> QED
  BY <1>2, <1>3

\* The steps that end in no phase that relies on the evidence.
LEMMA BeforeTheVerdict ==
  ASSUME VerifiedInv, UNCHANGED evidence, phase' \notin {"checking", "applied"}
  PROVE  VerifiedInv'
  BY DEF VerifiedInv

\* The gate lets a tree pass only if no row about it failed.
LEMMA GateJudgesThisTree ==
  ASSUME VerifiedInv, phase = "checking", at = Len(QualifyingChecksFor(stage)),
         GateAllows(evidence, judged # {})
  PROVE  NoneFailed
<1>1. at \in {1, 2} /\ Len(evidence) \in Nat /\ at <= Len(evidence)
  <2>1. Len(QualifyingChecksFor(stage)) \in {1, 2}
    BY SomeCheckQualifies
  <2>2. at <= Len(evidence) /\ evidence \in Seq(Range(evidence))
    BY DEF VerifiedInv, ThisPass
  <2>3. Len(evidence) \in Nat
    BY <2>2
  <2> QED
    BY <2>1, <2>2, <2>3
<1>2. Last(evidence).tree = stage
  <2>1. evidence[Len(evidence) - at + at].tree = stage
    BY <1>1 DEF VerifiedInv, ThisPass
  <2> QED
    BY <1>1, <2>1 DEF Last
<1> QED
  BY <1>2 DEF GateAllows, NoneFailed

LEMMA VerifiedStep == ASSUME VerifiedInv, [Next]_vars PROVE VerifiedInv'
<1>1. CASE VerdictPasses
  <2>1. /\ judged' = {stage'} /\ at' = 0 /\ UNCHANGED <<stage, evidence>>
        /\ phase' = "checking"
    BY <1>1 DEF VerdictPasses, Moves
  <2>2. Len(evidence) \in Nat /\ Len(QualifyingChecksFor(stage')) \in Nat
    BY SomeCheckQualifies DEF VerifiedInv
  <2> QED
    BY <2>1, <2>2 DEF VerifiedInv, ThisPass
<1>2. CASE RunQualifyingCheck
  <2> DEFINE Q == QualifyingChecksFor(stage)
  <2>1. PICK ok \in BOOLEAN : evidence' = Append(evidence, [tree |-> stage, check |-> Q[at + 1],
                                                             ok |-> ok])
    BY <1>2 DEF RunQualifyingCheck
  <2>2. /\ phase = "checking" /\ phase' = "checking" /\ at < Len(Q) /\ at' = at + 1
        /\ UNCHANGED <<stage, judged>>
    BY <1>2 DEF RunQualifyingCheck
  <2>3. Q \in Seq(Checks) /\ Len(Q) \in {1, 2} /\ QualifyingChecksFor(stage)' = Q
    BY <2>2, SomeCheckQualifies DEF QualifyingChecksFor, Present
  <2>4. /\ evidence' \in Seq(Range(evidence')) /\ Len(evidence) \in Nat
        /\ Len(evidence') = Len(evidence) + 1
        /\ evidence'[Len(evidence')] = [tree |-> stage, check |-> Q[at + 1], ok |-> ok]
        /\ \A i \in 1..Len(evidence) : evidence'[i] = evidence[i]
    <3>1. evidence \in Seq(Range(evidence))
      BY DEF VerifiedInv
    <3> QED
      BY <2>1, <3>1, OneMoreRow
  <2>5. ThisPass /\ at \in 0..Len(Q) /\ at <= Len(evidence)
    BY <2>2 DEF VerifiedInv, ThisPass
  <2>6. ASSUME NEW i \in 1..at'
        PROVE  /\ evidence'[Len(evidence') - at' + i].tree = stage
               /\ evidence'[Len(evidence') - at' + i].check = Q[i]
    <3>1. CASE i = at'
      <4>1. Len(evidence') - at' + i = Len(evidence')
        BY <2>2, <2>3, <2>4, <2>5, <3>1
      <4> QED
        BY <2>2, <2>4, <3>1, <4>1, <2>3, <2>5
    <3>2. CASE i # at'
      <4>1. /\ i \in 1..at /\ Len(evidence') - at' + i = Len(evidence) - at + i
            /\ Len(evidence) - at + i \in 1..Len(evidence)
        BY <2>2, <2>3, <2>4, <2>5, <3>2
      <4> QED
        BY <2>4, <2>5, <4>1 DEF ThisPass
    <3> QED
      BY <3>1, <3>2
  <2>7. at' \in 0..Len(Q) /\ at' <= Len(evidence')
    BY <2>2, <2>3, <2>4, <2>5
  <2>8. ThisPass'
    BY <2>2, <2>3, <2>5, <2>6, <2>7 DEF ThisPass
  <2> QED
    BY <2>2, <2>4, <2>8 DEF VerifiedInv
<1>3. CASE EvaluateGate
  <2>1. /\ phase = "checking" /\ at = Len(QualifyingChecksFor(stage))
        /\ UNCHANGED <<stage, at, judged, evidence>>
        /\ phase' = IF GateAllows(evidence, judged # {}) THEN "applied" ELSE "failed"
    BY <1>3 DEF EvaluateGate, Moves
  <2>2. phase' = "applied" => NoneFailed
    BY <2>1, GateJudgesThisTree
  <2> QED
    BY <2>1, <2>2 DEF VerifiedInv, ThisPass, NoneFailed, QualifyingChecksFor, Present
<1>4. CASE \/ DecomposePlan \/ EditTaskGraph \/ Approve \/ StartMerge \/ FailClosed
           \/ MergeNode \/ StartVerification \/ Repair \/ GiveUp \/ ExpandScope \/ StartOver
           \/ Resume \/ \E n \in DOMAIN rows : StartSubtask(n) \/ FinishSubtask(n) \/ FailSubtask(n)
  <2>1. UNCHANGED evidence /\ phase' \notin {"checking", "applied"}
    BY <1>4 DEF DecomposePlan, EditTaskGraph, Approve, StartMerge, FailClosed, MergeNode,
                StartVerification, Repair, GiveUp, ExpandScope, StartOver, Resume,
                StartSubtask, FinishSubtask, FailSubtask, Moves
  <2> QED
    BY <2>1, BeforeTheVerdict
<1>5. CASE UNCHANGED vars
  BY <1>5 DEF vars, VerifiedInv, ThisPass, NoneFailed, QualifyingChecksFor, Present
<1> QED
  BY <1>1, <1>2, <1>3, <1>4, <1>5 DEF Next

\* What is applied is the tree the Brain passed last, and every check that
\* qualifies for it ran on this very tree and never failed on it, however many
\* repairs, restarts, resumes and scope expansions came before.
THEOREM AppliedTreeIsVerified == Spec => []AppliedIsVerified
<1>1. Init => VerifiedInv
  BY DEF Init, VerifiedInv, Range
<1>2. VerifiedInv /\ [Next]_vars => VerifiedInv'
  BY VerifiedStep
<1>3. VerifiedInv => AppliedIsVerified
  <2> SUFFICES ASSUME VerifiedInv, phase = "applied" PROVE AppliedIsVerified
    BY DEF AppliedIsVerified
  <2> DEFINE Q  == QualifyingChecksFor(stage)
             on == { i \in DOMAIN evidence : evidence[i].tree = stage }
  <2>1. judged = {stage} /\ \A i \in on : evidence[i].ok
    BY DEF VerifiedInv, ThisPass, NoneFailed
  <2>2. ASSUME NEW check \in Range(Q) PROVE check \in { evidence[i].check : i \in on }
    <3>1. /\ Q \in Seq(Checks) /\ Len(Q) \in {1, 2} /\ at = Len(Q)
          /\ Len(evidence) \in Nat /\ at <= Len(evidence) /\ DOMAIN evidence = 1..Len(evidence)
      <4>1. Q \in Seq(Checks) /\ Len(Q) \in {1, 2}
        BY SomeCheckQualifies
      <4>2. at = Len(Q) /\ at <= Len(evidence) /\ evidence \in Seq(Range(evidence))
        BY DEF VerifiedInv, ThisPass
      <4>3. Len(evidence) \in Nat /\ DOMAIN evidence = 1..Len(evidence)
        BY <4>2
      <4> QED
        BY <4>1, <4>2, <4>3
    <3>2. PICK i \in 1..at : check = Q[i]
      BY <3>1 DEF Range
    <3>3. Len(evidence) - at + i \in DOMAIN evidence
      BY <3>1
    <3>4. /\ evidence[Len(evidence) - at + i].tree = stage
          /\ evidence[Len(evidence) - at + i].check = Q[i]
      BY DEF VerifiedInv, ThisPass
    <3> QED
      BY <3>2, <3>3, <3>4
  <2> QED
    BY <2>1, <2>2 DEF AppliedIsVerified
<1> QED
  BY <1>1, <1>2, <1>3, PTL DEF Spec
=============================================================================
