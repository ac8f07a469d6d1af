------------------------ MODULE WorkflowRuntimeProofs ------------------------
EXTENDS WorkflowRuntime, WellFoundedInduction, SequenceTheorems, TLAPS

(***************************************************************************)
(* A bounded nonempty set of numbers has a maximum: the completion         *)
(* sequence _persist_outcome hands out is a number.                        *)
(***************************************************************************)
LEMMA BoundedMax ==
    ASSUME NEW S \in SUBSET Nat, S # {}, NEW b \in Nat, \A x \in S : x <= b
    PROVE  Max(S) \in S /\ \A x \in S : x <= Max(S)
<1> DEFINE Above == {n \in Nat : \A x \in S : x <= n}
<1>1. Above \in SUBSET Nat /\ Above # {}
  OBVIOUS
<1>2. PICK m \in Above : \A n \in Above : m <= n
  <2>1. \E m \in Above : \A n \in Above : ~(<<n, m>> \in OpToRel(<, Nat))
    BY <1>1, WFMin, NatLessThanWellFounded, Zenon
  <2>2. \A m, n \in Nat : ~(<<n, m>> \in OpToRel(<, Nat)) => m <= n
    BY DEF OpToRel
  <2> QED
    BY <1>1, <2>1, <2>2
<1>3. m \in S
  <2> SUFFICES ASSUME m \notin S PROVE FALSE
    OBVIOUS
  <2>1. PICK x \in S : TRUE
    OBVIOUS
  <2>2. \A y \in S : y <= m - 1
    OBVIOUS
  <2>3. m - 1 \in Above
    BY <2>1, <2>2
  <2> QED
    BY <2>3, <1>2
<1>4. \E x \in S : \A y \in S : x >= y
  BY <1>3, <1>2
<1>5. Max(S) \in S /\ \A y \in S : Max(S) >= y
  BY <1>4 DEF Max
<1> QED
  BY <1>5

-----------------------------------------------------------------------------
(***************************************************************************)
(* Type correctness.  Completion sequences are bounded besides, which is   *)
(* why their maximum exists although nothing is said about how many steps  *)
(* a definition has.                                                       *)
(***************************************************************************)

\* The stages the runtime knows of, and those a call of the sandbox goes through.
CallStages == {"open", "landed", "done", "altered", "switched", "created", "copied", "dropped",
               "renamed", "versioned"}

\* A future whose tool call may be at any of them.
Future == [step  : Steps,
           phase : Phases,
           no    : Nat \ {0},
           stage : CallStages,
           out   : Outcomes \cup {"none"},
           hold  : {"owned", "persisted", "orphan"}]

\* TypeOK but for the stages of tool calls.
LooseTypeOK ==
    /\ run \in RunStates
    /\ step \in [Steps -> StepStates]
    /\ seq \in [Steps -> Nat]
    /\ attempts \in [Phases -> [Steps -> Seq(Attempt)]]
    /\ approvals \in Seq(ApprovalRequest)
    /\ binding \in 0..MaxBinding
    /\ threads \subseteq Future
    /\ effects \in [Phases -> [Steps -> Nat]]
    /\ pc \in {"down", "boot", "recover", "idle", "ready", "select", "start",
               "closing"}
    /\ started \in BOOLEAN
    /\ batch \subseteq Steps
    /\ rq \subseteq AttemptRef
    /\ faults \in 0..MaxFaults

SeqBounded == \E b \in Nat : \A s \in Steps : seq[s] <= b

TypeInv == LooseTypeOK /\ SeqBounded

\* The next completion_sequence is a number, and sequences stay bounded.
LEMMA NextSequenceType ==
    ASSUME seq \in [Steps -> Nat], SeqBounded, NEW s \in Steps
    PROVE  /\ [seq EXCEPT ![s] = 1 + Max({seq[u] : u \in Steps})] \in [Steps -> Nat]
           /\ \E b \in Nat : \A v \in Steps :
                [seq EXCEPT ![s] = 1 + Max({seq[u] : u \in Steps})][v] <= b
<1> DEFINE S == {seq[u] : u \in Steps}
<1>1. PICK b \in Nat : \A u \in Steps : seq[u] <= b
  BY DEF SeqBounded
<1>2. S \in SUBSET Nat /\ S # {} /\ \A x \in S : x <= b
  BY <1>1
<1>3. Max(S) \in S
  BY <1>2, BoundedMax
<1>4. Max(S) \in Nat /\ Max(S) <= b
  BY <1>2, <1>3
<1> HIDE DEF S
<1>5. [seq EXCEPT ![s] = 1 + Max(S)] \in [Steps -> Nat]
  BY <1>4
<1>6. b + 1 \in Nat /\ \A u \in Steps : [seq EXCEPT ![s] = 1 + Max(S)][u] <= b + 1
  BY <1>1, <1>4
<1>7. \E c \in Nat : \A v \in Steps : [seq EXCEPT ![s] = 1 + Max(S)][v] <= c
  BY <1>6
<1> QED
  BY <1>5, <1>7, Zenon DEF S

\* The types of the operators that build attempts and states.
LEMMA AttemptAfterType ==
    \A out \in Outcomes \cup {"none"} : AttemptAfter(out) \in Attempt
BY DEF AttemptAfter, Attempt, Outcomes, Failures

\* _persist_outcome chooses a state of a step run.
LEMMA NextStepStateType ==
    \A s \in Steps, no \in Nat, out \in Outcomes \cup {"none"} :
        NextStepState(s, no, out) \in StepStates
BY DEF NextStepState, StepStates

\* _persist_outcome chooses a state of a run.
LEMMA RunAfterForwardType ==
    \A r \in RunStates, s \in Steps : \A q, at : RunAfterForward(r, s, q, at) \in RunStates
BY DEF RunAfterForward, RunStates

\* Saving an attempt over an earlier version of it keeps the attempts' type.
LEMMA SaveAttemptType ==
    ASSUME attempts \in [Phases -> [Steps -> Seq(Attempt)]],
           NEW p \in Phases, NEW s \in Steps, NEW n, NEW a \in Attempt
    PROVE  [attempts EXCEPT ![p][s][n] = a] \in [Phases -> [Steps -> Seq(Attempt)]]
<1>1. attempts[p][s] \in Seq(Attempt)
  OBVIOUS
<1>2. PICK m \in Nat : attempts[p][s] \in [1..m -> Attempt]
  BY <1>1, SeqDef
<1>3. [attempts[p][s] EXCEPT ![n] = a] \in [1..m -> Attempt]
  BY <1>2
<1>4. [attempts[p][s] EXCEPT ![n] = a] \in Seq(Attempt)
  BY <1>3, SeqDef
<1> QED
  BY <1>4

\* Adding an attempt keeps the attempts' type.
LEMMA AddAttemptType ==
    ASSUME attempts \in [Phases -> [Steps -> Seq(Attempt)]],
           NEW p \in Phases, NEW s \in Steps, NEW a \in Attempt
    PROVE  [attempts EXCEPT ![p][s] = Append(@, a)] \in [Phases -> [Steps -> Seq(Attempt)]]
<1>1. Append(attempts[p][s], a) \in Seq(Attempt)
  OBVIOUS
<1> QED
  BY <1>1

\* A future whose owner moves on is still a future.
LEMMA ReplaceThreadType ==
    ASSUME threads \subseteq Future, NEW t \in threads,
           NEW h \in {"owned", "persisted", "orphan"}
    PROVE  [t EXCEPT !.hold = h] \in Future
BY DEF Future

\* _commit_attempt_started submits a future.
LEMMA NewThreadType ==
    ASSUME attempts \in [Phases -> [Steps -> Seq(Attempt)]],
           NEW s \in Steps, NEW p \in Phases
    PROVE  NewThread(s, p) \in Future
BY DEF NewThread, Future, CallStages

\* References to the attempts of a step are attempt references.
LEMMA RefsType ==
    ASSUME attempts \in [Phases -> [Steps -> Seq(Attempt)]], NEW s \in Steps
    PROVE  Refs(s) \subseteq AttemptRef
BY DEF Refs, AttemptRef

\* An unresolved attempt of a step is an attempt of it.
LEMMA UnresolvedType ==
    ASSUME attempts \in [Phases -> [Steps -> Seq(Attempt)]], NEW s \in Steps
    PROVE  Unresolved(s) \subseteq Refs(s)
BY DEF Unresolved

\* The database after an outcome has been persisted.
LEMMA PersistOutcomeType ==
    ASSUME TypeInv, NEW t \in threads, NEW out \in Outcomes \cup {"none"},
           PersistOutcome(t, out)
    PROVE  /\ run' \in RunStates
           /\ step' \in [Steps -> StepStates]
           /\ seq' \in [Steps -> Nat]
           /\ SeqBounded'
           /\ attempts' \in [Phases -> [Steps -> Seq(Attempt)]]
           /\ approvals' \in Seq(ApprovalRequest)
<1>1. t.step \in Steps /\ t.no \in Nat
  BY DEF TypeInv, LooseTypeOK, Future
<1>2. AttemptAfter(out) \in Attempt
  BY AttemptAfterType
<1>3. "forward" \in Phases /\ "compensation" \in Phases
  BY DEF Phases
<1>4. CASE PersistForward(t.step, t.no, out)
  <2> DEFINE q == NextStepState(t.step, t.no, out)
             at == [attempts EXCEPT !["forward"][t.step][t.no] = AttemptAfter(out)]
  <2>1. q \in StepStates
    BY <1>1, NextStepStateType
  <2>2. at \in [Phases -> [Steps -> Seq(Attempt)]]
    BY <1>1, <1>2, <1>3, SaveAttemptType DEF TypeInv, LooseTypeOK
  <2>3. RunAfterForward(run, t.step, q, at) \in RunStates
    BY <1>1, RunAfterForwardType DEF TypeInv, LooseTypeOK
  <2>4. step' = [step EXCEPT ![t.step] = q] /\ attempts' = at
        /\ run' = RunAfterForward(run, t.step, q, at)
    BY <1>4 DEF PersistForward
  <2> HIDE DEF q, at
  <2>5. seq' \in [Steps -> Nat] /\ SeqBounded'
    <3>1. seq \in [Steps -> Nat] /\ SeqBounded
      BY DEF TypeInv, LooseTypeOK
    <3>2. \/ seq' = seq
          \/ seq' = [seq EXCEPT ![t.step] = 1 + Max({seq[u] : u \in Steps})]
      BY <1>4 DEF PersistForward
    <3>3. CASE seq' = seq
      BY <3>1, <3>3 DEF SeqBounded
    <3>4. CASE seq' = [seq EXCEPT ![t.step] = 1 + Max({seq[u] : u \in Steps})]
      BY <3>1, <3>4, <1>1, NextSequenceType, Zenon DEF SeqBounded
    <3> QED
      BY <3>2, <3>3, <3>4
  <2>6. approvals' \in Seq(ApprovalRequest)
    BY DEF PersistOutcome, TypeInv, LooseTypeOK
  <2> QED
    BY <2>1, <2>2, <2>3, <2>4, <2>5, <2>6 DEF TypeInv, LooseTypeOK
<1>5. CASE PersistCompensation(t.step, t.no, out)
  <2>1. attempts' \in [Phases -> [Steps -> Seq(Attempt)]]
    BY <1>1, <1>2, <1>3, <1>5, SaveAttemptType DEF PersistCompensation, TypeInv, LooseTypeOK
  <2>2. run' \in RunStates /\ step' = step /\ seq' = seq
    BY <1>5 DEF PersistCompensation, RunStates, TypeInv, LooseTypeOK
  <2> QED
    BY <2>1, <2>2 DEF PersistOutcome, TypeInv, LooseTypeOK, SeqBounded
<1> QED
  BY <1>4, <1>5 DEF PersistOutcome

(***************************************************************************)
(* The runtime with tools of which nothing is known: a call may change the *)
(* outside world, go through any stages and report any outcome, as long as *)
(* its future stays who it was.  What holds of this specification holds    *)
(* whatever the tools do.                                                  *)
(***************************************************************************)
ToolMoves ==
    /\ \E t \in threads : \E w \in Future :
          /\ w.step = t.step /\ w.phase = t.phase /\ w.no = t.no /\ w.hold = t.hold
          /\ \/ threads' = (threads \ {t}) \cup {w}
             \/ t.hold # "owned" /\ threads' = threads \ {t}
    /\ effects' \in [Phases -> [Steps -> Nat]]
    /\ faults' \in 0..MaxFaults
    /\ UNCHANGED <<database, binding, pc, started, batch, rq>>

AnyNext == ToolMoves \/ RunOnce \/ Operators \/ Recovery \/ Process \/ RunTerminal

AnySpec == Init /\ [][AnyNext]_vars

\* Such tools keep every variable's type.
LEMMA ToolMovesType ==
    ASSUME TypeInv, ToolMoves
    PROVE  TypeInv'
<1>1. threads' \subseteq Future
  BY DEF ToolMoves, TypeInv, LooseTypeOK
<1> QED
  BY <1>1 DEF ToolMoves, TypeInv, LooseTypeOK, SeqBounded, database

\* run_once keeps every variable's type.
LEMMA RunOnceType ==
    ASSUME TypeInv, RunOnce
    PROVE  TypeInv'
<1> USE DEF TypeInv, LooseTypeOK, SeqBounded, database
<1>1. ASSUME NEW t \in threads, Collect(t)
      PROVE  TypeInv'
  <2>1. t.out \in Outcomes \cup {"none"}
    BY DEF Future
  <2>2. PersistOutcome(t, t.out)
    BY <1>1 DEF Collect
  <2> QED
    BY <1>1, <2>1, <2>2, PersistOutcomeType DEF Collect
<1>2. ASSUME NEW t \in threads, Expire(t)
      PROVE  TypeInv'
  <2>1. PersistOutcome(t, "result_unknown") /\ "result_unknown" \in Outcomes
    BY <1>2 DEF Expire, Outcomes, Failures
  <2>2. threads' \subseteq Future
    BY <1>2, ReplaceThreadType DEF Expire
  <2> QED
    BY <1>2, <2>1, <2>2, PersistOutcomeType, ParametersAssumption DEF Expire
<1>3. ASSUME NEW due \in SUBSET {s \in Steps : step[s] = "retry_wait"},
             PromoteDueRetries(due)
      PROVE  TypeInv'
  BY <1>3 DEF PromoteDueRetries, StepStates
<1>4. CASE PromoteDependencyReadySteps
  BY <1>4 DEF PromoteDependencyReadySteps, StepStates
<1>5. CASE SelectUnprotected
  BY <1>5 DEF SelectUnprotected, FirstSteps, Candidates, ReadySteps
<1>6. CASE BarrierBlocks
  BY <1>6 DEF BarrierBlocks
<1>7. ASSUME NEW s \in Steps, SelectApproved(s)
      PROVE  TypeInv'
  BY <1>7 DEF SelectApproved, FirstSteps
<1>8. ASSUME NEW s \in Steps, EstablishApprovalBarrier(s)
      PROVE  TypeInv'
  <2>1. approvals' \in Seq(ApprovalRequest)
    <3>1. PICK m \in Nat : approvals \in [1..m -> ApprovalRequest]
      BY SeqDef
    <3>2. Invalidated(s) \in [1..m -> ApprovalRequest]
      BY <3>1 DEF Invalidated, ApprovalRequest
    <3>3. Invalidated(s) \in Seq(ApprovalRequest)
      BY <3>2, SeqDef
    <3>4. [step |-> s, binding |-> binding, status |-> "pending"] \in ApprovalRequest
      BY DEF ApprovalRequest
    <3>5. Append(Invalidated(s), [step |-> s, binding |-> binding, status |-> "pending"])
             \in Seq(ApprovalRequest)
      BY <3>3, <3>4
    <3> QED
      BY <1>8, <3>3, <3>5 DEF EstablishApprovalBarrier
  <2>2. run' \in RunStates
    BY <1>8 DEF EstablishApprovalBarrier, RunStates
  <2> QED
    BY <1>8, <2>1, <2>2 DEF EstablishApprovalBarrier
<1>9. ASSUME NEW s \in Steps, StartAttempt(s)
      PROVE  TypeInv'
  <2>1. RunningAttempt \in Attempt /\ "forward" \in Phases
    BY DEF RunningAttempt, Attempt, Phases
  <2>2. attempts' \in [Phases -> [Steps -> Seq(Attempt)]]
    BY <1>9, <2>1, AddAttemptType DEF StartAttempt
  <2>3. threads' \subseteq Future
    BY <1>9, <2>1, NewThreadType DEF StartAttempt
  <2>4. step' \in [Steps -> StepStates]
    BY <1>9 DEF StartAttempt, StepStates
  <2> QED
    BY <1>9, <2>2, <2>3, <2>4 DEF StartAttempt, RunStates
<1>10. ASSUME NEW s \in Steps, SubmissionFails(s)
       PROVE  TypeInv'
  <2> DEFINE q  == NextStepState(s, Len(attempts["forward"][s]) + 1, "retryable")
             at == [attempts EXCEPT !["forward"][s] = Append(@, AttemptAfter("retryable"))]
  <2>1. "forward" \in Phases /\ "retryable" \in Outcomes
    BY DEF Phases, Outcomes, Failures
  <2>2. q \in StepStates
    BY <2>1, NextStepStateType
  <2>3. at \in [Phases -> [Steps -> Seq(Attempt)]]
    BY <2>1, AddAttemptType, AttemptAfterType
  <2>4. RunAfterForward("running", s, q, at) \in RunStates
    BY RunAfterForwardType DEF RunStates
  <2>5. run' = RunAfterForward("running", s, q, at) /\ step' = [step EXCEPT ![s] = q]
        /\ attempts' = at
    BY <1>10 DEF SubmissionFails
  <2> HIDE DEF q, at
  <2> QED
    BY <1>10, <2>2, <2>3, <2>4, <2>5 DEF SubmissionFails
<1>11. CASE EndBatch
  BY <1>11 DEF EndBatch
<1>12. ASSUME NEW s \in Steps, StartCompensation(s)
       PROVE  TypeInv'
  <2>1. RunningAttempt \in Attempt /\ "compensation" \in Phases
    BY DEF RunningAttempt, Attempt, Phases
  <2>2. attempts' \in [Phases -> [Steps -> Seq(Attempt)]]
    BY <1>12, <2>1, AddAttemptType DEF StartCompensation
  <2>3. threads' \subseteq Future
    BY <1>12, <2>1, NewThreadType DEF StartCompensation
  <2> QED
    BY <1>12, <2>2, <2>3 DEF StartCompensation
<1>13. ASSUME NEW s \in Steps, CompensationSubmissionFails(s)
       PROVE  TypeInv'
  <2>1. AttemptAfter("permanent") \in Attempt /\ "compensation" \in Phases
    BY AttemptAfterType DEF Outcomes, Failures, Phases
  <2>2. attempts' \in [Phases -> [Steps -> Seq(Attempt)]]
    BY <1>13, <2>1, AddAttemptType DEF CompensationSubmissionFails
  <2> QED
    BY <1>13, <2>2 DEF CompensationSubmissionFails, RunStates
<1> QED
  BY <1>1, <1>2, <1>3, <1>4, <1>5, <1>6, <1>7, <1>8, <1>9, <1>10, <1>11, <1>12, <1>13
     DEF RunOnce

\* Decisions and cancellation keep every variable's type.
LEMMA OperatorsType ==
    ASSUME TypeInv, Operators
    PROVE  TypeInv'
<1> USE DEF TypeInv, LooseTypeOK, SeqBounded, database
<1>1. ASSUME NEW i \in DOMAIN approvals, NEW d \in {"approved", "rejected"}, Decide(i, d)
      PROVE  TypeInv'
  <2>1. PICK m \in Nat : approvals \in [1..m -> ApprovalRequest]
    BY SeqDef
  <2>2. [approvals EXCEPT ![i].status = d] \in [1..m -> ApprovalRequest]
    BY <2>1 DEF ApprovalRequest
  <2>3. approvals' \in Seq(ApprovalRequest)
    BY <1>1, <2>2, SeqDef DEF Decide
  <2>4. run' \in RunStates
    BY <1>1 DEF Decide, RejectionTarget, RunStates
  <2> QED
    BY <1>1, <2>3, <2>4 DEF Decide
<1>2. CASE CancelRun
  BY <1>2 DEF CancelRun, RunStates
<1> QED
  BY <1>1, <1>2 DEF Operators

\* What recovery does to the database when it resolves attempt r.
LEMMA ResolveType ==
    ASSUME TypeInv, NEW r \in rq,
           NEW status \in {"succeeded", "not_applied", "manual_intervention"},
           NEW effect \in BOOLEAN, NEW err \in {"none"} \cup Failures,
           NEW q \in StepStates,
           Resolve(r, status, effect, err), StepAfterRecovery(r, q)
    PROVE  /\ attempts' \in [Phases -> [Steps -> Seq(Attempt)]]
           /\ step' \in [Steps -> StepStates]
<1>1. r.phase \in Phases /\ r.step \in Steps
  BY DEF TypeInv, LooseTypeOK, AttemptRef
<1>2. [status |-> status, effect |-> effect, err |-> err] \in Attempt
  BY DEF Attempt
<1>3. attempts' \in [Phases -> [Steps -> Seq(Attempt)]]
  BY <1>1, <1>2, SaveAttemptType DEF Resolve, TypeInv, LooseTypeOK
<1> QED
  BY <1>1, <1>3 DEF StepAfterRecovery, TypeInv, LooseTypeOK

(***************************************************************************)
(* The attempts recovery goes through exist, and it goes through them in   *)
(* driver.start() only, where nothing else adds or completes attempts.     *)
(***************************************************************************)
QueueInv ==
    /\ rq # {} => pc = "recover"
    /\ \A r \in rq : r.no \in DOMAIN attempts[r.phase][r.step]

\* Recovery keeps every variable's type.
LEMMA RecoveryType ==
    ASSUME TypeInv, QueueInv, Recovery
    PROVE  TypeInv'
<1> USE DEF TypeInv, LooseTypeOK, SeqBounded, database
<1>1. CASE StartRecovery
  <2>1. \A s \in Steps : Unresolved(s) \subseteq AttemptRef
    BY RefsType, UnresolvedType
  <2>2. UNION {Unresolved(s) : s \in Steps} \subseteq AttemptRef
    BY <2>1
  <2> QED
    BY <1>1, <2>2 DEF StartRecovery
<1>2. ASSUME NEW r \in rq, RecoverApplied(r)
      PROVE  TypeInv'
  <2>1. /\ attempts' \in [Phases -> [Steps -> Seq(Attempt)]]
        /\ step' \in [Steps -> StepStates]
    BY <1>2, ResolveType DEF RecoverApplied, StepStates
  <2>2. run' \in RunStates
    BY <1>2 DEF RecoverApplied, RunAfterApplied, RunStates
  <2> QED
    BY <1>2, <2>1, <2>2 DEF RecoverApplied
<1>3. ASSUME NEW r \in rq
      PROVE  /\ attempts[r.phase][r.step][r.no].effect \in BOOLEAN
             /\ attempts[r.phase][r.step][r.no].err \in {"none"} \cup Failures
  <2>1. attempts[r.phase][r.step] \in Seq(Attempt)
    BY DEF AttemptRef
  <2>2. attempts[r.phase][r.step][r.no] \in Attempt
    BY <2>1 DEF QueueInv
  <2> QED
    BY <2>2 DEF Attempt
<1>4. ASSUME NEW r \in rq, RecoverNotApplied(r)
      PROVE  TypeInv'
  <2>1. /\ attempts' \in [Phases -> [Steps -> Seq(Attempt)]]
        /\ step' \in [Steps -> StepStates]
    BY <1>3, <1>4, ResolveType DEF RecoverNotApplied, StepStates
  <2> QED
    BY <1>4, <2>1 DEF RecoverNotApplied
<1>5. ASSUME NEW r \in rq, RecoverManually(r)
      PROVE  TypeInv'
  <2>1. /\ attempts' \in [Phases -> [Steps -> Seq(Attempt)]]
        /\ step' \in [Steps -> StepStates]
    BY <1>3, <1>5, ResolveType DEF RecoverManually, StepStates
  <2> QED
    BY <1>5, <2>1 DEF RecoverManually, RunStates
<1>6. ASSUME NEW r \in rq, RecoveryRaises(r)
      PROVE  TypeInv'
  BY <1>6 DEF RecoveryRaises
<1>7. CASE FinishRecovery
  BY <1>7 DEF FinishRecovery
<1> QED
  BY <1>1, <1>2, <1>4, <1>5, <1>6, <1>7 DEF Recovery

\* Closing, crashing and restarting keep every variable's type.
LEMMA ProcessType ==
    ASSUME TypeInv, Process
    PROVE  TypeInv'
<1> USE DEF TypeInv, LooseTypeOK, SeqBounded, database
<1>1. CASE CloseWaiting
  <2>1. faults' \in 0..MaxFaults
    BY <1>1, ParametersAssumption DEF CloseWaiting
  <2> QED
    BY <1>1, <2>1 DEF CloseWaiting
<1>2. CASE BeginClose
  BY <1>2, ParametersAssumption DEF BeginClose
<1>3. ASSUME NEW t \in threads, CloseOutcome(t)
      PROVE  TypeInv'
  <2>1. PICK out \in Outcomes \cup {"none"} : PersistOutcome(t, out)
    BY <1>3 DEF CloseOutcome, Future, Outcomes, Failures
  <2>2. threads' \subseteq Future
    BY <1>3, ReplaceThreadType DEF CloseOutcome
  <2> QED
    BY <1>3, <2>1, <2>2, PersistOutcomeType DEF CloseOutcome
<1>4. CASE FinishClose
  <2>1. threads' \subseteq Future
    BY <1>4, ReplaceThreadType DEF FinishClose
  <2> QED
    BY <1>4, <2>1 DEF FinishClose
<1>5. CASE StartDriverAgain
  <2>1. threads' \subseteq Future
    BY <1>5, ReplaceThreadType DEF StartDriverAgain
  <2>2. faults' \in 0..MaxFaults
    BY <1>5, ParametersAssumption DEF StartDriverAgain
  <2> QED
    BY <1>5, <2>1, <2>2 DEF StartDriverAgain
<1>6. CASE Crash
  <2>1. faults' \in 0..MaxFaults
    BY <1>6, ParametersAssumption DEF Crash
  <2> QED
    BY <1>6, <2>1 DEF Crash
<1>7. CASE Restart
  BY <1>7 DEF Restart
<1> QED
  BY <1>1, <1>2, <1>3, <1>4, <1>5, <1>6, <1>7 DEF Process

(***************************************************************************)
(* The steps of the specification keep every variable's type.              *)
(***************************************************************************)
LEMMA NextType ==
    ASSUME TypeInv, QueueInv, [AnyNext]_vars
    PROVE  TypeInv'
<1>1. CASE UNCHANGED vars
  BY <1>1 DEF vars, database, TypeInv, LooseTypeOK, SeqBounded
<1> QED
  BY <1>1, ToolMovesType, RunOnceType, OperatorsType, RecoveryType, ProcessType
     DEF AnyNext, RunTerminal

-----------------------------------------------------------------------------
(***************************************************************************)
(* Which attempts exist.  Completing or resolving an attempt rewrites it   *)
(* in place; only the four actions that start one add to the list.         *)
(***************************************************************************)
SameNumbers == \A p \in Phases, s \in Steps :
                  DOMAIN attempts'[p][s] = DOMAIN attempts[p][s]

\* Rewriting an attempt keeps the numbers of all attempts.
LEMMA SaveKeepsNumbers ==
    ASSUME attempts \in [Phases -> [Steps -> Seq(Attempt)]],
           NEW p \in Phases, NEW s \in Steps, NEW n, NEW a,
           attempts' = [attempts EXCEPT ![p][s][n] = a]
    PROVE  SameNumbers
BY DEF SameNumbers

\* Persisting an outcome keeps the numbers of all attempts.
LEMMA PersistKeepsNumbers ==
    ASSUME TypeInv, NEW t \in threads, NEW out, PersistOutcome(t, out)
    PROVE  SameNumbers
<1>1. t.step \in Steps /\ "forward" \in Phases /\ "compensation" \in Phases
  BY DEF TypeInv, LooseTypeOK, Future, Phases
<1>2. PICK p \in Phases : attempts' = [attempts EXCEPT ![p][t.step][t.no] = AttemptAfter(out)]
  BY <1>1 DEF PersistOutcome, PersistForward, PersistCompensation
<1> QED
  BY <1>1, <1>2, SaveKeepsNumbers DEF TypeInv, LooseTypeOK

(***************************************************************************)
(* The attempts recovery has still to look at stay in the database.        *)
(***************************************************************************)
LEMMA NextQueue ==
    ASSUME TypeInv, QueueInv, [AnyNext]_vars
    PROVE  QueueInv'
<1> USE DEF TypeInv, LooseTypeOK, QueueInv, database
<1>1. ASSUME SameNumbers, rq' \subseteq rq, rq' # {} => pc' = "recover"
      PROVE  QueueInv'
  BY <1>1 DEF SameNumbers, AttemptRef
<1>2. ASSUME rq' = {}
      PROVE  QueueInv'
  BY <1>2
<1>3. CASE UNCHANGED vars
  BY <1>3 DEF vars
<1>4. CASE ToolMoves
  BY <1>4 DEF ToolMoves
<1>5. CASE RunOnce
  <2>1. pc # "recover" /\ rq' = rq
    BY <1>5 DEF RunOnce, Collect, Expire, PromoteDueRetries,
         PromoteDependencyReadySteps, SelectUnprotected, BarrierBlocks, SelectApproved,
         EstablishApprovalBarrier, StartAttempt, SubmissionFails, EndBatch,
         StartCompensation, CompensationSubmissionFails, Compensating
  <2> QED
    BY <1>2, <2>1
<1>6. CASE Operators
  BY <1>6 DEF Operators, Decide, CancelRun
<1>7. CASE StartRecovery
  <2>1. \A s \in Steps : \A r \in Unresolved(s) : r.no \in DOMAIN attempts[r.phase][r.step]
    BY UnresolvedType DEF Refs
  <2>2. \A r \in UNION {Unresolved(s) : s \in Steps} :
            r.no \in DOMAIN attempts[r.phase][r.step]
    BY <2>1
  <2>3. rq' \subseteq UNION {Unresolved(s) : s \in Steps}
    BY <1>7 DEF StartRecovery
  <2>4. attempts' = attempts /\ pc' = "recover"
    BY <1>7 DEF StartRecovery
  <2> HIDE DEF TypeInv, LooseTypeOK
  <2> QED
    BY <2>2, <2>3, <2>4
<1>8. ASSUME NEW r \in rq, RecoverApplied(r) \/ RecoverNotApplied(r) \/ RecoverManually(r)
      PROVE  QueueInv'
  <2>1. \E a : attempts' = [attempts EXCEPT ![r.phase][r.step][r.no] = a]
    BY <1>8 DEF RecoverApplied, RecoverNotApplied, RecoverManually, Resolve
  <2>2. SameNumbers
    BY <2>1, SaveKeepsNumbers DEF AttemptRef
  <2>3. rq' \subseteq rq /\ pc' = pc
    BY <1>8 DEF RecoverApplied, RecoverNotApplied, RecoverManually
  <2> QED
    BY <1>1, <2>2, <2>3
<1>9. ASSUME NEW r \in rq, RecoveryRaises(r)
      PROVE  QueueInv'
  BY <1>9, <1>2 DEF RecoveryRaises
<1>10. CASE FinishRecovery
  BY <1>10, <1>2 DEF FinishRecovery
<1>11. CASE Recovery
  BY <1>7, <1>8, <1>9, <1>10, <1>11 DEF Recovery
<1>12. CASE Process
  <2>1. rq' = {}
    BY <1>12 DEF Process, CloseWaiting, BeginClose, CloseOutcome, FinishClose, StartDriverAgain, Crash,
         Restart
  <2> QED
    BY <1>2, <2>1
<1> QED
  BY <1>3, <1>4, <1>5, <1>6, <1>11, <1>12 DEF AnyNext, RunTerminal

\* A run just created has the declared types and nothing to recover.
LEMMA InitType ==
    ASSUME Init
    PROVE  TypeInv /\ QueueInv
<1>1. attempts \in [Phases -> [Steps -> Seq(Attempt)]]
  BY DEF Init
<1>2. run \in RunStates /\ step \in [Steps -> StepStates]
  BY DEF Init, RunStates, StepStates
<1>3. approvals \in Seq(ApprovalRequest)
  BY DEF Init
<1>4. faults \in 0..MaxFaults /\ binding \in 0..MaxBinding
  BY ParametersAssumption DEF Init
<1>5. LooseTypeOK
  BY <1>1, <1>2, <1>3, <1>4 DEF Init, LooseTypeOK
<1>6. SeqBounded
  BY DEF Init, SeqBounded
<1> QED
  BY <1>5, <1>6 DEF Init, QueueInv, TypeInv

\* The tools of the runtime are such tools, and know three stages.
LEMMA ToolsMove ==
    ASSUME TypeInv, Tools
    PROVE  /\ ToolMoves
           /\ \A w \in threads' : w \in threads \/ w.stage \in {"landed", "done"}
<1>1. PICK t \in threads : ToolTakesEffect(t) \/ ToolReturns(t) \/ ToolFails(t)
                           \/ ToolReplyLost(t)
  BY DEF Tools
<1>2. /\ t \in Future /\ threads \subseteq Future /\ faults \in 0..MaxFaults
      /\ effects \in [Phases -> [Steps -> Nat]]
      /\ t.phase \in Phases /\ t.step \in Steps /\ t.out \in Outcomes \cup {"none"}
  BY DEF TypeInv, LooseTypeOK, Future
<1>3. ASSUME NEW g \in CallStages, NEW o \in Outcomes \cup {"none"}
      PROVE  LET w == [t EXCEPT !.stage = g, !.out = o]
             IN  /\ w \in Future /\ w.step = t.step /\ w.phase = t.phase
                 /\ w.no = t.no /\ w.hold = t.hold /\ w.stage = g
  BY <1>2 DEF Future
<1> DEFINE Moved ==
       \E w \in Future :
          /\ w.step = t.step /\ w.phase = t.phase /\ w.no = t.no /\ w.hold = t.hold
          /\ w.stage \in {"landed", "done"}
          /\ \/ threads' = (threads \ {t}) \cup {w}
             \/ t.hold # "owned" /\ threads' = threads \ {t}
<1>4. CASE ToolTakesEffect(t)
  <2>1. effects' \in [Phases -> [Steps -> Nat]]
    <3>1. effects[t.phase] \in [Steps -> Nat]
      BY <1>2
    <3>2. [effects[t.phase] EXCEPT ![t.step] = @ + 1] \in [Steps -> Nat]
      BY <1>2, <3>1
    <3>3. [effects EXCEPT ![t.phase] = [effects[t.phase] EXCEPT ![t.step] = @ + 1]]
             \in [Phases -> [Steps -> Nat]]
      BY <1>2, <3>2
    <3> QED
      BY <1>2, <1>4, <3>3 DEF ToolTakesEffect
  <2> DEFINE o == IF Replay(t.phase, t.step) THEN "noop" ELSE "effect"
  <2>2. o \in Outcomes \cup {"none"} /\ "landed" \in CallStages
    BY DEF Outcomes, CallStages
  <2>3. threads' = (threads \ {t}) \cup {[t EXCEPT !.stage = "landed", !.out = o]}
    BY <1>4 DEF ToolTakesEffect
  <2> HIDE DEF o
  <2>4. Moved
    BY <1>3, <2>2, <2>3
  <2> HIDE DEF Moved
  <2> QED
    BY <1>2, <1>4, <2>1, <2>4 DEF ToolTakesEffect, ToolMoves, database, Moved
<1>5. ASSUME NEW out \in Outcomes \cup {"none"}, EndThread(t, out)
      PROVE  Moved
  <2>0. "done" \in CallStages
    BY DEF CallStages
  <2> DEFINE w == [t EXCEPT !.stage = "done", !.out = out]
  <2>3. /\ w \in Future /\ w.step = t.step /\ w.phase = t.phase
        /\ w.no = t.no /\ w.hold = t.hold /\ w.stage = "done"
    BY <1>3, <2>0
  <2>1. CASE t.hold = "owned"
    BY <1>3, <1>5, <2>0, <2>1 DEF EndThread
  <2>2. CASE t.hold # "owned"
    <3>1. threads' = threads \ {t}
      BY <1>5, <2>2 DEF EndThread
    <3> QED
      BY <2>2, <2>3, <3>1
  <2> QED
    BY <2>1, <2>2
<1>6. CASE ToolReturns(t) \/ ToolFails(t) \/ ToolReplyLost(t)
  <2>1. \E out \in Outcomes \cup {"none"} : EndThread(t, out)
    BY <1>2, <1>6 DEF ToolReturns, ToolFails, ToolReplyLost, Outcomes, Failures
  <2>2. Moved
    BY <1>5, <2>1
  <2>3. /\ faults' \in 0..MaxFaults /\ effects' = effects
        /\ UNCHANGED <<database, binding, pc, started, batch, rq>>
    BY <1>2, <1>6, ParametersAssumption DEF ToolReturns, ToolFails, ToolReplyLost, database
  <2> HIDE DEF Moved
  <2> QED
    BY <1>2, <2>2, <2>3 DEF ToolMoves, Moved
<1> QED
  BY <1>1, <1>4, <1>6

LEMMA NextIsAny ==
    ASSUME TypeInv, [Next]_vars
    PROVE  [AnyNext]_vars
BY ToolsMove DEF Next, AnyNext

LEMMA SpecIsAny == Spec => AnySpec
<1>1. TypeInv /\ QueueInv /\ [Next]_vars => TypeInv' /\ QueueInv' /\ [AnyNext]_vars
  BY NextIsAny, NextType, NextQueue
<1> QED
  BY InitType, <1>1, PTL DEF Spec, AnySpec

LEMMA TypeInvAlways == AnySpec => [](TypeInv /\ QueueInv)
<1>1. TypeInv /\ QueueInv /\ [AnyNext]_vars => TypeInv' /\ QueueInv'
  BY NextType, NextQueue
<1> QED
  BY InitType, <1>1, PTL DEF AnySpec

\* The stages the tools of the runtime know.
StageInv == \A t \in threads : t.stage \in {"open", "landed", "done"}

LEMMA NextStages ==
    ASSUME TypeInv, StageInv, [Next]_vars
    PROVE  StageInv'
<1>0. threads \subseteq Future
  BY DEF TypeInv, LooseTypeOK
<1>1. ASSUME NEW t \in threads, NEW h
      PROVE  [t EXCEPT !.hold = h].stage = t.stage
  BY <1>0 DEF Future
<1>2. CASE UNCHANGED threads
  BY <1>2 DEF StageInv
<1>3. CASE Tools
  BY <1>3, ToolsMove DEF StageInv
<1>4. ASSUME NEW t \in threads, Collect(t) \/ Expire(t) \/ CloseOutcome(t)
      PROVE  StageInv'
  BY <1>1, <1>4 DEF Collect, Expire, CloseOutcome, StageInv
<1>5. CASE RunOnce
  <2>1. ASSUME NEW s \in Steps, StartAttempt(s) \/ StartCompensation(s)
        PROVE  StageInv'
    <3>1. PICK p : threads' = threads \cup {NewThread(s, p)}
      BY <2>1 DEF StartAttempt, StartCompensation
    <3>2. NewThread(s, p).stage = "open"
      BY DEF NewThread
    <3> QED
      BY <3>1, <3>2 DEF StageInv
  <2>2. ASSUME \/ SelectUnprotected \/ BarrierBlocks \/ EndBatch \/ PromoteDependencyReadySteps
               \/ \E due \in SUBSET {s \in Steps : step[s] = "retry_wait"} : PromoteDueRetries(due)
               \/ \E s \in Steps : SelectApproved(s) \/ EstablishApprovalBarrier(s)
                                   \/ SubmissionFails(s) \/ CompensationSubmissionFails(s)
        PROVE  UNCHANGED threads
    BY <2>2 DEF SelectUnprotected, BarrierBlocks, EndBatch, PromoteDependencyReadySteps,
       PromoteDueRetries, SelectApproved, EstablishApprovalBarrier, SubmissionFails,
       CompensationSubmissionFails
  <2> QED
    BY <1>2, <1>4, <1>5, <2>1, <2>2 DEF RunOnce
<1>6. CASE Operators \/ Recovery
  BY <1>2, <1>6 DEF Operators, Decide, CancelRun, Recovery, StartRecovery, RecoverApplied,
     RecoverNotApplied, RecoverManually, RecoveryRaises, FinishRecovery
<1>7. CASE Process
  <2>1. CASE CloseWaiting \/ BeginClose \/ Restart
    BY <1>2, <2>1 DEF CloseWaiting, BeginClose, Restart
  <2>2. CASE Crash
    BY <2>2 DEF Crash, StageInv
  <2>3. CASE FinishClose \/ StartDriverAgain
    <3> DEFINE handed(t) == [t EXCEPT !.hold = "orphan"]
    <3>1. threads' \subseteq {handed(t) : t \in threads}
      BY <2>3 DEF FinishClose, StartDriverAgain
    <3>2. \A t \in threads : handed(t).stage = t.stage
      BY <1>1
    <3> HIDE DEF handed
    <3> QED
      BY <3>1, <3>2 DEF StageInv
  <2> QED
    BY <1>4, <1>7, <2>1, <2>2, <2>3 DEF Process
<1> QED
  BY <1>2, <1>3, <1>5, <1>6, <1>7 DEF Next, RunTerminal, vars

(***************************************************************************)
(* Type correctness: in every behaviour of the runtime, with any workflow  *)
(* definition and any bounds, run, steps, attempts, approvals and futures  *)
(* are what the tables and dataclasses declare.                            *)
(***************************************************************************)
THEOREM TypeCorrect == Spec => []TypeOK
<1>1. Init => StageInv
  BY DEF Init, StageInv
<1>2. TypeInv /\ StageInv /\ [Next]_vars => StageInv'
  BY NextStages
<1>3. TypeInv /\ StageInv => TypeOK
  <2> SUFFICES ASSUME TypeInv, StageInv
               PROVE  TypeOK
    OBVIOUS
  <2>1. threads \subseteq Thread
    BY DEF TypeInv, LooseTypeOK, StageInv, Future, Thread
  <2> QED
    BY <2>1 DEF TypeInv, LooseTypeOK, TypeOK
<1> QED
  BY <1>1, <1>2, <1>3, SpecIsAny, TypeInvAlways, PTL DEF Spec

-----------------------------------------------------------------------------
(***************************************************************************)
(* Dependency order.  A step that was ever attempted has left "pending":   *)
(* recovery, which sets steps "ready" from whatever state the transition   *)
(* table allows, never touches a step whose dependencies are open.         *)
(***************************************************************************)
AttemptedInv == \A s \in Steps : step[s] = "pending" => DOMAIN attempts["forward"][s] = {}

DependencyInv == AttemptedInv /\ DependencyOrder

\* What a step of the runtime may do to the step runs and the attempt numbers.
Orderly ==
    /\ \A s \in Steps :
          /\ step[s] = "succeeded" => step'[s] = "succeeded"
          /\ step'[s] = "pending" =>
                /\ step[s] = "pending"
                /\ DOMAIN attempts'["forward"][s] = DOMAIN attempts["forward"][s]
          /\ step[s] = "pending" /\ step'[s] # "pending" => DependenciesMet(step, s)

\* An orderly step keeps the dependency invariant.
LEMMA OrderlyKeepsDependencies ==
    ASSUME DependencyInv, Orderly
    PROVE  DependencyInv'
BY DependsOnAssumption
   DEF DependencyInv, AttemptedInv, DependencyOrder, Orderly, DependenciesMet

\* The transition table: succeeded is final, pending is never returned to, and
\* leads to ready only.
LEMMA StepTable ==
    ASSUME NEW q \in StepStates, NEW u, StepCan(q, u)
    PROVE  /\ q # "succeeded"
           /\ u # "pending"
           /\ q = "pending" => u = "ready"
           /\ u = "running" => q = "ready"
BY DEF StepCan, StepTransitions, StepStates

\* Moving one step out of a state other than pending is orderly.
LEMMA MoveIsOrderly ==
    ASSUME LooseTypeOK, NEW s \in Steps, NEW q \in StepStates,
           step[s] # "pending", step[s] # "succeeded", q # "pending",
           step' = [step EXCEPT ![s] = q],
           \A u \in Steps \ {s} :
              DOMAIN attempts'["forward"][u] = DOMAIN attempts["forward"][u]
    PROVE  Orderly
BY DEF Orderly, LooseTypeOK

\* Leaving all steps and all attempt numbers alone is orderly.
LEMMA StandingIsOrderly ==
    ASSUME step' = step,
           \A u \in Steps : DOMAIN attempts'["forward"][u] = DOMAIN attempts["forward"][u]
    PROVE  Orderly
BY DEF Orderly

\* Persisting the outcome of a tool call is orderly.
LEMMA PersistIsOrderly ==
    ASSUME TypeInv, NEW t \in threads, NEW out \in Outcomes \cup {"none"},
           PersistOutcome(t, out)
    PROVE  Orderly
<1>1. SameNumbers /\ "forward" \in Phases /\ t.step \in Steps /\ t.no \in Nat
  BY PersistKeepsNumbers DEF Phases, TypeInv, LooseTypeOK, Future
<1>2. CASE PersistForward(t.step, t.no, out)
  <2> DEFINE q == NextStepState(t.step, t.no, out)
  <2>1. q \in StepStates /\ q # "pending" /\ q # "ready"
    BY <1>1, NextStepStateType DEF NextStepState
  <2>2. StepCan(step[t.step], q) /\ step' = [step EXCEPT ![t.step] = q]
    BY <1>2 DEF PersistForward
  <2>3. step[t.step] \in StepStates
    BY <1>1 DEF TypeInv, LooseTypeOK
  <2> HIDE DEF q
  <2>4. step[t.step] # "pending" /\ step[t.step] # "succeeded"
    BY <2>1, <2>2, <2>3, StepTable
  <2> QED
    BY <1>1, <2>1, <2>2, <2>4, MoveIsOrderly DEF SameNumbers, TypeInv
<1>3. CASE PersistCompensation(t.step, t.no, out)
  BY <1>1, <1>3, StandingIsOrderly DEF SameNumbers, PersistCompensation
<1> QED
  BY <1>2, <1>3 DEF PersistOutcome

\* Resolving an unresolved attempt is orderly.
LEMMA RecoverIsOrderly ==
    ASSUME TypeInv, QueueInv, AttemptedInv, NEW r \in rq,
           RecoverApplied(r) \/ RecoverNotApplied(r) \/ RecoverManually(r)
    PROVE  Orderly
<1>1. r.step \in Steps /\ r.phase \in Phases /\ "forward" \in Phases
  BY DEF TypeInv, LooseTypeOK, AttemptRef, Phases
<1>2. \E a : attempts' = [attempts EXCEPT ![r.phase][r.step][r.no] = a]
  BY DEF RecoverApplied, RecoverNotApplied, RecoverManually, Resolve
<1>3. SameNumbers
  BY <1>1, <1>2, SaveKeepsNumbers DEF TypeInv, LooseTypeOK
<1>4. PICK q \in {"succeeded", "ready", "manual_intervention"} : StepAfterRecovery(r, q)
  BY DEF RecoverApplied, RecoverNotApplied, RecoverManually
<1>5. CASE r.phase = "forward"
  <2>1. StepCan(step[r.step], q) /\ step' = [step EXCEPT ![r.step] = q]
    BY <1>4, <1>5 DEF StepAfterRecovery
  <2>2. step[r.step] \in StepStates /\ q \in StepStates /\ q # "pending"
    BY <1>1, <1>4 DEF TypeInv, LooseTypeOK, StepStates
  <2>3. step[r.step] # "pending"
    BY <1>1, <1>5 DEF QueueInv, AttemptedInv
  <2>4. step[r.step] # "succeeded"
    BY <2>1, <2>2, StepTable
  <2> QED
    BY <1>1, <1>3, <2>1, <2>2, <2>3, <2>4, MoveIsOrderly DEF SameNumbers, TypeInv
<1>6. CASE r.phase # "forward"
  BY <1>1, <1>3, <1>4, <1>6, StandingIsOrderly DEF SameNumbers, StepAfterRecovery
<1> QED
  BY <1>5, <1>6

\* Starting an attempt, whether its submission succeeds or not, is orderly.
LEMMA StartIsOrderly ==
    ASSUME TypeInv, NEW s \in Steps, StartAttempt(s) \/ SubmissionFails(s)
    PROVE  Orderly
<1>1. StepCan(step[s], "running") /\ step[s] \in StepStates
  BY DEF StartAttempt, SubmissionFails, TypeInv, LooseTypeOK
<1>2. step[s] = "ready"
  BY <1>1, StepTable
<1>3. PICK q \in StepStates : q # "pending" /\ step' = [step EXCEPT ![s] = q]
  <2>1. CASE StartAttempt(s)
    BY <2>1 DEF StartAttempt, StepStates
  <2>2. CASE SubmissionFails(s)
    <3>1. Len(attempts["forward"][s]) + 1 \in Nat
      BY DEF TypeInv, LooseTypeOK, Phases
    <3>2. NextStepState(s, Len(attempts["forward"][s]) + 1, "retryable") \in StepStates
      BY <3>1, NextStepStateType DEF Outcomes, Failures
    <3>3. NextStepState(s, Len(attempts["forward"][s]) + 1, "retryable") # "pending"
      BY DEF NextStepState
    <3> QED
      BY <2>2, <3>2, <3>3 DEF SubmissionFails
  <2> QED
    BY <2>1, <2>2
<1>4. PICK a : attempts' = [attempts EXCEPT !["forward"][s] = Append(@, a)]
  BY DEF StartAttempt, SubmissionFails
<1>5. \A u \in Steps \ {s} :
         DOMAIN attempts'["forward"][u] = DOMAIN attempts["forward"][u]
  BY <1>4 DEF TypeInv, LooseTypeOK, Phases
<1> QED
  BY <1>2, <1>3, <1>5, MoveIsOrderly DEF TypeInv

(***************************************************************************)
(* Every step of the runtime is orderly.                                   *)
(***************************************************************************)
LEMMA NextIsOrderly ==
    ASSUME TypeInv, QueueInv, AttemptedInv, [AnyNext]_vars
    PROVE  Orderly
<1> USE DEF database
<1>1. ASSUME step' = step, attempts' = attempts
      PROVE  Orderly
  BY <1>1, StandingIsOrderly
<1>2. CASE UNCHANGED vars
  BY <1>1, <1>2 DEF vars
<1>3. CASE ToolMoves
  BY <1>1, <1>3 DEF ToolMoves
<1>4. ASSUME NEW t \in threads, Collect(t) \/ Expire(t)
      PROVE  Orderly
  <2>1. PICK out \in Outcomes \cup {"none"} : PersistOutcome(t, out)
    BY <1>4 DEF Collect, Expire, Outcomes, Failures, TypeInv, LooseTypeOK, Future
  <2> QED
    BY <2>1, PersistIsOrderly
<1>5. ASSUME NEW due \in SUBSET {s \in Steps : step[s] = "retry_wait"},
             PromoteDueRetries(due)
      PROVE  Orderly
  BY <1>5 DEF PromoteDueRetries, Orderly, TypeInv, LooseTypeOK
<1>6. CASE PromoteDependencyReadySteps
  BY <1>6 DEF PromoteDependencyReadySteps, ReadySteps, Orderly, TypeInv, LooseTypeOK
<1>7. ASSUME NEW s \in Steps, StartCompensation(s) \/ CompensationSubmissionFails(s)
      PROVE  Orderly
  <2>1. PICK a : attempts' = [attempts EXCEPT !["compensation"][s] = Append(@, a)]
    BY <1>7 DEF StartCompensation, CompensationSubmissionFails
  <2>2. attempts'["forward"] = attempts["forward"]
    BY <2>1 DEF TypeInv, LooseTypeOK, Phases
  <2>3. step' = step
    BY <1>7 DEF StartCompensation, CompensationSubmissionFails
  <2> QED
    BY <2>2, <2>3, StandingIsOrderly
<1>8. CASE RunOnce
  <2>1. ASSUME SelectUnprotected \/ BarrierBlocks \/ EndBatch
               \/ \E s \in Steps : SelectApproved(s) \/ EstablishApprovalBarrier(s)
        PROVE  Orderly
    BY <2>1, <1>1 DEF SelectUnprotected, BarrierBlocks, EndBatch,
         SelectApproved, EstablishApprovalBarrier
  <2> QED
    BY <2>1, <1>4, <1>5, <1>6, <1>7, <1>8, StartIsOrderly DEF RunOnce
<1>9. CASE Operators
  BY <1>1, <1>9 DEF Operators, Decide, CancelRun
<1>10. CASE Recovery
  <2>1. ASSUME StartRecovery \/ FinishRecovery \/ \E r \in rq : RecoveryRaises(r)
        PROVE  Orderly
    BY <2>1, <1>1 DEF StartRecovery, FinishRecovery, RecoveryRaises
  <2> QED
    BY <2>1, <1>10, RecoverIsOrderly DEF Recovery
<1>11. CASE Process
  <2>1. ASSUME NEW t \in threads, CloseOutcome(t)
        PROVE  Orderly
    <3>1. PICK out \in Outcomes \cup {"none"} : PersistOutcome(t, out)
      BY <2>1 DEF CloseOutcome, Outcomes, Failures, TypeInv, LooseTypeOK, Future
    <3> QED
      BY <3>1, PersistIsOrderly
  <2>2. ASSUME CloseWaiting \/ BeginClose \/ FinishClose \/ StartDriverAgain \/ Crash \/ Restart
        PROVE  Orderly
    BY <2>2, <1>1 DEF CloseWaiting, BeginClose, FinishClose, StartDriverAgain, Crash, Restart
  <2> QED
    BY <2>1, <2>2, <1>11 DEF Process
<1> QED
  BY <1>2, <1>3, <1>8, <1>9, <1>10, <1>11 DEF AnyNext, RunTerminal

(***************************************************************************)
(* No step of a workflow leaves "pending" before everything it depends on  *)
(* succeeded, through any interleaving of retries, approvals, crashes and  *)
(* recoveries and for every dependency graph.                              *)
(***************************************************************************)
THEOREM DependenciesRespected == Spec => []DependencyOrder
<1>1. Init => DependencyInv
  BY DEF Init, DependencyInv, AttemptedInv, DependencyOrder, Phases
<1>2. TypeInv /\ QueueInv /\ DependencyInv /\ [AnyNext]_vars
      => TypeInv' /\ QueueInv' /\ DependencyInv'
  BY NextType, NextQueue, NextIsOrderly, OrderlyKeepsDependencies DEF DependencyInv
<1>3. DependencyInv => DependencyOrder
  BY DEF DependencyInv
<1> QED
  BY InitType, <1>1, <1>2, <1>3, SpecIsAny, PTL DEF AnySpec

-----------------------------------------------------------------------------
(***************************************************************************)
(* Approval.  Between the selection of a high-risk step and its start,     *)
(* units of work of other actors commit: the batch holds that step alone,  *)
(* its approval still binds what the registry executes, and nothing of the *)
(* run is in flight or unknown.                                            *)
(***************************************************************************)
BatchInv ==
    pc = "start" =>
        \A s \in batch \cap Protected :
            /\ batch = {s}
            /\ \E i \in DOMAIN approvals :
                  approvals[i] = [step |-> s, binding |-> binding, status |-> "approved"]
            /\ \A u \in Steps : step[u] \notin {"running", "result_unknown"}

\* Only starting a forward attempt adds a forward attempt.
LEMMA NextNumbers ==
    ASSUME TypeInv, [AnyNext]_vars
    PROVE  \/ \A u \in Steps :
                 DOMAIN attempts'["forward"][u] = DOMAIN attempts["forward"][u]
           \/ \E s \in Steps : StartAttempt(s) \/ SubmissionFails(s)
<1> DEFINE Same == \A u \in Steps :
                      DOMAIN attempts'["forward"][u] = DOMAIN attempts["forward"][u]
<1> USE DEF database
<1>0. ASSUME SameNumbers
      PROVE  Same
  BY <1>0 DEF SameNumbers, Phases
<1>1. CASE attempts' = attempts
  BY <1>1
<1>2. ASSUME NEW t \in threads, Collect(t) \/ Expire(t) \/ CloseOutcome(t)
      PROVE  Same
  <2>1. \E out : PersistOutcome(t, out)
    BY <1>2 DEF Collect, Expire, CloseOutcome
  <2> QED
    BY <2>1, <1>0, PersistKeepsNumbers
<1>3. ASSUME NEW s \in Steps, StartCompensation(s) \/ CompensationSubmissionFails(s)
      PROVE  Same
  <2>1. PICK a : attempts' = [attempts EXCEPT !["compensation"][s] = Append(@, a)]
    BY <1>3 DEF StartCompensation, CompensationSubmissionFails
  <2>2. attempts'["forward"] = attempts["forward"]
    BY <2>1 DEF TypeInv, LooseTypeOK, Phases
  <2> QED
    BY <2>2
<1>4. ASSUME NEW r \in rq, RecoverApplied(r) \/ RecoverNotApplied(r) \/ RecoverManually(r)
      PROVE  Same
  <2>1. r.step \in Steps /\ r.phase \in Phases
    BY DEF TypeInv, LooseTypeOK, AttemptRef
  <2>2. \E a : attempts' = [attempts EXCEPT ![r.phase][r.step][r.no] = a]
    BY <1>4 DEF RecoverApplied, RecoverNotApplied, RecoverManually, Resolve
  <2> QED
    BY <2>1, <2>2, <1>0, SaveKeepsNumbers DEF TypeInv, LooseTypeOK
<1> HIDE DEF Same
<1>5. CASE UNCHANGED vars
  BY <1>1, <1>5 DEF vars, Same
<1>6. CASE ToolMoves
  BY <1>1, <1>6 DEF Same, ToolMoves
<1>7. CASE RunOnce
  <2>1. ASSUME \/ SelectUnprotected \/ BarrierBlocks \/ EndBatch
               \/ PromoteDependencyReadySteps
               \/ \E s \in Steps : SelectApproved(s) \/ EstablishApprovalBarrier(s)
               \/ \E due \in SUBSET {s \in Steps : step[s] = "retry_wait"} :
                     PromoteDueRetries(due)
        PROVE  Same
    BY <2>1 DEF Same, SelectUnprotected, BarrierBlocks, EndBatch,
         SelectApproved, EstablishApprovalBarrier, PromoteDependencyReadySteps,
         PromoteDueRetries
  <2>2. \/ Same
        \/ \E s \in Steps : StartAttempt(s) \/ SubmissionFails(s)
    BY <2>1, <1>2, <1>3, <1>7, Zenon DEF RunOnce
  <2> QED
    BY <2>2 DEF Same
<1>8. CASE Operators
  BY <1>8 DEF Operators, Decide, CancelRun
<1>9. CASE Recovery
  <2>1. ASSUME StartRecovery \/ FinishRecovery \/ \E r \in rq : RecoveryRaises(r)
        PROVE  Same
    BY <2>1 DEF Same, StartRecovery, FinishRecovery, RecoveryRaises
  <2>2. Same
    BY <2>1, <1>4, <1>9 DEF Recovery
  <2> QED
    BY <2>2 DEF Same
<1>10. CASE Process
  <2>1. ASSUME CloseWaiting \/ BeginClose \/ FinishClose \/ StartDriverAgain \/ Crash \/ Restart
        PROVE  Same
    BY <2>1 DEF Same, CloseWaiting, BeginClose, FinishClose, StartDriverAgain, Crash, Restart
  <2>2. Same
    BY <2>1, <1>2, <1>10 DEF Process
  <2> QED
    BY <2>2 DEF Same
<1> QED
  BY <1>5, <1>6, <1>7, <1>8, <1>9, <1>10 DEF AnyNext, RunTerminal

\* Sequences with the same domain are equally long.
LEMMA SameDomainSameLen ==
    ASSUME NEW S, NEW f \in Seq(S), NEW g \in Seq(S), DOMAIN f = DOMAIN g
    PROVE  Len(f) = Len(g)
<1>1. Len(f) \in Nat /\ Len(g) \in Nat /\ 1..Len(f) = 1..Len(g)
  BY LenProperties
<1> QED
  BY <1>1

\* A drained run has no step running or unknown.
LEMMA DrainedIsQuiet ==
    ASSUME Drained
    PROVE  \A u \in Steps : step[u] \notin {"running", "result_unknown"}
BY DEF Drained, RecoveryWork, RecoveryRequired, Owned

(***************************************************************************)
(* The batch invariant survives every step.                                *)
(***************************************************************************)
LEMMA NextBatch ==
    ASSUME TypeInv, BatchInv, [AnyNext]_vars
    PROVE  BatchInv'
<1> USE DEF database
<1>1. ASSUME pc' # "start"
      PROVE  BatchInv'
  BY <1>1 DEF BatchInv
<1>2. ASSUME UNCHANGED <<pc, batch, step, approvals, binding>>
      PROVE  BatchInv'
  BY <1>2 DEF BatchInv
<1>3. ASSUME batch' \cap Protected = {}
      PROVE  BatchInv'
  BY <1>3 DEF BatchInv
<1>4. CASE ToolMoves
  BY <1>2, <1>4 DEF ToolMoves
<1>5. CASE SelectUnprotected
  BY <1>3, <1>5 DEF SelectUnprotected, FirstSteps
<1>6. ASSUME NEW s \in Steps, SelectApproved(s)
      PROVE  BatchInv'
  <2>1. batch' \subseteq {s}
    BY <1>6 DEF SelectApproved, FirstSteps
  <2>2. PICK i \in DOMAIN approvals :
           approvals[i].status = "approved" /\ Matches(approvals[i], s)
    BY <1>6 DEF SelectApproved, Approved
  <2>3. approvals[i] \in ApprovalRequest
    BY DEF TypeInv, LooseTypeOK
  <2>4. approvals[i] = [step |-> s, binding |-> binding, status |-> "approved"]
    BY <2>2, <2>3 DEF ApprovalRequest, Matches
  <2>5. \A u \in Steps : step[u] \notin {"running", "result_unknown"}
    BY <1>6, DrainedIsQuiet DEF SelectApproved
  <2>6. UNCHANGED <<approvals, binding, step>>
    BY <1>6 DEF SelectApproved
  <2> QED
    BY <2>1, <2>4, <2>5, <2>6 DEF BatchInv
<1>7. ASSUME NEW s \in Steps, StartAttempt(s) \/ SubmissionFails(s)
      PROVE  BatchInv'
  <2>1. pc = "start" /\ s \in batch /\ batch' \subseteq batch \ {s}
    BY <1>7 DEF StartAttempt, SubmissionFails, FirstOfBatch
  <2>2. batch' \cap Protected = {}
    BY <2>1 DEF BatchInv
  <2> QED
    BY <1>3, <2>2
<1>8. CASE RunOnce
  <2>1. ASSUME \/ BarrierBlocks \/ EndBatch
               \/ PromoteDependencyReadySteps
               \/ \E t \in threads : Collect(t) \/ Expire(t)
               \/ \E due \in SUBSET {s \in Steps : step[s] = "retry_wait"} :
                     PromoteDueRetries(due)
               \/ \E s \in Steps : EstablishApprovalBarrier(s)
               \/ \E s \in Steps : StartCompensation(s) \/ CompensationSubmissionFails(s)
        PROVE  BatchInv'
    <3>1. pc' # "start"
      BY <2>1 DEF BarrierBlocks, EndBatch, PromoteDependencyReadySteps,
           Collect, Expire, PromoteDueRetries, EstablishApprovalBarrier,
           StartCompensation, CompensationSubmissionFails, Compensating
    <3> QED
      BY <1>1, <3>1
  <2> QED
    BY <2>1, <1>5, <1>6, <1>7, <1>8 DEF RunOnce
<1>9. ASSUME NEW i \in DOMAIN approvals, NEW d \in {"approved", "rejected"}, Decide(i, d)
      PROVE  BatchInv'
  <2>1. \A k \in DOMAIN approvals : approvals[k].status = "approved" =>
           k \in DOMAIN approvals' /\ approvals'[k] = approvals[k]
    BY <1>9 DEF Decide
  <2>2. UNCHANGED <<pc, batch, step, binding>>
    BY <1>9 DEF Decide
  <2> QED
    BY <2>1, <2>2 DEF BatchInv
<1>10. CASE CancelRun
  BY <1>2, <1>10 DEF CancelRun
<1>11. CASE Recovery
  <2>1. pc' # "start"
    BY <1>11 DEF Recovery, StartRecovery, RecoverApplied, RecoverNotApplied,
         RecoverManually, RecoveryRaises, FinishRecovery, NextToRecover
  <2> QED
    BY <1>1, <2>1
<1>12. CASE Process
  <2>1. pc' # "start"
    BY <1>12 DEF Process, CloseWaiting, BeginClose, CloseOutcome, FinishClose, StartDriverAgain, Crash,
         Restart
  <2> QED
    BY <1>1, <2>1
<1>13. CASE UNCHANGED vars
  BY <1>2, <1>13 DEF vars
<1> QED
  BY <1>4, <1>8, <1>9, <1>10, <1>11, <1>12, <1>13 DEF AnyNext, Operators, RunTerminal

\* A high-risk step is started under its approval only.
LEMMA StartsUnderApproval ==
    ASSUME TypeInv, TypeInv', BatchInv, [AnyNext]_vars
    PROVE  ProtectedStart
<1> SUFFICES ASSUME NEW s \in Protected,
                    Len(attempts'["forward"][s]) > Len(attempts["forward"][s])
             PROVE  /\ \E i \in DOMAIN approvals : approvals[i] =
                          [step |-> s, binding |-> binding, status |-> "approved"]
                    /\ \A u \in Steps : step[u] \notin {"running", "result_unknown"}
  BY DEF ProtectedStart
<1>1. /\ s \in Steps
      /\ attempts["forward"][s] \in Seq(Attempt)
      /\ attempts'["forward"][s] \in Seq(Attempt)
  BY ParametersAssumption DEF TypeInv, LooseTypeOK, Phases
<1>2. DOMAIN attempts'["forward"][s] # DOMAIN attempts["forward"][s]
  <2> SUFFICES ASSUME DOMAIN attempts'["forward"][s] = DOMAIN attempts["forward"][s]
               PROVE  FALSE
    OBVIOUS
  <2>1. Len(attempts'["forward"][s]) = Len(attempts["forward"][s])
    BY <1>1, SameDomainSameLen
  <2> QED
    BY <1>1, <2>1
<1>3. PICK u \in Steps : StartAttempt(u) \/ SubmissionFails(u)
  BY <1>1, <1>2, NextNumbers
<1>4. PICK a : attempts' = [attempts EXCEPT !["forward"][u] = Append(@, a)]
  BY <1>3 DEF StartAttempt, SubmissionFails
<1>5. u = s
  BY <1>1, <1>2, <1>4 DEF TypeInv, LooseTypeOK, Phases
<1>6. pc = "start" /\ s \in batch \cap Protected
  BY <1>3, <1>5 DEF StartAttempt, SubmissionFails, FirstOfBatch
<1> QED
  BY <1>6 DEF BatchInv

LEMMA BatchInvAlways == AnySpec => []BatchInv
<1>1. Init => BatchInv
  BY DEF Init, BatchInv
<1>2. TypeInv /\ BatchInv /\ [AnyNext]_vars => BatchInv'
  BY NextBatch
<1> QED
  BY <1>1, <1>2, TypeInvAlways, PTL DEF AnySpec

(***************************************************************************)
(* Whatever happens between the check of an approval and the start of the  *)
(* step it approves, a high-risk step starts only under an approval of     *)
(* exactly what is executed and with nothing else of the run in flight:    *)
(* for every definition, any number of redeployments, faults and workers.  *)
(***************************************************************************)
THEOREM ApprovalsHold == Spec => ProtectedStartsApproved
<1>1. TypeInv /\ TypeInv' /\ BatchInv /\ [AnyNext]_vars => [ProtectedStart]_vars
  BY StartsUnderApproval
<1> QED
  BY <1>1, SpecIsAny, TypeInvAlways, BatchInvAlways, PTL DEF AnySpec, ProtectedStartsApproved
=============================================================================
