---------------------------- MODULE AttemptProofs ----------------------------
(***************************************************************************)
(* How the attempts of a run, the futures of the coordinator and the queue *)
(* of recovery fit together, and what follows from it: one attempt of a    *)
(* step at a time, outcomes that find their attempt, nothing left behind   *)
(* by recovery, a run that waits for approval exactly while an operator    *)
(* can decide, and a compensating run that has an effect to undo.          *)
(*                                                                         *)
(* All of it rests on recovery having the run for itself.  Started in a    *)
(* process that coordinates the run (LiveRecovery), driver.start() resolves*)
(* attempts whose futures still run unless the steps are ordered one after *)
(* the other, as those of the order-service upgrade are from its precheck  *)
(* on; the two inspections before it only read.                            *)
(***************************************************************************)
EXTENDS WorkflowRuntimeProofs, FiniteSetTheorems

\* The steps are ordered by pos, each depending on the one before it.
IsChain(pos) ==
    /\ \A s, u \in Steps : pos[s] = pos[u] => s = u
    /\ \A s \in Steps : pos[s] = 0 \/ \E d \in DependsOn[s] : pos[d] = pos[s] - 1

Positions == [Steps -> 0..Cardinality(Steps)]

\* Recovery runs in a new process only, or the steps form a chain.
RecoveryAlone == LiveRecovery => \E pos \in Positions : IsChain(pos)

-----------------------------------------------------------------------------
(* The invariant all the others use.                                       *)

\* Every step before one that left "pending" has succeeded.
ChainInv ==
    \A pos \in Positions : IsChain(pos) =>
        \A u, v \in Steps : step[u] # "pending" /\ pos[v] < pos[u] => step[v] = "succeeded"

\* A run that never ran has no attempt.
UntouchedInv ==
    run = "pending" => \A s \in Steps : DOMAIN attempts["forward"][s] = {}

(***************************************************************************)
(* A compensation starts on a step that succeeded, in a compensating run   *)
(* that was drained; no step runs again.                                   *)
(***************************************************************************)
CompensationInv ==
    \A s \in Steps : DOMAIN attempts["compensation"][s] # {} =>
        /\ step[s] = "succeeded"
        /\ run \in {"compensating", "compensated", "manual_intervention"}
        /\ \A u \in Steps : step[u] \notin {"running", "result_unknown"}

\* Only the latest compensation attempt of a step may be running.
OneCompensation ==
    \A s \in Steps : \A n \in DOMAIN attempts["compensation"][s] :
        attempts["compensation"][s][n].status = "running" =>
            n = Len(attempts["compensation"][s])

\* The futures the coordinator owns belong to different steps, and to running
\* attempts.
OwnedInv ==
    /\ \A t \in threads : t.hold = "owned" =>
          /\ t.no \in DOMAIN attempts[t.phase][t.step]
          /\ attempts[t.phase][t.step][t.no].status = "running"
    /\ \A t, u \in threads :
          t.hold = "owned" /\ u.hold = "owned" /\ t.step = u.step => t = u

\* A process that is down or starting owns no future.
ProcessInv ==
    pc \in {"down", "boot", "recover"} => \A t \in threads : t.hold # "owned"

\* Recovery has at most one attempt of a step to resolve.
RecoverInv ==
    /\ \A r, c \in rq : r.step = c.step => r = c
    /\ \A r \in rq : \/ attempts[r.phase][r.step][r.no].status = "running"
                     \/ step[r.step] = "result_unknown"

AttemptInv ==
    /\ ChainInv
    /\ UntouchedInv
    /\ OneForwardAttempt
    /\ CompensationInv
    /\ OneCompensation
    /\ OwnedInv
    /\ ProcessInv
    /\ RecoverInv

-----------------------------------------------------------------------------
(* The invariant built on it.                                              *)

(***************************************************************************)
(* Who will complete a running attempt of a run that is not over: its      *)
(* future, recovery, or the recovery of the next process.                  *)
(***************************************************************************)
CompletionInv ==
    (run \notin TerminalRunStates /\ pc \notin {"down", "boot"}) =>
        \A p \in Phases, s \in Steps : \A n \in DOMAIN attempts[p][s] :
            attempts[p][s][n].status = "running" =>
                \/ \E t \in threads : /\ t.hold = "owned"
                                      /\ t.step = s /\ t.phase = p /\ t.no = n
                \/ [step |-> s, phase |-> p, no |-> n] \in rq

-----------------------------------------------------------------------------
(* What the actions do to the attempts and to the run.                     *)

\* Attempt n of step s in phase p is over; the others are as they were.
Completed(p, s, n) ==
    /\ n \in DOMAIN attempts[p][s]
    /\ \A q \in Phases, u \in Steps :
          /\ DOMAIN attempts'[q][u] = DOMAIN attempts[q][u]
          /\ Len(attempts'[q][u]) = Len(attempts[q][u])
          /\ \A k \in DOMAIN attempts[q][u] :
                (q # p \/ u # s \/ k # n) => attempts'[q][u][k] = attempts[q][u][k]
    /\ attempts'[p][s][n].status # "running"

\* Step s has one more attempt in phase p, and that one is a.
Added(p, s, a) ==
    /\ \A q \in Phases, u \in Steps : (q # p \/ u # s) =>
          attempts'[q][u] = attempts[q][u]
    /\ DOMAIN attempts[p][s] = 1..Len(attempts[p][s])
    /\ Len(attempts'[p][s]) = Len(attempts[p][s]) + 1
    /\ DOMAIN attempts'[p][s] = 1..(Len(attempts[p][s]) + 1)
    /\ Len(attempts[p][s]) \in Nat
    /\ attempts'[p][s][Len(attempts[p][s]) + 1] = a
    /\ \A k \in DOMAIN attempts[p][s] : attempts'[p][s][k] = attempts[p][s][k]

\* a is saved as attempt n of step s in phase p.
Saved(p, s, n, a) == attempts' = [attempts EXCEPT ![p][s][n] = a]

LEMMA SaveCompletes ==
    ASSUME attempts \in [Phases -> [Steps -> Seq(Attempt)]],
           attempts' \in [Phases -> [Steps -> Seq(Attempt)]],
           NEW p \in Phases, NEW s \in Steps, NEW n \in DOMAIN attempts[p][s],
           NEW a, a.status # "running",
           Saved(p, s, n, a)
    PROVE  Completed(p, s, n) /\ attempts'[p][s][n] = a
<1>1. \A q \in Phases, u \in Steps :
         /\ DOMAIN attempts'[q][u] = DOMAIN attempts[q][u]
         /\ \A k \in DOMAIN attempts[q][u] :
                (q # p \/ u # s \/ k # n) => attempts'[q][u][k] = attempts[q][u][k]
  BY DEF Saved
<1>2. \A q \in Phases, u \in Steps : Len(attempts'[q][u]) = Len(attempts[q][u])
  BY <1>1, SameDomainSameLen
<1>3. attempts'[p][s][n] = a
  BY DEF Saved
<1> QED
  BY <1>1, <1>2, <1>3 DEF Completed

LEMMA AppendAdds ==
    ASSUME attempts \in [Phases -> [Steps -> Seq(Attempt)]],
           NEW p \in Phases, NEW s \in Steps, NEW a \in Attempt,
           attempts' = [attempts EXCEPT ![p][s] = Append(@, a)]
    PROVE  Added(p, s, a)
<1> DEFINE f == attempts[p][s]
<1>1. f \in Seq(Attempt) /\ Len(f) \in Nat /\ DOMAIN f = 1..Len(f)
  OBVIOUS
<1>2. attempts'[p][s] = Append(f, a)
  OBVIOUS
<1>3. \A q \in Phases, u \in Steps : (q # p \/ u # s) => attempts'[q][u] = attempts[q][u]
  OBVIOUS
<1> HIDE DEF f
<1>4. /\ Len(Append(f, a)) = Len(f) + 1
      /\ DOMAIN Append(f, a) = 1..(Len(f) + 1)
      /\ Append(f, a)[Len(f) + 1] = a
      /\ \A k \in 1..Len(f) : Append(f, a)[k] = f[k]
  BY <1>1, AppendProperties, LenProperties
<1> QED
  BY <1>1, <1>2, <1>3, <1>4 DEF Added, f

CompensationStates == {"compensating", "compensated", "manual_intervention"}

\* A run never returns to pending, and does not go forward from compensation.
RunMovesOn ==
    /\ run' = "pending" => run = "pending"
    /\ run \in CompensationStates => run' \in CompensationStates

\* Persisting an outcome moves the run on.
LEMMA PersistMovesOn ==
    ASSUME TypeInv, NEW t \in threads, NEW out, PersistOutcome(t, out)
    PROVE  RunMovesOn
<1>1. CASE PersistForward(t.step, t.no, out)
  <2> DEFINE q == NextStepState(t.step, t.no, out)
             at == [attempts EXCEPT !["forward"][t.step][t.no] = AttemptAfter(out)]
  <2>1. run' = RunAfterForward(run, t.step, q, at)
    BY <1>1 DEF PersistForward
  <2> HIDE DEF q, at
  <2> QED
    BY <2>1 DEF RunAfterForward, RunMovesOn, CompensationStates
<1>2. CASE PersistCompensation(t.step, t.no, out)
  <2>1. run' \in {"manual_intervention", "compensated", run}
    BY <1>2 DEF PersistCompensation
  <2> QED
    BY <2>1 DEF RunMovesOn, CompensationStates
<1> QED
  BY <1>1, <1>2 DEF PersistOutcome

\* Every step of the runtime moves the run on.
LEMMA NextMovesOn ==
    ASSUME TypeInv, [AnyNext]_vars
    PROVE  RunMovesOn
<1> USE DEF database
<1>0. run \in RunStates
  BY DEF TypeInv, LooseTypeOK
<1>1. CASE run' = run
  BY <1>1 DEF RunMovesOn
<1>2. CASE UNCHANGED vars
  BY <1>1, <1>2 DEF vars
<1>3. CASE ToolMoves
  BY <1>1, <1>3 DEF ToolMoves
<1>4. ASSUME NEW t \in threads, Collect(t) \/ Expire(t) \/ CloseOutcome(t)
      PROVE  RunMovesOn
  BY <1>4, PersistMovesOn DEF Collect, Expire, CloseOutcome
<1>5. ASSUME NEW s \in Steps, EstablishApprovalBarrier(s)
      PROVE  RunMovesOn
  BY <1>0, <1>1, <1>5 DEF EstablishApprovalBarrier, RunMovesOn, CompensationStates,
       RunCan, RunTransitions
<1>6. ASSUME NEW s \in Steps, StartAttempt(s)
      PROVE  RunMovesOn
  BY <1>6 DEF StartAttempt, RunMovesOn, CompensationStates, ForwardRunStates
<1>7. ASSUME NEW s \in Steps, SubmissionFails(s)
      PROVE  RunMovesOn
  <2>1. run \in ForwardRunStates /\ \E q, at : run' = RunAfterForward("running", s, q, at)
    BY <1>7 DEF SubmissionFails
  <2> QED
    BY <2>1 DEF RunAfterForward, RunMovesOn, CompensationStates, ForwardRunStates
<1>8. ASSUME NEW s \in Steps, StartCompensation(s) \/ CompensationSubmissionFails(s)
      PROVE  RunMovesOn
  BY <1>8 DEF StartCompensation, CompensationSubmissionFails, RunMovesOn,
       CompensationStates
<1>9. CASE RunOnce
  <2>1. ASSUME \/ SelectUnprotected \/ BarrierBlocks \/ EndBatch
               \/ PromoteDependencyReadySteps
               \/ \E s \in Steps : SelectApproved(s)
               \/ \E due \in SUBSET {s \in Steps : step[s] = "retry_wait"} :
                     PromoteDueRetries(due)
        PROVE  run' = run
    BY <2>1 DEF SelectUnprotected, BarrierBlocks, EndBatch, SelectApproved,
         PromoteDependencyReadySteps, PromoteDueRetries
  <2> QED
    BY <2>1, <1>1, <1>4, <1>5, <1>6, <1>7, <1>8, <1>9 DEF RunOnce
<1>10. CASE Operators
  <2>1. ASSUME NEW i \in DOMAIN approvals, NEW d \in {"approved", "rejected"}, Decide(i, d)
        PROVE  RunMovesOn
    BY <2>1 DEF Decide, RejectionTarget, RunMovesOn, CompensationStates
  <2>2. CASE CancelRun
    BY <1>0, <2>2 DEF CancelRun, RunMovesOn, CompensationStates, RunCan, RunTransitions
  <2> QED
    BY <2>1, <2>2, <1>10 DEF Operators
<1>11. CASE Recovery
  <2>1. ASSUME StartRecovery \/ FinishRecovery
               \/ \E r \in rq : RecoveryRaises(r) \/ RecoverNotApplied(r)
        PROVE  run' = run
    BY <2>1 DEF StartRecovery, FinishRecovery, RecoveryRaises, RecoverNotApplied
  <2>2. ASSUME NEW r \in rq, RecoverApplied(r) \/ RecoverManually(r)
        PROVE  RunMovesOn
    BY <2>2 DEF RecoverApplied, RecoverManually, RunAfterApplied, RunMovesOn,
         CompensationStates
  <2> QED
    BY <2>1, <2>2, <1>1, <1>11 DEF Recovery
<1>12. CASE Process
  <2>1. ASSUME CloseWaiting \/ BeginClose \/ FinishClose \/ StartDriverAgain \/ Crash \/ Restart
        PROVE  run' = run
    BY <2>1 DEF CloseWaiting, BeginClose, FinishClose, StartDriverAgain, Crash, Restart
  <2> QED
    BY <2>1, <1>1, <1>4, <1>12 DEF Process
<1> QED
  BY <1>2, <1>3, <1>9, <1>10, <1>11, <1>12 DEF AnyNext, RunTerminal

-----------------------------------------------------------------------------
(* The database part of the invariant.                                     *)

DatabaseInv == UntouchedInv /\ OneForwardAttempt /\ CompensationInv /\ OneCompensation

\* An orderly step keeps a chain of steps in order.
LEMMA OrderlyKeepsChain ==
    ASSUME ChainInv, DependencyInv, Orderly
    PROVE  ChainInv'
<1> SUFFICES ASSUME NEW pos \in Positions, IsChain(pos), NEW u \in Steps, NEW v \in Steps,
                    step'[u] # "pending", pos[v] < pos[u]
             PROVE  step'[v] = "succeeded"
  BY DEF ChainInv
<1>1. \A x \in Steps : pos[x] \in Nat
  BY DEF Positions
<1>2. CASE step[u] # "pending"
  BY <1>2 DEF ChainInv, Orderly
<1>3. CASE step[u] = "pending"
  <2>1. DependenciesMet(step, u)
    BY <1>3 DEF Orderly
  <2>2. PICK d \in DependsOn[u] : pos[d] = pos[u] - 1
    BY <1>1 DEF IsChain
  <2>3. d \in Steps /\ step[d] = "succeeded"
    BY <2>1, <2>2, DependsOnAssumption DEF DependenciesMet
  <2>4. step[v] = "succeeded"
    <3>1. CASE pos[v] < pos[d]
      BY <2>3, <3>1 DEF ChainInv
    <3>2. CASE pos[v] = pos[d]
      BY <2>3, <3>2 DEF IsChain
    <3> QED
      BY <1>1, <2>2, <2>3, <3>1, <3>2
  <2> QED
    BY <2>4 DEF Orderly
<1> QED
  BY <1>2, <1>3

\* The steps and attempts stay; the run may move on.
LEMMA StandingDatabase ==
    ASSUME DatabaseInv, UNCHANGED <<step, attempts>>, RunMovesOn
    PROVE  DatabaseInv'
BY DEF DatabaseInv, UntouchedInv, OneForwardAttempt, CompensationInv, OneCompensation,
       RunMovesOn, CompensationStates

\* Steps move among the states in which none of them runs.
LEMMA PromotedDatabase ==
    ASSUME DatabaseInv, RunMovesOn, UNCHANGED attempts,
           \A s \in Steps : \/ step'[s] = step[s]
                            \/ /\ step[s] \in {"pending", "ready", "retry_wait"}
                               /\ step'[s] = "ready"
    PROVE  DatabaseInv'
<1>1. UntouchedInv' /\ OneCompensation'
  BY DEF DatabaseInv, UntouchedInv, OneCompensation, RunMovesOn
<1>2. OneForwardAttempt'
  BY DEF DatabaseInv, OneForwardAttempt
<1>3. CompensationInv'
  BY DEF DatabaseInv, CompensationInv, RunMovesOn, CompensationStates
<1> QED
  BY <1>1, <1>2, <1>3 DEF DatabaseInv

\* The attempt of a running or unknown step is over, and the step with it.
LEMMA ForwardCompleted ==
    ASSUME DatabaseInv, RunMovesOn, step \in [Steps -> StepStates],
           attempts \in [Phases -> [Steps -> Seq(Attempt)]],
           NEW s \in Steps, NEW n, Completed("forward", s, n),
           \/ step[s] = "running" /\ attempts["forward"][s][n].status = "running"
           \/ step[s] = "result_unknown",
           NEW q, q # "running", step' = [step EXCEPT ![s] = q]
    PROVE  DatabaseInv'
<1> USE DEF Phases
<1>1. UntouchedInv'
  BY DEF DatabaseInv, UntouchedInv, RunMovesOn, Completed
<1>2. OneForwardAttempt'
  <2> SUFFICES ASSUME NEW u \in Steps
               PROVE  /\ \A k \in DOMAIN attempts'["forward"][u] :
                            attempts'["forward"][u][k].status = "running" =>
                               k = Len(attempts'["forward"][u]) /\ step'[u] = "running"
                      /\ step'[u] = "running" =>
                            /\ Len(attempts'["forward"][u]) > 0
                            /\ attempts'["forward"][u][Len(attempts'["forward"][u])].status
                                  = "running"
    BY DEF OneForwardAttempt
  <2>1. /\ \A k \in DOMAIN attempts["forward"][u] :
              attempts["forward"][u][k].status = "running" =>
                 k = Len(attempts["forward"][u]) /\ step[u] = "running"
        /\ step[u] = "running" =>
              /\ Len(attempts["forward"][u]) > 0
              /\ attempts["forward"][u][Len(attempts["forward"][u])].status = "running"
    BY DEF DatabaseInv, OneForwardAttempt
  <2>2. /\ DOMAIN attempts'["forward"][u] = DOMAIN attempts["forward"][u]
        /\ Len(attempts'["forward"][u]) = Len(attempts["forward"][u])
    BY DEF Completed
  <2>3. CASE u = s
    <3>1. step'[u] # "running"
      BY <2>3
    <3>2. ASSUME NEW k \in DOMAIN attempts["forward"][s], k # n
          PROVE  attempts'["forward"][s][k].status # "running"
      <4>1. attempts'["forward"][s][k] = attempts["forward"][s][k]
        BY <3>2 DEF Completed
      <4>2. n \in DOMAIN attempts["forward"][s]
        BY DEF Completed
      <4> QED
        BY <2>1, <2>3, <3>2, <4>1, <4>2
    <3>3. attempts'["forward"][s][n].status # "running"
      BY DEF Completed
    <3> QED
      BY <2>2, <2>3, <3>1, <3>2, <3>3
  <2>4. CASE u # s
    <3>1. step'[u] = step[u]
      BY <2>4
    <3>2. \A k \in DOMAIN attempts["forward"][u] :
             attempts'["forward"][u][k] = attempts["forward"][u][k]
      BY <2>4 DEF Completed
    <3>3. attempts["forward"][u][Len(attempts["forward"][u])].status = "running"
          /\ Len(attempts["forward"][u]) > 0 =>
             attempts'["forward"][u][Len(attempts["forward"][u])].status = "running"
      BY <3>2, LenProperties
    <3> QED
      BY <2>1, <2>2, <3>1, <3>2, <3>3
  <2> QED
    BY <2>3, <2>4
<1>3. \A u \in Steps : DOMAIN attempts["compensation"][u] = {}
  BY DEF DatabaseInv, CompensationInv
<1>4. \A u \in Steps : DOMAIN attempts'["compensation"][u] = {}
  BY <1>3 DEF Completed
<1>5. CompensationInv' /\ OneCompensation'
  BY <1>4 DEF CompensationInv, OneCompensation
<1> QED
  BY <1>1, <1>2, <1>5 DEF DatabaseInv

\* A compensation is over.
LEMMA CompensationCompleted ==
    ASSUME DatabaseInv, RunMovesOn, UNCHANGED step,
           attempts \in [Phases -> [Steps -> Seq(Attempt)]],
           NEW s \in Steps, NEW n, Completed("compensation", s, n)
    PROVE  DatabaseInv'
<1> USE DEF Phases
<1>1. \A u \in Steps : /\ DOMAIN attempts'["forward"][u] = DOMAIN attempts["forward"][u]
                       /\ Len(attempts'["forward"][u]) = Len(attempts["forward"][u])
                       /\ DOMAIN attempts'["compensation"][u] = DOMAIN attempts["compensation"][u]
                       /\ Len(attempts'["compensation"][u]) = Len(attempts["compensation"][u])
  BY DEF Completed
<1>2. \A u \in Steps : \A k \in DOMAIN attempts["forward"][u] :
         attempts'["forward"][u][k] = attempts["forward"][u][k]
  BY DEF Completed
<1>3. UntouchedInv'
  BY <1>1 DEF DatabaseInv, UntouchedInv, RunMovesOn
<1>4. OneForwardAttempt'
  <2>1. \A u \in Steps : Len(attempts["forward"][u]) > 0 =>
           Len(attempts["forward"][u]) \in DOMAIN attempts["forward"][u]
    BY LenProperties
  <2> QED
    BY <1>1, <1>2, <2>1 DEF DatabaseInv, OneForwardAttempt
<1>5. CompensationInv'
  BY <1>1 DEF DatabaseInv, CompensationInv, RunMovesOn, CompensationStates
<1>6. OneCompensation'
  BY <1>1 DEF DatabaseInv, OneCompensation, Completed
<1> QED
  BY <1>3, <1>4, <1>5, <1>6 DEF DatabaseInv

\* What Refs lists.
LEMMA RefsMembers ==
    ASSUME NEW s, NEW p \in Phases, NEW n \in DOMAIN attempts[p][s]
    PROVE  /\ [step |-> s, phase |-> p, no |-> n] \in Refs(s)
           /\ StatusOf([step |-> s, phase |-> p, no |-> n]) = attempts[p][s][n].status
BY DEF Refs, StatusOf

LEMMA RefsAreAttempts ==
    ASSUME NEW s, NEW r \in Refs(s)
    PROVE  /\ r.step = s /\ r.phase \in Phases /\ r.no \in DOMAIN attempts[r.phase][s]
           /\ StatusOf(r) = attempts[r.phase][s][r.no].status
           /\ r = [step |-> s, phase |-> r.phase, no |-> r.no]
BY DEF Refs, StatusOf

\* Nothing of a drained run is running.
LEMMA DrainedNoRunning ==
    ASSUME Drained
    PROVE  \A p \in Phases, s \in Steps : \A n \in DOMAIN attempts[p][s] :
              attempts[p][s][n].status # "running"
<1> SUFFICES ASSUME NEW p \in Phases, NEW s \in Steps, NEW n \in DOMAIN attempts[p][s],
                    attempts[p][s][n].status = "running"
             PROVE  FALSE
  OBVIOUS
<1>1. \E r \in Refs(s) : StatusOf(r) = "running"
  BY RefsMembers
<1> QED
  BY <1>1 DEF Drained, RecoveryWork

\* A ready step of a forward run is attempted, whether or not the executor
\* takes the attempt.
LEMMA ForwardAdded ==
    ASSUME DatabaseInv, step \in [Steps -> StepStates], run \in ForwardRunStates,
           run' # "pending", NEW s \in Steps, step[s] = "ready",
           NEW a, Added("forward", s, a),
           NEW q, step' = [step EXCEPT ![s] = q],
           a.status = "running" <=> q = "running"
    PROVE  DatabaseInv'
<1> USE DEF Phases
<1>1. UntouchedInv'
  BY DEF UntouchedInv
<1>2. \A u \in Steps : attempts["compensation"][u] = attempts'["compensation"][u]
  BY DEF Added
<1>3. \A u \in Steps : DOMAIN attempts["compensation"][u] = {}
  BY DEF DatabaseInv, CompensationInv, ForwardRunStates
<1>4. CompensationInv' /\ OneCompensation'
  BY <1>2, <1>3 DEF CompensationInv, OneCompensation
<1>5. OneForwardAttempt'
  <2>1. \A u \in Steps \ {s} : /\ attempts'["forward"][u] = attempts["forward"][u]
                               /\ step'[u] = step[u]
    BY DEF Added
  <2>2. \A k \in DOMAIN attempts["forward"][s] :
           attempts["forward"][s][k].status # "running"
    BY DEF DatabaseInv, OneForwardAttempt
  <2> DEFINE m == Len(attempts["forward"][s])
  <2>3. /\ m \in Nat /\ DOMAIN attempts["forward"][s] = 1..m
        /\ DOMAIN attempts'["forward"][s] = 1..(m + 1)
        /\ Len(attempts'["forward"][s]) = m + 1
        /\ attempts'["forward"][s][m + 1] = a
        /\ \A k \in 1..m : attempts'["forward"][s][k] = attempts["forward"][s][k]
    BY DEF Added
  <2> HIDE DEF m
  <2>4. \A k \in 1..(m + 1) : attempts'["forward"][s][k].status = "running" => k = m + 1
    BY <2>2, <2>3
  <2>5. step'[s] = q /\ m + 1 > 0
    BY <2>3
  <2>6. /\ \A k \in DOMAIN attempts'["forward"][s] :
              attempts'["forward"][s][k].status = "running" =>
                 k = Len(attempts'["forward"][s]) /\ step'[s] = "running"
        /\ step'[s] = "running" =>
              /\ Len(attempts'["forward"][s]) > 0
              /\ attempts'["forward"][s][Len(attempts'["forward"][s])].status = "running"
    BY <2>3, <2>4, <2>5
  <2> QED
    BY <2>1, <2>6 DEF DatabaseInv, OneForwardAttempt
<1> QED
  BY <1>1, <1>4, <1>5 DEF DatabaseInv

\* A compensation is attempted in a drained run.
LEMMA CompensationAdded ==
    ASSUME DatabaseInv, Drained, run = "compensating", RunMovesOn, UNCHANGED step,
           NEW s \in Steps, step[s] = "succeeded",
           NEW a, Added("compensation", s, a)
    PROVE  DatabaseInv'
<1> USE DEF Phases
<1>1. \A u \in Steps : attempts'["forward"][u] = attempts["forward"][u]
  BY DEF Added
<1>2. UntouchedInv' /\ OneForwardAttempt'
  BY <1>1 DEF DatabaseInv, UntouchedInv, OneForwardAttempt, RunMovesOn
<1>3. \A u \in Steps : step[u] \notin {"running", "result_unknown"}
  BY DrainedIsQuiet
<1>4. \A u \in Steps \ {s} : attempts'["compensation"][u] = attempts["compensation"][u]
  BY DEF Added
<1>5. CompensationInv'
  BY <1>3, <1>4 DEF DatabaseInv, CompensationInv, RunMovesOn, CompensationStates
<1>6. OneCompensation'
  <2>1. \A k \in DOMAIN attempts["compensation"][s] :
           attempts["compensation"][s][k].status # "running"
    BY DrainedNoRunning
  <2> DEFINE m == Len(attempts["compensation"][s])
  <2>2. /\ m \in Nat /\ DOMAIN attempts["compensation"][s] = 1..m
        /\ DOMAIN attempts'["compensation"][s] = 1..(m + 1)
        /\ Len(attempts'["compensation"][s]) = m + 1
        /\ \A k \in 1..m : attempts'["compensation"][s][k] = attempts["compensation"][s][k]
    BY DEF Added
  <2> HIDE DEF m
  <2>3. \A k \in DOMAIN attempts'["compensation"][s] :
           attempts'["compensation"][s][k].status = "running" =>
              k = Len(attempts'["compensation"][s])
    BY <2>1, <2>2
  <2> QED
    BY <1>4, <2>3 DEF DatabaseInv, OneCompensation
<1> QED
  BY <1>2, <1>5, <1>6 DEF DatabaseInv

-----------------------------------------------------------------------------
(* The outcome of an owned future.                                         *)

\* The step of an owned forward future is running, and that of an owned
\* compensation is not.
LEMMA OwnedSteps ==
    ASSUME TypeInv, DatabaseInv, OwnedInv, NEW t \in threads, t.hold = "owned"
    PROVE  /\ t.step \in Steps /\ t.phase \in Phases
           /\ t.phase = "forward" =>
                 /\ step[t.step] = "running"
                 /\ \A u \in Steps : DOMAIN attempts["compensation"][u] = {}
           /\ t.phase = "compensation" =>
                 /\ step[t.step] = "succeeded"
                 /\ run \in CompensationStates
<1>1. t.step \in Steps /\ t.phase \in Phases
  BY DEF TypeInv, LooseTypeOK, Future
<1>2. /\ t.no \in DOMAIN attempts[t.phase][t.step]
      /\ attempts[t.phase][t.step][t.no].status = "running"
  BY DEF OwnedInv
<1>3. t.phase = "forward" => step[t.step] = "running"
  BY <1>1, <1>2 DEF DatabaseInv, OneForwardAttempt
<1> QED
  BY <1>1, <1>2, <1>3 DEF DatabaseInv, CompensationInv, CompensationStates

\* Its number alone leads to its attempt, which is then over.
LEMMA PersistCompletes ==
    ASSUME TypeInv, DatabaseInv, OwnedInv, NEW t \in threads, t.hold = "owned",
           NEW out \in Outcomes \cup {"none"}, PersistOutcome(t, out)
    PROVE  /\ Completed(t.phase, t.step, t.no)
           /\ attempts'[t.phase][t.step][t.no] = AttemptAfter(out)
           /\ t.phase = "forward" => PersistForward(t.step, t.no, out)
           /\ t.phase = "compensation" => PersistCompensation(t.step, t.no, out)
           /\ DatabaseInv'
<1>1. /\ t.step \in Steps /\ t.phase \in Phases
      /\ t.no \in DOMAIN attempts[t.phase][t.step]
      /\ attempts[t.phase][t.step][t.no].status = "running"
  BY OwnedSteps DEF OwnedInv
<1>2. /\ attempts \in [Phases -> [Steps -> Seq(Attempt)]]
      /\ attempts' \in [Phases -> [Steps -> Seq(Attempt)]]
      /\ step \in [Steps -> StepStates]
  BY PersistOutcomeType DEF TypeInv, LooseTypeOK
<1>3. RunMovesOn
  BY PersistMovesOn
<1>4. AttemptAfter(out).status # "running"
  BY DEF AttemptAfter
<1>5. CASE t.phase = "forward"
  <2>1. PersistForward(t.step, t.no, out)
    BY <1>1, <1>5, OwnedSteps DEF PersistOutcome, FoundPhase
  <2>2. attempts' = [attempts EXCEPT !["forward"][t.step][t.no] = AttemptAfter(out)]
    BY <2>1 DEF PersistForward
  <2>3. /\ Completed("forward", t.step, t.no)
        /\ attempts'["forward"][t.step][t.no] = AttemptAfter(out)
    <3> DEFINE a == AttemptAfter(out)
    <3>1. "forward" \in Phases /\ t.no \in DOMAIN attempts["forward"][t.step]
      BY <1>1, <1>5
    <3>2. a.status # "running" /\ Saved("forward", t.step, t.no, a)
      BY <1>4, <2>2 DEF Saved
    <3> HIDE DEF a
    <3>3. Completed("forward", t.step, t.no) /\ attempts'["forward"][t.step][t.no] = a
      BY <1>1, <1>2, <3>1, <3>2, SaveCompletes
    <3> QED
      BY <3>3 DEF a
  <2>4. PICK q : q # "running" /\ step' = [step EXCEPT ![t.step] = q]
    <3>1. NextStepState(t.step, t.no, out) # "running"
      BY DEF NextStepState
    <3> QED
      BY <2>1, <3>1 DEF PersistForward
  <2>5. step[t.step] = "running"
    BY <1>5, OwnedSteps
  <2>6. DatabaseInv'
    BY <1>1, <1>2, <1>3, <1>5, <2>3, <2>4, <2>5, ForwardCompleted
  <2> QED
    BY <1>5, <2>1, <2>3, <2>6
<1>6. CASE t.phase = "compensation"
  <2>1. PersistCompensation(t.step, t.no, out)
    BY <1>1, <1>6 DEF PersistOutcome, FoundPhase
  <2>2. attempts' = [attempts EXCEPT !["compensation"][t.step][t.no] = AttemptAfter(out)]
    BY <2>1 DEF PersistCompensation
  <2>3. /\ Completed("compensation", t.step, t.no)
        /\ attempts'["compensation"][t.step][t.no] = AttemptAfter(out)
    <3> DEFINE a == AttemptAfter(out)
    <3>1. "compensation" \in Phases /\ t.no \in DOMAIN attempts["compensation"][t.step]
      BY <1>1, <1>6
    <3>2. a.status # "running" /\ Saved("compensation", t.step, t.no, a)
      BY <1>4, <2>2 DEF Saved
    <3> HIDE DEF a
    <3>3. Completed("compensation", t.step, t.no) /\ attempts'["compensation"][t.step][t.no] = a
      BY <1>1, <1>2, <3>1, <3>2, SaveCompletes
    <3> QED
      BY <3>3 DEF a
  <2>4. DatabaseInv'
    BY <1>1, <1>2, <1>3, <2>1, <2>3, CompensationCompleted DEF PersistCompensation
  <2> QED
    BY <1>6, <2>1, <2>3, <2>4
<1> QED
  BY <1>1, <1>5, <1>6 DEF Phases

\* The futures still owned after t was let go.
LEMMA OtherOwned ==
    ASSUME TypeInv, OwnedInv, NEW t \in threads, t.hold = "owned",
           Completed(t.phase, t.step, t.no),
           \A u \in threads' : u.hold = "owned" => u \in threads \ {t}
    PROVE  OwnedInv'
<1>1. \A u \in threads : u.step \in Steps /\ u.phase \in Phases
  BY DEF TypeInv, LooseTypeOK, Future
<1>2. \A u \in threads' : u.hold = "owned" =>
         /\ u \in threads /\ u.step # t.step
         /\ u.no \in DOMAIN attempts[u.phase][u.step]
         /\ attempts[u.phase][u.step][u.no].status = "running"
  BY DEF OwnedInv
<1>3. \A u \in threads' : u.hold = "owned" =>
         /\ u.no \in DOMAIN attempts'[u.phase][u.step]
         /\ attempts'[u.phase][u.step][u.no].status = "running"
  BY <1>1, <1>2 DEF Completed
<1>4. \A u, v \in threads' : u.hold = "owned" /\ v.hold = "owned" /\ u.step = v.step => u = v
  BY DEF OwnedInv
<1> QED
  BY <1>3, <1>4 DEF OwnedInv

\* A tool call goes on or ends; its future stays who it was.
LEMMA ToolsKeepOwned ==
    ASSUME TypeInv, OwnedInv, ToolMoves
    PROVE  /\ OwnedInv'
           /\ \A w \in threads' : w.hold = "owned" => \E t \in threads : t.hold = "owned"
           /\ \A t \in threads : t.hold = "owned" =>
                 \E w \in threads' : /\ w.hold = "owned" /\ w.step = t.step
                                     /\ w.phase = t.phase /\ w.no = t.no
<1>1. PICK t \in threads : \E w :
         /\ w.step = t.step /\ w.phase = t.phase /\ w.no = t.no /\ w.hold = t.hold
         /\ \/ threads' = (threads \ {t}) \cup {w}
            \/ t.hold # "owned" /\ threads' = threads \ {t}
  BY DEF ToolMoves
<1>0. PICK w :
         /\ w.step = t.step /\ w.phase = t.phase /\ w.no = t.no /\ w.hold = t.hold
         /\ \/ threads' = (threads \ {t}) \cup {w}
            \/ t.hold # "owned" /\ threads' = threads \ {t}
  BY <1>1
<1>2. attempts' = attempts
  BY DEF ToolMoves, database
<1>3. CASE threads' = (threads \ {t}) \cup {w}
  BY <1>0, <1>2, <1>3 DEF OwnedInv
<1>4. CASE t.hold # "owned" /\ threads' = threads \ {t}
  BY <1>0, <1>2, <1>4 DEF OwnedInv
<1> QED
  BY <1>0, <1>3, <1>4

\* An attempt is added, with a future of its own if it is running.
LEMMA AddedOwned ==
    ASSUME TypeInv, OwnedInv, NEW p \in Phases, NEW s \in Steps, NEW a, Added(p, s, a),
           NEW w,
           \/ threads' = threads
           \/ /\ threads' = threads \cup {w}
              /\ w.hold = "owned" /\ w.step = s /\ w.phase = p
              /\ w.no = Len(attempts[p][s]) + 1
              /\ a.status = "running"
              /\ \A t \in threads : t.hold = "owned" => t.step # s
    PROVE  OwnedInv'
<1>1. \A t \in threads : t.step \in Steps /\ t.phase \in Phases
  BY DEF TypeInv, LooseTypeOK, Future
<1>2. \A t \in threads : t.hold = "owned" =>
          /\ t.no \in DOMAIN attempts'[t.phase][t.step]
          /\ attempts'[t.phase][t.step][t.no].status = "running"
  <2> SUFFICES ASSUME NEW t \in threads, t.hold = "owned"
               PROVE  /\ t.no \in DOMAIN attempts'[t.phase][t.step]
                      /\ attempts'[t.phase][t.step][t.no].status = "running"
    OBVIOUS
  <2>1. /\ t.no \in DOMAIN attempts[t.phase][t.step]
        /\ attempts[t.phase][t.step][t.no].status = "running"
    BY DEF OwnedInv
  <2>2. CASE t.phase = p /\ t.step = s
    BY <2>1, <2>2 DEF Added
  <2>3. CASE t.phase # p \/ t.step # s
    BY <1>1, <2>1, <2>3 DEF Added
  <2> QED
    BY <2>2, <2>3
<1>3. CASE threads' = threads
  BY <1>2, <1>3 DEF OwnedInv
<1>4. CASE /\ threads' = threads \cup {w}
           /\ w.hold = "owned" /\ w.step = s /\ w.phase = p
           /\ w.no = Len(attempts[p][s]) + 1
           /\ a.status = "running"
           /\ \A t \in threads : t.hold = "owned" => t.step # s
  <2>1. /\ w.no \in DOMAIN attempts'[w.phase][w.step]
        /\ attempts'[w.phase][w.step][w.no].status = "running"
    BY <1>4 DEF Added
  <2> QED
    BY <1>2, <1>4, <2>1 DEF OwnedInv
<1> QED
  BY <1>3, <1>4

\* The futures stay, and so do the attempts.
LEMMA StandingOwned ==
    ASSUME OwnedInv, UNCHANGED attempts,
           \A t \in threads' : t.hold = "owned" => t \in threads
    PROVE  OwnedInv'
BY DEF OwnedInv

-----------------------------------------------------------------------------
(* Recovery.                                                               *)

\* _unresolved_attempt finds at most one attempt of a step.
LEMMA UnresolvedOne ==
    ASSUME TypeInv, NEW s \in Steps, NEW r \in Unresolved(s)
    PROVE  /\ r \in Refs(s)
           /\ StatusOf(r) = "running" \/ step[s] = "result_unknown"
           /\ \A c \in Unresolved(s) : c = r
<1>1. r \in Refs(s) /\ (StatusOf(r) = "running" \/ step[s] = "result_unknown")
  BY DEF Unresolved
<1>2. ASSUME NEW c \in Unresolved(s), c # r
      PROVE  FALSE
  <2>1. c \in Refs(s)
    BY <1>2 DEF Unresolved
  <2>2. /\ c.no < r.no \/ (c.no = r.no /\ r.phase = "forward")
        /\ r.no < c.no \/ (r.no = c.no /\ c.phase = "forward")
    BY <1>2 DEF Unresolved
  <2>3. r.no \in Nat /\ c.no \in Nat
    BY <1>1, <2>1, RefsType DEF AttemptRef, TypeInv, LooseTypeOK
  <2>4. c.no = r.no /\ c.phase = r.phase
    BY <2>2, <2>3
  <2> QED
    BY <1>1, <1>2, <2>1, <2>4, RefsAreAttempts
<1> QED
  BY <1>1, <1>2

\* Recovery of a live process starts with nothing in flight.
LEMMA LiveRecoveryAlone ==
    ASSUME TypeInv, RecoveryAlone, ChainInv, DatabaseInv, OwnedInv, StartRecovery,
           pc # "boot"
    PROVE  \A t \in threads : t.hold # "owned"
<1> SUFFICES ASSUME NEW t \in threads, t.hold = "owned"
             PROVE  FALSE
  OBVIOUS
<1>1. PICK u \in Steps : step[u] = "result_unknown"
  BY DEF StartRecovery
<1>2. PICK pos \in Positions : IsChain(pos)
  BY DEF StartRecovery, RecoveryAlone
<1>3. t.step \in Steps /\ t.phase \in Phases
  BY OwnedSteps
<1>4. CASE t.phase = "forward"
  <2>1. step[t.step] = "running"
    BY <1>4, OwnedSteps
  <2>2. t.step # u
    BY <1>1, <2>1
  <2>3. pos[t.step] \in Nat /\ pos[u] \in Nat /\ pos[t.step] # pos[u]
    BY <1>2, <1>3, <2>2 DEF IsChain, Positions
  <2>4. CASE pos[t.step] < pos[u]
    BY <1>1, <1>2, <1>3, <2>1, <2>4 DEF ChainInv
  <2>5. CASE pos[u] < pos[t.step]
    BY <1>1, <1>2, <1>3, <2>1, <2>5 DEF ChainInv
  <2> QED
    BY <2>3, <2>4, <2>5
<1>5. CASE t.phase = "compensation"
  <2>1. DOMAIN attempts["compensation"][t.step] # {}
    BY <1>5 DEF OwnedInv
  <2> QED
    BY <1>1, <1>3, <2>1 DEF DatabaseInv, CompensationInv
<1> QED
  BY <1>3, <1>4, <1>5 DEF Phases

LEMMA StartRecoveryInv ==
    ASSUME TypeInv, RecoveryAlone, AttemptInv, StartRecovery
    PROVE  ProcessInv' /\ RecoverInv'
<1>1. \A t \in threads : t.hold # "owned"
  BY LiveRecoveryAlone DEF AttemptInv, DatabaseInv, ProcessInv
<1>2. threads' = threads /\ attempts' = attempts /\ step' = step
  BY DEF StartRecovery, database
<1>3. rq' \subseteq UNION {Unresolved(s) : s \in Steps}
  BY DEF StartRecovery
<1>4. \A r \in rq' : /\ r.step \in Steps /\ r \in Unresolved(r.step)
                     /\ \/ attempts[r.phase][r.step][r.no].status = "running"
                        \/ step[r.step] = "result_unknown"
  <2> SUFFICES ASSUME NEW s \in Steps, NEW r \in Unresolved(s)
               PROVE  /\ r.step = s
                      /\ \/ attempts[r.phase][s][r.no].status = "running"
                         \/ step[s] = "result_unknown"
    BY <1>3
  <2> QED
    BY UnresolvedOne, RefsAreAttempts
<1>5. \A r, c \in rq' : r.step = c.step => r = c
  BY <1>4, UnresolvedOne
<1> QED
  BY <1>1, <1>2, <1>4, <1>5 DEF ProcessInv, RecoverInv

\* Whatever recovery decides about an attempt, the attempt is over then.
LEMMA RecoverCompletes ==
    ASSUME TypeInv, TypeInv', QueueInv, AttemptInv, NEW r \in rq,
           RecoverApplied(r) \/ RecoverNotApplied(r) \/ RecoverManually(r)
    PROVE  /\ r.step \in Steps /\ r.phase \in Phases
           /\ pc = "recover" /\ pc' = pc /\ threads' = threads /\ rq' = rq \ {r}
           /\ Completed(r.phase, r.step, r.no)
           /\ r.phase = "forward" =>
                 /\ step[r.step] \in {"running", "result_unknown"}
                 /\ \E q \in {"succeeded", "ready", "manual_intervention"} :
                       step' = [step EXCEPT ![r.step] = q]
           /\ r.phase = "compensation" =>
                 /\ step' = step
                 /\ attempts[r.phase][r.step][r.no].status = "running"
           /\ DatabaseInv'
<1>1. r.step \in Steps /\ r.phase \in Phases /\ r.no \in DOMAIN attempts[r.phase][r.step]
  BY DEF TypeInv, LooseTypeOK, AttemptRef, QueueInv
<1>2. pc = "recover" /\ pc' = pc /\ threads' = threads /\ rq' = rq \ {r}
  BY DEF RecoverApplied, RecoverNotApplied, RecoverManually, NextToRecover
<1>3. /\ attempts \in [Phases -> [Steps -> Seq(Attempt)]]
      /\ attempts' \in [Phases -> [Steps -> Seq(Attempt)]]
      /\ step \in [Steps -> StepStates]
  BY DEF TypeInv, LooseTypeOK
<1>4. PICK status \in {"succeeded", "not_applied", "manual_intervention"} :
         \E effect, err : Resolve(r, status, effect, err)
  BY DEF RecoverApplied, RecoverNotApplied, RecoverManually
<1>5. Completed(r.phase, r.step, r.no)
  <2>0. PICK effect, err : Resolve(r, status, effect, err)
    BY <1>4
  <2> DEFINE a == [status |-> status, effect |-> effect, err |-> err]
  <2>1. a.status # "running" /\ Saved(r.phase, r.step, r.no, a)
    BY <2>0 DEF Resolve, Saved
  <2> HIDE DEF a
  <2> QED
    BY <1>1, <1>3, <2>1, SaveCompletes
<1>6. RunMovesOn
  <2>1. RecoverNotApplied(r) => run' = run
    BY DEF RecoverNotApplied
  <2> QED
    BY <2>1 DEF RecoverApplied, RecoverManually, RunAfterApplied, RunMovesOn,
         CompensationStates
<1>7. PICK q \in {"succeeded", "ready", "manual_intervention"} : StepAfterRecovery(r, q)
  BY DEF RecoverApplied, RecoverNotApplied, RecoverManually
<1>8. \/ attempts[r.phase][r.step][r.no].status = "running"
      \/ step[r.step] = "result_unknown"
  BY DEF AttemptInv, RecoverInv
<1>9. CASE r.phase = "forward"
  <2>1. step' = [step EXCEPT ![r.step] = q]
    BY <1>7, <1>9 DEF StepAfterRecovery
  <2>2. step[r.step] \in {"running", "result_unknown"}
    BY <1>1, <1>8, <1>9 DEF AttemptInv, OneForwardAttempt
  <2>3. \/ /\ step[r.step] = "running"
           /\ attempts["forward"][r.step][r.no].status = "running"
        \/ step[r.step] = "result_unknown"
    BY <1>8, <1>9, <2>2
  <2>4. DatabaseInv'
    BY <1>1, <1>3, <1>5, <1>6, <1>9, <2>1, <2>3, ForwardCompleted DEF AttemptInv, DatabaseInv
  <2> QED
    BY <1>1, <1>2, <1>5, <1>9, <2>1, <2>2, <2>4
<1>10. CASE r.phase = "compensation"
  <2>1. step' = step
    BY <1>7, <1>10 DEF StepAfterRecovery
  <2>2. step[r.step] = "succeeded"
    BY <1>1, <1>10 DEF AttemptInv, CompensationInv
  <2>3. DatabaseInv'
    BY <1>1, <1>3, <1>5, <1>6, <1>10, <2>1, CompensationCompleted DEF AttemptInv, DatabaseInv
  <2> QED
    BY <1>1, <1>2, <1>5, <1>8, <1>10, <2>1, <2>2, <2>3
<1> QED
  BY <1>1, <1>9, <1>10 DEF Phases

-----------------------------------------------------------------------------
(* Every step keeps the invariant.                                         *)

FuturesInv == OwnedInv /\ ProcessInv /\ RecoverInv

LEMMA AttemptInvParts ==
    AttemptInv <=> ChainInv /\ DatabaseInv /\ FuturesInv
BY DEF AttemptInv, DatabaseInv, FuturesInv

\* Steps after which nothing is left to recover.
LEMMA NoRecovery ==
    ASSUME rq' = {}
    PROVE  RecoverInv'
BY DEF RecoverInv

LEMMA ToolsKeepAttempts ==
    ASSUME TypeInv, DatabaseInv, FuturesInv, ToolMoves
    PROVE  DatabaseInv' /\ FuturesInv'
<1>1. UNCHANGED <<run, step, attempts, pc, rq>>
  BY DEF ToolMoves, database
<1>2. DatabaseInv'
  BY <1>1, StandingDatabase DEF RunMovesOn
<1>3. OwnedInv' /\ ProcessInv'
  BY <1>1, ToolsKeepOwned DEF FuturesInv, ProcessInv
<1>4. RecoverInv'
  BY <1>1 DEF FuturesInv, RecoverInv
<1> QED
  BY <1>2, <1>3, <1>4 DEF FuturesInv

\* Persisting the outcome of a future.
LEMMA PersistKeepsAttempts ==
    ASSUME TypeInv, QueueInv, DatabaseInv, FuturesInv, NEW t \in threads,
           Collect(t) \/ Expire(t) \/ CloseOutcome(t)
    PROVE  DatabaseInv' /\ FuturesInv'
<1>1. PICK out \in Outcomes \cup {"none"} : PersistOutcome(t, out)
  BY DEF Collect, Expire, CloseOutcome, Outcomes, Failures, TypeInv, LooseTypeOK, Future
<1>2. /\ t.hold = "owned" /\ pc \in {"idle", "closing"} /\ pc' = pc /\ rq' = rq
      /\ \/ threads' = threads \ {t}
         \/ threads' = (threads \ {t}) \cup {[t EXCEPT !.hold = "persisted"]}
  BY DEF Collect, Expire, CloseOutcome
<1>3. [t EXCEPT !.hold = "persisted"].hold # "owned"
  BY DEF TypeInv, LooseTypeOK, Future
<1>4. \A u \in threads' : u.hold = "owned" => u \in threads \ {t}
  BY <1>2, <1>3
<1>5. Completed(t.phase, t.step, t.no) /\ DatabaseInv'
  BY <1>1, <1>2, PersistCompletes DEF FuturesInv
<1>6. OwnedInv'
  BY <1>2, <1>4, <1>5, OtherOwned DEF FuturesInv
<1>7. ProcessInv' /\ RecoverInv'
  BY <1>2, NoRecovery DEF ProcessInv, QueueInv
<1> QED
  BY <1>5, <1>6, <1>7 DEF FuturesInv

\* Starting a forward attempt.
LEMMA StartKeepsAttempts ==
    ASSUME TypeInv, TypeInv', QueueInv, DatabaseInv, FuturesInv, NEW s \in Steps,
           StartAttempt(s) \/ SubmissionFails(s)
    PROVE  DatabaseInv' /\ FuturesInv'
<1> USE DEF Phases
<1>1. /\ pc = "start" /\ pc' = pc /\ rq' = rq /\ rq = {}
      /\ run \in ForwardRunStates /\ StepCan(step[s], "running")
  BY DEF StartAttempt, SubmissionFails, QueueInv
<1>2. step \in [Steps -> StepStates] /\ attempts \in [Phases -> [Steps -> Seq(Attempt)]]
  BY DEF TypeInv, LooseTypeOK
<1>3. step[s] = "ready"
  BY <1>1, <1>2, StepTable
<1>4. \A t \in threads : t.hold = "owned" => t.step # s
  BY <1>3, OwnedSteps DEF FuturesInv
<1>5. ProcessInv' /\ RecoverInv'
  BY <1>1, NoRecovery DEF ProcessInv
<1>6. CASE StartAttempt(s)
  <2>1. RunningAttempt \in Attempt /\ RunningAttempt.status = "running"
    BY DEF RunningAttempt, Attempt
  <2>2. Added("forward", s, RunningAttempt)
    BY <1>2, <1>6, <2>1, AppendAdds DEF StartAttempt
  <2>3. DatabaseInv'
    BY <1>1, <1>2, <1>3, <1>6, <2>1, <2>2, ForwardAdded DEF StartAttempt
  <2>4. /\ NewThread(s, "forward").hold = "owned" /\ NewThread(s, "forward").step = s
        /\ NewThread(s, "forward").phase = "forward"
        /\ NewThread(s, "forward").no = Len(attempts["forward"][s]) + 1
    BY DEF NewThread
  <2>5. OwnedInv'
    BY <1>4, <1>6, <2>1, <2>2, <2>4, AddedOwned DEF StartAttempt, FuturesInv
  <2> QED
    BY <1>5, <2>3, <2>5 DEF FuturesInv
<1>7. CASE SubmissionFails(s)
  <2> DEFINE q == NextStepState(s, Len(attempts["forward"][s]) + 1, "retryable")
             a == AttemptAfter("retryable")
  <2>1. a \in Attempt /\ a.status # "running" /\ q # "running"
    BY AttemptAfterType DEF AttemptAfter, NextStepState, Outcomes, Failures
  <2>2. attempts' = [attempts EXCEPT !["forward"][s] = Append(@, a)]
        /\ step' = [step EXCEPT ![s] = q] /\ threads' = threads
    BY <1>7 DEF SubmissionFails
  <2>3. run' # "pending"
    <3>1. \E x, y : run' = RunAfterForward("running", s, x, y)
      BY <1>7 DEF SubmissionFails
    <3> QED
      BY <3>1 DEF RunAfterForward
  <2> HIDE DEF q, a
  <2>4. Added("forward", s, a)
    BY <1>2, <2>1, <2>2, AppendAdds
  <2>5. DatabaseInv'
    BY <1>1, <1>2, <1>3, <2>1, <2>2, <2>3, <2>4, ForwardAdded
  <2>6. OwnedInv'
    BY <2>2, <2>4, AddedOwned DEF FuturesInv
  <2> QED
    BY <1>5, <2>5, <2>6 DEF FuturesInv
<1> QED
  BY <1>6, <1>7

\* Starting a compensation.
LEMMA CompensateKeepsAttempts ==
    ASSUME TypeInv, QueueInv, DatabaseInv, FuturesInv, NEW s \in Steps,
           StartCompensation(s) \/ CompensationSubmissionFails(s)
    PROVE  DatabaseInv' /\ FuturesInv'
<1> USE DEF Phases
<1>1. /\ pc = "idle" /\ pc' = pc /\ rq' = rq /\ rq = {} /\ UNCHANGED step
      /\ run = "compensating" /\ Drained
      /\ run' \in CompensationStates
  BY DEF StartCompensation, CompensationSubmissionFails, Compensating, QueueInv,
       CompensationStates
<1>2. RunMovesOn
  BY <1>1 DEF RunMovesOn, CompensationStates
<1>3. step[s] = "succeeded"
  BY DEF StartCompensation, CompensationSubmissionFails, PendingCompensations,
       CompensableEffects
<1>4. \A t \in threads : t.hold # "owned"
  BY <1>1 DEF Drained, Owned
<1>5. ProcessInv' /\ RecoverInv'
  BY <1>1, NoRecovery DEF ProcessInv
<1>6. PICK a \in Attempt :
         /\ attempts' = [attempts EXCEPT !["compensation"][s] = Append(@, a)]
         /\ \/ threads' = threads
            \/ threads' = threads \cup {NewThread(s, "compensation")} /\ a.status = "running"
  <2>1. CASE StartCompensation(s)
    <3>1. RunningAttempt \in Attempt /\ RunningAttempt.status = "running"
      BY DEF RunningAttempt, Attempt
    <3> QED
      BY <2>1, <3>1 DEF StartCompensation
  <2>2. CASE CompensationSubmissionFails(s)
    <3>1. AttemptAfter("permanent") \in Attempt
      BY AttemptAfterType DEF Outcomes, Failures
    <3> QED
      BY <2>2, <3>1 DEF CompensationSubmissionFails
  <2> QED
    BY <2>1, <2>2
<1>7. attempts \in [Phases -> [Steps -> Seq(Attempt)]]
  BY DEF TypeInv, LooseTypeOK
<1>8. Added("compensation", s, a)
  BY <1>6, <1>7, AppendAdds
<1>9. DatabaseInv'
  BY <1>1, <1>2, <1>3, <1>8, CompensationAdded
<1>10. /\ NewThread(s, "compensation").hold = "owned" /\ NewThread(s, "compensation").step = s
       /\ NewThread(s, "compensation").phase = "compensation"
       /\ NewThread(s, "compensation").no = Len(attempts["compensation"][s]) + 1
  BY DEF NewThread
<1>11. OwnedInv'
  BY <1>4, <1>6, <1>8, <1>10, AddedOwned DEF FuturesInv
<1> QED
  BY <1>5, <1>9, <1>11 DEF FuturesInv

LEMMA RunOnceKeepsAttempts ==
    ASSUME TypeInv, TypeInv', QueueInv, DatabaseInv, FuturesInv, RunOnce
    PROVE  DatabaseInv' /\ FuturesInv'
<1> USE DEF database
<1>0. RunMovesOn
  BY NextMovesOn DEF AnyNext
<1>1. ASSUME \/ SelectUnprotected \/ BarrierBlocks \/ EndBatch
             \/ PromoteDependencyReadySteps
             \/ \E s \in Steps : SelectApproved(s) \/ EstablishApprovalBarrier(s)
             \/ \E due \in SUBSET {s \in Steps : step[s] = "retry_wait"} :
                   PromoteDueRetries(due)
      PROVE  DatabaseInv' /\ FuturesInv'
  <2>1. /\ pc \in {"idle", "ready", "select", "start"}
        /\ pc' \in {"idle", "ready", "select", "start"}
        /\ UNCHANGED <<attempts, threads, rq>>
    BY <1>1 DEF SelectUnprotected, BarrierBlocks, EndBatch, SelectApproved,
         PromoteDependencyReadySteps, PromoteDueRetries, EstablishApprovalBarrier
  <2>2. \A s \in Steps : \/ step'[s] = step[s]
                         \/ /\ step[s] \in {"pending", "ready", "retry_wait"}
                            /\ step'[s] = "ready"
    <3>1. ASSUME NEW due \in SUBSET {s \in Steps : step[s] = "retry_wait"},
                 PromoteDueRetries(due), NEW s \in Steps
          PROVE  step'[s] = step[s] \/ (step[s] = "retry_wait" /\ step'[s] = "ready")
      BY <3>1 DEF PromoteDueRetries
    <3>2. ASSUME PromoteDependencyReadySteps, NEW s \in Steps
          PROVE  step'[s] = step[s]
                 \/ (step[s] \in {"pending", "ready"} /\ step'[s] = "ready")
      BY <3>2 DEF PromoteDependencyReadySteps, ReadySteps
    <3>3. ASSUME \/ SelectUnprotected \/ BarrierBlocks \/ EndBatch
                 \/ \E s \in Steps : SelectApproved(s) \/ EstablishApprovalBarrier(s)
          PROVE  step' = step
      BY <3>3 DEF SelectUnprotected, BarrierBlocks, EndBatch, SelectApproved,
           EstablishApprovalBarrier
    <3> QED
      BY <1>1, <3>1, <3>2, <3>3
  <2>3. DatabaseInv'
    BY <1>0, <2>1, <2>2, PromotedDatabase
  <2>4. OwnedInv' /\ ProcessInv' /\ RecoverInv'
    BY <2>1, StandingOwned, NoRecovery DEF FuturesInv, ProcessInv, QueueInv
  <2> QED
    BY <2>3, <2>4 DEF FuturesInv
<1> QED
  BY <1>1, PersistKeepsAttempts, StartKeepsAttempts, CompensateKeepsAttempts DEF RunOnce

LEMMA RecoveryKeepsAttempts ==
    ASSUME TypeInv, TypeInv', QueueInv, AttemptInv, RecoveryAlone, Recovery
    PROVE  DatabaseInv' /\ FuturesInv'
<1> USE DEF database
<1>0. DatabaseInv /\ FuturesInv
  BY AttemptInvParts
<1>1. CASE StartRecovery
  <2>1. UNCHANGED <<run, step, attempts, threads>>
    BY <1>1 DEF StartRecovery
  <2>2. DatabaseInv' /\ OwnedInv'
    BY <1>0, <2>1, StandingDatabase, StandingOwned DEF RunMovesOn, FuturesInv
  <2> QED
    BY <1>1, <2>2, StartRecoveryInv DEF FuturesInv
<1>2. ASSUME NEW r \in rq, RecoverApplied(r) \/ RecoverNotApplied(r) \/ RecoverManually(r)
      PROVE  DatabaseInv' /\ FuturesInv'
  <2>1. /\ r.step \in Steps /\ r.phase \in Phases
        /\ pc = "recover" /\ pc' = pc /\ threads' = threads /\ rq' = rq \ {r}
        /\ Completed(r.phase, r.step, r.no)
        /\ \A u \in Steps \ {r.step} : step'[u] = step[u]
        /\ DatabaseInv'
    <3>1. step \in [Steps -> StepStates]
      BY DEF TypeInv, LooseTypeOK
    <3> QED
      BY <1>2, <3>1, RecoverCompletes DEF Phases
  <2>2. OwnedInv' /\ ProcessInv'
    BY <1>0, <2>1 DEF FuturesInv, OwnedInv, ProcessInv
  <2>3. ASSUME NEW c \in rq \ {r}
        PROVE  \/ attempts'[c.phase][c.step][c.no].status = "running"
               \/ step'[c.step] = "result_unknown"
    <3>1. /\ c.step \in Steps /\ c.phase \in Phases
          /\ c.no \in DOMAIN attempts[c.phase][c.step]
      BY DEF TypeInv, LooseTypeOK, AttemptRef, QueueInv
    <3>2. c.step # r.step
      BY <1>0, <2>3 DEF FuturesInv, RecoverInv
    <3>3. attempts'[c.phase][c.step][c.no] = attempts[c.phase][c.step][c.no]
      BY <2>1, <3>1, <3>2 DEF Completed
    <3> QED
      BY <1>0, <2>1, <3>1, <3>2, <3>3 DEF FuturesInv, RecoverInv
  <2>4. RecoverInv'
    BY <1>0, <2>1, <2>3 DEF FuturesInv, RecoverInv
  <2> QED
    BY <2>1, <2>2, <2>4 DEF FuturesInv
<1>3. CASE FinishRecovery \/ \E r \in rq : RecoveryRaises(r)
  <2>1. /\ UNCHANGED <<run, step, attempts, threads>> /\ rq' = {} /\ pc = "recover"
    BY <1>3 DEF FinishRecovery, RecoveryRaises, NextToRecover
  <2>2. DatabaseInv' /\ OwnedInv'
    BY <1>0, <2>1, StandingDatabase, StandingOwned DEF RunMovesOn, FuturesInv
  <2>3. ProcessInv' /\ RecoverInv'
    BY <1>0, <2>1, NoRecovery DEF FuturesInv, ProcessInv
  <2> QED
    BY <2>2, <2>3 DEF FuturesInv
<1> QED
  BY <1>1, <1>2, <1>3 DEF Recovery

LEMMA ProcessKeepsAttempts ==
    ASSUME TypeInv, QueueInv, DatabaseInv, FuturesInv, Process
    PROVE  DatabaseInv' /\ FuturesInv'
<1> USE DEF database
<1>1. ASSUME CloseWaiting \/ BeginClose \/ FinishClose \/ StartDriverAgain \/ Crash \/ Restart
      PROVE  DatabaseInv' /\ FuturesInv'
  <2>1. UNCHANGED <<run, step, attempts>> /\ rq' = {}
    BY <1>1 DEF CloseWaiting, BeginClose, FinishClose, StartDriverAgain, Crash, Restart, QueueInv
  <2>2. DatabaseInv' /\ RecoverInv'
    BY <2>1, StandingDatabase, NoRecovery DEF RunMovesOn
  <2>3. CASE CloseWaiting \/ BeginClose \/ Restart
    <3>1. threads' = threads
      BY <2>3 DEF CloseWaiting, BeginClose, Restart
    <3>2. OwnedInv'
      BY <2>1, <3>1, StandingOwned DEF FuturesInv
    <3>3. ProcessInv'
      BY <2>3, <3>1 DEF CloseWaiting, BeginClose, Restart, FuturesInv, ProcessInv
    <3> QED
      BY <2>2, <3>2, <3>3 DEF FuturesInv
  <2>4. CASE FinishClose \/ StartDriverAgain \/ Crash
    <3>1. \A t \in threads' : t.hold # "owned"
      <4>1. ASSUME NEW t \in threads
            PROVE  [t EXCEPT !.hold = "orphan"].hold # "owned"
        BY DEF TypeInv, LooseTypeOK, Future
      <4> DEFINE orphan(t) == [t EXCEPT !.hold = "orphan"]
      <4>2. threads' \subseteq {orphan(t) : t \in threads}
        BY <2>4 DEF FinishClose, StartDriverAgain, Crash
      <4>3. \A t \in threads : orphan(t).hold # "owned"
        BY <4>1
      <4> HIDE DEF orphan
      <4> QED
        BY <4>2, <4>3
    <3>2. OwnedInv' /\ ProcessInv'
      BY <3>1 DEF OwnedInv, ProcessInv
    <3> QED
      BY <2>2, <3>2 DEF FuturesInv
  <2> QED
    BY <1>1, <2>3, <2>4
<1> QED
  BY <1>1, PersistKeepsAttempts DEF Process

(***************************************************************************)
(* The invariant holds of a new run and survives every step.               *)
(***************************************************************************)
LEMMA InitAttempts ==
    ASSUME Init
    PROVE  AttemptInv
<1>1. /\ threads = {} /\ rq = {} /\ run = "pending"
      /\ \A s \in Steps : /\ step[s] = "pending"
                          /\ DOMAIN attempts["forward"][s] = {}
                          /\ DOMAIN attempts["compensation"][s] = {}
  BY DEF Init, Phases
<1>2. ChainInv /\ UntouchedInv /\ CompensationInv /\ OneCompensation /\ OneForwardAttempt
  BY <1>1 DEF ChainInv, UntouchedInv, CompensationInv, OneCompensation, OneForwardAttempt
<1>3. OwnedInv /\ ProcessInv /\ RecoverInv
  BY <1>1 DEF OwnedInv, ProcessInv, RecoverInv
<1> QED
  BY <1>2, <1>3 DEF AttemptInv

LEMMA NextAttempts ==
    ASSUME RecoveryAlone, TypeInv, TypeInv', QueueInv, DependencyInv, AttemptInv,
           [AnyNext]_vars
    PROVE  AttemptInv'
<1>0. DatabaseInv /\ FuturesInv /\ ChainInv
  BY AttemptInvParts
<1>1. ChainInv'
  BY <1>0, NextIsOrderly, OrderlyKeepsChain DEF DependencyInv
<1>2. CASE UNCHANGED vars
  BY <1>2 DEF vars, database, AttemptInv, ChainInv, UntouchedInv, OneForwardAttempt,
       CompensationInv, OneCompensation, OwnedInv, ProcessInv, RecoverInv
<1>3. CASE Operators
  <2>1. UNCHANGED <<step, attempts, threads, pc, rq>>
    BY <1>3 DEF Operators, Decide, CancelRun
  <2>2. RunMovesOn
    BY NextMovesOn
  <2>3. DatabaseInv' /\ OwnedInv'
    BY <1>0, <2>1, <2>2, StandingDatabase, StandingOwned DEF FuturesInv
  <2>4. ProcessInv' /\ RecoverInv'
    BY <1>0, <2>1 DEF FuturesInv, ProcessInv, RecoverInv
  <2> QED
    BY <1>1, <2>3, <2>4 DEF AttemptInv, DatabaseInv, FuturesInv
<1>4. CASE ToolMoves \/ RunOnce \/ Recovery \/ Process
  <2>1. DatabaseInv' /\ FuturesInv'
    BY <1>0, <1>4, ToolsKeepAttempts, RunOnceKeepsAttempts, RecoveryKeepsAttempts,
       ProcessKeepsAttempts
  <2> QED
    BY <1>1, <2>1 DEF AttemptInv, DatabaseInv, FuturesInv
<1> QED
  BY <1>2, <1>3, <1>4 DEF AnyNext, RunTerminal

\* What every reachable state of a run satisfies.
RuntimeInv == TypeInv /\ QueueInv /\ DependencyInv /\ AttemptInv

LEMMA RuntimeInvAlways ==
    ASSUME RecoveryAlone
    PROVE  AnySpec => []RuntimeInv
<1>0. Init => DependencyInv
  BY DEF Init, DependencyInv, AttemptedInv, DependencyOrder, Phases
<1>1. Init => RuntimeInv
  BY <1>0, InitType, InitAttempts DEF RuntimeInv
<1>2. RuntimeInv /\ [AnyNext]_vars => RuntimeInv'
  BY NextType, NextQueue, NextIsOrderly, OrderlyKeepsDependencies, NextAttempts
     DEF RuntimeInv, DependencyInv
<1> QED
  BY <1>1, <1>2, PTL DEF AnySpec

(***************************************************************************)
(* Attempts of a step are made one after the other: there is one running   *)
(* forward attempt of a running step, its latest, and none of any other.   *)
(***************************************************************************)
THEOREM OneAttemptAtATime ==
    ASSUME RecoveryAlone
    PROVE  Spec => []OneForwardAttempt
<1>1. RuntimeInv => OneForwardAttempt
  BY DEF RuntimeInv, AttemptInv
<1> QED
  BY <1>1, SpecIsAny, RuntimeInvAlways, PTL

(***************************************************************************)
(* The outcome of a future is persisted in the attempt it belongs to,      *)
(* although _persist_outcome looks it up by its number alone.              *)
(***************************************************************************)
THEOREM OutcomesFindAttempts ==
    ASSUME RecoveryAlone
    PROVE  Spec => []OutcomeFindsItsAttempt
<1>1. ASSUME RuntimeInv PROVE OutcomeFindsItsAttempt
  <2> SUFFICES ASSUME NEW t \in threads, t.hold = "owned"
               PROVE  /\ t.no \in DOMAIN attempts[t.phase][t.step]
                      /\ attempts[t.phase][t.step][t.no].status = "running"
                      /\ t.phase = "forward" => t.no \notin DOMAIN attempts["compensation"][t.step]
    BY DEF OutcomeFindsItsAttempt, Owned
  <2>1. TypeInv /\ DatabaseInv /\ OwnedInv
    BY <1>1, AttemptInvParts DEF RuntimeInv, FuturesInv
  <2> QED
    BY <2>1, OwnedSteps DEF OwnedInv
<1> QED
  BY <1>1, SpecIsAny, RuntimeInvAlways, PTL

-----------------------------------------------------------------------------
(* Nothing is left behind by recovery.                                     *)

\* A run that is over stays as it ended.
RunStaysOver == run \in TerminalRunStates => run' = run

LEMMA NextStaysOver ==
    ASSUME TypeInv, [AnyNext]_vars
    PROVE  RunStaysOver
<1> USE DEF database
<1>1. CASE run' = run
  BY <1>1 DEF RunStaysOver
<1>2. CASE UNCHANGED vars
  BY <1>1, <1>2 DEF vars
<1>3. CASE ToolMoves
  BY <1>1, <1>3 DEF ToolMoves
<1>4. ASSUME NEW t \in threads, Collect(t) \/ Expire(t) \/ CloseOutcome(t)
      PROVE  RunStaysOver
  <2>1. PICK out : PersistOutcome(t, out)
    BY <1>4 DEF Collect, Expire, CloseOutcome
  <2>2. CASE PersistForward(t.step, t.no, out)
    <3>1. \E q, at : run' = RunAfterForward(run, t.step, q, at)
      BY <2>2 DEF PersistForward
    <3> QED
      BY <3>1 DEF RunAfterForward, RunStaysOver, TerminalRunStates
  <2>3. CASE PersistCompensation(t.step, t.no, out)
    BY <2>3 DEF PersistCompensation, RunStaysOver, TerminalRunStates, RunCan,
         RunTransitions, RunStates
  <2> QED
    BY <2>1, <2>2, <2>3 DEF PersistOutcome
<1>5. ASSUME NEW s \in Steps, EstablishApprovalBarrier(s)
      PROVE  RunStaysOver
  BY <1>5 DEF EstablishApprovalBarrier, RunStaysOver, TerminalRunStates, RunCan,
       RunTransitions, RunStates
<1>6. ASSUME NEW s \in Steps, \/ StartAttempt(s) \/ SubmissionFails(s)
                             \/ StartCompensation(s) \/ CompensationSubmissionFails(s)
      PROVE  run \notin TerminalRunStates
  BY <1>6 DEF StartAttempt, SubmissionFails, StartCompensation,
       CompensationSubmissionFails, Compensating, ForwardRunStates, TerminalRunStates
<1>7. CASE RunOnce
  <2>1. ASSUME \/ SelectUnprotected \/ BarrierBlocks \/ EndBatch
               \/ PromoteDependencyReadySteps
               \/ \E s \in Steps : SelectApproved(s)
               \/ \E due \in SUBSET {s \in Steps : step[s] = "retry_wait"} :
                     PromoteDueRetries(due)
        PROVE  run' = run
    BY <2>1 DEF SelectUnprotected, BarrierBlocks, EndBatch, SelectApproved,
         PromoteDependencyReadySteps, PromoteDueRetries
  <2>2. CASE \E s \in Steps : \/ StartAttempt(s) \/ SubmissionFails(s)
                              \/ StartCompensation(s) \/ CompensationSubmissionFails(s)
    BY <2>2, <1>6 DEF RunStaysOver
  <2> QED
    BY <2>1, <2>2, <1>1, <1>4, <1>5, <1>7 DEF RunOnce
<1>8. CASE Operators
  <2>1. ASSUME NEW i \in DOMAIN approvals, NEW d \in {"approved", "rejected"}, Decide(i, d)
        PROVE  run \notin TerminalRunStates
    BY <2>1 DEF Decide, TerminalRunStates
  <2>2. CASE CancelRun
    BY <2>2 DEF CancelRun, RunStaysOver, TerminalRunStates, RunCan, RunTransitions, RunStates
  <2> QED
    BY <2>1, <2>2, <1>8 DEF Operators, RunStaysOver
<1>9. CASE Recovery
  <2>1. ASSUME \/ StartRecovery \/ FinishRecovery
               \/ \E r \in rq : RecoveryRaises(r) \/ RecoverNotApplied(r)
        PROVE  run' = run
    BY <2>1 DEF StartRecovery, FinishRecovery, RecoveryRaises, RecoverNotApplied
  <2>2. ASSUME NEW r \in rq, RecoverApplied(r)
        PROVE  RunStaysOver
    BY <2>2 DEF RecoverApplied, RunAfterApplied, RunStaysOver, TerminalRunStates
  <2>3. ASSUME NEW r \in rq, RecoverManually(r)
        PROVE  RunStaysOver
    BY <2>3 DEF RecoverManually, RunStaysOver, TerminalRunStates, RunCan, RunTransitions,
         RunStates
  <2> QED
    BY <2>1, <2>2, <2>3, <1>1, <1>9 DEF Recovery
<1>10. CASE Process
  <2>1. ASSUME CloseWaiting \/ BeginClose \/ FinishClose \/ StartDriverAgain \/ Crash \/ Restart
        PROVE  run' = run
    BY <2>1 DEF CloseWaiting, BeginClose, FinishClose, StartDriverAgain, Crash, Restart
  <2> QED
    BY <2>1, <1>1, <1>4, <1>10 DEF Process
<1> QED
  BY <1>2, <1>3, <1>7, <1>8, <1>9, <1>10 DEF AnyNext, RunTerminal

\* Somebody will complete attempt n of step s in phase p.
Attended(p, s, n) ==
    \/ \E t \in threads : /\ t.hold = "owned"
                          /\ t.step = s /\ t.phase = p /\ t.no = n
    \/ [step |-> s, phase |-> p, no |-> n] \in rq

\* Recovery starts with every attempt of the run that is running.
LEMMA RecoveryTakesAll ==
    ASSUME RuntimeInv, StartRecovery
    PROVE  CompletionInv'
<1> SUFFICES ASSUME run' \notin TerminalRunStates,
                    NEW p \in Phases, NEW s \in Steps, NEW n \in DOMAIN attempts'[p][s],
                    attempts'[p][s][n].status = "running"
             PROVE  [step |-> s, phase |-> p, no |-> n] \in rq'
  BY DEF CompletionInv
<1>1. UNCHANGED <<run, step, attempts>>
  BY DEF StartRecovery, database
<1>2. rq' = UNION {Unresolved(u) : u \in Steps}
  BY <1>1 DEF StartRecovery
<1> DEFINE r == [step |-> s, phase |-> p, no |-> n]
<1>3. r \in Refs(s) /\ StatusOf(r) = "running"
  BY <1>1, RefsMembers
<1>4. ASSUME NEW c \in Refs(s), StatusOf(c) = "running"
      PROVE  c = r
  <2>1. /\ c.phase \in Phases /\ c.no \in DOMAIN attempts[c.phase][s]
        /\ attempts[c.phase][s][c.no].status = "running"
        /\ c = [step |-> s, phase |-> c.phase, no |-> c.no]
    BY <1>4, RefsAreAttempts
  <2>2. attempts[p][s][n].status = "running" /\ n \in DOMAIN attempts[p][s]
    BY <1>1
  <2>3. c.phase = p /\ c.no = n
    <3>1. CASE step[s] = "running"
      <4>1. DOMAIN attempts["compensation"][s] = {}
        BY <3>1 DEF RuntimeInv, AttemptInv, CompensationInv
      <4> QED
        BY <2>1, <2>2, <4>1 DEF RuntimeInv, AttemptInv, OneForwardAttempt, Phases
    <3>2. CASE step[s] # "running"
      BY <2>1, <2>2, <3>2
         DEF RuntimeInv, AttemptInv, OneForwardAttempt, OneCompensation, Phases
    <3> QED
      BY <3>1, <3>2
  <2> QED
    BY <2>1, <2>3
<1> HIDE DEF r
<1>5. r \in Unresolved(s)
  <2> DEFINE R == {c \in Refs(s) : StatusOf(c) = "running"}
  <2>1. r \in R /\ \A c \in R : c = r
    BY <1>3, <1>4
  <2>2. R # {}
    BY <2>1
  <2>3. Unresolved(s) = {c \in R : \A d \in R \ {c} :
                           d.no < c.no \/ (d.no = c.no /\ c.phase = "forward")}
    BY <2>2 DEF Unresolved
  <2> HIDE DEF R
  <2> QED
    BY <2>1, <2>3
<1>6. r \in rq'
  <2>1. \E U \in {Unresolved(u) : u \in Steps} : r \in U
    BY <1>5
  <2> QED
    BY <1>2, <2>1
<1> QED
  BY <1>6 DEF r

LEMMA NextCompletion ==
    ASSUME RuntimeInv, RuntimeInv', RecoveryAlone, CompletionInv, [AnyNext]_vars
    PROVE  CompletionInv'
<1> USE DEF database
<1> SUFFICES ASSUME run' \notin TerminalRunStates, pc' \notin {"down", "boot"},
                    NEW p \in Phases, NEW s \in Steps, NEW n \in DOMAIN attempts'[p][s],
                    attempts'[p][s][n].status = "running"
             PROVE  Attended(p, s, n)'
  BY DEF CompletionInv, Attended
<1>0. /\ RunStaysOver /\ TypeInv /\ TypeInv' /\ QueueInv
      /\ AttemptInv /\ DatabaseInv /\ FuturesInv /\ OwnedInv
  BY NextStaysOver, AttemptInvParts DEF RuntimeInv, FuturesInv
<1>1. ASSUME pc \notin {"down", "boot"}, n \in DOMAIN attempts[p][s],
             attempts[p][s][n].status = "running"
      PROVE  Attended(p, s, n)
  <2>1. run \notin TerminalRunStates
    BY <1>0 DEF RunStaysOver
  <2> QED
    BY <1>1, <2>1 DEF CompletionInv, Attended
<1>2. ASSUME pc \notin {"down", "boot"}, UNCHANGED <<attempts, threads, rq>>
      PROVE  Attended(p, s, n)'
  BY <1>1, <1>2 DEF Attended
<1>3. CASE UNCHANGED vars
  BY <1>2, <1>3 DEF vars
<1>4. CASE ToolMoves
  <2>1. UNCHANGED <<attempts, pc, rq>>
    BY <1>4 DEF ToolMoves
  <2>2. \A t \in threads : t.hold = "owned" =>
           \E w \in threads' : /\ w.hold = "owned" /\ w.step = t.step
                               /\ w.phase = t.phase /\ w.no = t.no
    BY <1>0, <1>4, ToolsKeepOwned
  <2>3. Attended(p, s, n)
    BY <1>1, <2>1
  <2> QED
    BY <2>1, <2>2, <2>3 DEF Attended
<1>5. ASSUME NEW t \in threads, Collect(t) \/ Expire(t) \/ CloseOutcome(t)
      PROVE  Attended(p, s, n)'
  <2>1. PICK out \in Outcomes \cup {"none"} : PersistOutcome(t, out)
    BY <1>0, <1>5 DEF Collect, Expire, CloseOutcome, Outcomes, Failures, TypeInv, LooseTypeOK, Future
  <2>2. /\ t.hold = "owned" /\ pc \in {"idle", "closing"} /\ pc' = pc /\ rq' = rq
        /\ threads \ {t} \subseteq threads'
    BY <1>5 DEF Collect, Expire, CloseOutcome
  <2>3. Completed(t.phase, t.step, t.no)
    BY <1>0, <2>1, <2>2, PersistCompletes
  <2>4. /\ n \in DOMAIN attempts[p][s]
        /\ attempts[p][s][n].status = "running"
        /\ p # t.phase \/ s # t.step \/ n # t.no
    BY <2>3 DEF Completed
  <2>5. Attended(p, s, n)
    BY <1>1, <2>2, <2>4
  <2> QED
    BY <2>2, <2>4, <2>5 DEF Attended
<1>6. ASSUME NEW u \in Steps, \/ StartAttempt(u) \/ SubmissionFails(u)
                             \/ StartCompensation(u) \/ CompensationSubmissionFails(u)
      PROVE  Attended(p, s, n)'
  <2>1. /\ pc \in {"start", "idle"} /\ rq' = rq /\ threads \subseteq threads'
    BY <1>6 DEF StartAttempt, SubmissionFails, StartCompensation,
         CompensationSubmissionFails, Compensating
  <2>2. PICK q \in Phases, a \in Attempt :
           /\ attempts' = [attempts EXCEPT ![q][u] = Append(@, a)]
           /\ a.status = "running" => NewThread(u, q) \in threads'
    <3>1. CASE StartAttempt(u) \/ StartCompensation(u)
      <4>1. RunningAttempt \in Attempt
        BY DEF RunningAttempt, Attempt
      <4> QED
        BY <3>1, <4>1 DEF StartAttempt, StartCompensation, Phases
    <3>2. CASE SubmissionFails(u)
      <4>1. AttemptAfter("retryable") \in Attempt /\ AttemptAfter("retryable").status # "running"
        BY AttemptAfterType DEF Outcomes, Failures, AttemptAfter
      <4> QED
        BY <3>2, <4>1 DEF SubmissionFails, Phases
    <3>3. CASE CompensationSubmissionFails(u)
      <4>1. AttemptAfter("permanent") \in Attempt /\ AttemptAfter("permanent").status # "running"
        BY AttemptAfterType DEF Outcomes, Failures, AttemptAfter
      <4> QED
        BY <3>3, <4>1 DEF CompensationSubmissionFails, Phases
    <3> QED
      BY <1>6, <3>1, <3>2, <3>3
  <2>3. Added(q, u, a)
    BY <1>0, <2>2, AppendAdds DEF TypeInv, LooseTypeOK
  <2>4. \/ /\ n \in DOMAIN attempts[p][s] /\ attempts[p][s][n].status = "running"
        \/ p = q /\ s = u /\ n = Len(attempts[q][u]) + 1 /\ a.status = "running"
    <3>1. CASE p # q \/ s # u
      <4>1. attempts'[p][s] = attempts[p][s]
        BY <2>3, <3>1 DEF Added
      <4> QED
        BY <4>1
    <3>2. CASE p = q /\ s = u
      <4>1. /\ DOMAIN attempts[q][u] = 1..Len(attempts[q][u]) /\ Len(attempts[q][u]) \in Nat
            /\ DOMAIN attempts'[q][u] = 1..(Len(attempts[q][u]) + 1)
            /\ attempts'[q][u][Len(attempts[q][u]) + 1] = a
            /\ \A k \in DOMAIN attempts[q][u] : attempts'[q][u][k] = attempts[q][u][k]
        BY <2>3 DEF Added
      <4>2. n \in DOMAIN attempts[q][u] \/ n = Len(attempts[q][u]) + 1
        BY <3>2, <4>1
      <4> QED
        BY <3>2, <4>1, <4>2
    <3> QED
      BY <3>1, <3>2
  <2>5. CASE n \in DOMAIN attempts[p][s] /\ attempts[p][s][n].status = "running"
    BY <1>1, <2>1, <2>5 DEF Attended
  <2>6. CASE p = q /\ s = u /\ n = Len(attempts[q][u]) + 1 /\ a.status = "running"
    BY <2>2, <2>6 DEF Attended, NewThread
  <2> QED
    BY <2>4, <2>5, <2>6
<1>7. CASE RunOnce
  <2>1. ASSUME \/ SelectUnprotected \/ BarrierBlocks \/ EndBatch
               \/ PromoteDependencyReadySteps
               \/ \E u \in Steps : SelectApproved(u) \/ EstablishApprovalBarrier(u)
               \/ \E due \in SUBSET {u \in Steps : step[u] = "retry_wait"} :
                     PromoteDueRetries(due)
        PROVE  pc \notin {"down", "boot"} /\ UNCHANGED <<attempts, threads, rq>>
    BY <2>1 DEF SelectUnprotected, BarrierBlocks, EndBatch, SelectApproved,
         PromoteDependencyReadySteps, PromoteDueRetries, EstablishApprovalBarrier
  <2> QED
    BY <2>1, <1>2, <1>5, <1>6, <1>7 DEF RunOnce
<1>8. CASE Operators
  <2>1. UNCHANGED <<attempts, threads, pc, rq>>
    BY <1>8 DEF Operators, Decide, CancelRun
  <2> QED
    BY <1>2, <2>1
<1>9. CASE Recovery
  <2>1. ASSUME NEW r \in rq, RecoverApplied(r) \/ RecoverNotApplied(r) \/ RecoverManually(r)
        PROVE  Attended(p, s, n)'
    <3>1. /\ r.step \in Steps /\ r.phase \in Phases
          /\ pc = "recover" /\ pc' = pc /\ threads' = threads /\ rq' = rq \ {r}
          /\ Completed(r.phase, r.step, r.no)
      BY <1>0, <2>1, RecoverCompletes
    <3>2. /\ n \in DOMAIN attempts[p][s]
          /\ attempts[p][s][n].status = "running"
          /\ p # r.phase \/ s # r.step \/ n # r.no
      BY <3>1 DEF Completed
    <3>3. Attended(p, s, n)
      BY <1>1, <3>1, <3>2
    <3>4. [step |-> s, phase |-> p, no |-> n] # r
      BY <3>2
    <3> QED
      BY <3>1, <3>3, <3>4 DEF Attended
  <2>2. ASSUME NEW r \in rq, RecoveryRaises(r)
        PROVE  FALSE
    <3>1. ~RunCan(run, "manual_intervention") /\ UNCHANGED <<run, attempts>>
      BY <2>2 DEF RecoveryRaises
    <3>2. run = "pending"
      BY <1>0, <3>1 DEF RunCan, RunTransitions, TypeInv, LooseTypeOK, RunStates, TerminalRunStates
    <3>3. DOMAIN attempts[p][s] = {}
      BY <1>0, <3>2 DEF DatabaseInv, UntouchedInv, CompensationInv, Phases
    <3> QED
      BY <3>1, <3>3
  <2>3. CASE FinishRecovery
    <3>1. pc = "recover" /\ UNCHANGED <<attempts, threads, rq>>
      BY <2>3 DEF FinishRecovery
    <3> QED
      BY <1>2, <3>1
  <2>4. CASE StartRecovery
    <3>1. CompletionInv'
      BY <2>4, RecoveryTakesAll
    <3> QED
      BY <3>1 DEF CompletionInv, Attended
  <2> QED
    BY <1>9, <2>1, <2>2, <2>3, <2>4 DEF Recovery
<1>10. CASE Process
  <2>1. CASE CloseWaiting \/ FinishClose \/ StartDriverAgain \/ Crash \/ Restart
    BY <2>1 DEF CloseWaiting, FinishClose, StartDriverAgain, Crash, Restart
  <2>2. CASE BeginClose
    BY <2>2, <1>2 DEF BeginClose
  <2> QED
    BY <2>1, <2>2, <1>5, <1>10 DEF Process
<1> QED
  BY <1>3, <1>4, <1>7, <1>8, <1>9, <1>10 DEF AnyNext, RunTerminal

(***************************************************************************)
(* Once the driver has started, every running attempt of a run that is not *)
(* over has a future the coordinator will collect, through any crashes,    *)
(* closes and recoveries.                                                  *)
(***************************************************************************)
THEOREM RecoveryIsComplete ==
    ASSUME RecoveryAlone
    PROVE  Spec => []RecoveryLeavesNothing
<1>1. Init => CompletionInv
  BY DEF Init, CompletionInv, Phases
<1>2. RuntimeInv /\ RuntimeInv' /\ CompletionInv /\ [AnyNext]_vars => CompletionInv'
  BY NextCompletion
<1>3. ASSUME RuntimeInv, CompletionInv PROVE RecoveryLeavesNothing
  <2> SUFFICES ASSUME pc \in {"idle", "ready", "select", "start"},
                      run \notin TerminalRunStates,
                      NEW s \in Steps, NEW r \in Refs(s), StatusOf(r) = "running"
               PROVE  \E t \in Owned : t.step = s /\ t.phase = r.phase /\ t.no = r.no
    BY DEF RecoveryLeavesNothing
  <2>1. rq = {}
    BY <1>3 DEF RuntimeInv, QueueInv
  <2>2. \E t \in threads : /\ t.hold = "owned"
                           /\ t.step = s /\ t.phase = r.phase /\ t.no = r.no
    BY <1>3, <2>1, RefsAreAttempts DEF CompletionInv
  <2> QED
    BY <2>2 DEF Owned
<1> QED
  BY <1>1, <1>2, <1>3, SpecIsAny, RuntimeInvAlways, PTL DEF AnySpec

-----------------------------------------------------------------------------
(* The approval barrier and compensation.                                  *)

\* run_once has checked that the run is forward; until it is back only an
\* operator's cancellation, or a failure of its own, changes that.
CycleInv ==
    /\ pc \in {"ready", "select"} => run \in ForwardRunStates \cup {"cancelled"}
    /\ pc = "start" => run # "waiting_approval"

\* A waiting run has one pending request, and nothing unresolved.
WaitingInv ==
    /\ run = "waiting_approval" =>
          /\ \E i \in DOMAIN approvals : \A k \in DOMAIN approvals :
                approvals[k].status = "pending" <=> k = i
          /\ ~RecoveryRequired
          /\ \A s \in Steps : step[s] # "running"
    /\ (\E i \in DOMAIN approvals : approvals[i].status = "pending") =>
          run \in {"waiting_approval", "cancelled"}

BarrierInv == CycleInv /\ WaitingInv

-----------------------------------------------------------------------------
(* Which actions write the database.                                       *)

\* An outcome is persisted, an attempt started, or recovery decides.
Persists == \E t \in threads : Collect(t) \/ Expire(t) \/ CloseOutcome(t)
Establishes == \E s \in Steps : EstablishApprovalBarrier(s)
Starts == \E s \in Steps : StartAttempt(s) \/ SubmissionFails(s)
Compensates == \E s \in Steps : StartCompensation(s) \/ CompensationSubmissionFails(s)
Promotes == \/ PromoteDependencyReadySteps
            \/ \E due \in SUBSET {s \in Steps : step[s] = "retry_wait"} : PromoteDueRetries(due)
Decides == \E i \in DOMAIN approvals, d \in {"approved", "rejected"} : Decide(i, d)
Resolves == \E r \in rq : RecoverApplied(r) \/ RecoverNotApplied(r) \/ RecoverManually(r)

LEMMA DatabaseActions ==
    ASSUME [AnyNext]_vars
    PROVE  \/ UNCHANGED database
           \/ Persists \/ Establishes \/ Starts \/ Compensates \/ Promotes
           \/ Decides \/ CancelRun \/ Resolves
<1>1. CASE UNCHANGED vars
  BY <1>1 DEF vars
<1>2. CASE ToolMoves
  BY <1>2 DEF ToolMoves
<1>3. CASE RunOnce
  <2>1. ASSUME SelectUnprotected \/ BarrierBlocks \/ EndBatch \/ \E s \in Steps : SelectApproved(s)
        PROVE  UNCHANGED database
    BY <2>1 DEF SelectUnprotected, BarrierBlocks, EndBatch, SelectApproved
  <2> QED
    BY <1>3, <2>1 DEF RunOnce, Persists, Establishes, Starts, Compensates, Promotes
<1>4. CASE Operators
  BY <1>4 DEF Operators, Decides
<1>5. CASE Recovery
  <2>1. ASSUME StartRecovery \/ FinishRecovery \/ \E r \in rq : RecoveryRaises(r)
        PROVE  UNCHANGED database
    BY <2>1 DEF StartRecovery, FinishRecovery, RecoveryRaises
  <2> QED
    BY <1>5, <2>1 DEF Recovery, Resolves
<1>6. CASE Process
  <2>1. ASSUME CloseWaiting \/ BeginClose \/ FinishClose \/ StartDriverAgain \/ Crash \/ Restart
        PROVE  UNCHANGED database
    BY <2>1 DEF CloseWaiting, BeginClose, FinishClose, StartDriverAgain, Crash, Restart
  <2> QED
    BY <1>6, <2>1 DEF Process, Persists
<1> QED
  BY <1>1, <1>2, <1>3, <1>4, <1>5, <1>6 DEF AnyNext, RunTerminal

\* Persisting an outcome touches no approval and makes no run wait.
LEMMA PersistsQuietly ==
    ASSUME Persists
    PROVE  approvals' = approvals /\ (run' = "waiting_approval" => run = "waiting_approval")
<1>0. PICK t \in threads : \E out : PersistOutcome(t, out)
  BY DEF Persists, Collect, Expire, CloseOutcome
<1>1. PICK out : PersistOutcome(t, out)
  BY <1>0
<1>2. CASE PersistForward(t.step, t.no, out)
  <2>1. \E q, at : run' = RunAfterForward(run, t.step, q, at)
    BY <1>2 DEF PersistForward
  <2> QED
    BY <1>1, <2>1 DEF PersistOutcome, RunAfterForward
<1>3. CASE PersistCompensation(t.step, t.no, out)
  BY <1>1, <1>3 DEF PersistOutcome, PersistCompensation
<1> QED
  BY <1>1, <1>2, <1>3 DEF PersistOutcome

\* Only the barrier makes a run wait, only it and a decision write approvals.
LEMMA ApprovalActions ==
    ASSUME [AnyNext]_vars
    PROVE  \/ /\ approvals' = approvals
              /\ run' = "waiting_approval" => run = "waiting_approval"
           \/ Establishes
           \/ Decides
<1>1. CASE UNCHANGED database
  BY <1>1 DEF database
<1>2. CASE Starts
  BY <1>2 DEF Starts, StartAttempt, SubmissionFails, RunAfterForward
<1>3. CASE Compensates
  BY <1>3 DEF Compensates, StartCompensation, CompensationSubmissionFails
<1>4. CASE Promotes
  BY <1>4 DEF Promotes, PromoteDependencyReadySteps, PromoteDueRetries
<1>5. CASE CancelRun
  BY <1>5 DEF CancelRun
<1>6. CASE Resolves
  BY <1>6 DEF Resolves, RecoverApplied, RecoverNotApplied, RecoverManually, RunAfterApplied
<1> QED
  BY <1>1, <1>2, <1>3, <1>4, <1>5, <1>6, DatabaseActions, PersistsQuietly

-----------------------------------------------------------------------------
(* A waiting run.                                                          *)

LEMMA NextCycle ==
    ASSUME CycleInv, [AnyNext]_vars
    PROVE  CycleInv'
<1> USE DEF database
<1>1. CASE UNCHANGED vars
  BY <1>1 DEF vars, CycleInv
<1>2. CASE ToolMoves
  BY <1>2 DEF ToolMoves, CycleInv
<1>3. ASSUME Persists
      PROVE  CycleInv'
  BY <1>3 DEF Persists, Collect, Expire, CloseOutcome, CycleInv
<1>4. CASE RunOnce
  <2>1. CASE SelectUnprotected \/ BarrierBlocks \/ EndBatch \/ \E s \in Steps : SelectApproved(s)
    BY <2>1 DEF SelectUnprotected, BarrierBlocks, EndBatch, SelectApproved, CycleInv,
         ForwardRunStates
  <2>2. CASE Establishes
    BY <2>2 DEF Establishes, EstablishApprovalBarrier, CycleInv
  <2>3. CASE Starts
    BY <2>3 DEF Starts, StartAttempt, SubmissionFails, RunAfterForward, CycleInv
  <2>4. CASE Compensates
    BY <2>4 DEF Compensates, StartCompensation, CompensationSubmissionFails, Compensating,
         CycleInv
  <2>5. CASE Promotes
    BY <2>5 DEF Promotes, PromoteDependencyReadySteps, PromoteDueRetries, CycleInv,
         ForwardRunStates
  <2> QED
    BY <1>3, <1>4, <2>1, <2>2, <2>3, <2>4, <2>5
       DEF RunOnce, Persists, Establishes, Starts, Compensates, Promotes
<1>5. CASE Operators
  BY <1>5 DEF Operators, Decide, CancelRun, CycleInv, ForwardRunStates
<1>6. CASE Recovery
  BY <1>6 DEF Recovery, StartRecovery, FinishRecovery, RecoveryRaises, RecoverApplied,
       RecoverNotApplied, RecoverManually, NextToRecover, CycleInv
<1>7. CASE Process
  <2>1. ASSUME CloseWaiting \/ BeginClose \/ FinishClose \/ StartDriverAgain \/ Crash \/ Restart
        PROVE  CycleInv'
    BY <2>1 DEF CloseWaiting, BeginClose, FinishClose, StartDriverAgain, Crash, Restart, CycleInv
  <2> QED
    BY <1>3, <1>7, <2>1 DEF Process, Persists
<1> QED
  BY <1>1, <1>2, <1>4, <1>5, <1>6, <1>7 DEF AnyNext, RunTerminal

\* While a run waits, nothing of it changes but by an operator.
LEMMA WaitingStands ==
    ASSUME RuntimeInv, BarrierInv, [AnyNext]_vars, run = "waiting_approval"
    PROVE  /\ UNCHANGED <<step, attempts>>
           /\ ~Establishes
           /\ Decides \/ run' \in {"waiting_approval", "cancelled"}
<1>0. TypeInv /\ AttemptInv /\ DatabaseInv /\ OwnedInv /\ RecoverInv /\ QueueInv
  BY AttemptInvParts DEF RuntimeInv, FuturesInv
<1>1. /\ \A u \in Steps : step[u] \notin {"running", "result_unknown"}
      /\ \A u \in Steps : DOMAIN attempts["compensation"][u] = {}
  BY <1>0 DEF BarrierInv, WaitingInv, RecoveryRequired, DatabaseInv, CompensationInv
<1>2. \A t \in threads : t.hold # "owned"
  BY <1>0, <1>1, OwnedSteps DEF CompensationStates, Phases
<1>3. ~Persists
  BY <1>2 DEF Persists, Collect, Expire, CloseOutcome
<1>4. ~Resolves
  <2> SUFFICES ASSUME NEW r \in rq PROVE FALSE
    BY DEF Resolves
  <2>1. /\ r.step \in Steps /\ r.phase \in Phases /\ r.no \in DOMAIN attempts[r.phase][r.step]
        /\ attempts[r.phase][r.step][r.no].status = "running" \/ step[r.step] = "result_unknown"
    BY <1>0 DEF TypeInv, LooseTypeOK, AttemptRef, QueueInv, RecoverInv
  <2> QED
    BY <1>0, <1>1, <2>1 DEF Phases, DatabaseInv, OneForwardAttempt
<1>5. ~Establishes /\ ~Promotes
  BY DEF BarrierInv, CycleInv, ForwardRunStates, Establishes, Promotes,
     EstablishApprovalBarrier, PromoteDependencyReadySteps, PromoteDueRetries
<1>6. ~Starts /\ ~Compensates
  BY DEF Starts, StartAttempt, SubmissionFails, Compensates, StartCompensation,
     CompensationSubmissionFails, Compensating, ForwardRunStates
<1>7. CASE UNCHANGED database
  BY <1>5, <1>7 DEF database
<1>8. CASE Decides \/ CancelRun
  BY <1>5, <1>8 DEF Decides, Decide, CancelRun
<1> QED
  BY <1>3, <1>4, <1>5, <1>6, <1>7, <1>8, DatabaseActions

\* What recovery requires depends on the steps and their attempts alone.
LEMMA RecoveryRequiredStands ==
    ASSUME UNCHANGED <<step, attempts>>
    PROVE  RecoveryRequired' = RecoveryRequired
BY DEF RecoveryRequired, Refs, StatusOf

\* The barrier leaves one pending request, on a drained run.
LEMMA BarrierWaits ==
    ASSUME TypeInv, TypeInv', BarrierInv, NEW s \in Steps, EstablishApprovalBarrier(s)
    PROVE  WaitingInv'
<1>1. run \in {"pending", "running", "cancelled"} /\ run # "waiting_approval"
  BY DEF BarrierInv, CycleInv, EstablishApprovalBarrier, ForwardRunStates
<1>2. UNCHANGED <<step, attempts>>
  BY DEF EstablishApprovalBarrier
<1>3. CASE UNCHANGED <<run, approvals>>
  BY <1>1, <1>3 DEF BarrierInv, WaitingInv
<1>4. CASE run # "cancelled" /\ run' = "waiting_approval"
  <2> DEFINE old == Invalidated(s)
             new == [step |-> s, binding |-> binding, status |-> "pending"]
  <2>1. \A i \in DOMAIN approvals : approvals[i].status # "pending"
    BY <1>1, <1>4 DEF BarrierInv, WaitingInv
  <2>2. DOMAIN old = DOMAIN approvals /\ \A i \in DOMAIN approvals : old[i].status # "pending"
    BY <2>1 DEF Invalidated
  <2>3. approvals' = Append(old, new)
    <3>1. run \in {"pending", "running"}
      BY <1>1, <1>4
    <3>2. RunCan(run, "waiting_approval")
      BY <3>1 DEF RunCan, RunTransitions, RunStates
    <3> QED
      BY <2>2, <3>2 DEF EstablishApprovalBarrier
  <2>4. old \in Seq(ApprovalRequest) /\ new \in ApprovalRequest /\ new.status = "pending"
    <3>1. PICK m \in Nat : approvals \in [1..m -> ApprovalRequest]
      BY SeqDef DEF TypeInv, LooseTypeOK
    <3>2. old \in [1..m -> ApprovalRequest]
      BY <3>1 DEF Invalidated, ApprovalRequest
    <3> HIDE DEF old
    <3>3. old \in Seq(ApprovalRequest)
      BY <3>2, SeqDef
    <3>4. new \in ApprovalRequest /\ new.status = "pending"
      BY DEF TypeInv, LooseTypeOK, ApprovalRequest
    <3> QED
      BY <3>3, <3>4
  <2> HIDE DEF old, new
  <2>5. /\ Len(old) \in Nat /\ DOMAIN old = 1..Len(old)
        /\ DOMAIN Append(old, new) = 1..(Len(old) + 1)
        /\ Append(old, new)[Len(old) + 1] = new
        /\ \A i \in 1..Len(old) : Append(old, new)[i] = old[i]
    BY <2>4, AppendProperties, LenProperties
  <2>6. \A k \in DOMAIN approvals' : approvals'[k].status = "pending" <=> k = Len(old) + 1
    BY <2>2, <2>3, <2>4, <2>5
  <2>7. ~RecoveryRequired' /\ \A u \in Steps : step'[u] # "running"
    BY <1>2, RecoveryRequiredStands, DrainedIsQuiet DEF EstablishApprovalBarrier, Drained,
       RecoveryWork
  <2>8. Len(old) + 1 \in DOMAIN approvals'
    BY <2>3, <2>5
  <2> QED
    BY <1>4, <2>6, <2>7, <2>8 DEF WaitingInv
<1> QED
  BY <1>1, <1>3, <1>4 DEF EstablishApprovalBarrier, RunCan, RunTransitions, RunStates

\* A decision decides the only pending request, and the run waits no more.
LEMMA DecisionEnds ==
    ASSUME BarrierInv, TypeInv, NEW i \in DOMAIN approvals, NEW d \in {"approved", "rejected"},
           Decide(i, d)
    PROVE  WaitingInv'
<1>1. /\ run = "waiting_approval" /\ approvals[i].status = "pending"
      /\ approvals' = [approvals EXCEPT ![i].status = d]
      /\ run' # "waiting_approval"
  BY DEF Decide, RejectionTarget
<1>2. \A k \in DOMAIN approvals : approvals[k].status = "pending" => k = i
  BY <1>1 DEF BarrierInv, WaitingInv
<1>3. \A k \in DOMAIN approvals' : approvals'[k].status # "pending"
  <2>1. DOMAIN approvals' = DOMAIN approvals
    BY <1>1
  <2>2. \A k \in DOMAIN approvals : k # i => approvals'[k] = approvals[k]
    BY <1>1
  <2>3. approvals'[i].status = d
    <3>1. approvals[i] \in ApprovalRequest
      BY DEF TypeInv, LooseTypeOK
    <3>2. approvals'[i] = [approvals[i] EXCEPT !.status = d]
      BY <1>1
    <3> QED
      BY <3>1, <3>2 DEF ApprovalRequest
  <2> QED
    BY <1>2, <2>1, <2>2, <2>3
<1> QED
  BY <1>1, <1>3 DEF WaitingInv

LEMMA NextWaiting ==
    ASSUME RuntimeInv, RuntimeInv', BarrierInv, [AnyNext]_vars
    PROVE  WaitingInv'
<1>0. TypeInv /\ TypeInv'
  BY DEF RuntimeInv
<1>1. CASE Establishes
  BY <1>0, <1>1, BarrierWaits DEF Establishes
<1>2. CASE Decides
  BY <1>0, <1>2, DecisionEnds DEF Decides
<1>3. CASE approvals' = approvals /\ (run' = "waiting_approval" => run = "waiting_approval")
  <2>1. run' = "waiting_approval" => UNCHANGED <<step, attempts>>
    BY <1>3, WaitingStands
  <2>2. run = "cancelled" => run' = "cancelled"
    BY <1>0, NextStaysOver DEF RunStaysOver, TerminalRunStates
  <2>3. run = "waiting_approval" => Decides \/ run' \in {"waiting_approval", "cancelled"}
    BY WaitingStands
  <2> QED
    BY <1>2, <1>3, <2>1, <2>2, <2>3, RecoveryRequiredStands DEF BarrierInv, WaitingInv
<1> QED
  BY <1>1, <1>2, <1>3, ApprovalActions

LEMMA BarrierInvAlways ==
    ASSUME RecoveryAlone
    PROVE  AnySpec => []BarrierInv
<1>1. Init => BarrierInv
  BY DEF Init, BarrierInv, CycleInv, WaitingInv
<1>2. RuntimeInv /\ RuntimeInv' /\ BarrierInv /\ [AnyNext]_vars => BarrierInv'
  BY NextCycle, NextWaiting DEF BarrierInv
<1> QED
  BY <1>1, <1>2, RuntimeInvAlways, PTL DEF AnySpec

(***************************************************************************)
(* A run waits for approval exactly while it has one request an operator   *)
(* can decide, and never with work in flight or unresolved.                *)
(***************************************************************************)
THEOREM BarrierHolds ==
    ASSUME RecoveryAlone
    PROVE  Spec => []ApprovalBarrier
<1>1. ASSUME BarrierInv PROVE ApprovalBarrier
  <2> DEFINE pending == {i \in DOMAIN approvals : approvals[i].status = "pending"}
  <2>1. run = "waiting_approval" => Cardinality(pending) = 1
    <3> SUFFICES ASSUME run = "waiting_approval" PROVE Cardinality(pending) = 1
      OBVIOUS
    <3>1. PICK i \in DOMAIN approvals : \A k \in DOMAIN approvals :
             approvals[k].status = "pending" <=> k = i
      BY <1>1 DEF BarrierInv, WaitingInv
    <3>2. pending = {i}
      BY <3>1
    <3> QED
      BY <3>2, FS_Singleton
  <2>2. pending # {} => run \in {"waiting_approval", "cancelled"}
    BY <1>1 DEF BarrierInv, WaitingInv
  <2> QED
    BY <1>1, <2>1, <2>2 DEF ApprovalBarrier, BarrierInv, WaitingInv
<1> QED
  BY <1>1, SpecIsAny, BarrierInvAlways, PTL

-----------------------------------------------------------------------------
(* A compensating run.                                                     *)

\* The effects of a run that did not compensate yet are all still to be undone.
LEMMA NothingCompensatedYet ==
    ASSUME \A u \in Steps : DOMAIN attempts'["compensation"][u] = {}
    PROVE  PendingCompensations(step', attempts')
              = CompensableEffects(step', attempts'["forward"])
BY CompensableAssumption DEF PendingCompensations, Compensated, CompensableEffects

(***************************************************************************)
(* An effect still to be undone remains so while its step, its forward     *)
(* attempts and the success of its compensation stay as they are.          *)
(***************************************************************************)
LEMMA WorkRemains ==
    ASSUME NEW u \in PendingCompensations(step, attempts),
           step'[u] = "succeeded",
           attempts'["forward"][u] = attempts["forward"][u],
           \A n \in DOMAIN attempts'["compensation"][u] :
              Succeeded(attempts'["compensation"][u][n]) =>
                 /\ n \in DOMAIN attempts["compensation"][u]
                 /\ Succeeded(attempts["compensation"][u][n])
    PROVE  u \in PendingCompensations(step', attempts')
BY DEF PendingCompensations, CompensableEffects, Compensated

\* A run that moves to compensation has something to undo.
LEMMA EntryHasWork ==
    ASSUME DatabaseInv, run \notin CompensationStates, run' = "compensating",
           \A u \in Steps : attempts'["compensation"][u] = attempts["compensation"][u],
           NEW s \in Steps, NEW q, step' = [step EXCEPT ![s] = q],
           NEW r, r # "compensating", run' = RunAfterForward(r, s, q, attempts')
    PROVE  PendingCompensations(step', attempts') # {}
<1>1. \A u \in Steps : DOMAIN attempts'["compensation"][u] = {}
  BY DEF DatabaseInv, CompensationInv, CompensationStates
<1>2. CompensableEffects(step', attempts'["forward"]) # {}
  BY DEF RunAfterForward
<1> QED
  BY <1>1, <1>2, NothingCompensatedYet

\* Persisting an outcome leaves a compensating run with work.
LEMMA PersistsHasWork ==
    ASSUME TypeInv, DatabaseInv, OwnedInv, CompensationHasWork, Persists
    PROVE  CompensationHasWork'
<1> SUFFICES ASSUME run' = "compensating"
             PROVE  PendingCompensations(step', attempts') # {}
  BY DEF CompensationHasWork, PendingCompensations, CompensableEffects, Compensated
<1>1. PICK t \in threads : t.hold = "owned" /\ \E out \in Outcomes \cup {"none"} :
                               PersistOutcome(t, out)
  BY DEF Persists, Collect, Expire, CloseOutcome, Outcomes, Failures, TypeInv, LooseTypeOK, Future
<1>2. PICK out \in Outcomes \cup {"none"} : PersistOutcome(t, out)
  BY <1>1
<1>3. /\ Completed(t.phase, t.step, t.no)
      /\ t.phase = "forward" => PersistForward(t.step, t.no, out)
      /\ t.phase = "compensation" => PersistCompensation(t.step, t.no, out)
  BY <1>1, <1>2, PersistCompletes
<1>4. t.step \in Steps /\ t.phase \in Phases
  BY DEF TypeInv, LooseTypeOK, Future
<1>5. CASE t.phase = "compensation"
  BY <1>3, <1>5 DEF PersistCompensation
<1>6. CASE t.phase = "forward"
  <2> DEFINE q == NextStepState(t.step, t.no, out)
  <2>1. step[t.step] = "running"
    BY <1>1, <1>6, OwnedSteps
  <2>2. /\ step' = [step EXCEPT ![t.step] = q]
        /\ run' = RunAfterForward(run, t.step, q, attempts')
        /\ attempts'["compensation"] = attempts["compensation"]
        /\ \A u \in Steps \ {t.step} : attempts'["forward"][u] = attempts["forward"][u]
    BY <1>3, <1>4, <1>6 DEF PersistForward, TypeInv, LooseTypeOK, Phases
  <2> HIDE DEF q
  <2>3. CASE run = "compensating"
    <3>1. PICK u \in PendingCompensations(step, attempts) : TRUE
      BY <2>3 DEF CompensationHasWork
    <3>2. u \in Steps /\ step[u] = "succeeded"
      BY CompensableAssumption DEF PendingCompensations, CompensableEffects
    <3>3. step'[u] = "succeeded" /\ attempts'["forward"][u] = attempts["forward"][u]
      BY <2>1, <2>2, <3>2
    <3> QED
      BY <2>2, <3>3, WorkRemains
  <2>4. CASE run # "compensating"
    <3>1. run \notin CompensationStates
      BY <2>2, <2>4 DEF RunAfterForward, CompensationStates
    <3> QED
      BY <1>4, <2>2, <2>4, <3>1, EntryHasWork
  <2> QED
    BY <2>3, <2>4
<1> QED
  BY <1>4, <1>5, <1>6 DEF Phases

\* Rejecting an approval starts compensation only with an effect to undo.
LEMMA RejectionHasWork ==
    ASSUME TypeInv, DatabaseInv, Decides
    PROVE  CompensationHasWork'
<1> SUFFICES ASSUME run' = "compensating"
             PROVE  PendingCompensations(step', attempts') # {}
  BY DEF CompensationHasWork, PendingCompensations, CompensableEffects, Compensated
<1>1. UNCHANGED <<step, attempts>> /\ run = "waiting_approval" /\ RejectionTarget = "compensating"
  BY DEF Decides, Decide
<1>2. \A u \in Steps : DOMAIN attempts["compensation"][u] = {}
  BY <1>1 DEF DatabaseInv, CompensationInv
<1> DEFINE reported == {s \in Steps :
                          /\ step[s] = "succeeded"
                          /\ \E r \in Refs(s) : /\ StatusOf(r) = "success"
                                                /\ attempts[r.phase][s][r.no].effect}
<1>3. PICK s \in reported : s \in Compensable
  <2>1. reported # {} /\ reported \ Compensable = {}
    BY <1>1 DEF RejectionTarget
  <2> HIDE DEF reported
  <2> QED
    BY <2>1
<1>4. PICK r \in Refs(s) : StatusOf(r) = "success" /\ attempts[r.phase][s][r.no].effect
  OBVIOUS
<1>5. /\ r.phase = "forward" /\ r.no \in DOMAIN attempts["forward"][s]
      /\ attempts["forward"][s][r.no].status = "success"
  BY <1>2, <1>4, RefsAreAttempts DEF Phases
<1>6. s \in CompensableEffects(step, attempts["forward"])
  BY <1>3, <1>4, <1>5 DEF CompensableEffects, Succeeded
<1> QED
  BY <1>1, <1>2, <1>6, NothingCompensatedYet

\* Starting attempts of the run leaves it with work.
LEMMA StartsHasWork ==
    ASSUME TypeInv, TypeInv', DatabaseInv, CompensationHasWork, Starts \/ Compensates
    PROVE  CompensationHasWork'
<1> SUFFICES ASSUME run' = "compensating"
             PROVE  PendingCompensations(step', attempts') # {}
  BY DEF CompensationHasWork, PendingCompensations, CompensableEffects, Compensated
<1>1. ASSUME NEW s \in Steps, StartAttempt(s)
      PROVE  FALSE
  BY <1>1 DEF StartAttempt
<1>2. ASSUME NEW s \in Steps, SubmissionFails(s)
      PROVE  PendingCompensations(step', attempts') # {}
  <2> DEFINE q == NextStepState(s, Len(attempts["forward"][s]) + 1, "retryable")
  <2>1. /\ step' = [step EXCEPT ![s] = q]
        /\ run' = RunAfterForward("running", s, q, attempts')
        /\ attempts'["compensation"] = attempts["compensation"]
        /\ run \notin CompensationStates
    BY <1>2 DEF SubmissionFails, TypeInv, LooseTypeOK, Phases, ForwardRunStates, CompensationStates
  <2> HIDE DEF q
  <2> QED
    BY <2>1, EntryHasWork
<1>3. ASSUME NEW s \in Steps, StartCompensation(s)
      PROVE  PendingCompensations(step', attempts') # {}
  <2>1. /\ s \in PendingCompensations(step, attempts)
        /\ attempts' = [attempts EXCEPT !["compensation"][s] = Append(@, RunningAttempt)]
        /\ step' = step
    BY <1>3 DEF StartCompensation
  <2>2. RunningAttempt \in Attempt /\ ~Succeeded(RunningAttempt)
    BY DEF RunningAttempt, Attempt, Succeeded
  <2>3. Added("compensation", s, RunningAttempt)
    BY <2>1, <2>2, AppendAdds DEF TypeInv, LooseTypeOK, Phases
  <2>4. \A n \in DOMAIN attempts'["compensation"][s] :
           Succeeded(attempts'["compensation"][s][n]) =>
              /\ n \in DOMAIN attempts["compensation"][s]
              /\ Succeeded(attempts["compensation"][s][n])
    <3> DEFINE old == attempts["compensation"][s]
               new == attempts'["compensation"][s]
    <3>1. /\ Len(old) \in Nat /\ DOMAIN old = 1..Len(old) /\ DOMAIN new = 1..(Len(old) + 1)
          /\ new[Len(old) + 1] = RunningAttempt
          /\ \A n \in DOMAIN old : new[n] = old[n]
      BY <2>3 DEF Added
    <3> HIDE DEF old, new
    <3>2. \A n \in DOMAIN new : n \in DOMAIN old \/ n = Len(old) + 1
      BY <3>1
    <3>3. \A n \in DOMAIN new : Succeeded(new[n]) => n \in DOMAIN old /\ Succeeded(old[n])
      BY <2>2, <3>1, <3>2
    <3> QED
      BY <3>3 DEF old, new
  <2>5. step'[s] = "succeeded" /\ attempts'["forward"][s] = attempts["forward"][s]
    BY <2>1, <2>3 DEF PendingCompensations, CompensableEffects, Added, Phases
  <2> QED
    BY <2>1, <2>4, <2>5, WorkRemains
<1>4. ASSUME NEW s \in Steps, CompensationSubmissionFails(s)
      PROVE  FALSE
  BY <1>4 DEF CompensationSubmissionFails
<1> QED
  BY <1>1, <1>2, <1>3, <1>4 DEF Starts, Compensates

\* Recovery leaves a compensating run with work.
LEMMA ResolvesHasWork ==
    ASSUME TypeInv, TypeInv', QueueInv, AttemptInv, CompensationHasWork, Resolves
    PROVE  CompensationHasWork'
<1> SUFFICES ASSUME run' = "compensating"
             PROVE  PendingCompensations(step', attempts') # {}
  BY DEF CompensationHasWork, PendingCompensations, CompensableEffects, Compensated
<1>1. PICK r \in rq : RecoverApplied(r) \/ RecoverNotApplied(r) \/ RecoverManually(r)
  BY DEF Resolves
<1>2. /\ r.step \in Steps /\ r.phase \in Phases
      /\ Completed(r.phase, r.step, r.no)
      /\ r.phase = "forward" =>
            /\ step[r.step] \in {"running", "result_unknown"}
            /\ \E q \in {"succeeded", "ready", "manual_intervention"} :
                  step' = [step EXCEPT ![r.step] = q]
      /\ r.phase = "compensation" => step' = step
  BY <1>1, RecoverCompletes
<1>3. CASE RecoverApplied(r)
  BY <1>2, <1>3 DEF RecoverApplied, RunAfterApplied, Phases
<1>4. CASE RecoverManually(r)
  BY <1>4 DEF RecoverManually
<1>5. CASE RecoverNotApplied(r)
  <2>1. PICK u \in PendingCompensations(step, attempts) : TRUE
    BY <1>5 DEF CompensationHasWork, RecoverNotApplied
  <2>2. u \in Steps /\ step[u] = "succeeded"
    BY CompensableAssumption DEF PendingCompensations, CompensableEffects
  <2>3. attempts'[r.phase][r.step][r.no].status = "not_applied"
    BY <1>2, <1>5 DEF RecoverNotApplied, Resolve, TypeInv, LooseTypeOK, QueueInv
  <2>4. step'[u] = "succeeded" /\ attempts'["forward"][u] = attempts["forward"][u]
    <3>1. PICK a : attempts' = [attempts EXCEPT ![r.phase][r.step][r.no] = a]
      BY <1>5 DEF RecoverNotApplied, Resolve
    <3>2. CASE r.phase = "forward"
      BY <1>2, <2>2, <3>1, <3>2 DEF TypeInv, LooseTypeOK, Phases
    <3>3. CASE r.phase = "compensation"
      BY <1>2, <2>2, <3>1, <3>3 DEF TypeInv, LooseTypeOK, Phases
    <3> QED
      BY <1>2, <3>2, <3>3 DEF Phases
  <2>5. \A n \in DOMAIN attempts'["compensation"][u] :
           Succeeded(attempts'["compensation"][u][n]) =>
              /\ n \in DOMAIN attempts["compensation"][u]
              /\ Succeeded(attempts["compensation"][u][n])
    BY <1>2, <2>2, <2>3 DEF Completed, Succeeded, Phases
  <2> QED
    BY <2>4, <2>5, WorkRemains
<1> QED
  BY <1>1, <1>3, <1>4, <1>5

LEMMA NextHasWork ==
    ASSUME RuntimeInv, RuntimeInv', BarrierInv, CompensationHasWork, [AnyNext]_vars
    PROVE  CompensationHasWork'
<1>0. TypeInv /\ TypeInv' /\ QueueInv /\ AttemptInv /\ DatabaseInv /\ OwnedInv
  BY AttemptInvParts DEF RuntimeInv, FuturesInv
<1>1. ASSUME UNCHANGED <<step, attempts>>, run' = "compensating" => run = "compensating"
      PROVE  CompensationHasWork'
  BY <1>1 DEF CompensationHasWork
<1>2. CASE UNCHANGED database
  BY <1>1, <1>2 DEF database
<1>3. CASE Establishes
  BY <1>1, <1>3 DEF Establishes, EstablishApprovalBarrier
<1>4. CASE Promotes
  BY <1>4 DEF Promotes, PromoteDependencyReadySteps, PromoteDueRetries, BarrierInv, CycleInv,
     ForwardRunStates, CompensationHasWork
<1>5. CASE CancelRun
  BY <1>1, <1>5 DEF CancelRun
<1> QED
  BY <1>0, <1>2, <1>3, <1>4, <1>5, DatabaseActions, PersistsHasWork, RejectionHasWork,
     StartsHasWork, ResolvesHasWork

LEMMA HasWorkAlways ==
    ASSUME RecoveryAlone
    PROVE  AnySpec => []CompensationHasWork
<1>1. Init => CompensationHasWork
  BY DEF Init, CompensationHasWork
<1>2. RuntimeInv /\ RuntimeInv' /\ BarrierInv /\ CompensationHasWork /\ [AnyNext]_vars
         => CompensationHasWork'
  BY NextHasWork
<1> QED
  BY <1>1, <1>2, RuntimeInvAlways, BarrierInvAlways, PTL DEF AnySpec

(***************************************************************************)
(* A compensating run always has an effect still to be undone, so that     *)
(* _run_compensation_once never answers run_not_forward for ever.          *)
(***************************************************************************)
THEOREM CompensationNeverIdle ==
    ASSUME RecoveryAlone
    PROVE  Spec => []CompensationHasWork
BY SpecIsAny, HasWorkAlways, PTL
==============================================================================
