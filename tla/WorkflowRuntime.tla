--------------------------- MODULE WorkflowRuntime ---------------------------
(***************************************************************************)
(* One workflow run under the reliable workflow runtime: the coordinator   *)
(* (workflow/application/coordinator.py), the tool threads of its          *)
(* executor, startup recovery (recovery.py), the approval service          *)
(* (approvals.py), cancellation and the driver (services.py).              *)
(*                                                                         *)
(* A unit of work is one atomic step.  The coordinator's run_once is cut   *)
(* at its units of work, so tool threads, operators and crashes interleave *)
(* between them.  Everything in `pc', `started', `batch', `rq' and         *)
(* `threads' lives in the process and is lost with it; `run', `step',      *)
(* `seq', `attempts' and `approvals' are the database; `effects' is the    *)
(* outside world the tools act on.                                         *)
(***************************************************************************)
EXTENDS Scheduler

CONSTANTS
    Protected,     \* steps whose risk, or whose tool's risk, is high
    Effectful,     \* steps whose tool changes the outside world
    Idempotent,    \* <<step, phase>> pairs whose tool can be probed
    MaxAttempts,   \* retry.max_attempts of each step
    Concurrency,   \* worker threads of the coordinator's executor
    LateEffects,   \* may recovery start while abandoned tool threads still run
    LiveRecovery,  \* may recovery run in a process that is coordinating the run
    MaxFaults,     \* bound: crashes, closes, loops given up, expired deadlines, lost replies
    MaxBinding     \* bound: redeployments that change what an approval binds

Phases == {"forward", "compensation"}

ASSUME ParametersAssumption ==
    /\ Protected \subseteq Steps
    /\ Effectful \subseteq Steps
    /\ Idempotent \subseteq Steps \X Phases
    /\ MaxAttempts \in [Steps -> Nat \ {0}]
    /\ Concurrency \in Nat \ {0}
    /\ LateEffects \in BOOLEAN
    /\ LiveRecovery \in BOOLEAN
    /\ MaxFaults \in Nat
    /\ MaxBinding \in Nat

VARIABLES
    run,        \* WorkflowRun.state
    step,       \* StepRun.state of each step
    seq,        \* StepRun.completion_sequence of each step, 0 for None
    attempts,   \* the StepAttempts of each phase and step, by attempt_no
    approvals,  \* the ApprovalRequests, in the order of creation
    binding,    \* the digest the registry in use computes for an approval
    threads,    \* the executor's futures, with what their tool is doing
    effects,    \* how often each phase of each step took effect
    pc,         \* where the process is
    started,    \* WorkflowDriver._started
    batch,      \* prepared attempts run_once has not started yet
    rq,         \* unresolved attempts recovery has not looked at yet
    faults      \* faults so far

database == <<run, step, seq, attempts, approvals>>
vars == <<database, binding, threads, effects, pc, started, batch, rq, faults>>

Failures == {"retryable", "permanent", "result_unknown"}

\* What a tool call reports: success with or without effect_applied, or an error.
Outcomes == {"effect", "noop"} \cup Failures

Attempt == [status : {"running", "success", "failed", "succeeded", "not_applied",
                      "manual_intervention"},
            effect : BOOLEAN,
            err    : {"none"} \cup Failures]

ApprovalRequest == [step    : Steps,
                    binding : 0..MaxBinding,
                    status  : {"pending", "approved", "rejected", "invalidated"}]

(***************************************************************************)
(* A future.  It is "open" until its tool call has taken effect            *)
(* ("landed") or returned ("done"); one still in the executor's queue is   *)
(* open too.  The coordinator holds it as "owned" until its outcome is     *)
(* persisted; "orphan" futures belong to a closed coordinator.             *)
(***************************************************************************)
Thread == [step  : Steps,
           phase : Phases,
           no    : Nat \ {0},
           stage : {"open", "landed", "done"},
           out   : Outcomes \cup {"none"},
           hold  : {"owned", "persisted", "orphan"}]

AttemptRef == [step : Steps, phase : Phases, no : Nat \ {0}]

TypeOK ==
    /\ run \in RunStates
    /\ step \in [Steps -> StepStates]
    /\ seq \in [Steps -> Nat]
    /\ attempts \in [Phases -> [Steps -> Seq(Attempt)]]
    /\ approvals \in Seq(ApprovalRequest)
    /\ binding \in 0..MaxBinding
    /\ threads \subseteq Thread
    /\ effects \in [Phases -> [Steps -> Nat]]
    /\ pc \in {"down", "boot", "recover", "idle", "ready", "select", "start",
               "closing"}
    /\ started \in BOOLEAN
    /\ batch \subseteq Steps
    /\ rq \subseteq AttemptRef
    /\ faults \in 0..MaxFaults

(***************************************************************************)
(* WorkflowService.create_run, in a process that has not started its       *)
(* driver yet.                                                             *)
(***************************************************************************)
Init ==
    /\ run = "pending"
    /\ step = [s \in Steps |-> "pending"]
    /\ seq = [s \in Steps |-> 0]
    /\ attempts = [p \in Phases |-> [s \in Steps |-> <<>>]]
    /\ approvals = <<>>
    /\ binding = 0
    /\ threads = {}
    /\ effects = [p \in Phases |-> [s \in Steps |-> 0]]
    /\ pc = "boot"
    /\ started = FALSE
    /\ batch = {}
    /\ rq = {}
    /\ faults = 0

-----------------------------------------------------------------------------
(* Queries on the database and on the coordinator's futures.               *)

Owned == {t \in threads : t.hold = "owned"}

Refs(s) == UNION {{[step |-> s, phase |-> p, no |-> n] : n \in DOMAIN attempts[p][s]} :
                     p \in Phases}

StatusOf(r) == attempts[r.phase][r.step][r.no].status

\* approvals.py: approval_recovery_required
RecoveryRequired ==
    \/ \E s \in Steps : step[s] = "result_unknown"
    \/ \E s \in Steps : \E r \in Refs(s) :
            /\ attempts[r.phase][s][r.no].err = "result_unknown"
            /\ StatusOf(r) \notin {"not_applied", "succeeded", "manual_intervention"}

\* Recovery work the database shows and no owned future accounts for.
RecoveryWork ==
    \/ RecoveryRequired
    \/ \E s \in Steps : step[s] = "running" /\ \A t \in Owned : t.step # s
    \/ \E s \in Steps : \E r \in Refs(s) :
            /\ StatusOf(r) = "running"
            /\ \A t \in Owned : ~(t.step = s /\ t.no = r.no)

Capacity ==
    Concurrency - Cardinality({t \in threads : t.hold # "orphan" /\ t.stage # "done"})

Compensated(comp, s) == \E n \in DOMAIN comp[s] : Succeeded(comp[s][n])

\* _pending_compensations
PendingCompensations(st, at) ==
    {s \in CompensableEffects(st, at["forward"]) : ~Compensated(at["compensation"], s)}

NextCompensation ==
    LET order == CompensationOrder(step, seq, attempts["forward"])
    IN  order[Min({i \in DOMAIN order : ~Compensated(attempts["compensation"], order[i])})]

-----------------------------------------------------------------------------
(***************************************************************************)
(* Tool threads: Coordinator._execute_request and the contract of a tool   *)
(* (workflow/adapters/tools/fake.py).  The ledger of an idempotent tool    *)
(* makes a replay of a key report success without an effect; a tool raises *)
(* a retryable or permanent error only when nothing took effect, and a     *)
(* reply can always be lost.                                               *)
(***************************************************************************)
Replay(p, s) == <<s, p>> \in Idempotent /\ effects[p][s] > 0

\* A thread ends; the coordinator collects it only if it still owns it.
EndThread(t, out) ==
    threads' = (threads \ {t}) \cup
        (IF t.hold = "owned" THEN {[t EXCEPT !.stage = "done", !.out = out]} ELSE {})

ToolTakesEffect(t) ==
    /\ t.stage = "open"
    /\ t.step \in Effectful
    /\ effects' = IF Replay(t.phase, t.step) THEN effects
                  ELSE [effects EXCEPT ![t.phase][t.step] = @ + 1]
    /\ threads' = (threads \ {t}) \cup
           {[t EXCEPT !.stage = "landed",
                      !.out = IF Replay(t.phase, t.step) THEN "noop" ELSE "effect"]}
    /\ UNCHANGED <<database, binding, pc, started, batch, rq, faults>>

ToolReturns(t) ==
    /\ \/ t.stage = "landed" /\ EndThread(t, t.out)
       \/ t.stage = "open" /\ t.step \notin Effectful /\ EndThread(t, "noop")
    /\ UNCHANGED <<database, binding, effects, pc, started, batch, rq, faults>>

ToolFails(t) ==
    /\ t.stage = "open"
    /\ \E e \in {"retryable", "permanent"} : EndThread(t, e)
    /\ UNCHANGED <<database, binding, effects, pc, started, batch, rq, faults>>

ToolReplyLost(t) ==
    /\ t.stage # "done"
    /\ faults < MaxFaults
    /\ EndThread(t, "result_unknown")
    /\ faults' = faults + 1
    /\ UNCHANGED <<database, binding, effects, pc, started, batch, rq>>

-----------------------------------------------------------------------------
(* Persisting an outcome: _persist_outcome, _persist_compensation_outcome. *)

\* Mutant: error_class is set on success too.
AttemptAfterKeepsClass(out) == [status |-> IF out \in Failures THEN "failed" ELSE "success",
                                effect |-> out = "effect",
                                err    |-> out]

AttemptAfter(out) == [status |-> IF out \in Failures THEN "failed" ELSE "success",
                      effect |-> out = "effect",
                      err    |-> IF out \in Failures THEN out ELSE "none"]

NextStepState(s, no, out) ==
    CASE out \in {"effect", "noop"}                    -> "succeeded"
      [] out = "retryable" /\ no < MaxAttempts[s]      -> "retry_wait"
      [] out = "result_unknown"                        -> "result_unknown"
      [] OTHER                                         -> "failed"

\* Mutant: a failure compensates without asking whether there is anything to undo.
RunAfterForwardAlwaysCompensates(r, s, q, at) ==
    CASE r = "running" /\ q = "succeeded" /\ \A u \in Steps \ {s} : step[u] = "succeeded"
           -> "succeeded"
      [] r = "running" /\ q = "failed" -> "compensating"
      [] OTHER -> r

\* The run in state r, after step s moved to state q and its attempts to at.
RunAfterForward(r, s, q, at) ==
    CASE r = "running" /\ q = "succeeded" /\ \A u \in Steps \ {s} : step[u] = "succeeded"
           -> "succeeded"
      [] r = "running" /\ q = "failed"
           -> IF CompensableEffects([step EXCEPT ![s] = q], at["forward"]) # {}
              THEN "compensating" ELSE "failed"
      [] OTHER -> r

PersistForward(s, no, out) ==
    LET q  == NextStepState(s, no, out)
        at == [attempts EXCEPT !["forward"][s][no] = AttemptAfter(out)]
    IN  /\ StepCan(step[s], q)
        /\ step' = [step EXCEPT ![s] = q]
        /\ seq' = IF q = "succeeded"
                  THEN [seq EXCEPT ![s] = 1 + Max({seq[u] : u \in Steps})]
                  ELSE seq
        /\ attempts' = at
        /\ run' = RunAfterForward(run, s, q, at)

\* Mutant: the first successful compensation ends the run.
PersistCompensationEndsRun(s, no, out) ==
    LET at == [attempts EXCEPT !["compensation"][s][no] = AttemptAfter(out)]
        to == IF out \in Failures THEN "manual_intervention" ELSE "compensated"
    IN  /\ attempts' = at
        /\ RunCan(run, to)
        /\ run' = to
        /\ UNCHANGED <<step, seq>>

PersistCompensation(s, no, out) ==
    LET at == [attempts EXCEPT !["compensation"][s][no] = AttemptAfter(out)]
    IN  /\ attempts' = at
        /\ \/ /\ out \in Failures
              /\ RunCan(run, "manual_intervention")
              /\ run' = "manual_intervention"
           \/ /\ out \notin Failures
              /\ PendingCompensations(step, at) = {}
              /\ RunCan(run, "compensated")
              /\ run' = "compensated"
           \/ /\ out \notin Failures
              /\ PendingCompensations(step, at) # {}
              /\ run' = run
        /\ UNCHANGED <<step, seq>>

(***************************************************************************)
(* The attempt is looked up by its number alone, in a list where           *)
(* "compensation" sorts before "forward".                                  *)
(***************************************************************************)
FoundPhase(s, no) ==
    IF no \in DOMAIN attempts["compensation"][s] THEN "compensation" ELSE "forward"

PersistOutcome(t, out) ==
    /\ IF FoundPhase(t.step, t.no) = "compensation"
       THEN PersistCompensation(t.step, t.no, out)
       ELSE PersistForward(t.step, t.no, out)
    /\ UNCHANGED approvals

-----------------------------------------------------------------------------
(* The coordinator's run_once.                                             *)

\* _collect_outcomes: the outcome of a future that is done.
Collect(t) ==
    /\ pc = "idle"
    /\ t.hold = "owned" /\ t.stage = "done"
    /\ PersistOutcome(t, t.out)
    /\ threads' = threads \ {t}
    /\ UNCHANGED <<binding, effects, pc, started, batch, rq, faults>>

\* Mutant: the future is not marked outcome_persisted.
ExpireStillOwned(t) ==
    /\ pc = "idle"
    /\ t.hold = "owned" /\ t.stage # "done"
    /\ faults < MaxFaults
    /\ PersistOutcome(t, "result_unknown")
    /\ faults' = faults + 1
    /\ UNCHANGED <<binding, threads, effects, pc, started, batch, rq>>

\* _collect_outcomes: a future that passed its deadline; its thread runs on.
Expire(t) ==
    /\ pc = "idle"
    /\ t.hold = "owned" /\ t.stage # "done"
    /\ faults < MaxFaults
    /\ PersistOutcome(t, "result_unknown")
    /\ threads' = (threads \ {t}) \cup {[t EXCEPT !.hold = "persisted"]}
    /\ faults' = faults + 1
    /\ UNCHANGED <<binding, effects, pc, started, batch, rq>>

\* Mutant: the promoted steps are not saved.
PromoteDueRetriesUnsaved(due) ==
    /\ pc = "idle"
    /\ run \in ForwardRunStates
    /\ ~RecoveryWork
    /\ pc' = "ready"
    /\ UNCHANGED <<database, binding, threads, effects, started, batch, rq, faults>>

\* The checks at the start of a forward pass, and _promote_due_retries.
PromoteDueRetries(due) ==
    /\ pc = "idle"
    /\ run \in ForwardRunStates
    /\ ~RecoveryWork
    /\ step' = [s \in Steps |-> IF s \in due THEN "ready" ELSE step[s]]
    /\ pc' = "ready"
    /\ UNCHANGED <<run, seq, attempts, approvals, binding, threads, effects,
                   started, batch, rq, faults>>

PromoteDependencyReadySteps ==
    /\ pc = "ready"
    /\ step' = IF run \in TerminalRunStates THEN step
               ELSE [s \in Steps |-> IF s \in ReadySteps(step) THEN "ready" ELSE step[s]]
    /\ pc' = "select"
    /\ UNCHANGED <<run, seq, attempts, approvals, binding, threads, effects,
                   started, batch, rq, faults>>

Candidates == {s \in ReadySteps(step) : step[s] = "ready"}

FirstProtected(s) ==
    /\ s \in Candidates \cap Protected
    /\ \A u \in (Candidates \cap Protected) \ {s} : Before(s, u)

\* Mutant: an approval of one step lets another one start.
MatchesAnyStep(request, s) == request.binding = binding

Matches(request, s) == request.step = s /\ request.binding = binding

Approved(s) == \E i \in DOMAIN approvals :
                  approvals[i].status = "approved" /\ Matches(approvals[i], s)

SelectUnprotected ==
    /\ pc = "select"
    /\ Candidates \cap Protected = {}
    /\ batch' = FirstSteps(Candidates, Capacity)
    /\ pc' = "start"
    /\ UNCHANGED <<database, binding, threads, effects, started, rq, faults>>

\* Mutant: the barrier does not wait for futures in flight.
DrainedOfUnknowns == ~RecoveryWork

\* The global barrier waits until nothing of the run is unresolved or in flight.
Drained == ~RecoveryWork /\ Owned = {}

BarrierBlocks ==
    /\ pc = "select"
    /\ \E s \in Candidates : FirstProtected(s)
    /\ ~Drained
    /\ pc' = "idle"
    /\ UNCHANGED <<database, binding, threads, effects, started, batch, rq, faults>>

SelectApproved(s) ==
    /\ pc = "select"
    /\ FirstProtected(s)
    /\ Drained
    /\ Approved(s)
    /\ batch' = FirstSteps({s}, Capacity)
    /\ pc' = "start"
    /\ UNCHANGED <<database, binding, threads, effects, started, rq, faults>>

\* The requests after those that do not bind what s would execute are invalidated.
Invalidated(s) ==
    [i \in DOMAIN approvals |->
        IF approvals[i].status \in {"pending", "approved"} /\ ~Matches(approvals[i], s)
        THEN [approvals[i] EXCEPT !.status = "invalidated"]
        ELSE approvals[i]]

\* _establish_approval_barrier; the transition of a cancelled run raises.
EstablishApprovalBarrier(s) ==
    /\ pc = "select"
    /\ FirstProtected(s)
    /\ Drained
    /\ ~Approved(s)
    /\ IF run = "waiting_approval" \/ RunCan(run, "waiting_approval")
       THEN /\ run' = "waiting_approval"
            /\ approvals' =
                 IF \E i \in DOMAIN approvals : Invalidated(s)[i].status = "pending"
                 THEN Invalidated(s)
                 ELSE Append(Invalidated(s),
                             [step |-> s, binding |-> binding, status |-> "pending"])
       ELSE UNCHANGED <<run, approvals>>
    /\ pc' = "idle"
    /\ UNCHANGED <<step, seq, attempts, binding, threads, effects, started, batch,
                   rq, faults>>

FirstOfBatch(s) == s \in batch /\ \A u \in batch \ {s} : Before(s, u)

NewThread(s, p) == [step |-> s, phase |-> p, no |-> Len(attempts[p][s]) + 1,
                    stage |-> "open", out |-> "none", hold |-> "owned"]

RunningAttempt == [status |-> "running", effect |-> FALSE, err |-> "none"]

\* _commit_attempt_started of a forward attempt, and its submission.
StartAttempt(s) ==
    /\ pc = "start"
    /\ FirstOfBatch(s)
    /\ run \in ForwardRunStates
    /\ StepCan(step[s], "running")
    /\ run' = "running"
    /\ step' = [step EXCEPT ![s] = "running"]
    /\ attempts' = [attempts EXCEPT !["forward"][s] = Append(@, RunningAttempt)]
    /\ threads' = threads \cup {NewThread(s, "forward")}
    /\ batch' = batch \ {s}
    /\ UNCHANGED <<seq, approvals, binding, effects, pc, started, rq, faults>>

(***************************************************************************)
(* The executor refuses the attempt just committed and its failure is      *)
(* persisted at once.  A crash between the two commits leaves what a crash *)
(* right after StartAttempt leaves.                                        *)
(***************************************************************************)
SubmissionFails(s) ==
    LET q  == NextStepState(s, Len(attempts["forward"][s]) + 1, "retryable")
        at == [attempts EXCEPT !["forward"][s] = Append(@, AttemptAfter("retryable"))]
    IN  /\ pc = "start"
        /\ FirstOfBatch(s)
        /\ run \in ForwardRunStates
        /\ StepCan(step[s], "running")
        /\ run' = RunAfterForward("running", s, q, at)
        /\ step' = [step EXCEPT ![s] = q]
        /\ attempts' = at
        /\ batch' = IF run' \in TerminalRunStates THEN {} ELSE batch \ {s}
        /\ UNCHANGED <<seq, approvals, binding, threads, effects, pc, started, rq,
                       faults>>

\* run_once is done with its batch, or raises because the run moved on.
EndBatch ==
    /\ pc = "start"
    /\ batch = {} \/ run \notin ForwardRunStates
    /\ batch' = {}
    /\ pc' = "idle"
    /\ UNCHANGED <<database, binding, threads, effects, started, rq, faults>>

(***************************************************************************)
(* The guards of _run_compensation_once.  Its branch for a compensating    *)
(* run with nothing pending is never taken, which CompensationHasWork says *)
(* and the runs confirm: whoever completes the last compensation also ends *)
(* the run.                                                                *)
(***************************************************************************)
Compensating ==
    /\ pc = "idle"
    /\ run = "compensating"
    /\ Drained
    /\ CompensableEffects(step, attempts["forward"]) # {}

StartCompensation(s) ==
    /\ Compensating
    /\ s \in PendingCompensations(step, attempts)
    /\ s = NextCompensation
    /\ Capacity > 0
    /\ attempts' = [attempts EXCEPT !["compensation"][s] = Append(@, RunningAttempt)]
    /\ threads' = threads \cup {NewThread(s, "compensation")}
    /\ UNCHANGED <<run, step, seq, approvals, binding, effects, pc, started, batch,
                   rq, faults>>

CompensationSubmissionFails(s) ==
    /\ Compensating
    /\ s \in PendingCompensations(step, attempts)
    /\ s = NextCompensation
    /\ Capacity > 0
    /\ attempts' = [attempts EXCEPT !["compensation"][s] =
                        Append(@, AttemptAfter("permanent"))]
    /\ run' = "manual_intervention"
    /\ UNCHANGED <<step, seq, approvals, binding, threads, effects, pc, started,
                   batch, rq, faults>>

-----------------------------------------------------------------------------
(* Operators: ApprovalService.decide and WorkflowService.cancel_run.       *)

\* Mutant: a step that succeeded counts whether or not it reported an effect.
RejectionTargetAnySuccess ==
    LET reported == {s \in Steps : step[s] = "succeeded"}
    IN  CASE reported = {}              -> "cancelled"
          [] reported \ Compensable # {} -> "manual_intervention"
          [] OTHER                      -> "compensating"

\* _rejection_target; it looks for attempts the coordinator completed only.
RejectionTarget ==
    LET reported == {s \in Steps :
                        /\ step[s] = "succeeded"
                        /\ \E r \in Refs(s) : /\ StatusOf(r) = "success"
                                              /\ attempts[r.phase][s][r.no].effect}
    IN  CASE reported = {}              -> "cancelled"
          [] reported \ Compensable # {} -> "manual_intervention"
          [] OTHER                      -> "compensating"

\* Mutant: the run's own state is not looked at.
DecideInAnyState(i, decision) ==
    /\ ~RecoveryRequired
    /\ approvals[i].status = "pending"
    /\ approvals' = [approvals EXCEPT ![i].status = decision]
    /\ run' = IF decision = "approved" THEN "running" ELSE RejectionTarget
    /\ UNCHANGED <<step, seq, attempts, binding, threads, effects, pc, started,
                   batch, rq, faults>>

Decide(i, decision) ==
    /\ ~RecoveryRequired
    /\ approvals[i].status = "pending"
    /\ run = "waiting_approval"
    /\ approvals' = [approvals EXCEPT ![i].status = decision]
    /\ run' = IF decision = "approved" THEN "running" ELSE RejectionTarget
    /\ UNCHANGED <<step, seq, attempts, binding, threads, effects, pc, started,
                   batch, rq, faults>>

CancelRun ==
    /\ RunCan(run, "cancelled")
    /\ run' = "cancelled"
    /\ UNCHANGED <<step, seq, attempts, approvals, binding, threads, effects, pc,
                   started, batch, rq, faults>>

-----------------------------------------------------------------------------
(* Startup recovery: RecoveryService and WorkflowDriver.start.             *)

\* Mutant: an attempt still marked running is not looked at.
UnresolvedUnknownOnly(s) ==
    IF step[s] = "result_unknown"
    THEN {r \in Refs(s) : \A c \in Refs(s) : c.no <= r.no}
    ELSE {}

\* _unresolved_attempt, as the set of at most one reference.
Unresolved(s) ==
    LET runningRefs == {r \in Refs(s) : StatusOf(r) = "running"}
        candidates  == IF runningRefs = {} /\ step[s] = "result_unknown"
                       THEN Refs(s) ELSE runningRefs
    IN  {r \in candidates : \A c \in candidates \ {r} :
            c.no < r.no \/ (c.no = r.no /\ r.phase = "forward")}

(***************************************************************************)
(* driver.start() in a new process, in one whose driver is started again,  *)
(* or in a live one when an operator recovers a run with a step in         *)
(* result_unknown.  Unless LateEffects, tool threads nobody waits for have *)
(* ended by then.                                                          *)
(***************************************************************************)
StartRecovery ==
    /\ \/ pc = "boot"
       \/ /\ LiveRecovery
          /\ pc = "idle"
          /\ \E s \in Steps : step[s] = "result_unknown"
    /\ LateEffects \/ threads = Owned
    /\ rq' = IF run \in TerminalRunStates THEN {}
             ELSE UNION {Unresolved(s) : s \in Steps}
    /\ pc' = "recover"
    /\ UNCHANGED <<database, binding, threads, effects, started, batch, faults>>

\* Mutant: a tool that cannot be probed is taken not to have been applied.
DecisionsWithoutProof(r) ==
    IF <<r.step, r.phase>> \notin Idempotent THEN {"not_applied"}
    ELSE {IF effects[r.phase][r.step] > 0 THEN "applied" ELSE "not_applied",
          "manual_intervention"}

\* What _probe and its caller may decide about an attempt.
Decisions(r) ==
    IF <<r.step, r.phase>> \notin Idempotent THEN {"manual_intervention"}
    ELSE {IF effects[r.phase][r.step] > 0 THEN "applied" ELSE "not_applied",
          "manual_intervention"}

NextToRecover(r) ==
    /\ pc = "recover"
    /\ r \in rq
    /\ \A c \in rq : r.step <= c.step

Resolve(r, status, effect, err) ==
    attempts' = [attempts EXCEPT ![r.phase][r.step][r.no] =
                    [status |-> status, effect |-> effect, err |-> err]]

StepAfterRecovery(r, q) ==
    IF r.phase = "forward"
    THEN StepCan(step[r.step], q) /\ step' = [step EXCEPT ![r.step] = q]
    ELSE step' = step

\* _run_after_applied
RunAfterApplied(r) ==
    CASE run = "compensating" /\ r.phase = "compensation" ->
           IF PendingCompensations(step, attempts') = {} THEN "compensated" ELSE run
      [] run = "compensating" /\ r.phase = "forward" -> "compensated"
      [] run = "running" /\ \A u \in Steps : step'[u] = "succeeded" -> "succeeded"
      [] OTHER -> run

\* _persist_applied; it leaves completion_sequence alone.
RecoverApplied(r) ==
    /\ NextToRecover(r)
    /\ "applied" \in Decisions(r)
    /\ Resolve(r, "succeeded", TRUE, "none")
    /\ StepAfterRecovery(r, "succeeded")
    /\ run' = RunAfterApplied(r)
    /\ rq' = rq \ {r}
    /\ UNCHANGED <<seq, approvals, binding, threads, effects, pc, started, batch,
                   faults>>

\* Mutant: the attempt is not saved.
RecoverNotAppliedKeepsAttempt(r) ==
    /\ NextToRecover(r)
    /\ "not_applied" \in Decisions(r)
    /\ StepAfterRecovery(r, "ready")
    /\ rq' = rq \ {r}
    /\ UNCHANGED <<run, seq, attempts, approvals, binding, threads, effects, pc,
                   started, batch, faults>>

RecoverNotApplied(r) ==
    LET a == attempts[r.phase][r.step][r.no]
    IN  /\ NextToRecover(r)
        /\ "not_applied" \in Decisions(r)
        /\ Resolve(r, "not_applied", a.effect, a.err)
        /\ StepAfterRecovery(r, "ready")
        /\ rq' = rq \ {r}
        /\ UNCHANGED <<run, seq, approvals, binding, threads, effects, pc, started,
                       batch, faults>>

RecoverManually(r) ==
    LET a == attempts[r.phase][r.step][r.no]
    IN  /\ NextToRecover(r)
        /\ "manual_intervention" \in Decisions(r)
        /\ RunCan(run, "manual_intervention")
        /\ Resolve(r, "manual_intervention", a.effect, a.err)
        /\ StepAfterRecovery(r, "manual_intervention")
        /\ run' = "manual_intervention"
        /\ rq' = rq \ {r}
        /\ UNCHANGED <<seq, approvals, binding, threads, effects, pc, started, batch,
                       faults>>

\* A run that is already terminal refuses manual_intervention: start() raises.
RecoveryRaises(r) ==
    /\ NextToRecover(r)
    /\ "manual_intervention" \in Decisions(r)
    /\ ~RunCan(run, "manual_intervention")
    /\ rq' = {}
    /\ pc' = IF started THEN "idle" ELSE "boot"
    /\ UNCHANGED <<database, binding, threads, effects, started, batch, faults>>

FinishRecovery ==
    /\ pc = "recover"
    /\ rq = {}
    /\ started' = TRUE
    /\ pc' = "idle"
    /\ UNCHANGED <<database, binding, threads, effects, batch, rq, faults>>

-----------------------------------------------------------------------------
(* The life of the process: close, crash and restart.                      *)

\* close(wait=True): every future has ended and been collected.  It is no fault
\* when an operator closes the process to recover the run in a new one.
CloseWaiting ==
    /\ pc = "idle"
    /\ \A t \in threads : t.hold = "orphan"
    /\ \/ RecoveryRequired /\ faults' = faults
       \/ ~RecoveryRequired /\ faults < MaxFaults /\ faults' = faults + 1
    /\ pc' = "down"
    /\ started' = FALSE
    /\ UNCHANGED <<database, binding, threads, effects, batch, rq>>

BeginClose ==
    /\ pc = "idle"
    /\ faults < MaxFaults
    /\ pc' = "closing"
    /\ faults' = faults + 1
    /\ UNCHANGED <<database, binding, threads, effects, started, batch, rq>>

(***************************************************************************)
(* close(wait=False) persists what each future reported, a retryable       *)
(* failure for one it could still cancel, an unknown result for the rest.  *)
(***************************************************************************)
CloseOutcome(t) ==
    /\ pc = "closing"
    /\ t.hold = "owned"
    /\ \/ t.stage = "done" /\ PersistOutcome(t, t.out) /\ threads' = threads \ {t}
       \/ t.stage = "open" /\ PersistOutcome(t, "retryable") /\ threads' = threads \ {t}
       \/ /\ t.stage # "done"
          /\ PersistOutcome(t, "result_unknown")
          /\ threads' = (threads \ {t}) \cup {[t EXCEPT !.hold = "persisted"]}
    /\ UNCHANGED <<binding, effects, pc, started, batch, rq, faults>>

FinishClose ==
    /\ pc = "closing"
    /\ Owned = {}
    /\ threads' = {[t EXCEPT !.hold = "orphan"] : t \in threads}
    /\ pc' = "down"
    /\ started' = FALSE
    /\ UNCHANGED <<database, binding, effects, batch, rq, faults>>

(***************************************************************************)
(* decide_approval of the operations service starts the driver of a run    *)
(* whose loop gave up with futures in flight, whatever it then makes of    *)
(* the decision.  Nobody collects those futures any more: recovery finds   *)
(* their attempts.  The loop may go on afterwards, as it would in a new    *)
(* process.                                                                *)
(***************************************************************************)
StartDriverAgain ==
    /\ LiveRecovery
    /\ pc = "idle"
    /\ Owned # {}
    /\ faults < MaxFaults
    /\ threads' = {[t EXCEPT !.hold = "orphan"] : t \in {u \in threads : u.stage # "done"}}
    /\ pc' = "boot"
    /\ started' = FALSE
    /\ faults' = faults + 1
    /\ UNCHANGED <<database, binding, effects, batch, rq>>

\* The process dies, and its tool threads with it.
Crash ==
    /\ pc # "down"
    /\ faults < MaxFaults
    /\ threads' = {}
    /\ batch' = {}
    /\ rq' = {}
    /\ pc' = "down"
    /\ started' = FALSE
    /\ faults' = faults + 1
    /\ UNCHANGED <<database, binding, effects>>

\* A new process, maybe with a registry that changes what an approval binds.
Restart ==
    /\ pc = "down"
    /\ pc' = "boot"
    /\ binding' \in {binding, binding + 1} \cap 0..MaxBinding
    /\ UNCHANGED <<database, threads, effects, started, batch, rq, faults>>

-----------------------------------------------------------------------------
Tools == \E t \in threads :
    ToolTakesEffect(t) \/ ToolReturns(t) \/ ToolFails(t) \/ ToolReplyLost(t)

RunOnce ==
    \/ \E t \in threads : Collect(t) \/ Expire(t)
    \/ \E due \in SUBSET {s \in Steps : step[s] = "retry_wait"} : PromoteDueRetries(due)
    \/ PromoteDependencyReadySteps
    \/ SelectUnprotected
    \/ BarrierBlocks
    \/ \E s \in Steps : SelectApproved(s) \/ EstablishApprovalBarrier(s)
    \/ \E s \in Steps : StartAttempt(s) \/ SubmissionFails(s)
    \/ EndBatch
    \/ \E s \in Steps : StartCompensation(s) \/ CompensationSubmissionFails(s)

Operators ==
    \/ \E i \in DOMAIN approvals, d \in {"approved", "rejected"} : Decide(i, d)
    \/ CancelRun

Recovery ==
    \/ StartRecovery
    \/ \E r \in rq : RecoverApplied(r) \/ RecoverNotApplied(r) \/ RecoverManually(r)
                     \/ RecoveryRaises(r)
    \/ FinishRecovery

Process ==
    \/ CloseWaiting
    \/ BeginClose
    \/ \E t \in threads : CloseOutcome(t)
    \/ FinishClose
    \/ StartDriverAgain
    \/ Crash
    \/ Restart

\* run_once of a terminal run changes nothing.
RunTerminal == run \in TerminalRunStates /\ UNCHANGED vars

Next == Tools \/ RunOnce \/ Operators \/ Recovery \/ Process \/ RunTerminal

Spec == Init /\ [][Next]_vars

(***************************************************************************)
(* Fairness.  The caller keeps calling run_once, which first collects what *)
(* is done (SF: collecting competes with the rest of run_once for the idle *)
(* process); a clock advances past every backoff; the tool threads of the  *)
(* executor run and every tool call ends; a process that is down is        *)
(* started again, and starting it runs recovery.  Nothing is assumed of    *)
(* operators, nor of deadlines, closes and crashes.                        *)
(***************************************************************************)
ToolsEnd == \E t \in threads : ToolTakesEffect(t) \/ ToolReturns(t)

Fairness ==
    /\ WF_vars(RunOnce)
    /\ SF_vars(\E t \in threads : Collect(t))
    /\ \A s \in Steps : SF_vars(step[s] = "retry_wait" /\ PromoteDueRetries({s}))
    /\ WF_vars(ToolsEnd)
    /\ WF_vars(Recovery)
    /\ WF_vars((\E t \in threads : CloseOutcome(t)) \/ FinishClose \/ Restart)

LiveSpec == Spec /\ Fairness

-----------------------------------------------------------------------------
(* Safety.                                                                 *)

(***************************************************************************)
(* A step leaves "pending" only after all its dependencies succeeded, and  *)
(* they never cease to be succeeded: no retry, recovery decision or        *)
(* approval lets a step overtake what it depends on.                       *)
(***************************************************************************)
DependencyOrder ==
    \A s \in Steps : step[s] # "pending" => DependenciesMet(step, s)

(***************************************************************************)
(* Attempts of a step are made one after the other: only the latest        *)
(* forward attempt may be running, only while the step itself is running,  *)
(* and a running step always has one, whatever crashes, closes and         *)
(* recoveries came before.                                                 *)
(***************************************************************************)
OneForwardAttempt ==
    \A s \in Steps :
        LET at == attempts["forward"][s]
        IN  /\ \A n \in DOMAIN at : at[n].status = "running" =>
                  n = Len(at) /\ step[s] = "running"
            /\ step[s] = "running" => Len(at) > 0 /\ at[Len(at)].status = "running"

(***************************************************************************)
(* No step takes effect twice: a tool that can be probed is replayed under *)
(* its key, and one that cannot is never called again once its result is   *)
(* unknown.                                                                *)
(***************************************************************************)
AtMostOnceEffect ==
    \A p \in Phases, s \in Steps : effects[p][s] <= 1

(***************************************************************************)
(* A run waits for approval exactly while it has a request an operator can *)
(* decide, and never with work in flight or unresolved, which would make   *)
(* every decision fail with approval_recovery_required.                    *)
(***************************************************************************)
ApprovalBarrier ==
    LET pending == {i \in DOMAIN approvals : approvals[i].status = "pending"}
    IN  /\ run = "waiting_approval" =>
               /\ Cardinality(pending) = 1
               /\ ~RecoveryRequired
               /\ \A s \in Steps : step[s] # "running"
        /\ pending # {} => run \in {"waiting_approval", "cancelled"}

(***************************************************************************)
(* A high-risk step starts only under an approval of exactly what is       *)
(* executed, the registry in use considered, and only when nothing else of *)
(* the run is in flight.                                                   *)
(***************************************************************************)
ProtectedStart ==
    \A s \in Protected :
        Len(attempts'["forward"][s]) > Len(attempts["forward"][s]) =>
            /\ \E i \in DOMAIN approvals :
                  approvals[i] = [step |-> s, binding |-> binding, status |-> "approved"]
            /\ \A u \in Steps : step[u] \notin {"running", "result_unknown"}

ProtectedStartsApproved == [][ProtectedStart]_vars

(***************************************************************************)
(* A future whose outcome is still to be persisted belongs to an attempt   *)
(* that is running, and its number alone leads _persist_outcome to it: a   *)
(* step never has a forward future and a compensation attempt of the same  *)
(* number.                                                                 *)
(***************************************************************************)
OutcomeFindsItsAttempt ==
    \A t \in Owned :
        /\ t.no \in DOMAIN attempts[t.phase][t.step]
        /\ attempts[t.phase][t.step][t.no].status = "running"
        /\ t.phase = "forward" => t.no \notin DOMAIN attempts["compensation"][t.step]

(***************************************************************************)
(* A compensating run always has an effect still to be undone: without any *)
(* compensable effect _run_compensation_once would answer run_not_forward  *)
(* for ever, and with all of them undone the run has already ended.        *)
(***************************************************************************)
CompensationHasWork ==
    run = "compensating" => PendingCompensations(step, attempts) # {}

\* The steps with an effect to undo that depend on s, directly or through others of them.
EffectDependents(s) ==
    LET undo == CompensableEffects(step, attempts["forward"])
    IN  {u \in undo :
            \A D \in SUBSET undo :
                (\A v \in undo : DependsOn[v] \cap (D \cup {s}) # {} => v \in D) => u \in D}

(***************************************************************************)
(* A step is compensated only after its own effect, and after every effect *)
(* of a step that depends on it, directly or through steps whose own       *)
(* effects are undone.  Dependents reached only through a step without     *)
(* such an effect are not promised: see ReverseDependencyOrder.            *)
(***************************************************************************)
CompensationStart ==
    \A s \in Steps :
        Len(attempts'["compensation"][s]) > Len(attempts["compensation"][s]) =>
            /\ step[s] = "succeeded"
            /\ \A u \in EffectDependents(s) : Compensated(attempts["compensation"], u)

DependentsCompensatedFirst == [][CompensationStart]_vars

(***************************************************************************)
(* Once the driver has started, every running attempt of a nonterminal run *)
(* is one the coordinator owns: recovery leaves no attempt that nobody     *)
(* will ever complete.                                                     *)
(***************************************************************************)
RecoveryLeavesNothing ==
    (pc \in {"idle", "ready", "select", "start"} /\ run \notin TerminalRunStates) =>
        \A s \in Steps : \A r \in Refs(s) :
            StatusOf(r) = "running" =>
                \E t \in Owned : t.step = s /\ t.phase = r.phase /\ t.no = r.no

(***************************************************************************)
(* A compensated run has undone, in the outside world, every compensable   *)
(* effect of its steps.                                                    *)
(***************************************************************************)
CompensatedUndoesAll ==
    run = "compensated" =>
        \A s \in Compensable :
            effects["forward"][s] > 0 => effects["compensation"][s] > 0

(***************************************************************************)
(* A failed run has no compensable effect: it failed because there was     *)
(* nothing to compensate.                                                  *)
(***************************************************************************)
FailedLeavesNothing ==
    (run = "failed" /\ Owned = {}) => \A s \in Compensable : effects["forward"][s] = 0

(***************************************************************************)
(* A run is cancelled before any compensable effect.                       *)
(***************************************************************************)
CancelledLeavesNothing ==
    (run = "cancelled" /\ Owned = {}) => \A s \in Compensable : effects["forward"][s] = 0

(***************************************************************************)
(* Rejecting an approval when completed steps have compensable effects     *)
(* starts compensation or asks for manual intervention.                    *)
(***************************************************************************)
Rejection ==
    (\E i \in DOMAIN approvals :
        approvals[i].status = "pending" /\ approvals'[i].status = "rejected")
    => (CompensableEffects(step, attempts["forward"]) # {} => run' # "cancelled")

RejectionCompensates == [][Rejection]_vars

(***************************************************************************)
(* A run left to manual intervention has had everything recovered: what    *)
(* cannot be proven moves the run, and its forward step with it.           *)
(***************************************************************************)
ManualLeavesNothingUnknown ==
    (run = "manual_intervention" /\ pc = "idle" /\ Owned = {}) =>
        \A s \in Steps : step[s] \notin {"running", "result_unknown"}

(***************************************************************************)
(* Compensation runs in reverse dependency order: a step is compensated    *)
(* only after every compensable step that depends on it, directly or not.  *)
(***************************************************************************)
Ancestors[s \in Steps] == DependsOn[s] \cup UNION {Ancestors[d] : d \in DependsOn[s]}

ReverseStart ==
    \A s \in Steps :
        Len(attempts'["compensation"][s]) > Len(attempts["compensation"][s]) =>
            \A u \in CompensableEffects(step, attempts["forward"]) :
                s \in Ancestors[u] => Compensated(attempts["compensation"], u)

ReverseDependencyOrder == [][ReverseStart]_vars

-----------------------------------------------------------------------------
(* Liveness.                                                               *)

\* The run is finished, or waits for an operator.
Rests == \/ run \in TerminalRunStates
         \/ run = "waiting_approval"
         \/ \E s \in Steps : step[s] = "result_unknown"

(***************************************************************************)
(* Every run comes to rest again and again: whatever faults, it finishes,  *)
(* waits for a decision, or shows a result_unknown step an operator can    *)
(* recover.                                                                *)
(***************************************************************************)
AlwaysRests == []<>Rests
=============================================================================
