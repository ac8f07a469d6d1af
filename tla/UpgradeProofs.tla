---------------------------- MODULE UpgradeProofs ----------------------------
(***************************************************************************)
(* The order-service upgrade, for any number of read-only steps, faults,   *)
(* retries and redeployments: what holds of the sandbox's service and      *)
(* database while the runtime drives its tools, crashes and recovers.      *)
(*                                                                         *)
(* A tool of the sandbox is one of those AnySpec allows, so everything     *)
(* proved of AnySpec holds here.  What is added is an account of the call  *)
(* under way (there is never more than one), of the sandbox it works on    *)
(* and of the record the runtime keeps of it.                              *)
(***************************************************************************)
EXTENDS EffectProofs, Guidance

-----------------------------------------------------------------------------
(* One call at a time.                                                     *)

SoleCall ==
    /\ \A t, u \in threads : t = u
    /\ pc = "recover" => threads = {}
    /\ \A t \in threads : t.phase = "forward" =>
          step[t.step] \in {"running", "result_unknown"}
    /\ \A t \in threads : t.phase = "compensation" =>
          /\ t.step \in Compensable
          /\ DOMAIN attempts["compensation"][t.step] # {}
          /\ \/ t.hold = "owned"
             \/ run = "manual_intervention"
             \/ pc \in {"down", "boot"}

-----------------------------------------------------------------------------
(* The call, the sandbox and the record, for the upgrade whose migration   *)
(* is step m and whose deployment is step d.                               *)

\* The migration starts with an empty ledger, and reports what it recorded.
MigrateCall(m) ==
    \A t \in threads : t.phase = "forward" /\ t.step = m =>
        /\ t.stage \in {"open", "altered", "landed", "done"}
        /\ t.stage \in {"open", "altered"} => effects["forward"][m] = 0
        /\ t.stage = "altered" => layout = "wide"
        /\ t.stage = "landed" => t.out = "effect"
        /\ t.stage # "altered" /\ t.out = "effect" => effects["forward"][m] > 0
        /\ t.out \notin {"noop", "retryable"}

\* A deployment that switched the service has service v2.
DeployCall(d) ==
    \A t \in threads : t.phase = "forward" /\ t.step = d =>
        /\ t.stage = "switched" => service = "v2"
        /\ t.stage # "switched" /\ t.out \in {"effect", "noop"} => effects["forward"][d] > 0

\* A rollback under way runs under service v1, and is not yet in the ledger.
RollbackCall(m) ==
    \A t \in threads : t.phase = "compensation" /\ t.step = m =>
        /\ t.stage \in {"created", "copied", "dropped", "renamed", "versioned"} =>
              effects["compensation"][m] = 0 /\ service = "v1"
        /\ t.stage \in {"renamed", "versioned"} => layout = "plain"
        /\ t.stage = "versioned" => schema = "v1"
        /\ t.stage \in {"landed", "done"} /\ t.out \in {"effect", "noop"} =>
              effects["compensation"][m] > 0
        /\ t.stage = "landed" => t.out \in {"effect", "noop"}
        /\ t.stage = "done" => t.out # "none"

\* A step that only reads reports no effect.
ReadCall(m, d) ==
    \A t \in threads : t.phase = "forward" /\ t.step \notin {m, d} => t.out # "effect"

CallsInv(m, d) == MigrateCall(m) /\ DeployCall(d) /\ RollbackCall(m) /\ ReadCall(m, d)

WorldInv(m, d) ==
    /\ effects["compensation"][m] > 0 =>
          /\ DOMAIN attempts["compensation"][m] # {}
          /\ service = "v1" /\ schema = "v1" /\ layout = "plain"
    /\ effects["forward"][m] > 0 /\ DOMAIN attempts["compensation"][m] = {} =>
          schema = "v2" /\ layout = "wide"
    /\ effects["forward"][d] > 0 /\ DOMAIN attempts["compensation"][d] = {} =>
          service = "v2"
    /\ ServiceNeverAheadOfSchema

LedgerInv(m, d) ==
    /\ step[m] \in {"pending", "ready", "retry_wait"} => effects["forward"][m] = 0
    /\ step[m] = "succeeded" => effects["forward"][m] > 0 /\ Reported(m)
    /\ step[d] = "succeeded" => effects["forward"][d] > 0
    /\ Compensated(attempts["compensation"], m) => effects["compensation"][m] > 0
    /\ \A s \in Steps \ {m, d} :
          /\ effects["forward"][s] = 0
          /\ \A n \in DOMAIN attempts["forward"][s] : ~attempts["forward"][s][n].effect

\* What the run and its approvals say.
Granted == \E i \in DOMAIN approvals : approvals[i].status \in {"approved", "invalidated"}

RunInv(m) ==
    /\ (\E i \in DOMAIN approvals : approvals[i].status = "pending") => step[m] = "ready"
    /\ step[m] \notin {"pending", "ready"} => Granted
    /\ run \in {"compensating", "compensated"} => step[m] = "succeeded"
    /\ run = "succeeded" => \A s \in Steps : step[s] = "succeeded"
-----------------------------------------------------------------------------
(* The tools of the sandbox are tools.                                     *)

\* The future of a call that goes on, or ends.
LEMMA CallAdvances ==
    ASSUME TypeInv, NEW t \in threads, NEW e \in SB!Call, Advance(t, e)
    PROVE  /\ \E w \in Future :
                 /\ w.step = t.step /\ w.phase = t.phase /\ w.no = t.no /\ w.hold = t.hold
                 /\ w.stage = e.stage /\ w.out = e.out
                 /\ \/ threads' = (threads \ {t}) \cup {w}
                    \/ t.hold # "owned" /\ threads' = threads \ {t}
           /\ UNCHANGED <<database, binding, pc, started, batch, rq>>
<1> DEFINE w == [t EXCEPT !.stage = e.stage, !.out = e.out]
<1>1. e.stage \in CallStages /\ e.out \in Outcomes \cup {"none"}
  BY DEF SB!Call, SB!Stages, SB!Midway, CallStages, Outcomes, Failures
<1>2. /\ w \in Future
      /\ w.step = t.step /\ w.phase = t.phase /\ w.no = t.no /\ w.hold = t.hold
      /\ w.stage = e.stage /\ w.out = e.out
  BY <1>1 DEF TypeInv, LooseTypeOK, Future
<1>3. e.stage = "done" => w = [t EXCEPT !.stage = "done", !.out = e.out]
  OBVIOUS
<1>4. \/ threads' = (threads \ {t}) \cup {w}
      \/ t.hold # "owned" /\ threads' = threads \ {t}
  <2>1. CASE e.stage = "done" /\ t.hold = "owned"
    BY <1>3, <2>1 DEF Advance, EndThread
  <2>2. CASE e.stage = "done" /\ t.hold # "owned"
    BY <2>2 DEF Advance, EndThread
  <2>3. CASE e.stage # "done"
    BY <2>3 DEF Advance
  <2> QED
    BY <2>1, <2>2, <2>3
<1> HIDE DEF w
<1> QED
  BY <1>2, <1>4 DEF Advance

\* Recording an effect keeps the ledgers' type.
LEMMA RecordType ==
    ASSUME TypeInv, NEW p \in Phases, NEW s \in Steps, SB!Record(<<p, s>>)
    PROVE  effects' \in [Phases -> [Steps -> Nat]]
BY DEF TypeInv, LooseTypeOK, SB!Record

LEMMA ExecuteType ==
    ASSUME TypeInv, NEW p \in Phases, NEW s \in Steps, NEW tool, NEW c, NEW e,
           SB!Execute(tool, <<p, s>>, c, e)
    PROVE  effects' \in [Phases -> [Steps -> Nat]]
<1>1. effects' = effects \/ SB!Record(<<p, s>>)
  BY DEF SB!Execute, SB!Precheck, SB!Validate, SB!Reads, SB!Migrate, SB!SetService, SB!RollBack,
     SB!Declines
<1> QED
  BY <1>1, RecordType DEF TypeInv, LooseTypeOK

LEMMA SandboxToolMoves ==
    ASSUME TypeInv, NEW t \in threads, ToolRuns(t) \/ ToolReports(t) \/ ToolFaults(t)
    PROVE  ToolMoves
<1>0. t.step \in Steps /\ t.phase \in Phases /\ t.out \in Outcomes \cup {"none"}
  BY DEF TypeInv, LooseTypeOK, Future
<1>1. PICK e \in SB!Call : Advance(t, e)
  <2>1. CASE ToolReports(t)
    <3>1. [stage |-> "done", out |-> t.out] \in SB!Call
      BY <1>0 DEF SB!Call, SB!Stages, Outcomes, Failures
    <3> QED
      BY <2>1, <3>1 DEF ToolReports
  <2> QED
    BY <2>1 DEF ToolRuns, ToolFaults
<1>2. effects' \in [Phases -> [Steps -> Nat]]
  <2>1. CASE ToolRuns(t)
    BY <1>0, <2>1, ExecuteType DEF ToolRuns
  <2>2. CASE ToolReports(t) \/ ToolFaults(t)
    <3>1. effects' = effects
      BY <2>2 DEF ToolReports, ToolFaults, SB!InjectedFault, SB!DatabaseRaises
    <3> QED
      BY <3>1 DEF TypeInv, LooseTypeOK
  <2> QED
    BY <2>1, <2>2
<1>3. faults' \in 0..MaxFaults
  <2>1. faults \in 0..MaxFaults /\ MaxFaults \in Nat
    BY ParametersAssumption DEF TypeInv, LooseTypeOK
  <2>2. faults' = faults \/ (faults < MaxFaults /\ faults' = faults + 1)
    BY DEF ToolRuns, ToolReports, ToolFaults
  <2> QED
    BY <2>1, <2>2
<1> QED
  BY <1>1, <1>2, <1>3, CallAdvances DEF ToolMoves

LEMMA UpgradeNextIsAny ==
    ASSUME TypeInv, [UpgradeNext]_upgradeVars
    PROVE  [AnyNext]_vars
<1>1. CASE \E t \in threads : ToolRuns(t) \/ ToolReports(t) \/ ToolFaults(t)
  BY <1>1, SandboxToolMoves DEF AnyNext
<1>2. CASE \E p \in Clients : ClientCreatesOrder(p)
  <2>1. UNCHANGED vars
    BY <1>2 DEF ClientCreatesOrder, SB!CreateOrder, vars
  <2> QED
    BY <2>1
<1>3. CASE Runtime
  BY <1>3 DEF Runtime, AnyNext
<1>4. CASE UNCHANGED upgradeVars
  BY <1>4 DEF upgradeVars
<1> QED
  BY <1>1, <1>2, <1>3, <1>4 DEF UpgradeNext

\* The upgrade is a run of the runtime, with tools of its own.
LEMMA UpgradeIsAny == UpgradeSpec => AnySpec
<1>1. UpgradeInit => Init /\ TypeInv
  BY InitType DEF UpgradeInit
<1>2. TypeInv /\ [UpgradeNext]_upgradeVars => [AnyNext]_vars
  BY UpgradeNextIsAny
<1>3. TypeInv /\ QueueInv /\ [AnyNext]_vars => TypeInv' /\ QueueInv'
  BY NextType, NextQueue
<1>4. Init => QueueInv
  BY InitType
<1> QED
  BY <1>1, <1>2, <1>3, <1>4, PTL DEF UpgradeSpec, AnySpec
-----------------------------------------------------------------------------
(* What the runtime does to the calls.                                     *)

RuntimeMoves == RunOnce \/ Operators \/ Recovery \/ Process \/ RunTerminal

\* The call of u was under way, or is the one just made.
CallKept(u) == \E t \in threads : SameCall(t, u)
CallMade(u) == \E s \in Steps :
    \/ StartAttempt(s) /\ u = NewThread(s, "forward")
    \/ StartCompensation(s) /\ u = NewThread(s, "compensation")

LEMMA RuntimeCalls ==
    ASSUME TypeInv, RuntimeMoves
    PROVE  effects' = effects /\ \A u \in threads' : CallKept(u) \/ CallMade(u)
<1>0. ASSUME NEW u \in threads
      PROVE  CallKept(u)
  BY DEF CallKept, SameCall
<1>1. ASSUME threads' \subseteq threads \/ Kept
      PROVE  \A u \in threads' : CallKept(u)
  BY <1>0, <1>1 DEF Kept, CallKept
<1>2. CASE \E t \in threads : Collect(t) \/ Expire(t) \/ CloseOutcome(t)
  BY <1>1, <1>2, OutcomeOfCall
<1>3. CASE \E s \in Steps : StartAttempt(s) \/ StartCompensation(s)
  BY <1>0, <1>3 DEF StartAttempt, StartCompensation, CallMade
<1>4. CASE FinishClose \/ StartDriverAgain
  <2>1. threads' \subseteq {} \cup {[t EXCEPT !.hold = "orphan"] : t \in threads \ {}}
    BY <1>4 DEF FinishClose, StartDriverAgain
  <2>2. Kept
    BY <2>1, HoldKept
  <2> QED
    BY <1>1, <1>4, <2>2 DEF FinishClose, StartDriverAgain
<1>5. CASE RunOnce
  <2>1. CASE \/ PromoteDependencyReadySteps \/ SelectUnprotected \/ BarrierBlocks \/ EndBatch
             \/ \E due \in SUBSET {s \in Steps : step[s] = "retry_wait"} : PromoteDueRetries(due)
             \/ \E s \in Steps : SelectApproved(s) \/ EstablishApprovalBarrier(s)
             \/ \E s \in Steps : SubmissionFails(s) \/ CompensationSubmissionFails(s)
    <3>1. threads' = threads /\ effects' = effects
      BY <2>1 DEF PromoteDependencyReadySteps, SelectUnprotected, BarrierBlocks, EndBatch,
         PromoteDueRetries, SelectApproved, EstablishApprovalBarrier, SubmissionFails,
         CompensationSubmissionFails
    <3> QED
      BY <1>1, <3>1
  <2> QED
    BY <1>2, <1>3, <1>5, <2>1 DEF RunOnce
<1>6. CASE Operators \/ RunTerminal
  <2>1. threads' = threads /\ effects' = effects
    BY <1>6 DEF Operators, Decide, CancelRun, RunTerminal, vars
  <2> QED
    BY <1>1, <2>1
<1>7. CASE Recovery
  <2>1. threads' = threads /\ effects' = effects
    BY <1>7 DEF Recovery, StartRecovery, RecoverApplied, RecoverNotApplied, RecoverManually,
       RecoveryRaises, FinishRecovery
  <2> QED
    BY <1>1, <2>1
<1>8. CASE Process
  <2>1. CASE CloseWaiting \/ BeginClose \/ Crash \/ Restart
    <3>1. threads' \subseteq threads /\ effects' = effects
      BY <2>1 DEF CloseWaiting, BeginClose, Crash, Restart
    <3> QED
      BY <1>1, <3>1
  <2> QED
    BY <1>2, <1>4, <1>8, <2>1 DEF Process
<1> QED
  BY <1>5, <1>6, <1>7, <1>8 DEF RuntimeMoves

-----------------------------------------------------------------------------
(* Orders.                                                                 *)

\* No order has a priority of its own while the rollback copies them.
PriorityInv ==
    \A t \in threads : t.stage \in {"created", "copied", "dropped"} => "express" \notin orders

\* The call of a tool goes on: to a rollback it leads only without such orders.
LEMMA ToolsKeepPriorities ==
    ASSUME TypeInv, PriorityInv, NEW t \in threads,
           ToolRuns(t) \/ ToolReports(t) \/ ToolFaults(t)
    PROVE  PriorityInv' /\ orders \subseteq orders'
<1> DEFINE S == {"created", "copied", "dropped"}
<1>1. PICK e \in SB!Call :
         /\ Advance(t, e)
         /\ \/ SB!Execute(Tool[t.phase][t.step], <<t.phase, t.step>>, CallOf(t), e)
            \/ orders' = orders /\ e.stage \notin S
  <2>1. CASE ToolRuns(t)
    BY <2>1 DEF ToolRuns
  <2>2. CASE ToolReports(t)
    <3>1. [stage |-> "done", out |-> t.out] \in SB!Call
      BY DEF SB!Call, SB!Stages, Outcomes, Failures, TypeInv, LooseTypeOK, Future
    <3> QED
      BY <2>2, <3>1 DEF ToolReports, sandbox
  <2>3. CASE ToolFaults(t)
    BY <2>3 DEF ToolFaults, SB!InjectedFault, SB!DatabaseRaises, SB!Raised, SB!At, SB!world
  <2> QED
    BY <2>1, <2>2, <2>3
<1>2. /\ e.stage \in S => "express" \notin orders
      /\ orders' = orders \/ (CallOf(t).stage = "dropped" /\ orders' = orders \ {"express"})
  <2>1. CASE SB!Execute(Tool[t.phase][t.step], <<t.phase, t.step>>, CallOf(t), e)
    <3> DEFINE c == CallOf(t)
               key == <<t.phase, t.step>>
    <3>0. c.stage = t.stage
      BY DEF CallOf
    <3>1. CASE SB!RollBack(key, c, e)
      <4>1. c.stage \in S => "express" \notin orders
        BY <3>0 DEF PriorityInv
      <4> HIDE DEF c, key
      <4> QED
        BY <3>1, <4>1 DEF SB!RollBack, SB!Declines, SB!MayRollBack, SB!Opened, SB!At, SB!Raised,
           SB!world, c
    <3>2. CASE \E target : SB!SetService(key, target, c, e)
      <4> HIDE DEF c, key
      <4> QED
        BY <3>2 DEF SB!SetService, SB!Declines, SB!Opened, SB!At, SB!Raised, SB!world
    <3>3. CASE SB!Precheck(c, e) \/ SB!Validate(c, e) \/ SB!Migrate(key, c, e)
      <4> HIDE DEF c, key
      <4> QED
        BY <3>3 DEF SB!Precheck, SB!Validate, SB!Reads, SB!Migrate, SB!Declines, SB!Opened, SB!At,
           SB!Raised, SB!world
    <3> QED
      BY <2>1, <3>1, <3>2, <3>3 DEF SB!Execute
  <2>2. CASE orders' = orders /\ e.stage \notin S
    BY <2>2
  <2> QED
    BY <1>1, <2>1, <2>2
<1>3. orders \subseteq orders' /\ orders' \subseteq orders
  BY <1>2 DEF PriorityInv, CallOf
<1>4. PICK w : w.stage = e.stage /\ threads' \subseteq threads \cup {w}
  BY <1>1, CallAdvances
<1> QED
  BY <1>2, <1>3, <1>4 DEF PriorityInv

LEMMA NextPriorities ==
    ASSUME TypeInv, PriorityInv, [UpgradeNext]_upgradeVars
    PROVE  PriorityInv' /\ orders \subseteq orders'
<1>1. CASE \E t \in threads : ToolRuns(t) \/ ToolReports(t) \/ ToolFaults(t)
  BY <1>1, ToolsKeepPriorities
<1>2. CASE \E p \in Clients : ClientCreatesOrder(p)
  <2>1. /\ \A t \in threads : t.stage \notin SB!Midway
        /\ threads' = threads /\ orders \subseteq orders'
    BY <1>2 DEF ClientCreatesOrder, SB!CreateOrder
  <2> QED
    BY <2>1 DEF PriorityInv, SB!Midway
<1>3. CASE Runtime
  <2>1. orders' = orders /\ RuntimeMoves
    BY <1>3 DEF Runtime, RuntimeMoves, sandbox
  <2>2. ASSUME NEW u \in threads', u.stage \in {"created", "copied", "dropped"}
        PROVE  "express" \notin orders
    <3>1. CallKept(u) \/ CallMade(u)
      BY <2>1, <2>2, RuntimeCalls
    <3>2. ~CallMade(u)
      BY <2>2 DEF CallMade, NewThread
    <3> QED
      BY <2>2, <3>1, <3>2 DEF CallKept, SameCall, PriorityInv
  <2> QED
    BY <2>1, <2>2 DEF PriorityInv
<1>4. CASE UNCHANGED upgradeVars
  BY <1>4 DEF upgradeVars, sandbox, vars, PriorityInv
<1> QED
  BY <1>1, <1>2, <1>3, <1>4 DEF UpgradeNext

(***************************************************************************)
(* The priority of an order, which only schema v2 can hold, is never       *)
(* discarded by a rollback, whatever the workflow: schema.rollback looks   *)
(* for such orders before its first commit, and none is created while a    *)
(* call is under way.                                                      *)
(***************************************************************************)
THEOREM PrioritiesSurvive == UpgradeSpec => PrioritiesKept
<1>1. UpgradeInit => PriorityInv
  BY DEF UpgradeInit, Init, PriorityInv
<1>2. TypeInv /\ PriorityInv /\ [UpgradeNext]_upgradeVars =>
         PriorityInv' /\ orders \subseteq orders'
  BY NextPriorities
<1> QED
  BY <1>1, <1>2, UpgradeIsAny, TypeInvAlways, PTL DEF UpgradeSpec, PrioritiesKept
-----------------------------------------------------------------------------
(* What the runtime does to the steps and their attempts.                  *)

\* Actions that leave the attempts alone, and every step or make it ready.
Settled ==
    /\ attempts' = attempts
    /\ \A s \in Steps : step'[s] # step[s] =>
          step'[s] = "ready" /\ step[s] \in {"pending", "ready", "retry_wait"}

LEMMA RecordActions ==
    ASSUME TypeInv, [AnyNext]_vars
    PROVE  Settled \/ Persists \/ Starts \/ Compensates \/ Resolves
<1>1. CASE UNCHANGED database \/ Establishes \/ Decides \/ CancelRun
  <2>1. UNCHANGED <<step, attempts>>
    BY <1>1 DEF database, Establishes, EstablishApprovalBarrier, Decides, Decide, CancelRun
  <2> QED
    BY <2>1 DEF Settled
<1>2. CASE Promotes
  <2>1. step \in [Steps -> StepStates]
    BY DEF TypeInv, LooseTypeOK
  <2> QED
    BY <1>2, <2>1 DEF Promotes, PromoteDependencyReadySteps, PromoteDueRetries, ReadySteps, Settled
<1> QED
  BY <1>1, <1>2, DatabaseActions

\* A new attempt, and what it is.
LEMMA StartAdds ==
    ASSUME TypeInv, NEW s \in Steps
    PROVE  /\ StartAttempt(s) => Added("forward", s, RunningAttempt)
           /\ SubmissionFails(s) => Added("forward", s, AttemptAfter("retryable"))
           /\ StartCompensation(s) => Added("compensation", s, RunningAttempt)
           /\ CompensationSubmissionFails(s) => Added("compensation", s, AttemptAfter("permanent"))
<1>1. /\ RunningAttempt \in Attempt /\ AttemptAfter("retryable") \in Attempt
      /\ AttemptAfter("permanent") \in Attempt
  BY DEF RunningAttempt, AttemptAfter, Attempt, Failures
<1>2. attempts \in [Phases -> [Steps -> Seq(Attempt)]] /\ "forward" \in Phases
      /\ "compensation" \in Phases
  BY DEF TypeInv, LooseTypeOK, Phases
<1>3. ASSUME StartAttempt(s) PROVE Added("forward", s, RunningAttempt)
  BY <1>1, <1>2, <1>3, AppendAdds DEF StartAttempt
<1>4. ASSUME SubmissionFails(s) PROVE Added("forward", s, AttemptAfter("retryable"))
  <2>1. attempts' = [attempts EXCEPT !["forward"][s] = Append(@, AttemptAfter("retryable"))]
    BY <1>4 DEF SubmissionFails
  <2> QED
    BY <1>1, <1>2, <2>1, AppendAdds
<1>5. ASSUME StartCompensation(s) PROVE Added("compensation", s, RunningAttempt)
  BY <1>1, <1>2, <1>5, AppendAdds DEF StartCompensation
<1>6. ASSUME CompensationSubmissionFails(s)
      PROVE Added("compensation", s, AttemptAfter("permanent"))
  BY <1>1, <1>2, <1>6, AppendAdds DEF CompensationSubmissionFails
<1> QED
  BY <1>3, <1>4, <1>5, <1>6

\* A step that has an attempt keeps having one.
LEMMA AttemptsStay ==
    ASSUME TypeInv, [AnyNext]_vars, NEW p \in Phases, NEW s \in Steps,
           DOMAIN attempts[p][s] # {}
    PROVE  DOMAIN attempts'[p][s] # {}
<1>1. CASE SameNumbers
  BY <1>1 DEF SameNumbers
<1>2. ASSUME NEW q, NEW u, NEW a, Added(q, u, a)
      PROVE  DOMAIN attempts'[p][s] # {}
  <2>1. CASE q = p /\ u = s
    BY <1>2, <2>1 DEF Added
  <2>2. CASE ~(q = p /\ u = s)
    BY <1>2, <2>2 DEF Added
  <2> QED
    BY <2>1, <2>2
<1>3. CASE Settled
  BY <1>3 DEF Settled
<1>4. CASE Persists
  BY <1>1, <1>4, PersistKeepsNumbers DEF Persists, Collect, Expire, CloseOutcome
<1>5. CASE Resolves
  <2>1. PICK r \in rq : \E a : attempts' = [attempts EXCEPT ![r.phase][r.step][r.no] = a]
    BY <1>5 DEF Resolves, RecoverApplied, RecoverNotApplied, RecoverManually, Resolve
  <2>2. r.step \in Steps /\ r.phase \in Phases
    BY DEF TypeInv, LooseTypeOK, AttemptRef
  <2> QED
    BY <1>1, <2>1, <2>2, SaveKeepsNumbers DEF TypeInv, LooseTypeOK
<1>6. CASE Starts
  BY <1>2, <1>6, StartAdds DEF Starts
<1>7. CASE Compensates
  BY <1>2, <1>7, StartAdds DEF Compensates
<1> QED
  BY <1>3, <1>4, <1>5, <1>6, <1>7, RecordActions

-----------------------------------------------------------------------------
(* One call at a time.                                                     *)

\* Where no call is left there is nothing to say.
LEMMA NoCallIsSole ==
    ASSUME threads' = {}
    PROVE  SoleCall'
BY DEF SoleCall

\* The call goes on, and so does what it works for.
LEMMA SoleStands ==
    ASSUME TypeInv, SoleCall, RunStaysOver,
           \A u, v \in threads' : u = v,
           \A u \in threads' : \E t \in threads :
              /\ t.step = u.step /\ t.phase = u.phase
              /\ \/ t.hold = "owned" => u.hold = "owned"
                 \/ pc' \in {"down", "boot"},
           pc \in {"down", "boot"} => pc' \in {"down", "boot"} \/ threads' = {},
           pc' = "recover" => threads' = {},
           \A s \in Steps : step[s] \in {"running", "result_unknown"} =>
              step'[s] \in {"running", "result_unknown"},
           \A s \in Steps : DOMAIN attempts["compensation"][s] # {} =>
              DOMAIN attempts'["compensation"][s] # {}
    PROVE  SoleCall'
<1>1. \A t \in threads : t.step \in Steps
  BY DEF TypeInv, LooseTypeOK, Future
<1>2. run = "manual_intervention" => run' = "manual_intervention"
  BY DEF RunStaysOver, TerminalRunStates
<1> QED
  BY <1>1, <1>2 DEF SoleCall

\* A new call is made when there is none.
LEMMA StartsAlone ==
    ASSUME Chained, RuntimeInv, QuietInv, SoleCall, NEW s \in Steps,
           StartAttempt(s) \/ StartCompensation(s)
    PROVE  threads = {}
<1> SUFFICES ASSUME NEW t \in threads
             PROVE  FALSE
  OBVIOUS
<1>0. TypeInv /\ ChainInv /\ DatabaseInv /\ OwnedInv
  BY AttemptInvParts DEF RuntimeInv, FuturesInv, AttemptInv
<1>1. t.step \in Steps /\ t.phase \in Phases
  BY <1>0 DEF TypeInv, LooseTypeOK, Future
<1>2. CASE t.phase = "forward" /\ StartAttempt(s)
  <2>1. step[s] = "ready" /\ pc = "start"
    BY <1>0, <1>2, StepTable DEF StartAttempt, TypeInv, LooseTypeOK
  <2>2. step[t.step] = "running"
    BY <1>1, <1>2, <2>1 DEF SoleCall, QuietInv, CycleQuiet
  <2> QED
    BY <1>0, <1>1, <2>1, <2>2, OneStepAtATime
<1>3. CASE t.phase = "forward" /\ StartCompensation(s)
  BY <1>1, <1>3 DEF SoleCall, QuietInv, QuietEnd, StartCompensation, Compensating
<1>4. CASE t.phase = "compensation"
  <2>1. CASE StartAttempt(s)
    BY <1>0, <1>1, <1>4, <2>1 DEF SoleCall, DatabaseInv, CompensationInv, StartAttempt,
       ForwardRunStates
  <2>2. CASE StartCompensation(s)
    BY <1>4, <2>2 DEF SoleCall, StartCompensation, Compensating, Drained, Owned
  <2> QED
    BY <2>1, <2>2
<1> QED
  BY <1>1, <1>2, <1>3, <1>4 DEF Phases
LEMMA PersistsKeepSole ==
    ASSUME RuntimeInv, SoleCall, Persists
    PROVE  SoleCall'
<1>0. TypeInv /\ DatabaseInv /\ OwnedInv
  BY AttemptInvParts DEF RuntimeInv, FuturesInv
<1>1. PICK t \in threads : Collect(t) \/ Expire(t) \/ CloseOutcome(t)
  BY DEF Persists
<1>2. PICK out \in Outcomes \cup {"none"} :
         /\ PersistOutcome(t, out) /\ t.hold = "owned"
         /\ \/ threads' = threads \ {t}
            \/ /\ threads' = (threads \ {t}) \cup {[t EXCEPT !.hold = "persisted"]}
               /\ out = "result_unknown"
  BY <1>0, <1>1, OutcomeOfCall
<1>3. threads = {t}
  BY DEF SoleCall
<1>4. CASE threads' = threads \ {t}
  BY <1>3, <1>4, NoCallIsSole
<1>5. CASE threads' # threads \ {t}
  <2> DEFINE w == [t EXCEPT !.hold = "persisted"]
  <2>1. threads' = {w} /\ out = "result_unknown"
    BY <1>2, <1>3, <1>5
  <2>2. w.step = t.step /\ w.phase = t.phase /\ t.step \in Steps /\ t.phase \in Phases
    BY <1>0 DEF TypeInv, LooseTypeOK, Future
  <2> HIDE DEF w
  <2>3. /\ Completed(t.phase, t.step, t.no)
        /\ t.phase = "forward" => PersistForward(t.step, t.no, out)
        /\ t.phase = "compensation" => PersistCompensation(t.step, t.no, out)
    BY <1>0, <1>2, PersistCompletes
  <2>4. pc' # "recover"
    BY <1>1 DEF Collect, Expire, CloseOutcome
  <2>5. CASE t.phase = "forward"
    <3>1. step' = [step EXCEPT ![t.step] = "result_unknown"]
      BY <2>1, <2>3, <2>5 DEF PersistForward, NextStepState
    <3>2. step'[t.step] = "result_unknown"
      BY <1>0, <2>2, <3>1 DEF TypeInv, LooseTypeOK
    <3> QED
      BY <2>1, <2>2, <2>4, <2>5, <3>2 DEF SoleCall
  <2>6. CASE t.phase = "compensation"
    <3>1. run' = "manual_intervention"
      BY <2>1, <2>3, <2>6 DEF PersistCompensation, Failures
    <3>2. t.step \in Compensable /\ DOMAIN attempts'["compensation"][t.step] # {}
      BY <2>2, <2>3, <2>6 DEF SoleCall, Completed
    <3> QED
      BY <2>1, <2>2, <2>4, <2>6, <3>1, <3>2 DEF SoleCall
  <2> QED
    BY <2>2, <2>5, <2>6 DEF Phases
<1> QED
  BY <1>4, <1>5

LEMMA StartsKeepSole ==
    ASSUME Chained, RuntimeInv, QuietInv, SoleCall, NEW s \in Steps,
           StartAttempt(s) \/ StartCompensation(s)
    PROVE  SoleCall'
<1>0. TypeInv
  BY DEF RuntimeInv
<1>1. threads = {}
  BY StartsAlone
<1>2. CASE StartAttempt(s)
  <2> DEFINE w == NewThread(s, "forward")
  <2>1. threads' = {w} /\ pc' # "recover" /\ w.step = s /\ w.phase = "forward"
    BY <1>1, <1>2 DEF StartAttempt, NewThread
  <2>2. step'[s] = "running"
    BY <1>0, <1>2 DEF StartAttempt, TypeInv, LooseTypeOK
  <2> HIDE DEF w
  <2> QED
    BY <2>1, <2>2 DEF SoleCall
<1>3. CASE StartCompensation(s)
  <2> DEFINE w == NewThread(s, "compensation")
  <2>1. /\ threads' = {w} /\ pc' # "recover"
        /\ w.step = s /\ w.phase = "compensation" /\ w.hold = "owned"
    BY <1>1, <1>3 DEF StartCompensation, Compensating, NewThread
  <2>2. s \in Compensable
    BY <1>3 DEF StartCompensation, PendingCompensations, CompensableEffects
  <2>3. DOMAIN attempts'["compensation"][s] # {}
    BY <1>0, <1>3, StartAdds DEF Added
  <2> HIDE DEF w
  <2> QED
    BY <2>1, <2>2, <2>3 DEF SoleCall
<1> QED
  BY <1>2, <1>3

LEMMA NextSole ==
    ASSUME Chained, LateEffects = FALSE, RuntimeInv, RuntimeInv', QuietInv, SoleCall,
           [AnyNext]_vars
    PROVE  SoleCall'
<1>0. TypeInv /\ TypeInv' /\ QueueInv /\ AttemptInv /\ DatabaseInv /\ OwnedInv
  BY AttemptInvParts DEF RuntimeInv, FuturesInv
<1>1. RunStaysOver
  BY <1>0, NextStaysOver
<1>2. \A s \in Steps : DOMAIN attempts["compensation"][s] # {} =>
         DOMAIN attempts'["compensation"][s] # {}
  BY <1>0, AttemptsStay DEF Phases
<1>3. CASE Persists
  BY <1>3, PersistsKeepSole
<1>4. CASE \E s \in Steps : StartAttempt(s) \/ StartCompensation(s)
  BY <1>4, StartsKeepSole
<1>5. CASE Resolves
  <2>1. PICK r \in rq : RecoverApplied(r) \/ RecoverNotApplied(r) \/ RecoverManually(r)
    BY <1>5 DEF Resolves
  <2>2. pc = "recover" /\ threads' = threads
    BY <1>0, <2>1, RecoverCompletes
  <2> QED
    BY <2>2, NoCallIsSole DEF SoleCall
<1>6. CASE StartRecovery
  <2>1. \A t \in threads : t.hold # "owned"
    BY <1>0, <1>6, ChainedIsAlone, LiveRecoveryAlone DEF AttemptInv, ProcessInv
  <2>2. threads' = threads /\ threads = Owned
    BY <1>6 DEF StartRecovery
  <2> QED
    BY <2>1, <2>2, NoCallIsSole DEF Owned
<1>7. CASE Crash
  BY <1>7, NoCallIsSole DEF Crash
\* What is left neither starts a call nor decides about one.
<1>8. ASSUME threads' = threads, pc' = "recover" => pc = "recover",
             pc \in {"down", "boot"} => pc' \in {"down", "boot"},
             \A s \in Steps : step[s] \in {"running", "result_unknown"} =>
                step'[s] \in {"running", "result_unknown"}
      PROVE  SoleCall'
  BY <1>0, <1>1, <1>2, <1>8, SoleStands DEF SoleCall
<1>10. CASE \E s \in Steps : SubmissionFails(s) \/ CompensationSubmissionFails(s)
  <2>1. PICK s \in Steps : SubmissionFails(s) \/ CompensationSubmissionFails(s)
    BY <1>10
  <2>2. threads' = threads /\ pc' = pc
    BY <2>1 DEF SubmissionFails, CompensationSubmissionFails
  <2>3. \A u \in Steps : step[u] \in {"running", "result_unknown"} => step'[u] = step[u]
    <3>1. CASE SubmissionFails(s)
      <4>1. step[s] = "ready"
        BY <1>0, <3>1, StepTable DEF SubmissionFails, TypeInv, LooseTypeOK
      <4>2. \E q : step' = [step EXCEPT ![s] = q]
        BY <3>1 DEF SubmissionFails
      <4> QED
        BY <1>0, <4>1, <4>2 DEF TypeInv, LooseTypeOK
    <3>2. CASE CompensationSubmissionFails(s)
      BY <3>2 DEF CompensationSubmissionFails
    <3> QED
      BY <2>1, <3>1, <3>2
  <2> QED
    BY <1>8, <2>2, <2>3
<1>11. CASE ToolMoves
  <2>1. PICK t \in threads, w \in Future :
           /\ w.step = t.step /\ w.phase = t.phase /\ w.hold = t.hold
           /\ threads' \subseteq (threads \ {t}) \cup {w}
    BY <1>11 DEF ToolMoves
  <2>2. threads' \subseteq {w} /\ UNCHANGED <<step, pc>>
    BY <1>11, <2>1 DEF SoleCall, ToolMoves, database
  <2>3. pc' = "recover" => threads' = {}
    BY <2>1, <2>2 DEF SoleCall
  <2> QED
    BY <1>0, <1>1, <1>2, <2>1, <2>2, <2>3, SoleStands
<1>12. CASE FinishClose \/ StartDriverAgain
  <2> DEFINE handed(t) == [t EXCEPT !.hold = "orphan"]
  <2>1. ASSUME NEW t \in threads
        PROVE  handed(t).step = t.step /\ handed(t).phase = t.phase
    BY <1>0 DEF TypeInv, LooseTypeOK, Future
  <2>2. threads' \subseteq {handed(t) : t \in threads} /\ UNCHANGED step /\ pc' \in {"down", "boot"}
    BY <1>12 DEF FinishClose, StartDriverAgain, database
  <2> HIDE DEF handed
  <2>3. /\ \A u, v \in threads' : u = v
        /\ \A u \in threads' : \E t \in threads : t.step = u.step /\ t.phase = u.phase
    BY <2>1, <2>2 DEF SoleCall
  <2> QED
    BY <1>0, <1>1, <1>2, <2>2, <2>3, SoleStands
<1>13. CASE UNCHANGED vars
  BY <1>8, <1>13 DEF vars, database
<1>14. CASE RunOnce
  <2>1. CASE SelectUnprotected \/ BarrierBlocks \/ EndBatch \/ \E s \in Steps : SelectApproved(s)
    BY <1>8, <2>1 DEF SelectUnprotected, BarrierBlocks, EndBatch, SelectApproved, database
  <2>2. CASE \E s \in Steps : EstablishApprovalBarrier(s)
    BY <1>8, <2>2 DEF EstablishApprovalBarrier
  <2>3. CASE Promotes
    <3>1. /\ threads' = threads /\ step \in [Steps -> StepStates]
          /\ pc' # "recover" /\ pc \notin {"down", "boot"}
      BY <1>0, <2>3 DEF Promotes, PromoteDependencyReadySteps, PromoteDueRetries, TypeInv,
         LooseTypeOK
    <3>2. \A s \in Steps : step[s] \in {"running", "result_unknown"} => step'[s] = step[s]
      BY <2>3, <3>1 DEF Promotes, PromoteDependencyReadySteps, PromoteDueRetries, ReadySteps
    <3> QED
      BY <1>8, <3>1, <3>2
  <2> QED
    BY <1>3, <1>4, <1>10, <1>14, <2>1, <2>2, <2>3 DEF RunOnce, Persists, Promotes
<1>15. CASE Operators
  BY <1>8, <1>15 DEF Operators, Decide, CancelRun
<1>16. CASE Recovery
  <2>1. CASE FinishRecovery \/ \E r \in rq : RecoveryRaises(r)
    <3>1. pc = "recover" /\ pc' # "recover" /\ UNCHANGED <<threads, step>>
      BY <2>1 DEF FinishRecovery, RecoveryRaises, NextToRecover, database
    <3> QED
      BY <1>8, <3>1
  <2> QED
    BY <1>5, <1>6, <1>16, <2>1 DEF Recovery, Resolves
<1>17. CASE Process
  <2>1. CASE CloseWaiting \/ BeginClose \/ Restart
    BY <1>8, <2>1 DEF CloseWaiting, BeginClose, Restart, database
  <2> QED
    BY <1>3, <1>7, <1>12, <1>17, <2>1 DEF Process, Persists
<1> QED
  BY <1>11, <1>13, <1>14, <1>15, <1>16, <1>17 DEF AnyNext, RunTerminal

LEMMA SoleCallAlways ==
    ASSUME Chained, LateEffects = FALSE
    PROVE  AnySpec => []SoleCall
<1>1. Init => SoleCall
  BY DEF Init, SoleCall
<1>2. RuntimeInv /\ RuntimeInv' /\ QuietInv /\ SoleCall /\ [AnyNext]_vars => SoleCall'
  BY NextSole
<1> QED
  BY <1>1, <1>2, ChainedIsAlone, RuntimeInvAlways, QuietInvAlways, PTL DEF AnySpec
-----------------------------------------------------------------------------
(* The upgrade.                                                            *)

Upgrade == \E pos \in Positions : \E m, d \in Steps : IsUpgrade(pos, m, d)

LEMMA UpgradeFacts ==
    ASSUME NEW pos \in Positions, NEW m \in Steps, NEW d \in Steps, IsUpgrade(pos, m, d)
    PROVE  /\ m # d /\ m \in DependsOn[d]
           /\ Protected = {m} /\ Compensable = {m, d}
           /\ Tool["forward"][m] = "migrate" /\ Tool["forward"][d] = "deploy"
           /\ \A s \in Steps \ {m, d} : Tool["forward"][s] \in {"precheck", "validate"}
           /\ Tool["compensation"][m] = "rollback" /\ Tool["compensation"][d] = "restore"
           /\ Chained
<1>1. pos \in [Steps -> Nat]
  BY FS_CardinalityType, StepsAssumption DEF Positions
<1>2. pos[d] = pos[m] + 1 /\ pos[m] > 0 /\ m # d
  BY <1>1 DEF IsUpgrade
<1>3. m \in DependsOn[d]
  <2>1. PICK v \in DependsOn[d] : pos[v] = pos[d] - 1
    BY <1>1, <1>2 DEF IsUpgrade
  <2>2. v \in Steps
    BY DependsOnAssumption
  <2>3. pos[v] = pos[m]
    BY <1>1, <1>2, <2>1, <2>2
  <2> QED
    BY <2>1, <2>2, <2>3 DEF IsUpgrade
<1>4. \A s \in Steps \ {m, d} : Tool["forward"][s] \in {"precheck", "validate"}
  <2> SUFFICES ASSUME NEW s \in Steps, s # m, s # d
               PROVE  Tool["forward"][s] \in {"precheck", "validate"}
    OBVIOUS
  <2>1. pos[s] # pos[m] /\ pos[s] # pos[d]
    BY DEF IsUpgrade
  <2>2. pos[s] < pos[m] \/ pos[s] > pos[d]
    BY <1>1, <1>2, <2>1
  <2> QED
    BY <2>2 DEF IsUpgrade
<1>5. /\ Tool["forward"][m] = "migrate" /\ Tool["forward"][d] = "deploy"
      /\ Tool["compensation"][m] = "rollback" /\ Tool["compensation"][d] = "restore"
  BY <1>2 DEF IsUpgrade
<1>6. Chained
  BY DEF Chained, IsChain, IsUpgrade
<1>7. Protected = {m} /\ Compensable = {m, d}
  BY DEF IsUpgrade
<1> QED
  BY <1>2, <1>3, <1>4, <1>5, <1>6, <1>7

-----------------------------------------------------------------------------
(* The call goes on.                                                       *)

\* The call of t, the only one, becomes e; the database is left alone.
Becomes(t, e) ==
    /\ UNCHANGED <<run, step, attempts, approvals>>
    /\ \A u \in threads' : /\ u.step = t.step /\ u.phase = t.phase
                           /\ u.stage = e.stage /\ u.out = e.out

\* The call of t ends without touching anything.
CallEnds(t, e) ==
    /\ UNCHANGED <<service, schema, layout, orders, effects>>
    /\ e.stage = "done"
    /\ e.out \in {"result_unknown", "permanent"} \/ (t.stage = "landed" /\ e.out = t.out)

LEMMA ToolStep ==
    ASSUME TypeInv, SoleCall, NEW t \in threads, ToolRuns(t) \/ ToolReports(t) \/ ToolFaults(t)
    PROVE  \E e \in SB!Call :
              /\ Becomes(t, e)
              /\ \/ SB!Execute(Tool[t.phase][t.step], <<t.phase, t.step>>, CallOf(t), e)
                 \/ CallEnds(t, e)
<1>1. PICK e \in SB!Call :
         /\ Advance(t, e)
         /\ \/ SB!Execute(Tool[t.phase][t.step], <<t.phase, t.step>>, CallOf(t), e)
            \/ CallEnds(t, e)
  <2>1. CASE ToolRuns(t)
    BY <2>1 DEF ToolRuns
  <2>2. CASE ToolReports(t)
    <3>1. [stage |-> "done", out |-> t.out] \in SB!Call
      BY DEF SB!Call, SB!Stages, Outcomes, Failures, TypeInv, LooseTypeOK, Future
    <3> QED
      BY <2>2, <3>1 DEF ToolReports, sandbox, CallEnds
  <2>3. CASE ToolFaults(t)
    BY <2>3 DEF ToolFaults, SB!InjectedFault, SB!DatabaseRaises, SB!Raised, SB!At, SB!world,
       CallEnds
  <2> QED
    BY <2>1, <2>2, <2>3
<1>2. /\ \E w \in Future :
            /\ w.step = t.step /\ w.phase = t.phase /\ w.stage = e.stage /\ w.out = e.out
            /\ threads' \subseteq (threads \ {t}) \cup {w}
      /\ UNCHANGED database
  BY <1>1, CallAdvances
<1>3. \A u \in threads' : /\ u.step = t.step /\ u.phase = t.phase
                          /\ u.stage = e.stage /\ u.out = e.out
  BY <1>2 DEF SoleCall
<1> QED
  BY <1>1, <1>2, <1>3 DEF database, Becomes

\* What a ledger holds after an effect is recorded.
LEMMA RecordSets ==
    ASSUME TypeInv, NEW p \in Phases, NEW s \in Steps, SB!Record(<<p, s>>)
    PROVE  /\ effects'[p][s] = 1
           /\ \A q \in Phases, u \in Steps : q # p \/ u # s => effects'[q][u] = effects[q][u]
BY DEF TypeInv, LooseTypeOK, SB!Record

\* A step that is under way has no compensation, nor has any other.
LEMMA ForwardMeansUntouched ==
    ASSUME RuntimeInv, SoleCall, NEW t \in threads, t.phase = "forward"
    PROVE  /\ step[t.step] \in {"running", "result_unknown"}
           /\ \A u \in Steps : DOMAIN attempts["compensation"][u] = {}
<1>1. t.step \in Steps
  BY DEF RuntimeInv, TypeInv, LooseTypeOK, Future
<1>2. step[t.step] \in {"running", "result_unknown"}
  BY DEF SoleCall
<1> QED
  BY <1>1, <1>2 DEF RuntimeInv, AttemptInv, CompensationInv

UpgradeInv(m, d) == CallsInv(m, d) /\ WorldInv(m, d) /\ LedgerInv(m, d)

\* The record of the runtime stands while the ledgers grow by the call's row.
LEMMA LedgerGrows ==
    ASSUME RuntimeInv, SoleCall, NEW m \in Steps, NEW d \in Steps, LedgerInv(m, d),
           NEW t \in threads, UNCHANGED <<step, attempts>>,
           \/ effects' = effects
           \/ SB!Record(<<t.phase, t.step>>) /\ t.step \in {m, d}
    PROVE  LedgerInv(m, d)'
<1>0. TypeInv /\ t.step \in Steps /\ t.phase \in Phases
  BY DEF RuntimeInv, TypeInv, LooseTypeOK, Future
<1>1. CASE effects' = effects
  BY <1>1 DEF LedgerInv, Reported, Compensated
<1>2. CASE effects' # effects
  <2>1. /\ effects'[t.phase][t.step] = 1 /\ t.step \in {m, d}
        /\ \A q \in Phases, u \in Steps :
              q # t.phase \/ u # t.step => effects'[q][u] = effects[q][u]
    BY <1>0, <1>2, RecordSets
  <2>2. t.phase = "forward" => step[t.step] \in {"running", "result_unknown"}
    BY ForwardMeansUntouched
  <2>3. Reported(m)' = Reported(m) /\ attempts' = attempts /\ step' = step
    BY DEF Reported
  <2>4. "forward" \in Phases /\ "compensation" \in Phases
    BY DEF Phases
  <2>5. step[m] \in {"pending", "ready", "retry_wait"} => effects'["forward"][m] = 0
    BY <2>1, <2>2, <2>4 DEF LedgerInv
  <2>6. /\ step[m] = "succeeded" => effects'["forward"][m] > 0
        /\ step[d] = "succeeded" => effects'["forward"][d] > 0
        /\ Compensated(attempts["compensation"], m) => effects'["compensation"][m] > 0
    BY <2>1, <2>4 DEF LedgerInv
  <2>7. \A s \in Steps \ {m, d} : effects'["forward"][s] = 0
    BY <2>1, <2>4 DEF LedgerInv
  <2> QED
    BY <2>3, <2>5, <2>6, <2>7 DEF LedgerInv
<1> QED
  BY <1>1, <1>2
LEMMA MigrateRuns ==
    ASSUME RuntimeInv, SoleCall, NEW m \in Steps, NEW d \in Steps, m # d, UpgradeInv(m, d),
           NEW t \in threads, t.phase = "forward", t.step = m, NEW e, Becomes(t, e),
           SB!Migrate(<<"forward", m>>, CallOf(t), e) \/ CallEnds(t, e)
    PROVE  /\ CallsInv(m, d)' /\ WorldInv(m, d)'
           /\ effects' = effects \/ SB!Record(<<"forward", m>>)
<1>0. /\ TypeInv /\ effects["forward"][m] \in Nat /\ effects["compensation"][m] \in Nat
      /\ "forward" \in Phases /\ "compensation" \in Phases
  BY DEF RuntimeInv, TypeInv, LooseTypeOK, Phases
<1>1. /\ DOMAIN attempts["compensation"][m] = {}
      /\ effects["compensation"][m] = 0
  BY <1>0, ForwardMeansUntouched DEF UpgradeInv, WorldInv
<1>2. /\ \A u \in threads' : u.phase = "forward" /\ u.step = m /\ u.stage = e.stage /\ u.out = e.out
      /\ attempts' = attempts
  BY DEF Becomes
<1>3. DeployCall(d)' /\ RollbackCall(m)' /\ ReadCall(m, d)'
  BY <1>2 DEF DeployCall, RollbackCall, ReadCall
<1>4. WorldInv(m, d) /\ MigrateCall(m)
  BY DEF UpgradeInv, CallsInv
<1>5. ASSUME UNCHANGED <<service, schema, layout, effects>>,
             \/ e.stage = "done" /\ e.out \in {"permanent", "result_unknown"}
             \/ e.stage = "done" /\ t.stage = "landed" /\ e.out = t.out
      PROVE  MigrateCall(m)' /\ WorldInv(m, d)' /\ effects' = effects
  <2>1. MigrateCall(m)'
    BY <1>2, <1>4, <1>5 DEF MigrateCall
  <2> QED
    BY <1>2, <1>4, <1>5, <2>1 DEF WorldInv, ServiceNeverAheadOfSchema
<1>6. CASE CallEnds(t, e)
  BY <1>3, <1>5, <1>6 DEF CallEnds, CallsInv
<1>7. CASE SB!Declines(<<"forward", m>>, SB!Inspectable, CallOf(t), e)
  <2>1. effects["forward"][m] = 0
    BY <1>4, <1>7 DEF SB!Declines, SB!Opened, CallOf, MigrateCall
  <2>2. /\ UNCHANGED <<service, schema, layout, effects>>
        /\ e.stage = "done" /\ e.out = "permanent"
    BY <1>7, <2>1 DEF SB!Declines, SB!Raised, SB!At, SB!Recorded, SB!world
  <2> QED
    BY <1>3, <1>5, <2>2 DEF CallsInv
<1>8. CASE /\ CallOf(t) = SB!Opened
           /\ layout' = "wide"
           /\ e = SB!At("altered", "effect")
           /\ UNCHANGED <<service, schema, orders, effects>>
  <2>1. t.stage = "open" /\ e.stage = "altered" /\ e.out = "effect"
    BY <1>8 DEF SB!At, SB!Opened, CallOf
  <2>2. effects["forward"][m] = 0
    BY <1>4, <2>1 DEF MigrateCall
  <2>3. MigrateCall(m)'
    BY <1>2, <1>8, <2>1, <2>2 DEF MigrateCall
  <2>4. WorldInv(m, d)'
    BY <1>1, <1>2, <1>4, <1>8, <2>2 DEF WorldInv, ServiceNeverAheadOfSchema
  <2> QED
    BY <1>3, <1>8, <2>3, <2>4 DEF CallsInv
<1>9. CASE /\ CallOf(t) = SB!At("altered", "effect")
           /\ schema' = "v2"
           /\ SB!Record(<<"forward", m>>)
           /\ e = SB!At("landed", "effect")
           /\ UNCHANGED <<service, layout, orders>>
  <2>1. t.stage = "altered" /\ e.stage = "landed" /\ e.out = "effect"
    BY <1>9 DEF SB!At, CallOf
  <2>2. layout = "wide"
    BY <1>4, <2>1 DEF MigrateCall
  <2>3. /\ effects'["forward"][m] = 1
        /\ effects'["compensation"][m] = effects["compensation"][m]
        /\ effects'["forward"][d] = effects["forward"][d]
    BY <1>0, <1>9, RecordSets
  <2>4. MigrateCall(m)'
    BY <1>2, <2>1, <2>3 DEF MigrateCall
  <2>5. WorldInv(m, d)'
    BY <1>1, <1>2, <1>4, <1>9, <2>2, <2>3 DEF WorldInv, ServiceNeverAheadOfSchema
  <2> QED
    BY <1>3, <1>9, <2>4, <2>5 DEF CallsInv
<1> QED
  BY <1>6, <1>7, <1>8, <1>9 DEF SB!Migrate

\* A call of deploy-v2 or restore declines, switches the service or records it.
LEMMA SwitchSteps ==
    ASSUME NEW key, NEW target, NEW c, NEW e, SB!SetService(key, target, c, e)
    PROVE  \/ SB!Declines(key, TRUE, c, e)
           \/ /\ SB!MaySwitch(key, target)
              /\ service' = target
              /\ e.stage = "switched"
              /\ UNCHANGED <<schema, layout, orders, effects>>
           \/ /\ c.stage = "switched"
              /\ SB!Record(key)
              /\ e.stage = "landed"
              /\ UNCHANGED <<service, schema, layout, orders>>
<1>1. ASSUME NEW stage, NEW out, e = SB!At(stage, out)
      PROVE  e.stage = stage
  BY <1>1 DEF SB!At
<1> QED
  BY <1>1 DEF SB!SetService, SB!world

LEMMA DeployRuns ==
    ASSUME RuntimeInv, SoleCall, NEW m \in Steps, NEW d \in Steps, m # d, UpgradeInv(m, d),
           NEW t \in threads, t.phase = "forward", t.step = d, NEW e, Becomes(t, e),
           SB!SetService(<<"forward", d>>, "v2", CallOf(t), e) \/ CallEnds(t, e)
    PROVE  /\ CallsInv(m, d)' /\ WorldInv(m, d)'
           /\ effects' = effects \/ SB!Record(<<"forward", d>>)
<1>0. /\ TypeInv /\ effects["forward"][d] \in Nat /\ effects["compensation"][m] \in Nat
      /\ "forward" \in Phases /\ "compensation" \in Phases
  BY DEF RuntimeInv, TypeInv, LooseTypeOK, Phases
<1>1. /\ DOMAIN attempts["compensation"][m] = {}
      /\ effects["compensation"][m] = 0
  BY <1>0, ForwardMeansUntouched DEF UpgradeInv, WorldInv
<1>2. /\ \A u \in threads' : u.phase = "forward" /\ u.step = d /\ u.stage = e.stage /\ u.out = e.out
      /\ attempts' = attempts
  BY DEF Becomes
<1>3. MigrateCall(m)' /\ RollbackCall(m)' /\ ReadCall(m, d)'
  BY <1>2 DEF MigrateCall, RollbackCall, ReadCall
<1>4. WorldInv(m, d) /\ DeployCall(d)
  BY DEF UpgradeInv, CallsInv
<1>5. ASSUME UNCHANGED <<service, schema, layout, effects>>, e.stage # "switched",
             \/ e.out \in {"permanent", "result_unknown"}
             \/ t.stage = "landed" /\ e.out = t.out
             \/ effects["forward"][d] > 0
      PROVE  DeployCall(d)' /\ WorldInv(m, d)'
  <2>1. DeployCall(d)'
    BY <1>2, <1>4, <1>5 DEF DeployCall
  <2> QED
    BY <1>2, <1>4, <1>5, <2>1 DEF WorldInv, ServiceNeverAheadOfSchema
<1>6. CASE CallEnds(t, e)
  BY <1>3, <1>5, <1>6 DEF CallEnds, CallsInv
<1>7. CASE SB!Declines(<<"forward", d>>, TRUE, CallOf(t), e)
  <2>1. /\ UNCHANGED <<service, schema, layout, effects>>
        /\ \/ e.stage = "done" /\ e.out = "permanent"
           \/ e.stage = "landed" /\ effects["forward"][d] > 0
    BY <1>7 DEF SB!Declines, SB!Raised, SB!At, SB!Recorded, SB!world
  <2> QED
    BY <1>3, <1>5, <2>1 DEF CallsInv
<1>8. CASE /\ SB!MaySwitch(<<"forward", d>>, "v2")
           /\ service' = "v2"
           /\ e.stage = "switched"
           /\ UNCHANGED <<schema, layout, orders, effects>>
  <2>1. DeployCall(d)'
    BY <1>2, <1>8 DEF DeployCall
  <2>2. schema = "v2" /\ layout # "plain" /\ layout # "dropped"
    BY <1>8 DEF SB!MaySwitch, SB!Inspectable
  <2>3. WorldInv(m, d)'
    BY <1>1, <1>2, <1>4, <1>8, <2>2 DEF WorldInv, ServiceNeverAheadOfSchema
  <2> QED
    BY <1>3, <1>8, <2>1, <2>3 DEF CallsInv
<1>9. CASE /\ t.stage = "switched"
           /\ SB!Record(<<"forward", d>>)
           /\ e.stage = "landed"
           /\ UNCHANGED <<service, schema, layout, orders>>
  <2>1. service = "v2"
    BY <1>4, <1>9 DEF DeployCall
  <2>2. /\ effects'["forward"][d] = 1
        /\ effects'["compensation"][m] = effects["compensation"][m]
        /\ effects'["forward"][m] = effects["forward"][m]
    BY <1>0, <1>9, RecordSets
  <2>3. DeployCall(d)'
    BY <1>2, <1>9, <2>2 DEF DeployCall
  <2>4. WorldInv(m, d)'
    BY <1>1, <1>2, <1>4, <1>9, <2>1, <2>2 DEF WorldInv, ServiceNeverAheadOfSchema
  <2> QED
    BY <1>3, <1>9, <2>3, <2>4 DEF CallsInv
<1>10. CallOf(t).stage = t.stage
  BY DEF CallOf
<1> QED
  BY <1>6, <1>7, <1>8, <1>9, <1>10, SwitchSteps

LEMMA ReadRuns ==
    ASSUME NEW m \in Steps, NEW d \in Steps, UpgradeInv(m, d),
           NEW t \in threads, t.phase = "forward", t.step \notin {m, d}, NEW e, Becomes(t, e),
           SB!Precheck(CallOf(t), e) \/ SB!Validate(CallOf(t), e) \/ CallEnds(t, e)
    PROVE  CallsInv(m, d)' /\ WorldInv(m, d)' /\ effects' = effects
<1>1. /\ \A u \in threads' : u.phase = "forward" /\ u.step \notin {m, d} /\ u.out = e.out
      /\ attempts' = attempts
  BY DEF Becomes
<1>2. MigrateCall(m)' /\ DeployCall(d)' /\ RollbackCall(m)'
  BY <1>1 DEF MigrateCall, DeployCall, RollbackCall
<1>3. UNCHANGED <<service, schema, layout, effects>> /\ e.out # "effect"
  <2>1. CASE CallEnds(t, e)
    BY <2>1 DEF CallEnds, UpgradeInv, CallsInv, ReadCall
  <2>2. CASE SB!Precheck(CallOf(t), e) \/ SB!Validate(CallOf(t), e)
    BY <2>2 DEF SB!Precheck, SB!Validate, SB!Reads, SB!At, SB!Raised, SB!world
  <2> QED
    BY <2>1, <2>2
<1>4. ReadCall(m, d)'
  BY <1>1, <1>3 DEF ReadCall
<1>5. WorldInv(m, d)'
  BY <1>1, <1>3 DEF UpgradeInv, WorldInv, ServiceNeverAheadOfSchema
<1> QED
  BY <1>2, <1>3, <1>4, <1>5 DEF CallsInv
LEMMA RestoreRuns ==
    ASSUME RuntimeInv, SoleCall, NEW m \in Steps, NEW d \in Steps, m # d, UpgradeInv(m, d),
           NEW t \in threads, t.phase = "compensation", t.step = d, NEW e, Becomes(t, e),
           SB!SetService(<<"compensation", d>>, "v1", CallOf(t), e) \/ CallEnds(t, e)
    PROVE  /\ CallsInv(m, d)' /\ WorldInv(m, d)'
           /\ effects' = effects \/ SB!Record(<<"compensation", d>>)
<1>0. TypeInv /\ "forward" \in Phases /\ "compensation" \in Phases
  BY DEF RuntimeInv, Phases
<1>1. /\ \A u \in threads' : u.phase = "compensation" /\ u.step = d
      /\ attempts' = attempts
  BY DEF Becomes
<1>2. CallsInv(m, d)'
  BY <1>1 DEF CallsInv, MigrateCall, DeployCall, RollbackCall, ReadCall
<1>3. WorldInv(m, d) /\ DOMAIN attempts["compensation"][d] # {}
  BY DEF UpgradeInv, SoleCall
<1>4. ASSUME UNCHANGED <<schema, layout>>, service' \in {service, "v1"},
             effects'["compensation"][m] = effects["compensation"][m],
             effects'["forward"][m] = effects["forward"][m]
      PROVE  WorldInv(m, d)'
  BY <1>1, <1>3, <1>4 DEF WorldInv, ServiceNeverAheadOfSchema
<1>5. CASE UNCHANGED <<service, schema, layout, effects>>
  BY <1>2, <1>4, <1>5
<1>6. CASE CallEnds(t, e) \/ SB!Declines(<<"compensation", d>>, TRUE, CallOf(t), e)
  BY <1>5, <1>6 DEF CallEnds, SB!Declines, SB!world
<1>7. CASE service' = "v1" /\ UNCHANGED <<schema, layout, effects>>
  BY <1>2, <1>4, <1>7
<1>8. CASE SB!Record(<<"compensation", d>>) /\ UNCHANGED <<service, schema, layout>>
  <2>1. /\ effects'["compensation"][m] = effects["compensation"][m]
        /\ effects'["forward"][m] = effects["forward"][m]
    BY <1>0, <1>8, RecordSets
  <2> QED
    BY <1>2, <1>4, <1>8, <2>1
<1> QED
  BY <1>6, <1>7, <1>8, SwitchSteps

\* One commit of the script, before the rollback is in the ledger.
RollbackCommits(c, e) ==
    /\ UNCHANGED <<service, effects>>
    /\ c.stage \in {"open", "created", "copied", "dropped", "renamed"}
    /\ e.stage \in {"created", "copied", "dropped", "renamed", "versioned"}
    /\ e.stage = "renamed" => layout' = "plain"
    /\ e.stage = "versioned" => c.stage = "renamed" /\ layout' = layout /\ schema' = "v1"

LEMMA RollbackSteps ==
    ASSUME NEW key, NEW c, NEW e, SB!RollBack(key, c, e)
    PROVE  \/ SB!Declines(key, SB!Inspectable /\ service = "v1", c, e)
           \/ RollbackCommits(c, e) /\ (c.stage = "open" => SB!MayRollBack(key))
           \/ /\ c.stage = "versioned"
              /\ SB!Record(key)
              /\ e.stage = "landed" /\ e.out = "effect"
              /\ UNCHANGED <<service, schema, layout>>
<1>1. ASSUME NEW x, NEW stage, NEW out, x = SB!At(stage, out)
      PROVE  x.stage = stage /\ x.out = out
  BY <1>1 DEF SB!At
<1>2. c = SB!Opened => c.stage = "open"
  BY DEF SB!Opened
<1> QED
  BY <1>1, <1>2 DEF SB!RollBack, SB!world, RollbackCommits

LEMMA RollbackRuns ==
    ASSUME RuntimeInv, SoleCall, NEW m \in Steps, NEW d \in Steps, m # d, UpgradeInv(m, d),
           NEW t \in threads, t.phase = "compensation", t.step = m, NEW e, Becomes(t, e),
           SB!RollBack(<<"compensation", m>>, CallOf(t), e) \/ CallEnds(t, e)
    PROVE  /\ CallsInv(m, d)' /\ WorldInv(m, d)'
           /\ effects' = effects \/ SB!Record(<<"compensation", m>>)
<1>0. /\ TypeInv /\ effects["compensation"][m] \in Nat
      /\ "forward" \in Phases /\ "compensation" \in Phases
  BY DEF RuntimeInv, TypeInv, LooseTypeOK, Phases
<1>1. /\ \A u \in threads' : /\ u.phase = "compensation" /\ u.step = m
                             /\ u.stage = e.stage /\ u.out = e.out
      /\ attempts' = attempts
  BY DEF Becomes
<1>2. MigrateCall(m)' /\ DeployCall(d)' /\ ReadCall(m, d)'
  BY <1>1 DEF MigrateCall, DeployCall, ReadCall
<1>3. WorldInv(m, d) /\ RollbackCall(m) /\ DOMAIN attempts["compensation"][m] # {}
  BY DEF UpgradeInv, CallsInv, SoleCall
<1>4. ASSUME UNCHANGED <<service, schema, layout, effects>>,
             \/ e.stage = "done" /\ e.out \in {"permanent", "result_unknown"}
             \/ e.stage = "done" /\ t.stage = "landed" /\ e.out = t.out
             \/ e.stage = "landed" /\ e.out = "noop" /\ effects["compensation"][m] > 0
      PROVE  RollbackCall(m)' /\ WorldInv(m, d)'
  <2>1. RollbackCall(m)'
    BY <1>1, <1>3, <1>4 DEF RollbackCall
  <2>2. WorldInv(m, d)'
    BY <1>1, <1>3, <1>4 DEF WorldInv, ServiceNeverAheadOfSchema
  <2> QED
    BY <2>1, <2>2
<1>5. CASE CallEnds(t, e)
  BY <1>2, <1>4, <1>5 DEF CallEnds, CallsInv
<1>6. CASE SB!Declines(<<"compensation", m>>, SB!Inspectable /\ service = "v1", CallOf(t), e)
  <2>1. /\ UNCHANGED <<service, schema, layout, effects>>
        /\ \/ e.stage = "done" /\ e.out = "permanent"
           \/ e.stage = "landed" /\ e.out = "noop" /\ effects["compensation"][m] > 0
    BY <1>6 DEF SB!Declines, SB!Raised, SB!At, SB!Recorded, SB!world
  <2> QED
    BY <1>2, <1>4, <2>1 DEF CallsInv
<1>7. CallOf(t).stage = t.stage
  BY DEF CallOf
<1>8. CASE /\ RollbackCommits(CallOf(t), e)
           /\ t.stage = "open" => SB!MayRollBack(<<"compensation", m>>)
  <2>1. effects["compensation"][m] = 0 /\ service = "v1"
    BY <1>0, <1>3, <1>7, <1>8 DEF RollbackCommits, RollbackCall, SB!MayRollBack, SB!Recorded
  <2>2. RollbackCall(m)'
    BY <1>1, <1>3, <1>7, <1>8, <2>1 DEF RollbackCommits, RollbackCall
  <2>3. WorldInv(m, d)'
    BY <1>1, <1>3, <1>8, <2>1 DEF RollbackCommits, WorldInv, ServiceNeverAheadOfSchema
  <2> QED
    BY <1>2, <1>8, <2>2, <2>3 DEF CallsInv, RollbackCommits
<1>9. CASE /\ t.stage = "versioned"
           /\ SB!Record(<<"compensation", m>>)
           /\ e.stage = "landed"
           /\ UNCHANGED <<service, schema, layout>>
           /\ e.out = "effect"
  <2>1. service = "v1" /\ schema = "v1" /\ layout = "plain"
    BY <1>3, <1>9 DEF RollbackCall
  <2>2. /\ effects'["compensation"][m] = 1
        /\ effects'["forward"][m] = effects["forward"][m]
        /\ effects'["forward"][d] = effects["forward"][d]
    BY <1>0, <1>9, RecordSets
  <2>3. RollbackCall(m)'
    BY <1>1, <1>9, <2>2 DEF RollbackCall
  <2>4. WorldInv(m, d)'
    BY <1>1, <1>3, <1>9, <2>1, <2>2 DEF WorldInv, ServiceNeverAheadOfSchema
  <2> QED
    BY <1>2, <1>9, <2>3, <2>4 DEF CallsInv
<1> QED
  BY <1>5, <1>6, <1>7, <1>8, <1>9, RollbackSteps

\* Whatever the call does, the sandbox and the record stay in step.
LEMMA ToolsKeepUpgrade ==
    ASSUME RuntimeInv, SoleCall, NEW pos \in Positions, NEW m \in Steps, NEW d \in Steps,
           IsUpgrade(pos, m, d), UpgradeInv(m, d), NEW t \in threads,
           ToolRuns(t) \/ ToolReports(t) \/ ToolFaults(t)
    PROVE  UpgradeInv(m, d)'
<1>0. /\ TypeInv /\ t.step \in Steps /\ t.phase \in {"forward", "compensation"}
      /\ LedgerInv(m, d)
  BY DEF RuntimeInv, TypeInv, LooseTypeOK, Future, Phases, UpgradeInv
<1>1. /\ m # d /\ Compensable = {m, d}
      /\ Tool["forward"][m] = "migrate" /\ Tool["forward"][d] = "deploy"
      /\ \A s \in Steps \ {m, d} : Tool["forward"][s] \in {"precheck", "validate"}
      /\ Tool["compensation"][m] = "rollback" /\ Tool["compensation"][d] = "restore"
  BY UpgradeFacts
<1>2. PICK e \in SB!Call :
         /\ Becomes(t, e)
         /\ \/ SB!Execute(Tool[t.phase][t.step], <<t.phase, t.step>>, CallOf(t), e)
            \/ CallEnds(t, e)
  BY <1>0, ToolStep
<1>3. ASSUME CallsInv(m, d)', WorldInv(m, d)',
             \/ effects' = effects
             \/ SB!Record(<<t.phase, t.step>>) /\ t.step \in {m, d}
      PROVE  UpgradeInv(m, d)'
  <2>1. UNCHANGED <<step, attempts>>
    BY <1>2 DEF Becomes
  <2>2. LedgerInv(m, d)'
    BY <1>0, <1>3, <2>1, LedgerGrows
  <2> QED
    BY <1>3, <2>2 DEF UpgradeInv
<1>4. CASE t.phase = "forward" /\ t.step = m
  <2>1. SB!Migrate(<<"forward", m>>, CallOf(t), e) \/ CallEnds(t, e)
    BY <1>1, <1>2, <1>4 DEF SB!Execute
  <2> QED
    BY <1>1, <1>2, <1>3, <1>4, <2>1, MigrateRuns
<1>5. CASE t.phase = "forward" /\ t.step = d
  <2>1. SB!SetService(<<"forward", d>>, "v2", CallOf(t), e) \/ CallEnds(t, e)
    BY <1>1, <1>2, <1>5 DEF SB!Execute
  <2> QED
    BY <1>1, <1>2, <1>3, <1>5, <2>1, DeployRuns
<1>6. CASE t.phase = "forward" /\ t.step \notin {m, d}
  <2>1. SB!Precheck(CallOf(t), e) \/ SB!Validate(CallOf(t), e) \/ CallEnds(t, e)
    BY <1>0, <1>1, <1>2, <1>6 DEF SB!Execute
  <2> QED
    BY <1>2, <1>3, <1>6, <2>1, ReadRuns
<1>7. CASE t.phase = "compensation" /\ t.step = m
  <2>1. SB!RollBack(<<"compensation", m>>, CallOf(t), e) \/ CallEnds(t, e)
    BY <1>1, <1>2, <1>7 DEF SB!Execute
  <2> QED
    BY <1>1, <1>2, <1>3, <1>7, <2>1, RollbackRuns
<1>8. CASE t.phase = "compensation" /\ t.step = d
  <2>1. SB!SetService(<<"compensation", d>>, "v1", CallOf(t), e) \/ CallEnds(t, e)
    BY <1>1, <1>2, <1>8 DEF SB!Execute
  <2> QED
    BY <1>1, <1>2, <1>3, <1>8, <2>1, RestoreRuns
<1>9. t.phase = "compensation" => t.step \in {m, d}
  BY <1>1 DEF SoleCall
<1> QED
  BY <1>0, <1>4, <1>5, <1>6, <1>7, <1>8, <1>9
-----------------------------------------------------------------------------
(* The runtime moves on.                                                   *)

LEMMA RuntimeKeepsCalls ==
    ASSUME TypeInv, RuntimeMoves, NEW m \in Steps, NEW d \in Steps, UpgradeInv(m, d),
           UNCHANGED sandbox
    PROVE  CallsInv(m, d)'
<1>1. /\ effects' = effects /\ UNCHANGED <<service, schema, layout>>
      /\ \A u \in threads' : CallKept(u) \/ CallMade(u)
  BY RuntimeCalls DEF sandbox
<1>2. /\ MigrateCall(m) /\ DeployCall(d) /\ RollbackCall(m) /\ ReadCall(m, d)
  BY DEF UpgradeInv, CallsInv
<1>3. ASSUME NEW u, CallMade(u)
      PROVE  /\ u.stage = "open" /\ u.out = "none"
             /\ u.phase = "forward" /\ u.step = m => effects["forward"][m] = 0
  <2>1. PICK s \in Steps : \/ StartAttempt(s) /\ u = NewThread(s, "forward")
                           \/ StartCompensation(s) /\ u = NewThread(s, "compensation")
    BY <1>3 DEF CallMade
  <2>2. u.stage = "open" /\ u.out = "none" /\ u.step = s
    BY <2>1 DEF NewThread
  <2>3. ASSUME StartAttempt(s) PROVE step[s] = "ready"
    BY <2>3, StepTable DEF StartAttempt, TypeInv, LooseTypeOK
  <2>4. u.phase = "forward" => StartAttempt(s)
    BY <2>1 DEF NewThread
  <2> QED
    BY <2>2, <2>3, <2>4 DEF UpgradeInv, LedgerInv
<1>4. MigrateCall(m)'
  BY <1>1, <1>2, <1>3 DEF MigrateCall, CallKept, SameCall
<1>5. DeployCall(d)'
  BY <1>1, <1>2, <1>3 DEF DeployCall, CallKept, SameCall
<1>6. RollbackCall(m)'
  BY <1>1, <1>2, <1>3 DEF RollbackCall, CallKept, SameCall
<1>7. ReadCall(m, d)'
  BY <1>1, <1>2, <1>3 DEF ReadCall, CallKept, SameCall
<1> QED
  BY <1>4, <1>5, <1>6, <1>7 DEF CallsInv

LEMMA RuntimeKeepsWorld ==
    ASSUME TypeInv, [AnyNext]_vars, NEW m \in Steps, NEW d \in Steps, WorldInv(m, d),
           UNCHANGED sandbox, effects' = effects
    PROVE  WorldInv(m, d)'
<1>1. \A s \in {m, d} : DOMAIN attempts["compensation"][s] # {} =>
         DOMAIN attempts'["compensation"][s] # {}
  BY AttemptsStay DEF Phases
<1> QED
  BY <1>1 DEF WorldInv, ServiceNeverAheadOfSchema, sandbox

\* What one attempt more, which has not succeeded, leaves of the record.
LEMMA AddedKeepsLedger ==
    ASSUME TypeInv, NEW m \in Steps, NEW d \in Steps, LedgerInv(m, d), effects' = effects,
           NEW p \in Phases, NEW s \in Steps, NEW a, Added(p, s, a), ~Succeeded(a), ~a.effect,
           \A u \in {m, d} : step'[u] = "succeeded" => step[u] = "succeeded",
           step'[m] \in {"pending", "ready", "retry_wait"} =>
              step[m] \in {"pending", "ready", "retry_wait"}
    PROVE  LedgerInv(m, d)'
<1>1. /\ Reported(m) => Reported(m)'
      /\ Compensated(attempts'["compensation"], m) => Compensated(attempts["compensation"], m)
  BY AddedOnRecord
<1>2. ASSUME NEW u \in Steps \ {m, d}, NEW n \in DOMAIN attempts'["forward"][u]
      PROVE  ~attempts'["forward"][u][n].effect
  <2>1. CASE p = "forward" /\ u = s
    <3> DEFINE len == Len(attempts["forward"][u])
    <3>1. /\ len \in Nat /\ n \in 1..(len + 1)
          /\ DOMAIN attempts["forward"][u] = 1..len
          /\ attempts'["forward"][u][len + 1] = a
          /\ \A k \in DOMAIN attempts["forward"][u] :
                attempts'["forward"][u][k] = attempts["forward"][u][k]
      BY <1>2, <2>1 DEF Added
    <3> HIDE DEF len
    <3>2. n = len + 1 \/ n \in 1..len
      BY <3>1
    <3> QED
      BY <3>1, <3>2 DEF LedgerInv
  <2>2. CASE p # "forward" \/ u # s
    <3>1. attempts'["forward"][u] = attempts["forward"][u]
      BY <2>2 DEF Added, Phases
    <3> QED
      BY <3>1 DEF LedgerInv
  <2> QED
    BY <2>1, <2>2
<1> QED
  BY <1>1, <1>2 DEF LedgerInv

LEMMA StartsKeepLedger ==
    ASSUME TypeInv, NEW m \in Steps, NEW d \in Steps, LedgerInv(m, d), effects' = effects,
           Starts \/ Compensates
    PROVE  LedgerInv(m, d)'
<1>0. step \in [Steps -> StepStates] /\ "forward" \in Phases /\ "compensation" \in Phases
  BY DEF TypeInv, LooseTypeOK, Phases
<1>1. ASSUME NEW a \in {RunningAttempt, AttemptAfter("retryable"), AttemptAfter("permanent")}
      PROVE  ~Succeeded(a) /\ ~a.effect
  <2>1. /\ RunningAttempt.status = "running" /\ ~RunningAttempt.effect
        /\ AttemptAfter("retryable").status = "failed" /\ ~AttemptAfter("retryable").effect
        /\ AttemptAfter("permanent").status = "failed" /\ ~AttemptAfter("permanent").effect
    BY DEF RunningAttempt, AttemptAfter, Failures
  <2> QED
    BY <1>1, <2>1 DEF Succeeded
<1>2. PICK s \in Steps : \/ StartAttempt(s) \/ SubmissionFails(s)
                         \/ StartCompensation(s) \/ CompensationSubmissionFails(s)
  BY DEF Starts, Compensates
<1>3. CASE StartAttempt(s)
  <2>1. step' = [step EXCEPT ![s] = "running"]
    BY <1>3 DEF StartAttempt
  <2>2. Added("forward", s, RunningAttempt)
    BY <1>3, StartAdds
  <2> QED
    BY <1>0, <1>1, <2>1, <2>2, AddedKeepsLedger
<1>4. CASE SubmissionFails(s)
  <2>1. step[s] = "ready"
    BY <1>0, <1>4, StepTable DEF SubmissionFails
  <2>2. \E q : q # "succeeded" /\ step' = [step EXCEPT ![s] = q]
    BY <1>4 DEF SubmissionFails, NextStepState
  <2>3. Added("forward", s, AttemptAfter("retryable"))
    BY <1>4, StartAdds
  <2> QED
    BY <1>0, <1>1, <2>1, <2>2, <2>3, AddedKeepsLedger
<1>5. CASE StartCompensation(s) \/ CompensationSubmissionFails(s)
  <2>1. step' = step
    BY <1>5 DEF StartCompensation, CompensationSubmissionFails
  <2>2. \/ Added("compensation", s, RunningAttempt)
        \/ Added("compensation", s, AttemptAfter("permanent"))
    BY <1>5, StartAdds
  <2> QED
    BY <1>0, <1>1, <2>1, <2>2, AddedKeepsLedger
<1> QED
  BY <1>2, <1>3, <1>4, <1>5

\* The record after a forward attempt of step s is over, and the step in state q.
LEMMA ForwardKeepsLedger ==
    ASSUME TypeInv, NEW m \in Steps, NEW d \in Steps, LedgerInv(m, d), effects' = effects,
           NEW s \in Steps, NEW n, Completed("forward", s, n), NEW q,
           step' = [step EXCEPT ![s] = q],
           s = m /\ q \in {"pending", "ready", "retry_wait"} => effects["forward"][m] = 0,
           s \in {m, d} /\ q = "succeeded" => effects["forward"][s] > 0,
           s = m /\ q = "succeeded" =>
              Succeeded(attempts'["forward"][m][n]) /\ attempts'["forward"][m][n].effect,
           s \notin {m, d} => ~attempts'["forward"][s][n].effect
    PROVE  LedgerInv(m, d)'
<1>0. step \in [Steps -> StepStates] /\ "forward" \in Phases /\ n \in DOMAIN attempts'["forward"][s]
  BY DEF TypeInv, LooseTypeOK, Phases, Completed
<1>1. /\ s # m => (Reported(m)' <=> Reported(m))
      /\ Compensated(attempts'["compensation"], m) <=> Compensated(attempts["compensation"], m)
  BY <1>0, CompletedOnRecord
<1>2. step'[m] = "succeeded" => effects["forward"][m] > 0 /\ Reported(m)'
  <2>1. CASE s = m
    BY <1>0, <2>1 DEF Reported
  <2>2. CASE s # m
    BY <1>0, <1>1, <2>2 DEF LedgerInv
  <2> QED
    BY <2>1, <2>2
<1>3. /\ step'[m] \in {"pending", "ready", "retry_wait"} => effects["forward"][m] = 0
      /\ step'[d] = "succeeded" => effects["forward"][d] > 0
  BY <1>0 DEF LedgerInv
<1>4. ASSUME NEW u \in Steps \ {m, d}, NEW k \in DOMAIN attempts'["forward"][u]
      PROVE  ~attempts'["forward"][u][k].effect
  BY <1>0, <1>4 DEF LedgerInv, Completed
<1> QED
  BY <1>1, <1>2, <1>3, <1>4 DEF LedgerInv

\* The record after a compensation of step s is over.
LEMMA CompensationKeepsLedger ==
    ASSUME NEW m \in Steps, NEW d \in Steps, LedgerInv(m, d), effects' = effects,
           NEW s \in Steps, NEW n, Completed("compensation", s, n), step' = step,
           s = m /\ Succeeded(attempts'["compensation"][m][n]) => effects["compensation"][m] > 0
    PROVE  LedgerInv(m, d)'
<1>0. "forward" \in Phases /\ "compensation" \in Phases
  BY DEF Phases
<1>1. /\ Reported(m)' <=> Reported(m)
      /\ s # m => (Compensated(attempts'["compensation"], m)
                      <=> Compensated(attempts["compensation"], m))
  BY <1>0, CompletedOnRecord
<1>2. Compensated(attempts'["compensation"], m) => effects["compensation"][m] > 0
  <2>1. CASE s = m
    BY <1>0, <2>1 DEF Compensated, Completed, LedgerInv
  <2>2. CASE s # m
    BY <1>1, <2>2 DEF LedgerInv
  <2> QED
    BY <2>1, <2>2
<1>3. ASSUME NEW u \in Steps \ {m, d}, NEW k \in DOMAIN attempts'["forward"][u]
      PROVE  ~attempts'["forward"][u][k].effect
  BY <1>0, <1>3 DEF LedgerInv, Completed
<1> QED
  BY <1>1, <1>2, <1>3 DEF LedgerInv
LEMMA PersistsKeepLedger ==
    ASSUME RuntimeInv, NEW m \in Steps, NEW d \in Steps, UpgradeInv(m, d), Persists
    PROVE  LedgerInv(m, d)'
<1>0. /\ TypeInv /\ DatabaseInv /\ OwnedInv /\ LedgerInv(m, d)
      /\ MigrateCall(m) /\ DeployCall(d) /\ RollbackCall(m) /\ ReadCall(m, d)
  BY AttemptInvParts DEF RuntimeInv, FuturesInv, UpgradeInv, CallsInv
<1>1. PICK t \in threads : Collect(t) \/ Expire(t) \/ CloseOutcome(t)
  BY DEF Persists
<1>2. PICK out \in Outcomes \cup {"none"} :
         /\ PersistOutcome(t, out) /\ t.hold = "owned" /\ effects' = effects
         /\ \/ t.stage = "done" /\ out = t.out
            \/ t.stage = "open" /\ out = "retryable"
            \/ out = "result_unknown"
  BY <1>0, <1>1, OutcomeOfCall
<1>3. /\ Completed(t.phase, t.step, t.no)
      /\ attempts'[t.phase][t.step][t.no] = AttemptAfter(out)
      /\ t.phase = "forward" => PersistForward(t.step, t.no, out)
      /\ t.phase = "compensation" => PersistCompensation(t.step, t.no, out)
  BY <1>0, <1>2, PersistCompletes
<1>4. t.step \in Steps /\ t.phase \in {"forward", "compensation"}
  BY <1>0 DEF TypeInv, LooseTypeOK, Future, Phases
<1>5. /\ AttemptAfter(out).effect <=> out = "effect"
      /\ Succeeded(AttemptAfter(out)) <=> out \notin Failures
  BY DEF AttemptAfter, Succeeded
<1>6. CASE t.phase = "forward"
  <2> DEFINE q == NextStepState(t.step, t.no, out)
  <2>1. step' = [step EXCEPT ![t.step] = q]
    BY <1>3, <1>6 DEF PersistForward
  <2>2. /\ q \in {"pending", "ready", "retry_wait"} => out = "retryable"
        /\ q = "succeeded" => out \in {"effect", "noop"}
    BY DEF NextStepState
  <2> HIDE DEF q
  <2>3. t.step = m /\ q \in {"pending", "ready", "retry_wait"} => effects["forward"][m] = 0
    BY <1>0, <1>2, <1>6, <2>2 DEF MigrateCall
  <2>4. t.step = m /\ q = "succeeded" => effects["forward"][m] > 0 /\ out = "effect"
    BY <1>0, <1>2, <1>6, <2>2 DEF MigrateCall
  <2>5. t.step = d /\ q = "succeeded" => effects["forward"][d] > 0
    BY <1>0, <1>2, <1>6, <2>2 DEF DeployCall
  <2>6. t.step \notin {m, d} => out # "effect"
    BY <1>0, <1>2, <1>6 DEF ReadCall
  <2>7. t.step = m /\ q = "succeeded" =>
           Succeeded(attempts'["forward"][m][t.no]) /\ attempts'["forward"][m][t.no].effect
    BY <1>3, <1>5, <1>6, <2>4 DEF Failures
  <2>8. t.step \notin {m, d} => ~attempts'["forward"][t.step][t.no].effect
    BY <1>3, <1>5, <1>6, <2>6
  <2> QED
    BY <1>0, <1>2, <1>3, <1>4, <1>6, <2>1, <2>3, <2>4, <2>5, <2>7, <2>8, ForwardKeepsLedger
<1>7. CASE t.phase = "compensation"
  <2>1. step' = step
    BY <1>3, <1>7 DEF PersistCompensation
  <2>2. t.step = m /\ out \notin Failures => effects["compensation"][m] > 0
    BY <1>0, <1>2, <1>7 DEF RollbackCall, Outcomes, Failures
  <2> QED
    BY <1>0, <1>2, <1>3, <1>4, <1>5, <1>7, <2>1, <2>2, CompensationKeepsLedger
<1> QED
  BY <1>4, <1>6, <1>7

LEMMA ResolvesKeepLedger ==
    ASSUME RuntimeInv, TypeInv', NEW m \in Steps, NEW d \in Steps, LedgerInv(m, d), Resolves
    PROVE  LedgerInv(m, d)'
<1>0. TypeInv /\ QueueInv /\ AttemptInv
  BY DEF RuntimeInv
<1>1. PICK r \in rq : RecoverApplied(r) \/ RecoverNotApplied(r) \/ RecoverManually(r)
  BY DEF Resolves
<1>2. /\ r.step \in Steps /\ r.phase \in Phases
      /\ Completed(r.phase, r.step, r.no)
  BY <1>0, <1>1, RecoverCompletes
<1>3. effects' = effects
  BY <1>1 DEF RecoverApplied, RecoverNotApplied, RecoverManually
<1> DEFINE a == attempts[r.phase][r.step][r.no]
           b == attempts'[r.phase][r.step][r.no]
<1>4. ASSUME NEW status, NEW effect, NEW err, status # "running",
             Resolve(r, status, effect, err)
      PROVE  b.status = status /\ b.effect = effect
  <2>1. r.no \in DOMAIN attempts[r.phase][r.step]
    BY <1>2 DEF Completed
  <2>2. b = [status |-> status, effect |-> effect, err |-> err]
    BY <1>0, <1>2, <1>4, <2>1 DEF Resolve, TypeInv, LooseTypeOK
  <2> QED
    BY <2>2
<1>5. \/ /\ effects[r.phase][r.step] > 0 /\ b.status = "succeeded" /\ b.effect
         /\ StepAfterRecovery(r, "succeeded")
      \/ /\ ~(effects[r.phase][r.step] > 0) /\ b.status = "not_applied" /\ b.effect = a.effect
         /\ StepAfterRecovery(r, "ready")
      \/ /\ b.status = "manual_intervention" /\ b.effect = a.effect
         /\ StepAfterRecovery(r, "manual_intervention")
  <2>1. CASE RecoverApplied(r)
    BY <1>4, <2>1 DEF RecoverApplied, Decisions
  <2>2. CASE RecoverNotApplied(r)
    BY <1>4, <2>2 DEF RecoverNotApplied, Decisions
  <2>3. CASE RecoverManually(r)
    BY <1>4, <2>3 DEF RecoverManually
  <2> QED
    BY <1>1, <2>1, <2>2, <2>3
<1>6. effects[r.phase][r.step] \in Nat
  BY <1>0, <1>2 DEF TypeInv, LooseTypeOK
<1> HIDE DEF a, b
<1>7. CASE r.phase = "forward"
  <2>1. PICK q : /\ step' = [step EXCEPT ![r.step] = q]
                 /\ q \in {"succeeded", "ready", "manual_intervention"}
                 /\ q = "succeeded" =>
                       effects["forward"][r.step] > 0 /\ b.status = "succeeded" /\ b.effect
                 /\ q = "ready" => effects["forward"][r.step] = 0
                 /\ b.effect => effects["forward"][r.step] > 0 \/ a.effect
    BY <1>5, <1>6, <1>7 DEF StepAfterRecovery
  <2>2. r.step \notin {m, d} => ~a.effect /\ ~(effects["forward"][r.step] > 0)
    BY <1>2, <1>7 DEF LedgerInv, Completed, a
  <2>3. r.step \notin {m, d} => ~attempts'["forward"][r.step][r.no].effect
    BY <1>7, <2>1, <2>2 DEF b
  <2>4. r.step = m /\ q = "succeeded" =>
           Succeeded(attempts'["forward"][m][r.no]) /\ attempts'["forward"][m][r.no].effect
    BY <1>7, <2>1 DEF b, Succeeded
  <2> QED
    <3>1. /\ Completed("forward", r.step, r.no) /\ step' = [step EXCEPT ![r.step] = q]
          /\ r.step = m /\ q \in {"pending", "ready", "retry_wait"} => effects["forward"][m] = 0
          /\ r.step \in {m, d} /\ q = "succeeded" => effects["forward"][r.step] > 0
      BY <1>2, <1>7, <2>1
    <3> QED
      BY <1>0, <1>2, <1>3, <2>3, <2>4, <3>1, ForwardKeepsLedger
<1>8. CASE r.phase = "compensation"
  <2>1. step' = step
    BY <1>5, <1>8 DEF StepAfterRecovery
  <2>2. b.status \in {"success", "succeeded"} => effects["compensation"][r.step] > 0
    BY <1>5, <1>8
  <2> QED
    BY <1>2, <1>3, <1>8, <2>1, <2>2, CompensationKeepsLedger DEF b, Succeeded
<1> QED
  BY <1>2, <1>7, <1>8 DEF Phases

\* Whatever the runtime does, the sandbox and the record stay in step.
LEMMA RuntimeKeepsUpgrade ==
    ASSUME RuntimeInv, RuntimeInv', NEW m \in Steps, NEW d \in Steps, UpgradeInv(m, d),
           RuntimeMoves, UNCHANGED sandbox
    PROVE  UpgradeInv(m, d)'
<1>0. TypeInv /\ TypeInv' /\ [AnyNext]_vars /\ LedgerInv(m, d) /\ WorldInv(m, d)
  BY DEF RuntimeInv, RuntimeMoves, AnyNext, UpgradeInv
<1>1. effects' = effects
  BY <1>0, RuntimeCalls
<1>2. ASSUME Settled
      PROVE  LedgerInv(m, d)'
  BY <1>0, <1>1, <1>2 DEF Settled, LedgerInv, Reported
<1>3. LedgerInv(m, d)'
  BY <1>0, <1>1, <1>2, RecordActions, PersistsKeepLedger, StartsKeepLedger, ResolvesKeepLedger
<1> QED
  BY <1>0, <1>1, <1>3, RuntimeKeepsCalls, RuntimeKeepsWorld DEF UpgradeInv

LEMMA NextUpgrade ==
    ASSUME RuntimeInv, RuntimeInv', SoleCall, NEW pos \in Positions, NEW m \in Steps,
           NEW d \in Steps, IsUpgrade(pos, m, d), UpgradeInv(m, d), [UpgradeNext]_upgradeVars
    PROVE  UpgradeInv(m, d)'
<1>1. CASE \E t \in threads : ToolRuns(t) \/ ToolReports(t) \/ ToolFaults(t)
  BY <1>1, ToolsKeepUpgrade
<1>2. CASE Runtime
  BY <1>2, RuntimeKeepsUpgrade DEF Runtime, RuntimeMoves
<1>3. CASE \/ UNCHANGED upgradeVars
           \/ \E p \in Clients : ClientCreatesOrder(p)
  <2>1. UNCHANGED <<vars, service, schema, layout>>
    BY <1>3 DEF upgradeVars, sandbox, ClientCreatesOrder, SB!CreateOrder, vars
  <2>2. UNCHANGED <<threads, effects, step, attempts, service, schema, layout>>
    BY <2>1 DEF vars, database
  <2> QED
    BY <2>2 DEF UpgradeInv, CallsInv, MigrateCall, DeployCall, RollbackCall, ReadCall, WorldInv,
       LedgerInv, ServiceNeverAheadOfSchema, Reported
<1> QED
  BY <1>1, <1>2, <1>3 DEF UpgradeNext

LEMMA UpgradeInvAlways ==
    ASSUME LateEffects = FALSE, NEW pos \in Positions, NEW m \in Steps, NEW d \in Steps,
           IsUpgrade(pos, m, d)
    PROVE  UpgradeSpec => []UpgradeInv(m, d)
<1>1. ASSUME UpgradeInit
      PROVE  UpgradeInv(m, d)
  <2>1. /\ \A s \in Steps : step[s] = "pending"
        /\ \A p \in {"forward", "compensation"} : \A s \in Steps :
              attempts[p][s] = <<>> /\ effects[p][s] = 0
        /\ threads = {} /\ service = "v1"
    BY <1>1 DEF UpgradeInit, Init, Phases, SB!SandboxInit
  <2>2. CallsInv(m, d)
    BY <2>1 DEF CallsInv, MigrateCall, DeployCall, RollbackCall, ReadCall
  <2>3. WorldInv(m, d)
    BY <2>1 DEF WorldInv, ServiceNeverAheadOfSchema
  <2>4. LedgerInv(m, d)
    BY <2>1 DEF LedgerInv, Compensated
  <2> QED
    BY <2>2, <2>3, <2>4 DEF UpgradeInv
<1>2. RuntimeInv /\ RuntimeInv' /\ SoleCall /\ UpgradeInv(m, d) /\ [UpgradeNext]_upgradeVars
         => UpgradeInv(m, d)'
  BY NextUpgrade
<1>3. Chained
  BY UpgradeFacts
<1> QED
  BY <1>1, <1>2, <1>3, UpgradeIsAny, ChainedIsAlone, RuntimeInvAlways, SoleCallAlways, PTL
     DEF UpgradeSpec
-----------------------------------------------------------------------------
(* The sandbox.                                                            *)

(***************************************************************************)
(* Service v2 never runs on a database it cannot use, for any number of    *)
(* lost replies, crashes, retries and recoveries between the switch of the *)
(* service and the scripts that change the schema.                         *)
(***************************************************************************)
THEOREM ServiceFitsSchema ==
    ASSUME Upgrade, LateEffects = FALSE
    PROVE  UpgradeSpec => []ServiceNeverAheadOfSchema
<1>1. PICK pos \in Positions : \E m, d \in Steps : IsUpgrade(pos, m, d)
  BY DEF Upgrade
<1>2. PICK m \in Steps, d \in Steps : IsUpgrade(pos, m, d)
  BY <1>1
<1>3. UpgradeSpec => []UpgradeInv(m, d)
  BY <1>2, UpgradeInvAlways
<1>4. UpgradeInv(m, d) => ServiceNeverAheadOfSchema
  BY DEF UpgradeInv, WorldInv
<1> QED
  BY <1>3, <1>4, PTL

(***************************************************************************)
(* The rows recovery probes are true of the sandbox: a recorded migration  *)
(* that no rollback touched left schema v2, a recorded rollback schema v1. *)
(***************************************************************************)
THEOREM LedgerIsTrue ==
    ASSUME Upgrade, LateEffects = FALSE
    PROVE  UpgradeSpec => []LedgerTellsTheWorld
<1>1. PICK pos \in Positions : \E m, d \in Steps : IsUpgrade(pos, m, d)
  BY DEF Upgrade
<1>2. PICK m \in Steps, d \in Steps : IsUpgrade(pos, m, d)
  BY <1>1
<1>3. UpgradeSpec => []UpgradeInv(m, d)
  BY <1>2, UpgradeInvAlways
<1>4. ASSUME UpgradeInv(m, d)
      PROVE  LedgerTellsTheWorld
  <2> SUFFICES ASSUME NEW s \in Steps, Tool["forward"][s] = "migrate"
               PROVE  /\ (effects["forward"][s] > 0 /\ attempts["compensation"][s] = <<>>) =>
                             schema = "v2" /\ layout = "wide"
                      /\ effects["compensation"][s] > 0 => schema = "v1" /\ layout = "plain"
    BY DEF LedgerTellsTheWorld
  <2>1. s = m
    BY <1>2, UpgradeFacts
  <2> QED
    BY <1>4, <2>1 DEF UpgradeInv, WorldInv
<1> QED
  BY <1>3, <1>4, PTL
-----------------------------------------------------------------------------
(* The run and its approvals.                                              *)

\* What becomes of the approvals: a grant is at most invalidated, and only an
\* operator rejects.
LEMMA ApprovalsMove ==
    ASSUME TypeInv, BarrierInv, [AnyNext]_vars
    PROVE  /\ Granted => Granted'
           /\ (\E i \in DOMAIN approvals' : approvals'[i].status = "rejected") =>
                 \/ \E i \in DOMAIN approvals : approvals[i].status = "rejected"
                 \/ \E i \in DOMAIN approvals : Decide(i, "rejected")
<1>0. approvals \in Seq(ApprovalRequest)
  BY DEF TypeInv, LooseTypeOK
<1>1. CASE approvals' = approvals
  BY <1>1 DEF Granted
<1>2. ASSUME Decides
      PROVE  /\ Granted => Granted'
             /\ (\E i \in DOMAIN approvals' : approvals'[i].status = "rejected") =>
                   \/ \E i \in DOMAIN approvals : approvals[i].status = "rejected"
                   \/ \E i \in DOMAIN approvals : Decide(i, "rejected")
  <2>1. PICK i \in DOMAIN approvals, d \in {"approved", "rejected"} : Decide(i, d)
    BY <1>2 DEF Decides
  <2>2. /\ approvals[i].status = "pending" /\ approvals[i] \in ApprovalRequest
        /\ approvals' = [approvals EXCEPT ![i].status = d]
    BY <1>0, <2>1 DEF Decide
  <2>3. /\ DOMAIN approvals' = DOMAIN approvals /\ approvals'[i].status = d
        /\ \A k \in DOMAIN approvals : k # i => approvals'[k] = approvals[k]
    BY <2>2 DEF ApprovalRequest
  <2> QED
    BY <2>1, <2>2, <2>3 DEF Granted
<1>3. ASSUME NEW s \in Steps, EstablishApprovalBarrier(s), approvals' # approvals
      PROVE  /\ Granted => Granted'
             /\ (\E i \in DOMAIN approvals' : approvals'[i].status = "rejected") =>
                   \E i \in DOMAIN approvals : approvals[i].status = "rejected"
  <2> DEFINE old == Invalidated(s)
             new == [step |-> s, binding |-> binding, status |-> "pending"]
  <2>1. approvals' = old \/ approvals' = Append(old, new)
    BY <1>3 DEF EstablishApprovalBarrier
  <2>2. /\ DOMAIN old = DOMAIN approvals
        /\ \A i \in DOMAIN approvals :
              /\ approvals[i].status \in {"approved", "invalidated"} =>
                    old[i].status \in {"approved", "invalidated"}
              /\ old[i].status = "rejected" => approvals[i].status = "rejected"
    <3>1. \A i \in DOMAIN approvals : [approvals[i] EXCEPT !.status = "invalidated"].status
                                         = "invalidated"
      BY <1>0 DEF ApprovalRequest
    <3> QED
      BY <3>1 DEF Invalidated
  <2>3. old \in Seq(ApprovalRequest) /\ new \in ApprovalRequest /\ new.status = "pending"
    <3>1. PICK n \in Nat : approvals \in [1..n -> ApprovalRequest]
      BY <1>0, SeqDef
    <3>2. old \in [1..n -> ApprovalRequest]
      BY <3>1 DEF Invalidated, ApprovalRequest
    <3> HIDE DEF old
    <3>3. old \in Seq(ApprovalRequest)
      BY <3>2, SeqDef
    <3>4. new \in ApprovalRequest /\ new.status = "pending"
      BY DEF TypeInv, LooseTypeOK, ApprovalRequest
    <3> QED
      BY <3>3, <3>4
  <2> HIDE DEF old, new
  <2>4. /\ Len(old) \in Nat /\ DOMAIN old = 1..Len(old)
        /\ DOMAIN Append(old, new) = 1..(Len(old) + 1)
        /\ Append(old, new)[Len(old) + 1] = new
        /\ \A i \in 1..Len(old) : Append(old, new)[i] = old[i]
    BY <2>3, AppendProperties, LenProperties
  <2>5. /\ \A i \in DOMAIN old : i \in DOMAIN approvals' /\ approvals'[i] = old[i]
        /\ \A i \in DOMAIN approvals' : i \notin DOMAIN old => approvals'[i] = new
    BY <2>1, <2>4
  <2> QED
    BY <2>2, <2>3, <2>5 DEF Granted
<1> QED
  BY <1>1, <1>2, <1>3, ApprovalActions DEF Establishes

\* A step that waits to be started is moved by its start only.
LEMMA WaitingStep ==
    ASSUME RuntimeInv, TypeInv', [AnyNext]_vars, NEW s \in Steps,
           step[s] \in {"pending", "ready"}, step'[s] \notin {step[s], "ready"}
    PROVE  StartAttempt(s) \/ SubmissionFails(s)
<1>0. /\ TypeInv /\ QueueInv /\ AttemptInv /\ DatabaseInv /\ OwnedInv
      /\ step \in [Steps -> StepStates]
  BY AttemptInvParts DEF RuntimeInv, FuturesInv, TypeInv, LooseTypeOK
<1>1. ~Settled
  BY DEF Settled
<1>2. ~Persists
  <2> SUFFICES ASSUME Persists PROVE FALSE
    OBVIOUS
  <2>1. PICK t \in threads : Collect(t) \/ Expire(t) \/ CloseOutcome(t)
    BY DEF Persists
  <2>2. PICK out \in Outcomes \cup {"none"} : PersistOutcome(t, out) /\ t.hold = "owned"
    BY <1>0, <2>1, OutcomeOfCall
  <2>3. /\ t.phase = "forward" => PersistForward(t.step, t.no, out) /\ step[t.step] = "running"
        /\ t.phase = "compensation" => PersistCompensation(t.step, t.no, out)
        /\ t.phase \in Phases /\ t.step \in Steps
    BY <1>0, <2>2, PersistCompletes, OwnedSteps
  <2>4. CASE t.phase = "forward"
    <3>1. \E q : step' = [step EXCEPT ![t.step] = q]
      BY <2>3, <2>4 DEF PersistForward
    <3> QED
      BY <1>0, <2>3, <2>4, <3>1
  <2>5. CASE t.phase = "compensation"
    BY <2>3, <2>5 DEF PersistCompensation
  <2> QED
    BY <2>3, <2>4, <2>5 DEF Phases
<1>3. ~Resolves
  <2> SUFFICES ASSUME NEW r \in rq,
                      RecoverApplied(r) \/ RecoverNotApplied(r) \/ RecoverManually(r)
               PROVE  FALSE
    BY DEF Resolves
  <2>1. /\ r.phase = "forward" =>
              /\ step[r.step] \in {"running", "result_unknown"}
              /\ \E q : step' = [step EXCEPT ![r.step] = q]
        /\ r.phase = "compensation" => step' = step
        /\ r.phase \in Phases
    BY <1>0, RecoverCompletes
  <2> QED
    BY <1>0, <2>1 DEF Phases
<1>4. ~Compensates
  BY DEF Compensates, StartCompensation, CompensationSubmissionFails
<1>5. PICK u \in Steps : StartAttempt(u) \/ SubmissionFails(u)
  BY <1>0, <1>1, <1>2, <1>3, <1>4, RecordActions DEF Starts
<1>6. \E q : step' = [step EXCEPT ![u] = q]
  BY <1>5 DEF StartAttempt, SubmissionFails
<1> QED
  BY <1>0, <1>5, <1>6
\* The request that waits is for m, which waits with it.
LEMMA NextPending ==
    ASSUME RuntimeInv, TypeInv', BarrierInv, NEW m \in Steps, Protected = {m}, RunInv(m),
           [AnyNext]_vars, NEW i \in DOMAIN approvals', approvals'[i].status = "pending"
    PROVE  step'[m] = "ready"
<1>0. TypeInv
  BY DEF RuntimeInv
<1>1. CASE Establishes
  BY <1>1 DEF Establishes, EstablishApprovalBarrier, FirstProtected, Candidates
<1>2. CASE Decides
  BY <1>2 DEF Decides, Decide, RunInv
<1>3. CASE approvals' = approvals
  <2>1. step[m] = "ready" /\ run \in {"waiting_approval", "cancelled"}
    BY <1>3 DEF RunInv, BarrierInv, WaitingInv
  <2>2. CASE run = "waiting_approval"
    BY <2>1, <2>2, WaitingStands
  <2>3. CASE run = "cancelled"
    <3>1. ~StartAttempt(m) /\ ~SubmissionFails(m)
      BY <2>3 DEF StartAttempt, SubmissionFails, ForwardRunStates
    <3> QED
      BY <2>1, <3>1, WaitingStep
  <2> QED
    BY <2>1, <2>2, <2>3
<1> QED
  BY <1>1, <1>2, <1>3, ApprovalActions

\* A step that was started was approved.
LEMMA NextGranted ==
    ASSUME RuntimeInv, TypeInv', BarrierInv, BatchInv, NEW m \in Steps, Protected = {m},
           RunInv(m), [AnyNext]_vars, step'[m] \notin {"pending", "ready"}
    PROVE  Granted'
<1>0. TypeInv
  BY DEF RuntimeInv
<1>1. CASE step[m] \notin {"pending", "ready"}
  BY <1>0, <1>1, ApprovalsMove DEF RunInv
<1>2. CASE step[m] \in {"pending", "ready"}
  <2>1. StartAttempt(m) \/ SubmissionFails(m)
    BY <1>2, WaitingStep
  <2>2. pc = "start" /\ m \in batch \cap Protected
    BY <2>1 DEF StartAttempt, SubmissionFails, FirstOfBatch
  <2>3. PICK i \in DOMAIN approvals :
           approvals[i] = [step |-> m, binding |-> binding, status |-> "approved"]
    BY <2>2 DEF BatchInv
  <2>4. Granted
    <3>1. approvals[i].status = "approved"
      BY <2>3
    <3> QED
      BY <3>1 DEF Granted
  <2> QED
    BY <1>0, <2>4, ApprovalsMove
<1> QED
  BY <1>1, <1>2

\* A run is compensated by compensating.
LEMMA CompensatedBefore ==
    ASSUME TypeInv, [AnyNext]_vars, run' = "compensated"
    PROVE  run \in {"compensating", "compensated"}
<1>0. run \in RunStates
  BY DEF TypeInv, LooseTypeOK
<1>1. CASE UNCHANGED database
  BY <1>1 DEF database
<1>2. CASE Persists
  <2>1. PICK t \in threads : \E out : PersistOutcome(t, out)
    BY <1>2 DEF Persists, Collect, Expire, CloseOutcome
  <2>2. PICK out : PersistOutcome(t, out)
    BY <2>1
  <2>3. CASE PersistForward(t.step, t.no, out)
    <3>1. \E q, at : run' = RunAfterForward(run, t.step, q, at)
      BY <2>3 DEF PersistForward
    <3> QED
      BY <3>1 DEF RunAfterForward
  <2>4. CASE PersistCompensation(t.step, t.no, out)
    BY <1>0, <2>4 DEF PersistCompensation, RunCan, RunTransitions, RunStates
  <2> QED
    BY <2>2, <2>3, <2>4 DEF PersistOutcome
<1>3. CASE Starts
  BY <1>3 DEF Starts, StartAttempt, SubmissionFails, RunAfterForward
<1>4. CASE Establishes \/ Compensates \/ Promotes \/ Decides \/ CancelRun
  BY <1>4 DEF Establishes, EstablishApprovalBarrier, Compensates, StartCompensation,
     CompensationSubmissionFails, Promotes, PromoteDependencyReadySteps, PromoteDueRetries,
     Decides, Decide, RejectionTarget, CancelRun
<1>5. CASE Resolves
  BY <1>5 DEF Resolves, RecoverApplied, RecoverNotApplied, RecoverManually, RunAfterApplied
<1> QED
  BY <1>1, <1>2, <1>3, <1>4, <1>5, DatabaseActions

\* A run succeeds with its last step.
LEMMA SucceedsAtLast ==
    ASSUME TypeInv, [AnyNext]_vars, run # "succeeded", run' = "succeeded"
    PROVE  \A u \in Steps : step'[u] = "succeeded"
<1>0. step \in [Steps -> StepStates]
  BY DEF TypeInv, LooseTypeOK
<1>1. CASE UNCHANGED database
  BY <1>1 DEF database
<1>2. ASSUME NEW s, NEW q, NEW r, step' = [step EXCEPT ![s] = q], r # "succeeded",
             run' = RunAfterForward(r, s, q, attempts')
      PROVE  q = "succeeded" /\ \A u \in Steps : step'[u] = "succeeded"
  <2>1. q = "succeeded" /\ \A u \in Steps \ {s} : step[u] = "succeeded"
    BY <1>2 DEF RunAfterForward
  <2> QED
    BY <1>0, <1>2, <2>1
<1>3. CASE Persists
  <2>1. PICK t \in threads : \E out : PersistOutcome(t, out)
    BY <1>3 DEF Persists, Collect, Expire, CloseOutcome
  <2>2. PICK out : PersistOutcome(t, out)
    BY <2>1
  <2>3. CASE PersistForward(t.step, t.no, out)
    <3>1. \E q : /\ step' = [step EXCEPT ![t.step] = q]
                 /\ run' = RunAfterForward(run, t.step, q, attempts')
      BY <2>3 DEF PersistForward
    <3> QED
      BY <1>2, <3>1
  <2>4. CASE PersistCompensation(t.step, t.no, out)
    BY <2>4 DEF PersistCompensation
  <2> QED
    BY <2>2, <2>3, <2>4 DEF PersistOutcome
<1>4. CASE Starts
  <2>1. PICK s \in Steps : StartAttempt(s) \/ SubmissionFails(s)
    BY <1>4 DEF Starts
  <2>2. CASE StartAttempt(s)
    BY <2>2 DEF StartAttempt
  <2>3. CASE SubmissionFails(s)
    <3>1. \E q : /\ step' = [step EXCEPT ![s] = q]
                 /\ run' = RunAfterForward("running", s, q, attempts')
      BY <2>3 DEF SubmissionFails
    <3> QED
      BY <1>2, <3>1
  <2> QED
    BY <2>1, <2>2, <2>3
<1>5. CASE Establishes \/ Compensates \/ Promotes \/ Decides \/ CancelRun
  BY <1>5 DEF Establishes, EstablishApprovalBarrier, Compensates, StartCompensation,
     CompensationSubmissionFails, Promotes, PromoteDependencyReadySteps, PromoteDueRetries,
     Decides, Decide, RejectionTarget, CancelRun
<1>6. CASE Resolves
  BY <1>6 DEF Resolves, RecoverApplied, RecoverNotApplied, RecoverManually, RunAfterApplied
<1> QED
  BY <1>1, <1>3, <1>4, <1>5, <1>6, DatabaseActions

LEMMA NextRun ==
    ASSUME RuntimeInv, RuntimeInv', BarrierInv, BatchInv, CompensationHasWork',
           NEW m \in Steps, NEW d \in Steps, Protected = {m}, Compensable = {m, d},
           m \in DependsOn[d], RunInv(m), [AnyNext]_vars
    PROVE  RunInv(m)'
<1>0. TypeInv /\ TypeInv' /\ DependencyOrder' /\ Orderly
  BY NextIsOrderly DEF RuntimeInv, DependencyInv
<1>1. (\E i \in DOMAIN approvals' : approvals'[i].status = "pending") => step'[m] = "ready"
  BY <1>0, NextPending
<1>2. step'[m] \notin {"pending", "ready"} => Granted'
  BY <1>0, NextGranted
<1>3. run' = "compensating" => step'[m] = "succeeded"
  <2> SUFFICES ASSUME run' = "compensating" PROVE step'[m] = "succeeded"
    OBVIOUS
  <2>1. PICK s \in {m, d} : step'[s] = "succeeded"
    BY DEF CompensationHasWork, PendingCompensations, CompensableEffects
  <2> QED
    BY <1>0, <2>1 DEF DependencyOrder, DependenciesMet
<1>4. run' = "compensated" => step'[m] = "succeeded"
  BY <1>0, CompensatedBefore DEF RunInv, Orderly
<1>5. run' = "succeeded" => \A s \in Steps : step'[s] = "succeeded"
  BY <1>0, SucceedsAtLast DEF RunInv, Orderly
<1> QED
  BY <1>1, <1>2, <1>3, <1>4, <1>5 DEF RunInv

LEMMA RunInvAlways ==
    ASSUME NEW pos \in Positions, NEW m \in Steps, NEW d \in Steps, IsUpgrade(pos, m, d)
    PROVE  AnySpec => []RunInv(m)
<1>1. Init => RunInv(m)
  BY DEF Init, RunInv
<1>2. Chained /\ Protected = {m} /\ Compensable = {m, d} /\ m \in DependsOn[d]
  BY UpgradeFacts
<1>3. /\ RuntimeInv /\ RuntimeInv' /\ BarrierInv /\ BatchInv /\ CompensationHasWork'
      /\ RunInv(m) /\ [AnyNext]_vars
      => RunInv(m)'
  BY <1>2, NextRun
<1> QED
  BY <1>1, <1>2, <1>3, ChainedIsAlone, RuntimeInvAlways, BarrierInvAlways, BatchInvAlways,
     HasWorkAlways, PTL DEF AnySpec
-----------------------------------------------------------------------------
(* How an upgrade ends.                                                    *)

(***************************************************************************)
(* A compensated upgrade left service, schema and tables as they were: the *)
(* migration is on record, so it was rolled back, and a rollback is in the *)
(* ledger only once the baseline is restored.                              *)
(***************************************************************************)
THEOREM CompensationRestores ==
    ASSUME Upgrade, LateEffects = FALSE
    PROVE  UpgradeSpec => []CompensatedRestoresBaseline
<1>1. PICK pos \in Positions : \E m, d \in Steps : IsUpgrade(pos, m, d)
  BY DEF Upgrade
<1>2. PICK m \in Steps, d \in Steps : IsUpgrade(pos, m, d)
  BY <1>1
<1>3. UpgradeSpec => []UpgradeInv(m, d)
  BY <1>2, UpgradeInvAlways
<1>4. AnySpec => []RunInv(m)
  BY <1>2, RunInvAlways
<1>5. Chained /\ Compensable = {m, d}
  BY <1>2, UpgradeFacts
<1>6. ASSUME UpgradeInv(m, d), RunInv(m), EndInv
      PROVE  CompensatedRestoresBaseline
  <2> SUFFICES ASSUME run = "compensated"
               PROVE  service = "v1" /\ schema = "v1" /\ layout = "plain"
    BY DEF CompensatedRestoresBaseline
  <2>1. step[m] = "succeeded" /\ Reported(m)
    BY <1>6 DEF RunInv, UpgradeInv, LedgerInv
  <2>2. Compensated(attempts["compensation"], m)
    BY <1>5, <1>6, <2>1 DEF EndInv, PendingCompensations, CompensableEffects, Reported
  <2> QED
    BY <1>6, <2>2 DEF UpgradeInv, LedgerInv, WorldInv
<1> QED
  BY <1>3, <1>4, <1>5, <1>6, UpgradeIsAny, EndInvAlways, PTL

(***************************************************************************)
(* A succeeded upgrade runs service v2 on schema v2, with both effects in  *)
(* the ledgers, also when recovery established one of them.                *)
(***************************************************************************)
THEOREM SuccessUpgrades ==
    ASSUME Upgrade, LateEffects = FALSE
    PROVE  UpgradeSpec => []SucceededIsUpgraded
<1>1. PICK pos \in Positions : \E m, d \in Steps : IsUpgrade(pos, m, d)
  BY DEF Upgrade
<1>2. PICK m \in Steps, d \in Steps : IsUpgrade(pos, m, d)
  BY <1>1
<1>3. UpgradeSpec => []UpgradeInv(m, d)
  BY <1>2, UpgradeInvAlways
<1>4. AnySpec => []RunInv(m)
  BY <1>2, RunInvAlways
<1>5. Chained /\ Compensable = {m, d}
  BY <1>2, UpgradeFacts
<1>6. ASSUME UpgradeInv(m, d), RunInv(m), RuntimeInv
      PROVE  SucceededIsUpgraded
  <2> SUFFICES ASSUME run = "succeeded"
               PROVE  /\ service = "v2" /\ schema = "v2" /\ layout = "wide"
                      /\ \A s \in Compensable : effects["forward"][s] > 0
    BY DEF SucceededIsUpgraded
  <2>1. effects["forward"][m] > 0 /\ effects["forward"][d] > 0
    BY <1>6 DEF RunInv, UpgradeInv, LedgerInv
  <2>2. \A s \in Steps : DOMAIN attempts["compensation"][s] = {}
    BY <1>6 DEF RuntimeInv, AttemptInv, CompensationInv
  <2> QED
    BY <1>5, <1>6, <2>1, <2>2 DEF UpgradeInv, WorldInv
<1> QED
  BY <1>3, <1>4, <1>5, <1>6, UpgradeIsAny, ChainedIsAlone, RuntimeInvAlways, PTL

\* An upgrade that waits for its approval has done nothing to undo.
LEMMA RejectionCancels ==
    ASSUME RuntimeInv, BarrierInv, NEW pos \in Positions, NEW m \in Steps, NEW d \in Steps,
           IsUpgrade(pos, m, d), LedgerInv(m, d), RunInv(m),
           NEW i \in DOMAIN approvals, Decide(i, "rejected")
    PROVE  run' = "cancelled"
<1>1. run = "waiting_approval" /\ approvals[i].status = "pending" /\ run' = RejectionTarget
  BY DEF Decide
<1>2. \A s \in Steps : DOMAIN attempts["compensation"][s] = {}
  BY <1>1 DEF RuntimeInv, AttemptInv, CompensationInv
<1>3. step[m] = "ready" /\ step[d] # "succeeded"
  <2>1. step[m] = "ready" /\ m \in DependsOn[d]
    BY <1>1, UpgradeFacts DEF RunInv
  <2> QED
    BY <2>1 DEF RuntimeInv, DependencyInv, DependencyOrder, DependenciesMet
<1>4. ASSUME NEW s \in Steps, step[s] = "succeeded", NEW r \in Refs(s),
             attempts[r.phase][s][r.no].effect
      PROVE  FALSE
  <2>1. r.phase \in Phases /\ r.no \in DOMAIN attempts[r.phase][s]
    BY <1>4 DEF Refs
  <2>2. s \notin {m, d} /\ r.phase = "forward"
    BY <1>2, <1>3, <1>4, <2>1 DEF Phases
  <2> QED
    BY <1>4, <2>1, <2>2 DEF LedgerInv
<1>5. {s \in Steps : /\ step[s] = "succeeded"
                     /\ \E r \in Refs(s) : /\ StatusOf(r) = "success"
                                           /\ attempts[r.phase][s][r.no].effect} = {}
  BY <1>4
<1>6. RejectionTarget = "cancelled"
  BY <1>5 DEF RejectionTarget
<1> QED
  BY <1>1, <1>6

(***************************************************************************)
(* A rejected upgrade is cancelled, as OperationsService.decide_approval   *)
(* expects, whatever was approved, invalidated and asked for again before. *)
(***************************************************************************)
THEOREM RejectionIsFinal ==
    ASSUME Upgrade, LateEffects = FALSE
    PROVE  UpgradeSpec => []RejectedIsCancelled
<1>1. PICK pos \in Positions : \E m, d \in Steps : IsUpgrade(pos, m, d)
  BY DEF Upgrade
<1>2. PICK m \in Steps, d \in Steps : IsUpgrade(pos, m, d)
  BY <1>1
<1>3. UpgradeSpec => []UpgradeInv(m, d)
  BY <1>2, UpgradeInvAlways
<1>4. AnySpec => []RunInv(m)
  BY <1>2, RunInvAlways
<1>5. Chained
  BY <1>2, UpgradeFacts
<1>6. UpgradeInit => RejectedIsCancelled
  BY DEF UpgradeInit, Init, RejectedIsCancelled
<1>7. ASSUME UpgradeInv(m, d), RunInv(m), RuntimeInv, BarrierInv, RejectedIsCancelled,
             [AnyNext]_vars
      PROVE  RejectedIsCancelled'
  <2> SUFFICES ASSUME \E i \in DOMAIN approvals' : approvals'[i].status = "rejected"
               PROVE  run' = "cancelled"
    BY DEF RejectedIsCancelled
  <2>1. TypeInv /\ LedgerInv(m, d)
    BY <1>7 DEF RuntimeInv, UpgradeInv
  <2>2. CASE \E i \in DOMAIN approvals : approvals[i].status = "rejected"
    BY <1>7, <2>1, <2>2, NextStaysOver DEF RejectedIsCancelled, RunStaysOver, TerminalRunStates
  <2>3. CASE \E i \in DOMAIN approvals : Decide(i, "rejected")
    BY <1>2, <1>7, <2>1, <2>3, RejectionCancels
  <2> QED
    BY <1>7, <2>1, <2>2, <2>3, ApprovalsMove
<1> QED
  BY <1>3, <1>4, <1>5, <1>6, <1>7, UpgradeIsAny, ChainedIsAlone, RuntimeInvAlways,
     BarrierInvAlways, PTL DEF UpgradeSpec, AnySpec
-----------------------------------------------------------------------------
(* What an operator is shown.                                              *)

\* The steps behind the stages, where m has not succeeded or has.
LEMMA StageSteps ==
    ASSUME TypeInv, ChainInv, NEW pos \in Positions, NEW m \in Steps, NEW d \in Steps,
           IsUpgrade(pos, m, d)
    PROVE  /\ EffectStates = {step[m], step[d]}
           /\ step[m] # "pending" => StatesOf({"precheck"}) = {"succeeded"}
           /\ step[d] # "pending" => step[m] = "succeeded"
           /\ VerificationStates \subseteq {"pending"}
                 \/ (step[m] = "succeeded" /\ step[d] = "succeeded")
<1>1. pos \in [Steps -> Nat] /\ IsChain(pos)
  BY FS_CardinalityType, StepsAssumption DEF Positions, IsUpgrade, IsChain
<1>2. /\ pos[d] = pos[m] + 1 /\ pos[m] > 0
      /\ Tool["forward"][m] = "migrate" /\ Tool["forward"][d] = "deploy"
      /\ \A s \in Steps \ {m, d} :
            \/ pos[s] < pos[m] /\ Tool["forward"][s] = "precheck"
            \/ pos[s] > pos[d] /\ Tool["forward"][s] = "validate"
  <2>1. \A s \in Steps : pos[s] = pos[m] => s = m
    BY DEF IsUpgrade
  <2>2. \A s \in Steps : pos[s] = pos[d] => s = d
    BY DEF IsUpgrade
  <2>3. /\ pos[d] = pos[m] + 1 /\ pos[m] > 0
        /\ Tool["forward"][m] = "migrate" /\ Tool["forward"][d] = "deploy"
        /\ \A s \in Steps :
              /\ pos[s] < pos[m] => Tool["forward"][s] = "precheck"
              /\ pos[s] > pos[d] => Tool["forward"][s] = "validate"
    BY DEF IsUpgrade
  <2> QED
    BY <1>1, <2>1, <2>2, <2>3
<1>3. \A u, v \in Steps : step[u] # "pending" /\ pos[v] < pos[u] => step[v] = "succeeded"
  BY <1>1 DEF ChainInv
<1>4. EffectStates = {step[m], step[d]}
  <2>1. {u \in Steps : Tool["forward"][u] \in {"migrate", "deploy"}} = {m, d}
    BY <1>2
  <2> QED
    BY <2>1 DEF EffectStates, StatesOf
<1>5. step[d] # "pending" => step[m] = "succeeded"
  BY <1>1, <1>2, <1>3
<1>6. ASSUME step[m] # "pending"
      PROVE  StatesOf({"precheck"}) = {"succeeded"}
  <2>1. PICK v \in DependsOn[m] : pos[v] = pos[m] - 1
    BY <1>2 DEF IsUpgrade
  <2>2. v \in Steps /\ pos[v] < pos[m] /\ Tool["forward"][v] = "precheck"
    BY <1>1, <1>2, <2>1, DependsOnAssumption
  <2>3. \A s \in Steps : Tool["forward"][s] = "precheck" => step[s] = "succeeded"
    BY <1>2, <1>3, <1>6
  <2> QED
    BY <2>2, <2>3 DEF StatesOf
<1>7. \/ VerificationStates \subseteq {"pending"}
      \/ step[m] = "succeeded" /\ step[d] = "succeeded"
  <2> SUFFICES ASSUME NEW v \in Steps, Tool["forward"][v] = "validate", step[v] # "pending"
               PROVE  step[m] = "succeeded" /\ step[d] = "succeeded"
    BY DEF VerificationStates, StatesOf
  <2>1. pos[v] > pos[d]
    BY <1>2
  <2>2. pos[m] < pos[v] /\ pos[d] < pos[v]
    BY <1>1, <1>2, <2>1
  <2> QED
    BY <1>3, <2>2
<1> QED
  BY <1>4, <1>5, <1>6, <1>7

\* The guidance of a run that has not succeeded.
LEMMA StagesInOrder ==
    ASSUME TypeInv, ChainInv, NEW pos \in Positions, NEW m \in Steps, NEW d \in Steps,
           IsUpgrade(pos, m, d), RunInv(m)
    PROVE  /\ ApprovalStage \in {"pending", "current"} =>
                 ExecutionStage = "pending" /\ VerificationStage = "pending"
           /\ ExecutionStage \in {"pending", "current"} => VerificationStage = "pending"
           /\ ApprovalStage # "pending" => PrecheckStage = "complete" \/ run \in TerminalRunStates
           /\ ApprovalStage = "complete" => Granted
<1>0. /\ EffectStates = {step[m], step[d]}
      /\ step[m] # "pending" => StatesOf({"precheck"}) = {"succeeded"}
      /\ step[d] # "pending" => step[m] = "succeeded"
      /\ VerificationStates \subseteq {"pending"}
            \/ (step[m] = "succeeded" /\ step[d] = "succeeded")
  BY StageSteps
<1>1. PostApprovalStarted => step[m] \notin {"pending", "ready"}
  BY <1>0 DEF PostApprovalStarted
<1>2. ApprovalStage = "complete" => PostApprovalStarted
  BY DEF ApprovalStage
<1>3. ApprovalStage = "current" => step[m] = "ready"
  BY DEF ApprovalStage, RunInv
<1>4. ApprovalStage \in {"pending", "current", "complete"} \/ run = "cancelled"
  BY DEF ApprovalStage
<1>5. ApprovalStage \in {"pending", "current"} =>
         (EffectStates \cup VerificationStates) \subseteq {"pending", "ready"}
  <2>1. CASE ApprovalStage = "current"
    BY <1>0, <1>3, <2>1
  <2>2. CASE ApprovalStage = "pending"
    <3>1. ~PostApprovalStarted
      BY <2>2 DEF ApprovalStage
    <3> QED
      BY <3>1 DEF PostApprovalStarted
  <2> QED
    BY <2>1, <2>2
<1>6. ASSUME ApprovalStage \in {"pending", "current"}
      PROVE  ExecutionStage = "pending"
  <2>1. EffectStates \cap FailureStates = {} /\ EffectStates # {"succeeded"}
    BY <1>0, <1>5, <1>6 DEF FailureStates
  <2> QED
    BY <1>6, <2>1 DEF ExecutionStage
<1>7. ASSUME ExecutionStage \in {"pending", "current"}
      PROVE  VerificationStage = "pending"
  <2>1. ~(step[m] = "succeeded" /\ step[d] = "succeeded")
    <3>1. EffectStates # {"succeeded"}
      BY <1>7 DEF ExecutionStage, FailureStates
    <3> QED
      BY <1>0, <3>1
  <2>2. VerificationStates \subseteq {"pending"}
    BY <1>0, <2>1
  <2>3. VerificationStates # {"succeeded"} /\ VerificationStates \cap FailureStates = {}
    BY <2>2 DEF FailureStates
  <2> QED
    BY <1>7, <2>3 DEF VerificationStage
<1>8. ASSUME ApprovalStage # "pending"
      PROVE  PrecheckStage = "complete" \/ run \in TerminalRunStates
  <2>1. CASE run = "cancelled"
    BY <2>1 DEF TerminalRunStates
  <2>2. CASE run # "cancelled"
    <3>1. step[m] # "pending"
      BY <1>1, <1>2, <1>3, <1>4, <1>8, <2>2
    <3>2. StatesOf({"precheck"}) = {"succeeded"}
      BY <1>0, <3>1
    <3> QED
      BY <3>2 DEF PrecheckStage, FailureStates
  <2> QED
    BY <2>1, <2>2
<1>9. ApprovalStage = "complete" => Granted
  BY <1>1, <1>2 DEF RunInv
<1> QED
  BY <1>6, <1>7, <1>8, <1>9

(***************************************************************************)
(* get_guidance never shows progress that was not made, although it is     *)
(* derived from the states of the steps alone.                             *)
(***************************************************************************)
THEOREM GuidanceIsTrue ==
    ASSUME Upgrade
    PROVE  UpgradeSpec => []StagesAreTrue
<1>1. PICK pos \in Positions : \E m, d \in Steps : IsUpgrade(pos, m, d)
  BY DEF Upgrade
<1>2. PICK m \in Steps, d \in Steps : IsUpgrade(pos, m, d)
  BY <1>1
<1>3. AnySpec => []RunInv(m)
  BY <1>2, RunInvAlways
<1>4. Chained
  BY <1>2, UpgradeFacts
<1>5. ASSUME RunInv(m), RuntimeInv
      PROVE  StagesAreTrue
  <2>1. TypeInv /\ ChainInv
    BY <1>5 DEF RuntimeInv, AttemptInv
  <2>2. CASE run = "succeeded"
    <3>1. \A i \in 1..5 : Stages[i] = "complete"
      BY <2>2 DEF Stages
    <3>2. Granted
      BY <1>5, <2>2 DEF RunInv
    <3> QED
      BY <3>1, <3>2 DEF StagesAreTrue, Granted
  <2>3. CASE run # "succeeded"
    <3>1. /\ Stages[1] = PrecheckStage /\ Stages[2] = ApprovalStage
          /\ Stages[3] = ExecutionStage /\ Stages[4] = VerificationStage
      BY <2>3 DEF Stages
    <3>2. /\ Stages[2] \in {"pending", "current"} => Stages[3] = "pending" /\ Stages[4] = "pending"
          /\ Stages[3] \in {"pending", "current"} => Stages[4] = "pending"
          /\ Stages[2] # "pending" => Stages[1] = "complete" \/ run \in TerminalRunStates
          /\ Stages[2] = "complete" => Granted
      BY <1>2, <1>5, <2>1, <3>1, StagesInOrder
    <3>3. \A i, j \in 2..4 : i < j => \/ i = 2 /\ j = 3
                                      \/ i = 2 /\ j = 4
                                      \/ i = 3 /\ j = 4
      OBVIOUS
    <3> QED
      BY <3>2, <3>3 DEF StagesAreTrue, Granted
  <2> QED
    BY <2>2, <2>3
<1> QED
  BY <1>3, <1>4, <1>5, UpgradeIsAny, ChainedIsAlone, RuntimeInvAlways, PTL
-----------------------------------------------------------------------------
(* What the runtime promises of every workflow.                            *)

(***************************************************************************)
(* The upgrade implements the contract the operations service relies on,   *)
(* with the sandbox's tools in the place of the tools of WorkflowRuntime.  *)
(***************************************************************************)
THEOREM UpgradeKeepsContract ==
    ASSUME Upgrade
    PROVE  UpgradeSpec => KeepsContract
<1>1. Chained
  BY UpgradeFacts DEF Upgrade
<1> QED
  BY <1>1, UpgradeIsAny, AnyKeepsContract, PTL

(***************************************************************************)
(* The migration starts only under an approval of exactly what is          *)
(* executed, with nothing else in flight, on the sandbox's tools too.      *)
(***************************************************************************)
THEOREM UpgradeStartsApproved == UpgradeSpec => ProtectedStartsApproved
<1>1. TypeInv /\ TypeInv' /\ BatchInv /\ [AnyNext]_vars => [ProtectedStart]_vars
  BY StartsUnderApproval
<1> QED
  BY <1>1, UpgradeIsAny, TypeInvAlways, BatchInvAlways, PTL DEF AnySpec, ProtectedStartsApproved
==============================================================================
