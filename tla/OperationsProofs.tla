-------------------------- MODULE OperationsProofs --------------------------
(***************************************************************************)
(* What the operations service promises of its requests and their runs,    *)
(* for every set of requests, every limit of the driving loops and every   *)
(* number of faults.                                                       *)
(*                                                                         *)
(* The three invariants hold together: a plan_ready request has a driven   *)
(* run because submit_request waited for it, and only such a request can   *)
(* be decided, so only a known run is ever approved.                       *)
(***************************************************************************)
EXTENDS Operations, TLAPS

\* A run that submit_request has driven to its approval or to its end.
Driven(a) ==
    a.granted \/ a.state \in TerminalRunStates \cup {"waiting_approval", "compensating"}

Places == {"plan", "drive", "start", "check", "conflict", "close"}

Operation == [kind   : {"submit", "decide", "recover", "close"},
              req    : Requests,
              at     : Places,
              want   : SUBSET Goals,
              cycles : 0..Limit,
              seen   : Views]

\* What submit_request waits for.
SubmitGoal == TerminalRunStates \cup {"waiting_approval"}

-----------------------------------------------------------------------------
(* The inductive invariant.                                                *)

\* OpsTypeOK without what it says of an operation.
StoreType ==
    /\ scenario \in [Usable -> Scenarios]
    /\ DOMAIN manifest \subseteq Requests
    /\ DOMAIN requests \subseteq Requests
    /\ DOMAIN runs \subseteq Requests
    /\ \A r \in DOMAIN manifest : manifest[r] \in Statuses
    /\ \A r \in DOMAIN requests : requests[r] \in Statuses
    /\ unsaved \subseteq Requests
    /\ faults \in 0..MaxFaults

RunsType ==
    /\ \A r \in DOMAIN runs : runs[r] \in Views
    /\ DOMAIN runtimes \subseteq DOMAIN runs
    /\ \A r \in DOMAIN runtimes : runtimes[r] \in BOOLEAN

\* Memory and manifest differ only in what a failed write left unsaved.
StoreInv ==
    /\ DOMAIN manifest \subseteq DOMAIN requests
    /\ DOMAIN requests \subseteq DOMAIN manifest \cup unsaved

\* A request called plan_ready, in memory or in the manifest, has a driven run.
DrivenInv ==
    /\ \A r \in DOMAIN manifest : manifest[r] = "plan_ready" =>
          r \in DOMAIN runs /\ Driven(runs[r])
    /\ \A r \in DOMAIN requests : requests[r] = "plan_ready" =>
          r \in DOMAIN runs /\ Driven(runs[r])

\* An approved run has a request, in the manifest or one that was not saved.
GrantedInv ==
    \A r \in DOMAIN runs : runs[r].granted => r \in DOMAIN manifest \cup unsaved

\* How far each kind of operation may be, and what it knows of its run.
OpInv ==
    \/ op = NoOp
    \/ /\ op \in Operation
       /\ op.kind = "submit" => op.at \in {"plan", "drive", "close"}
       /\ op.kind = "decide" => op.at \in {"start", "check", "drive", "close", "conflict"}
       /\ op.kind = "recover" => op.at \in {"start", "drive", "close", "conflict"}
       /\ op.kind = "close" => op.at = "close"
       /\ op.at = "plan" => Fresh(op.req)
       /\ op.at # "plan" => op.req \in DOMAIN runs
       /\ (op.kind = "submit" /\ op.at = "drive") => op.want = SubmitGoal
       /\ op.kind \in {"decide", "recover"} => Known(op.req)
       /\ (op.kind = "recover" /\ op.at = "conflict") => runs[op.req] = op.seen

OpsInv == StoreType /\ RunsType /\ StoreInv /\ DrivenInv /\ GrantedInv /\ OpInv

-----------------------------------------------------------------------------
(* What the coordinator, an operator and recovery may make of a run.       *)

\* No command takes a run back to where submit_request had not driven it.
LEMMA DrivenStays ==
    ASSUME NEW a \in Views, NEW b \in Views, Driven(a),
           Coordinated(a, b) \/ Reports(a, b) \/ Decided(a, b) \/ Recovered(a, b)
    PROVE  Driven(b)
<1> USE DEF Driven, Views, TerminalRunStates, RunStates
<1>1. ASSUME NEW c \in Views, Driven(c), Reports(c, b) PROVE Driven(b)
      BY <1>1 DEF Reports, Outcome
<1>2. CASE Reports(a, b)
      BY <1>1, <1>2
<1>3. ASSUME MayDispatch(a) PROVE Dispatched(a) \in Views /\ Driven(Dispatched(a))
      BY <1>3 DEF MayDispatch, Dispatched, ForwardRunStates
<1>4. CASE Dispatches(a, b)
      BY <1>3, <1>4 DEF Dispatches
<1>5. CASE Refused(a, b)
      BY <1>1, <1>3, <1>5 DEF Refused
<1>6. CASE AsksApproval(a, b)
      BY <1>6 DEF AsksApproval
<1>7. CASE Decided(a, b)
      BY <1>7 DEF Decided
<1>8. CASE Recovered(a, b)
      BY <1>8 DEF Recovered
<1> QED BY <1>2, <1>4, <1>5, <1>6, <1>7, <1>8 DEF Coordinated

\* Only a decision of an operator puts an approval in force.
LEMMA OnlyDecisionsGrant ==
    ASSUME NEW a \in Views, NEW b \in Views,
           Coordinated(a, b) \/ Reports(a, b) \/ Recovered(a, b),
           b.granted
    PROVE  a.granted
<1>1. CASE Reports(a, b) \/ Recovered(a, b)
      BY <1>1 DEF Reports, Recovered
<1>2. Dispatched(a).granted = a.granted
      BY DEF Dispatched, Views
<1>3. CASE Dispatches(a, b) \/ Refused(a, b)
      BY <1>2, <1>3 DEF Dispatches, Refused, Reports
<1>4. CASE AsksApproval(a, b)
      BY <1>4 DEF AsksApproval, Views
<1> QED BY <1>1, <1>3, <1>4 DEF Coordinated

LEMMA CreatedType == Created \in Views
BY DEF Created, Views, RunStates

-----------------------------------------------------------------------------
(* What a step may do to the requests and their runs.                      *)

\* Everything in the invariant but the operation and the runtimes.
StoredInv == StoreType /\ StoreInv /\ DrivenInv /\ GrantedInv

LEMMA FaultType ==
    ASSUME StoreType, Fault
    PROVE  faults' \in 0..MaxFaults
BY OperationsAssumption DEF StoreType, Fault

\* A step that leaves requests and runs alone.
LEMMA CalmStep ==
    ASSUME StoredInv, UNCHANGED <<scenario, manifest, requests, runs, unsaved>>,
           UNCHANGED faults \/ Fault
    PROVE  StoredInv'
<1>1. faults' \in 0..MaxFaults
      BY FaultType DEF StoredInv, StoreType
<1> QED BY <1>1 DEF StoredInv, StoreType, StoreInv, DrivenInv, GrantedInv

\* A step that writes one request, driven if it is plan_ready.
LEMMA StoreStep ==
    ASSUME StoredInv, NEW r \in Requests, NEW status \in Statuses,
           Store(r, status), UNCHANGED <<scenario, runs>>,
           status = "plan_ready" => r \in DOMAIN runs /\ Driven(runs[r])
    PROVE  StoredInv'
<1>1. /\ DOMAIN requests' = DOMAIN requests \cup {r}
      /\ \A q \in DOMAIN requests' :
            requests'[q] = IF q = r THEN status ELSE requests[q]
      BY DEF Store, With
<1>2. /\ DOMAIN requests' \subseteq Requests
      /\ \A q \in DOMAIN requests' : requests'[q] \in Statuses
      /\ \A q \in DOMAIN requests' : requests'[q] = "plan_ready" =>
             q \in DOMAIN runs' /\ Driven(runs'[q])
      BY <1>1 DEF StoredInv, StoreType, DrivenInv
<1>3. CASE manifest' = requests' /\ unsaved' = unsaved \ DOMAIN requests' /\ UNCHANGED faults
  <2>1. StoreType'
        BY <1>2, <1>3 DEF StoredInv, StoreType
  <2>2. StoreInv' /\ DrivenInv'
        BY <1>2, <1>3 DEF StoreInv, DrivenInv
  <2>3. GrantedInv'
        BY <1>1, <1>3 DEF StoredInv, GrantedInv, StoreInv
  <2> QED BY <2>1, <2>2, <2>3 DEF StoredInv
<1>4. CASE Fault /\ unsaved' = unsaved \cup {r} /\ UNCHANGED manifest
  <2>1. StoreType'
        BY <1>2, <1>4, FaultType DEF StoredInv, StoreType
  <2>2. StoreInv' /\ DrivenInv'
        BY <1>1, <1>2, <1>4 DEF StoredInv, StoreInv, DrivenInv
  <2>3. GrantedInv'
        BY <1>4 DEF StoredInv, GrantedInv
  <2> QED BY <2>1, <2>2, <2>3 DEF StoredInv
<1> QED BY <1>3, <1>4 DEF Store

\* A step in which the run of the operation changes, and that grants an
\* approval only to a run with a request.
LEMMA RunStep ==
    ASSUME StoredInv, RunsType, NEW r \in DOMAIN runs, NEW b \in Views,
           runs' = [runs EXCEPT ![r] = b],
           UNCHANGED <<scenario, manifest, requests, unsaved>>,
           UNCHANGED faults \/ Fault,
           Driven(runs[r]) => Driven(b),
           b.granted => runs[r].granted \/ r \in DOMAIN requests
    PROVE  /\ StoredInv'
           /\ DOMAIN runs' = DOMAIN runs
           /\ \A q \in DOMAIN runs' : runs'[q] \in Views
<1>1. /\ DOMAIN runs' = DOMAIN runs
      /\ \A q \in DOMAIN runs : runs'[q] = IF q = r THEN b ELSE runs[q]
      OBVIOUS
<1>2. faults' \in 0..MaxFaults
      BY FaultType DEF StoredInv, StoreType
<1>3. StoreType' /\ StoreInv'
      BY <1>1, <1>2 DEF StoredInv, StoreType, StoreInv
<1>4. DrivenInv'
      BY <1>1 DEF StoredInv, DrivenInv
<1>5. GrantedInv'
      BY <1>1 DEF StoredInv, GrantedInv, StoreInv
<1>6. \A q \in DOMAIN runs' : runs'[q] \in Views
      BY <1>1 DEF RunsType
<1> QED BY <1>1, <1>3, <1>4, <1>5, <1>6 DEF StoredInv

\* The runtimes after one of them was made or started, or closed.
LEMMA RuntimeStep ==
    ASSUME RunsType, DOMAIN runs \subseteq DOMAIN runs',
           \A q \in DOMAIN runs' : runs'[q] \in Views,
           NEW r \in DOMAIN runs, NEW on \in BOOLEAN,
           \/ UNCHANGED runtimes
           \/ runtimes' = With(runtimes, r, on)
           \/ runtimes' = Without(runtimes, r)
    PROVE  RunsType'
<1>1. CASE UNCHANGED runtimes
      BY <1>1 DEF RunsType
<1>2. CASE runtimes' = With(runtimes, r, on)
      BY <1>2 DEF RunsType, With
<1>3. CASE runtimes' = Without(runtimes, r)
      BY <1>3 DEF RunsType, Without
<1> QED BY <1>1, <1>2, <1>3

-----------------------------------------------------------------------------
(* The operation that holds the lock.                                      *)

LEMMA IdlePlace == NoOp.at = "idle" /\ NoOp.kind = "none"
BY DEF NoOp

\* An operation that is somewhere is a whole operation.
LEMMA AtWork ==
    ASSUME OpInv, op.at \in Places
    PROVE  op \in Operation /\ op # NoOp
BY IdlePlace DEF OpInv, Places

LEMMA BegunType ==
    ASSUME NEW kind \in {"submit", "decide", "recover", "close"}, NEW r \in Requests,
           NEW at \in Places, NEW want \in SUBSET Goals, NEW seen \in Views,
           Begin(kind, r, at, want, seen)
    PROVE  /\ op' \in Operation
           /\ op'.kind = kind /\ op'.req = r /\ op'.at = at
           /\ op'.want = want /\ op'.seen = seen
BY OperationsAssumption DEF Begin, Operation

\* An operation ends, whatever it did.
LEMMA Released ==
    ASSUME op' = NoOp
    PROVE  OpInv'
BY DEF OpInv

LEMMA KnownHasRun ==
    ASSUME StoredInv, NEW r, Known(r)
    PROVE  r \in DOMAIN runs /\ Driven(runs[r]) /\ r \in Requests
BY DEF Known, StoredInv, DrivenInv, StoreType

LEMMA RuntimeForStep ==
    ASSUME RunsType, NEW r \in DOMAIN runs, RuntimeFor(r), UNCHANGED runs
    PROVE  RunsType'
<1>1. runtimes' = runtimes \/ runtimes' = With(runtimes, r, FALSE)
      BY DEF RuntimeFor
<1> QED BY <1>1, RuntimeStep DEF RunsType

-----------------------------------------------------------------------------
(* Every step keeps the invariant.                                         *)

\* The steps that take the lock, and the ones that need it for a moment.
LEMMA IdleSteps ==
    ASSUME OpsInv, NEW r \in Requests,
           \/ SubmitUnusable(r) \/ BeginSubmit(r) \/ BeginDecide(r)
           \/ BeginRecover(r) \/ Read(r) \/ BeginClose(r)
    PROVE  OpsInv'
<1> StoredInv /\ RunsType
    BY DEF OpsInv, StoredInv
<1> USE OperationsAssumption
<1>0. SUFFICES StoredInv' /\ RunsType' /\ OpInv'
      BY DEF OpsInv, StoredInv
<1>1. CASE SubmitUnusable(r)
  <2>1. PICK status \in {"clarification_required", "rejected"} : Store(r, status)
        BY <1>1 DEF SubmitUnusable
  <2>2. StoredInv'
        BY <1>1, <2>1, StoreStep DEF SubmitUnusable, Statuses
  <2>3. RunsType' /\ op = NoOp /\ op' = NoOp
        BY <1>1 DEF SubmitUnusable, RunsType, Idle
  <2> QED BY <2>2, <2>3, Released
<1>2. CASE BeginSubmit(r)
  <2>1. StoredInv' /\ RunsType'
        BY <1>2, CalmStep DEF BeginSubmit, RunsType
  <2>2. /\ op' \in Operation
        /\ op'.kind = "submit" /\ op'.req = r /\ op'.at = "plan"
        BY <1>2, BegunType, CreatedType DEF BeginSubmit, Places
  <2>3. Fresh(r)'
        BY <1>2 DEF BeginSubmit, Fresh
  <2>4. OpInv'
        BY <2>2, <2>3 DEF OpInv, Fresh
  <2> QED BY <2>1, <2>4
<1>3. CASE BeginDecide(r)
  <2>1. r \in DOMAIN runs /\ runs[r] \in Views
        BY <1>3, KnownHasRun DEF BeginDecide, RunsType
  <2>2. StoredInv' /\ RunsType'
        BY <1>3, <2>1, CalmStep, RuntimeForStep DEF BeginDecide
  <2>3. /\ op' \in Operation
        /\ op'.kind = "decide" /\ op'.req = r /\ op'.at = "start"
        BY <1>3, <2>1, BegunType DEF BeginDecide, Places
  <2>4. OpInv'
        BY <1>3, <2>1, <2>3 DEF OpInv, Known, BeginDecide
  <2> QED BY <2>2, <2>4
<1>4. CASE BeginRecover(r)
  <2>1. r \in DOMAIN runs /\ runs[r] \in Views
        BY <1>4, KnownHasRun DEF BeginRecover, RunsType
  <2>2. StoredInv' /\ RunsType'
        BY <1>4, <2>1, CalmStep, RuntimeForStep DEF BeginRecover
  <2>3. /\ op' \in Operation
        /\ op'.kind = "recover" /\ op'.req = r /\ op'.at \in {"start", "conflict"}
        /\ op'.seen = runs[r]
    <3>1. {"succeeded"} \in SUBSET Goals /\ {} \in SUBSET Goals
          BY DEF Goals, RunStates
    <3> QED BY <1>4, <2>1, <3>1, BegunType DEF BeginRecover, Places
  <2>4. OpInv'
        BY <1>4, <2>1, <2>3 DEF OpInv, Known, BeginRecover
  <2> QED BY <2>2, <2>4
<1>5. CASE Read(r)
  <2>1. r \in DOMAIN runs
        BY <1>5, KnownHasRun DEF Read
  <2>2. StoredInv' /\ RunsType'
        BY <1>5, <2>1, CalmStep, RuntimeForStep DEF Read
  <2> QED BY <1>5, <2>2, Released DEF Read, Idle
<1>6. CASE BeginClose(r)
  <2>1. r \in DOMAIN runs /\ runs[r] \in Views
        BY <1>6 DEF BeginClose, RunsType
  <2>2. StoredInv' /\ RunsType'
        BY <1>6, CalmStep DEF BeginClose, RunsType
  <2>3. /\ op' \in Operation
        /\ op'.kind = "close" /\ op'.req = r /\ op'.at = "close"
        BY <1>6, <2>1, BegunType DEF BeginClose, Places
  <2>4. OpInv'
        BY <1>6, <2>1, <2>3 DEF OpInv, BeginClose
  <2> QED BY <2>2, <2>4
<1> QED BY <1>1, <1>2, <1>3, <1>4, <1>5, <1>6

\* submit_request until its run exists.
LEMMA PlanSteps ==
    ASSUME OpsInv, PlanNotPrepared \/ PlanningRaises \/ CreateRun
    PROVE  OpsInv'
<1> StoredInv /\ RunsType /\ OpInv
    BY DEF OpsInv, StoredInv
<1>0. SUFFICES StoredInv' /\ RunsType' /\ OpInv'
      BY DEF OpsInv, StoredInv
<1>1. op.at = "plan"
      BY DEF PlanNotPrepared, PlanningRaises, CreateRun
<1>2. /\ op \in Operation /\ op.req \in Requests
      /\ op.kind = "submit" /\ Fresh(op.req)
      BY <1>1, IdlePlace DEF OpInv, Operation
<1>3. CASE PlanNotPrepared
  <2>1. PICK status \in {"clarification_required", "rejected"} : Store(op.req, status)
        BY <1>3 DEF PlanNotPrepared
  <2>2. StoredInv'
        BY <1>2, <1>3, <2>1, StoreStep DEF PlanNotPrepared, Statuses
  <2>3. RunsType' /\ op' = NoOp
        BY <1>3 DEF PlanNotPrepared, RunsType
  <2> QED BY <2>2, <2>3, Released
<1>4. CASE PlanningRaises
      BY <1>4, CalmStep, Released DEF PlanningRaises, RunsType
<1>5. CASE CreateRun
  <2>1. /\ DOMAIN runs' = DOMAIN runs \cup {op.req}
        /\ \A q \in DOMAIN runs' : runs'[q] = IF q = op.req THEN Created ELSE runs[q]
        BY <1>5 DEF CreateRun, With
  <2>2. RunsType'
        BY <1>5, <2>1, CreatedType DEF RunsType, CreateRun
  <2>3. StoredInv'
    <3>1. StoreType' /\ StoreInv'
          BY <1>2, <1>5, <2>1 DEF StoredInv, StoreType, StoreInv, CreateRun
    <3>2. DrivenInv'
          BY <1>2, <1>5, <2>1 DEF StoredInv, DrivenInv, CreateRun, Fresh
    <3>3. ~Created.granted
          BY DEF Created
    <3>4. GrantedInv'
          BY <1>5, <2>1, <3>3 DEF StoredInv, GrantedInv, CreateRun
    <3> QED BY <3>1, <3>2, <3>4 DEF StoredInv
  <2>4. SubmitGoal \in SUBSET Goals
        BY DEF SubmitGoal, Goals, RunStates, TerminalRunStates
  <2>5. op' = [op EXCEPT !.at = "drive", !.want = SubmitGoal]
        BY <1>5 DEF CreateRun, SubmitGoal
  <2>6. /\ op' \in Operation
        /\ op'.kind = "submit" /\ op'.at = "drive" /\ op'.req = op.req
        /\ op'.want = SubmitGoal
        BY <1>2, <2>4, <2>5 DEF Operation, Places
  <2>7. OpInv'
        BY <2>1, <2>6 DEF OpInv
  <2> QED BY <2>2, <2>3, <2>7
<1> QED BY <1>3, <1>4, <1>5

\* What every later step knows of its operation.
LEMMA HasRun ==
    ASSUME StoredInv, RunsType, OpInv, op.at \in Places \ {"plan"}
    PROVE  /\ op \in Operation /\ op.req \in DOMAIN runs /\ runs[op.req] \in Views
           /\ op.kind \in {"decide", "recover"} => Known(op.req)
BY AtWork, IdlePlace DEF OpInv, RunsType, Places

\* The operation goes on elsewhere; its request and kind stay.
LEMMA OpMoves ==
    ASSUME StoredInv, OpInv, op \in Operation, op.at # "plan",
           op.req \in DOMAIN runs, DOMAIN runs' = DOMAIN runs, UNCHANGED requests,
           op' \in Operation, op'.kind = op.kind, op'.req = op.req, op'.at # "plan",
           \/ op'.at = op.at
           \/ op.kind # "close" /\ op'.at = "close"
           \/ op.kind = "decide" /\ op'.at \in {"check", "conflict", "drive"}
           \/ op.kind = "recover" /\ op'.at = "drive",
           (op.kind = "submit" /\ op'.at = "drive") => op'.want = op.want,
           op.kind = "recover" => op'.at # "conflict"
    PROVE  OpInv'
<1>1. op # NoOp
      BY IdlePlace DEF Operation, Places
<1>2. op.kind \in {"submit", "decide", "recover", "close"} /\ op.at \in Places
      BY DEF Operation
<1>3. op'.kind = "submit" /\ op'.at = "drive" => op.at = "drive"
      BY <1>1, <1>2 DEF OpInv
<1>4. op'.kind \in {"decide", "recover"} => Known(op.req)'
      BY <1>1 DEF OpInv, Known
<1>5. /\ op'.kind = "submit" => op'.at \in {"plan", "drive", "close"}
      /\ op'.kind = "decide" => op'.at \in {"start", "check", "drive", "close", "conflict"}
      /\ op'.kind = "recover" => op'.at \in {"start", "drive", "close", "conflict"}
      /\ op'.kind = "close" => op'.at = "close"
      BY <1>1, <1>2 DEF OpInv
<1>6. (op'.kind = "submit" /\ op'.at = "drive") => op'.want = SubmitGoal
      BY <1>1, <1>3 DEF OpInv
<1> QED BY <1>4, <1>5, <1>6 DEF OpInv

\* The loops of run_until, and what follows them.
LEMMA DriveSteps ==
    ASSUME OpsInv, RunOnce \/ DriveFails \/ SubmitEnds \/ CommandEnds
    PROVE  OpsInv'
<1> StoredInv /\ RunsType /\ OpInv
    BY DEF OpsInv, StoredInv
<1>0. SUFFICES StoredInv' /\ RunsType' /\ OpInv'
      BY DEF OpsInv, StoredInv
<1>1. op.at = "drive"
      BY DEF RunOnce, DriveFails, SubmitEnds, CommandEnds, Driving
<1>2. /\ op \in Operation /\ op.req \in DOMAIN runs /\ runs[op.req] \in Views
      /\ op.kind \in {"decide", "recover"} => Known(op.req)
      BY <1>1, HasRun DEF Places
<1>3. CASE RunOnce
  <2>1. op' \in Operation /\ op'.kind = op.kind /\ op'.req = op.req
        /\ op'.at = op.at /\ op'.want = op.want
    <3>1. op.cycles + 1 \in 0..Limit
          BY <1>2, <1>3, OperationsAssumption DEF RunOnce, Operation
    <3>2. op' = [op EXCEPT !.cycles = op.cycles + 1]
          BY <1>2, <1>3 DEF RunOnce, Operation
    <3> DEFINE c == op.cycles + 1
    <3> HIDE DEF c
    <3>3. c \in 0..Limit /\ op' = [op EXCEPT !.cycles = c]
          BY <3>1, <3>2 DEF c
    <3> QED BY <1>2, <3>3 DEF Operation
  <2>2. StoredInv' /\ DOMAIN runs' = DOMAIN runs
        /\ \A q \in DOMAIN runs' : runs'[q] \in Views
    <3>1. CASE UNCHANGED runs
          BY <1>3, <3>1, CalmStep DEF RunOnce, RunsType
    <3>2. ASSUME NEW b \in Views, Coordinated(runs[op.req], b), RunBecomes(b)
          PROVE  StoredInv' /\ DOMAIN runs' = DOMAIN runs
                 /\ \A q \in DOMAIN runs' : runs'[q] \in Views
          BY <1>2, <1>3, <3>2, RunStep, DrivenStays, OnlyDecisionsGrant
             DEF RunOnce, RunBecomes
    <3> QED BY <1>3, <3>1, <3>2 DEF RunOnce
  <2>3. RunsType'
        BY <1>3, <2>2 DEF RunOnce, RunsType
  <2>4. OpInv'
        BY <1>1, <1>2, <1>3, <2>1, <2>2, OpMoves DEF RunOnce
  <2> QED BY <2>2, <2>3, <2>4
<1>4. CASE DriveFails
  <2>1. StoredInv' /\ RunsType'
        BY <1>4, CalmStep DEF DriveFails, RunsType
  <2>2. CASE op' = NoOp
        BY <2>1, <2>2, Released
  <2>3. CASE op.kind = "submit" /\ op' = [op EXCEPT !.at = "close"]
    <3>1. op' \in Operation /\ op'.kind = op.kind /\ op'.req = op.req /\ op'.at = "close"
          BY <1>2, <2>3 DEF Operation, Places
    <3> QED BY <1>1, <1>2, <1>4, <2>1, <2>3, <3>1, OpMoves DEF DriveFails
  <2> QED BY <1>4, <2>2, <2>3 DEF DriveFails
<1>5. CASE SubmitEnds
  <2>1. Reached(runs[op.req], SubmitGoal)
        BY <1>1, <1>5, IdlePlace DEF SubmitEnds, OpInv
  <2>2. Driven(runs[op.req])
        BY <2>1 DEF Reached, SubmitGoal, Driven, TerminalRunStates
  <2>3. op.req \in Requests
        BY <1>2 DEF Operation
  <2>4. StoredInv'
        BY <1>2, <1>5, <2>2, <2>3, StoreStep DEF SubmitEnds, Statuses
  <2>5. RunsType'
        BY <1>2, <1>5, RuntimeStep DEF SubmitEnds, RunsType
  <2> QED BY <1>5, <2>4, <2>5, Released DEF SubmitEnds
<1>6. CASE CommandEnds
  <2>1. StoredInv' /\ RunsType'
        BY <1>6, CalmStep DEF CommandEnds, RunsType
  <2>2. CASE op' = NoOp
        BY <2>1, <2>2, Released
  <2>3. CASE op' = [op EXCEPT !.at = "close"]
    <3>1. op' \in Operation /\ op'.kind = op.kind /\ op'.req = op.req /\ op'.at = "close"
          BY <1>2, <2>3 DEF Operation, Places
    <3>2. op.kind # "close"
          BY <1>1, IdlePlace DEF OpInv
    <3> QED BY <1>1, <1>2, <1>6, <2>1, <3>1, <3>2, OpMoves DEF CommandEnds
  <2> QED BY <1>6, <2>2, <2>3 DEF CommandEnds
<1> QED BY <1>3, <1>4, <1>5, <1>6

\* Closing a runtime, with the outcomes it persists on the way.
LEMMA CloseSteps ==
    ASSUME OpsInv, CloseRuntime
    PROVE  OpsInv'
<1> StoredInv /\ RunsType /\ OpInv
    BY DEF OpsInv, StoredInv
<1>0. SUFFICES StoredInv' /\ RunsType' /\ OpInv'
      BY DEF OpsInv, StoredInv
<1>1. op.at = "close"
      BY DEF CloseRuntime
<1>2. op \in Operation /\ op.req \in DOMAIN runs /\ runs[op.req] \in Views
      BY <1>1, HasRun DEF Places
<1>3. UNCHANGED <<scenario, manifest, requests, unsaved, faults>>
      BY DEF CloseRuntime
<1>4. ASSUME NEW b \in Views, Reports(runs[op.req], b), RunBecomes(b),
             UNCHANGED <<op, runtimes>>
      PROVE  StoredInv' /\ RunsType' /\ OpInv'
  <2>1. StoredInv' /\ DOMAIN runs' = DOMAIN runs
        /\ \A q \in DOMAIN runs' : runs'[q] \in Views
        BY <1>2, <1>3, <1>4, RunStep, DrivenStays, OnlyDecisionsGrant DEF RunBecomes
  <2>2. RunsType'
        BY <1>4, <2>1 DEF RunsType
  <2>3. OpInv'
        BY <1>1, <1>2, <1>3, <1>4, <2>1, OpMoves
  <2> QED BY <2>1, <2>2, <2>3
<1>5. CASE op' = NoOp /\ runtimes' = Without(runtimes, op.req) /\ UNCHANGED runs
  <2>1. StoredInv'
        BY <1>3, <1>5, CalmStep
  <2>2. RunsType'
        BY <1>2, <1>5, RuntimeStep DEF RunsType
  <2> QED BY <1>5, <2>1, <2>2, Released
<1> QED BY <1>4, <1>5 DEF CloseRuntime

\* driver.start, with the recovery it performs.
LEMMA StartSteps ==
    ASSUME OpsInv, DriverStarts \/ DriverStartRaises
    PROVE  OpsInv'
<1> StoredInv /\ RunsType /\ OpInv
    BY DEF OpsInv, StoredInv
<1>0. SUFFICES StoredInv' /\ RunsType' /\ OpInv'
      BY DEF OpsInv, StoredInv
<1>1. op.at = "start"
      BY DEF DriverStarts, DriverStartRaises
<1>2. op \in Operation /\ op.req \in DOMAIN runs /\ runs[op.req] \in Views
      BY <1>1, HasRun DEF Places
<1>3. op.kind \in {"decide", "recover"}
      BY <1>1, <1>2, IdlePlace DEF OpInv, Operation
<1>4. UNCHANGED <<scenario, manifest, requests, unsaved>> /\ (UNCHANGED faults \/ Fault)
      BY DEF DriverStarts, DriverStartRaises
<1>5. /\ StoredInv' /\ DOMAIN runs' = DOMAIN runs
      /\ \A q \in DOMAIN runs' : runs'[q] \in Views
  <2>1. CASE UNCHANGED runs
        BY <1>4, <2>1, CalmStep DEF RunsType
  <2>2. ASSUME NEW b \in Views, Recovered(runs[op.req], b), RunBecomes(b)
        PROVE  StoredInv' /\ DOMAIN runs' = DOMAIN runs
               /\ \A q \in DOMAIN runs' : runs'[q] \in Views
        BY <1>2, <1>4, <2>2, RunStep, DrivenStays, OnlyDecisionsGrant DEF RunBecomes
  <2> QED BY <2>1, <2>2 DEF DriverStarts, DriverStartRaises
<1>6. CASE DriverStarts
  <2>1. RunsType'
        BY <1>2, <1>5, <1>6, RuntimeStep DEF DriverStarts
  <2>2. /\ op' \in Operation /\ op'.kind = op.kind /\ op'.req = op.req
        /\ op.kind = "decide" => op'.at = "check"
        /\ op.kind = "recover" => op'.at = "drive"
    <3>1. CASE op.kind = "decide"
      <4>1. op' = [op EXCEPT !.at = "check"]
            BY <1>6, <3>1 DEF DriverStarts
      <4> QED BY <1>2, <3>1, <4>1 DEF Operation, Places
    <3>2. CASE op.kind = "recover"
      <4>1. op' = [op EXCEPT !.at = "drive", !.seen = Created]
            BY <1>6, <3>2 DEF DriverStarts
      <4> QED BY <1>2, <3>2, <4>1, CreatedType DEF Operation, Places
    <3> QED BY <1>3, <3>1, <3>2
  <2>3. OpInv'
        BY <1>1, <1>2, <1>3, <1>4, <1>5, <2>2, OpMoves
  <2> QED BY <1>5, <2>1, <2>3
<1>7. CASE DriverStartRaises
      BY <1>5, <1>7, Released DEF DriverStartRaises, RunsType
<1> QED BY <1>6, <1>7

\* The decision of an operator, and the conflicts commands end in.
LEMMA DecisionSteps ==
    ASSUME OpsInv, RefuseDecision \/ TakeDecision \/ Conflict
    PROVE  OpsInv'
<1> StoredInv /\ RunsType /\ OpInv
    BY DEF OpsInv, StoredInv
<1>0. SUFFICES StoredInv' /\ RunsType' /\ OpInv'
      BY DEF OpsInv, StoredInv
<1>1. CASE Conflict
      BY <1>1, CalmStep, Released DEF Conflict, RunsType
<1>2. ASSUME op.at = "check"
      PROVE  /\ op \in Operation /\ op.req \in DOMAIN runs /\ runs[op.req] \in Views
             /\ op.kind = "decide" /\ op.req \in DOMAIN requests
  <2>1. op \in Operation /\ op.req \in DOMAIN runs /\ runs[op.req] \in Views
        BY <1>2, HasRun DEF Places
  <2>2. op.kind = "decide"
        BY <1>2, <2>1, IdlePlace DEF OpInv, Operation
  <2> QED BY <1>2, <2>1, <2>2, HasRun DEF Known, Places
<1>3. CASE RefuseDecision
  <2>1. StoredInv' /\ RunsType'
        BY <1>3, CalmStep DEF RefuseDecision, RunsType
  <2>2. op' \in Operation /\ op'.kind = op.kind /\ op'.req = op.req /\ op'.at = "conflict"
        BY <1>2, <1>3 DEF RefuseDecision, Operation, Places
  <2>3. OpInv'
        BY <1>2, <1>3, <2>2, OpMoves DEF RefuseDecision
  <2> QED BY <2>1, <2>3
<1>4. CASE TakeDecision
  <2>1. op.at = "check"
        BY <1>4 DEF TakeDecision
  <2>2. PICK b \in Views :
            /\ Decided(runs[op.req], b)
            /\ RunBecomes(b)
            /\ op' = [op EXCEPT !.at = "drive", !.want = DecisionGoal(b),
                                 !.seen = Created]
        BY <1>4 DEF TakeDecision
  <2>3. /\ StoredInv' /\ DOMAIN runs' = DOMAIN runs
        /\ \A q \in DOMAIN runs' : runs'[q] \in Views
        BY <1>2, <1>4, <2>1, <2>2, RunStep, DrivenStays DEF TakeDecision, RunBecomes
  <2>4. RunsType'
        BY <1>4, <2>3 DEF TakeDecision, RunsType
  <2>5. DecisionGoal(b) \in SUBSET Goals
        BY DEF DecisionGoal, Goals, RunStates
  <2>6. op' \in Operation /\ op'.kind = op.kind /\ op'.req = op.req /\ op'.at = "drive"
    <3> DEFINE w == DecisionGoal(b)
    <3>1. w \in SUBSET Goals /\ op' = [op EXCEPT !.at = "drive", !.want = w, !.seen = Created]
          BY <2>2, <2>5
    <3> HIDE DEF w
    <3> QED BY <1>2, <2>1, <3>1, CreatedType DEF Operation, Places
  <2>7. OpInv'
        BY <1>2, <1>4, <2>1, <2>3, <2>6, OpMoves DEF TakeDecision
  <2> QED BY <2>3, <2>4, <2>7
<1> QED BY <1>1, <1>3, <1>4

\* After a crash the service knows what the manifest says.
LEMMA CrashStep ==
    ASSUME OpsInv, CrashAndRestart
    PROVE  OpsInv'
<1>1. DOMAIN runtimes' = {}
      BY DEF CrashAndRestart, Nothing
<1>2. RunsType' /\ OpInv'
      BY <1>1, Released DEF OpsInv, RunsType, CrashAndRestart
<1>3. StoreType'
      BY FaultType DEF OpsInv, StoreType, CrashAndRestart
<1>4. StoreInv' /\ DrivenInv' /\ GrantedInv'
      BY DEF OpsInv, StoreInv, DrivenInv, GrantedInv, CrashAndRestart
<1> QED BY <1>2, <1>3, <1>4 DEF OpsInv

LEMMA OpsInitInv ==
    ASSUME OpsInit
    PROVE  OpsInv
<1>1. DOMAIN Nothing = {}
      BY DEF Nothing
<1> QED BY <1>1, OperationsAssumption
        DEF OpsInit, OpsInv, StoreType, RunsType, StoreInv, DrivenInv, GrantedInv, OpInv

LEMMA OpsNextInv ==
    ASSUME OpsInv, [OpsNext]_opsVars
    PROVE  OpsInv'
<1>1. CASE UNCHANGED opsVars
      BY <1>1 DEF opsVars, OpsInv, StoreType, RunsType, StoreInv, DrivenInv, GrantedInv,
                  OpInv, Fresh, Known
<1>2. CASE Operate
      BY <1>2, PlanSteps, DriveSteps, CloseSteps, StartSteps, DecisionSteps DEF Operate
<1> QED BY <1>1, <1>2, IdleSteps, CrashStep DEF OpsNext

LEMMA OpsInvAlways == OpsSpec => []OpsInv
BY OpsInitInv, OpsNextInv, PTL DEF OpsSpec

-----------------------------------------------------------------------------
(* What follows.                                                           *)

(***************************************************************************)
(* The state of the operations service is always what its fields are       *)
(* declared to be.                                                         *)
(***************************************************************************)
THEOREM OpsTypeCorrect == OpsSpec => []OpsTypeOK
<1>1. OpsInv => OpsTypeOK
      BY DEF OpsInv, OpsTypeOK, StoreType, RunsType, OpInv, Operation
<1> QED BY <1>1, OpsInvAlways, PTL

(***************************************************************************)
(* Whatever crashes and failed writes there are, a request the manifest    *)
(* calls plan_ready has a run that submit_request drove to its approval or *)
(* its end.                                                                *)
(***************************************************************************)
THEOREM StoredRunsWereDriven == OpsSpec => []PlanReadyWasDriven
<1>1. OpsInv => PlanReadyWasDriven
      BY DEF OpsInv, DrivenInv, Driven, PlanReadyWasDriven
<1> QED BY <1>1, OpsInvAlways, PTL

(***************************************************************************)
(* No run is approved that no operator can find, unless the write of its   *)
(* manifest failed.                                                        *)
(***************************************************************************)
THEOREM ApprovedRunsAreKnown == OpsSpec => []ApprovedIsKnown
<1>1. OpsInv => ApprovedIsKnown
      BY DEF OpsInv, GrantedInv, StoreInv, ApprovedIsKnown
<1> QED BY <1>1, OpsInvAlways, PTL

(***************************************************************************)
(* A recovery command that recover() refuses has left the run as the       *)
(* operator saw it.                                                        *)
(***************************************************************************)
THEOREM RefusedRecoveryIsHarmless == OpsSpec => []RefusedRecoveryChangesNothing
<1>1. OpsInv => RefusedRecoveryChangesNothing
      BY IdlePlace DEF OpsInv, OpInv, RefusedRecoveryChangesNothing
<1> QED BY <1>1, OpsInvAlways, PTL
=============================================================================
