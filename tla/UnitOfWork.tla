----------------------------- MODULE UnitOfWork -----------------------------
(***************************************************************************)
(* The persistence contract of the workflow runtime and its two adapters:  *)
(* SQLiteUnitOfWork (workflow/adapters/persistence/sqlite.py) and          *)
(* MemoryUnitOfWork (memory.py), with any number of units of work side by  *)
(* side.                                                                   *)
(*                                                                         *)
(* A unit of work reads the whole database into a private snapshot, stages *)
(* changes in it, and publishes all of them in one commit or none.  The    *)
(* memory store is read under its lock.  SQLite is read table by table,    *)
(* and the driver opens no transaction for a SELECT, so that another       *)
(* commit may come between two tables.  A commit holds SQLite's write lock *)
(* (BEGIN IMMEDIATE) or the store's lock, and is one step.                 *)
(*                                                                         *)
(* An exception in a repository call changes nothing: the caller's `with'  *)
(* block is left, which is Exit.  A row is abstracted to its revision, the *)
(* units of work whose changes it contains, and whether it is a pending    *)
(* approval request.                                                       *)
(***************************************************************************)
EXTENDS Integers, Sequences, FiniteSets

CONSTANTS
    Adapter,      \* "sqlite" or "memory"
    Definitions, Runs, Steps, Attempts, Approvals,   \* keys of the five tables
    Parent,       \* the foreign key of each step, attempt and approval
    Seeds,        \* sets of rows earlier units of work may have left
    Uows,         \* units of work
    MaxOps        \* bound: repository calls of a unit of work

Keys == Definitions \cup Runs \cup Steps \cup Attempts \cup Approvals

Table(t) ==
    CASE t = "definitions" -> Definitions
      [] t = "runs"        -> Runs
      [] t = "steps"       -> Steps
      [] t = "attempts"    -> Attempts
      [] t = "approvals"   -> Approvals
      [] OTHER             -> {}

ASSUME StoreAssumption ==
    /\ Adapter \in {"sqlite", "memory"}
    /\ LET names == {"definitions", "runs", "steps", "attempts", "approvals"}
       IN  \A t, v \in names : t # v => Table(t) \cap Table(v) = {}
    /\ Parent \in [Steps \cup Attempts \cup Approvals -> Keys]
    /\ Seeds \subseteq SUBSET Keys
    /\ \A seed \in Seeds : \A p, q \in seed \cap Approvals :
          Parent[p] = Parent[q] => p = q
    /\ MaxOps \in Nat

VARIABLES
    db,        \* the committed row of each key
    log,       \* the committed audit events
    lastSeq,   \* workflow_runs.last_event_sequence, MemoryStore.event_sequences
    phase,     \* where each unit of work is
    loaded,    \* how many tables it has read
    read,      \* the rows it has read
    seen,      \* the sequence numbers of the events it has read, by run
    base,      \* committed_event_sequences of its snapshot
    staged,    \* the rows it has added or saved
    new,       \* new_*_keys
    dirty,     \* dirty_*_keys
    appended,  \* how many events it has staged for each run
    ops,       \* repository calls so far
    why        \* why its commit was refused

store == <<db, log, lastSeq>>
snapshot == <<loaded, read, seen, base>>
changes == <<staged, new, dirty, appended, ops>>
vars == <<store, phase, snapshot, changes, why>>

\* Tables whose rows carry a revision or a version.
Versioned == Runs \cup Steps \cup Approvals

\* A missing row has the revision -1 that _actual_run_revision returns for it.
NoRow == [rev |-> -1, done |-> {}, pend |-> FALSE]
Exists(row) == row.rev >= 0

Sequences(r) == {e.seq : e \in {f \in log : f.run = r}}

Init ==
    /\ \E seed \in Seeds :
          /\ db = [k \in Keys |->
                     IF k \in seed
                     THEN [rev |-> 0, done |-> {}, pend |-> k \in Approvals]
                     ELSE NoRow]
          /\ log = {[run |-> r, seq |-> 1, by |-> "create_run"] : r \in Runs \cap seed}
          /\ lastSeq = [r \in Runs |-> IF r \in seed THEN 1 ELSE 0]
    /\ phase = [u \in Uows |-> "new"]
    /\ loaded = [u \in Uows |-> 0]
    /\ read = [u \in Uows |-> [k \in Keys |-> NoRow]]
    /\ seen = [u \in Uows |-> [r \in Runs |-> {}]]
    /\ base = [u \in Uows |-> [r \in Runs |-> 0]]
    /\ staged = [u \in Uows |-> [k \in Keys |-> NoRow]]
    /\ new = [u \in Uows |-> {}]
    /\ dirty = [u \in Uows |-> {}]
    /\ appended = [u \in Uows |-> [r \in Runs |-> 0]]
    /\ ops = [u \in Uows |-> 0]
    /\ why = [u \in Uows |-> "none"]

-----------------------------------------------------------------------------
(* Reading the snapshot.                                                   *)

\* _Snapshot.from_store, under the lock of the store.
OpenMemory(u) ==
    /\ Adapter = "memory"
    /\ phase[u] = "new"
    /\ phase' = [phase EXCEPT ![u] = "open"]
    /\ read' = [read EXCEPT ![u] = db]
    /\ seen' = [seen EXCEPT ![u] = [r \in Runs |-> Sequences(r)]]
    /\ base' = [base EXCEPT ![u] = lastSeq]
    /\ UNCHANGED <<store, loaded, changes, why>>

\* Mutant: the sequences are read before the events.
LoadOrderSequencesFirst ==
    <<"sequences", "events", "definitions", "runs", "steps", "attempts", "approvals">>

\* The order of the SELECTs of _Snapshot.from_connection.
LoadOrder ==
    <<"events", "sequences", "definitions", "runs", "steps", "attempts", "approvals">>

\* SQLiteUnitOfWork.__init__ executes its next SELECT.
LoadTable(u) ==
    LET t == LoadOrder[loaded[u] + 1]
    IN  /\ Adapter = "sqlite"
        /\ phase[u] = "new"
        /\ seen' = IF t = "events"
                   THEN [seen EXCEPT ![u] = [r \in Runs |-> Sequences(r)]]
                   ELSE seen
        /\ base' = IF t = "sequences" THEN [base EXCEPT ![u] = lastSeq] ELSE base
        /\ read' = [read EXCEPT ![u] =
                      [k \in Keys |-> IF k \in Table(t) THEN db[k] ELSE read[u][k]]]
        /\ loaded' = [loaded EXCEPT ![u] = loaded[u] + 1]
        /\ phase' = [phase EXCEPT ![u] =
                       IF loaded[u] + 1 = Len(LoadOrder) THEN "open" ELSE "new"]
        /\ UNCHANGED <<store, changes, why>>

-----------------------------------------------------------------------------
(* The repositories.                                                       *)

\* What the unit of work itself sees of a row.
Visible(u, k) == IF k \in new[u] \cup dirty[u] THEN staged[u][k] ELSE read[u][k]

\* _ensure_writable, and the bound on calls.
Writable(u) == phase[u] = "open" /\ ops[u] < MaxOps

\* add: the row enters the snapshot and is remembered as new.
StageNew(u, k) ==
    /\ Writable(u)
    /\ staged' = [staged EXCEPT ![u][k] = [rev |-> 0, done |-> {u},
                                           pend |-> k \in Approvals]]
    /\ new' = [new EXCEPT ![u] = new[u] \cup {k}]
    /\ ops' = [ops EXCEPT ![u] = ops[u] + 1]
    /\ UNCHANGED <<store, phase, snapshot, dirty, appended, why>>

(***************************************************************************)
(* save: callers pass what they got from the repository, with its revision *)
(* as the expected one and the next revision in the record; a request that *)
(* is saved is no longer pending.  SQLite refuses a second save of a key.  *)
(***************************************************************************)
StageSave(u, k) ==
    /\ Writable(u)
    /\ Exists(Visible(u, k))
    /\ staged' = [staged EXCEPT ![u][k] = [rev  |-> Visible(u, k).rev + 1,
                                           done |-> Visible(u, k).done \cup {u},
                                           pend |-> FALSE]]
    /\ dirty' = [dirty EXCEPT ![u] = dirty[u] \cup {k}]
    /\ ops' = [ops EXCEPT ![u] = ops[u] + 1]
    /\ UNCHANGED <<store, phase, snapshot, new, appended, why>>

SavedOnce(u, k) == Adapter = "sqlite" => k \notin dirty[u]

AddDefinition(u, d) == d \in Definitions /\ StageNew(u, d)

AddRun(u, r) == r \in Runs /\ StageNew(u, r)
SaveRun(u, r) == r \in Runs /\ SavedOnce(u, r) /\ StageSave(u, r)

AddStep(u, s) == s \in Steps /\ StageNew(u, s)
SaveStep(u, s) == s \in Steps /\ SavedOnce(u, s) /\ StageSave(u, s)

AddAttempt(u, a) == a \in Attempts \ new[u] /\ StageNew(u, a)
SaveAttempt(u, a) == a \in Attempts /\ StageSave(u, a)

AddApproval(u, p) == p \in Approvals \ new[u] /\ StageNew(u, p)
SaveApproval(u, p) == p \in Approvals /\ SavedOnce(u, p) /\ StageSave(u, p)

\* events.append; the sequence number it returns is a forecast.
AppendEvent(u, r) ==
    /\ Writable(u)
    /\ appended' = [appended EXCEPT ![u][r] = appended[u][r] + 1]
    /\ ops' = [ops EXCEPT ![u] = ops[u] + 1]
    /\ UNCHANGED <<store, phase, snapshot, staged, new, dirty, why>>

-----------------------------------------------------------------------------
(* Commit.  Several objections may hold at once; which of them the error   *)
(* names is left open.                                                     *)

\* The table rows after the commit.
Merged(u) ==
    [k \in Keys |-> IF k \in new[u] \cup dirty[u] THEN staged[u][k] ELSE db[k]]

TwoPending(rows) ==
    \E p, q \in Approvals : /\ p # q
                            /\ Parent[p] = Parent[q]
                            /\ rows[p].pend
                            /\ rows[q].pend

\* Mutant: rows that are only saved must be new as well.
TakenAll(u) == \E k \in new[u] \cup dirty[u] : Exists(db[k])

\* _validate_uniqueness: somebody else has added the key.
Taken(u) == \E k \in new[u] : Exists(db[k])

\* Mutant: an update is not restricted to the expected revision.
StaleIfMissing(u) == \E k \in (dirty[u] \ new[u]) \cap Versioned : ~Exists(db[k])

\* The UPDATE ... WHERE revision = expected of _publish finds no row.
Stale(u) == \E k \in (dirty[u] \ new[u]) \cap Versioned : db[k].rev # read[u][k].rev

\* A foreign key, the run of an event, or an attempt to be saved is missing.
Dangling(u) ==
    LET present(k) == Exists(db[k]) \/ k \in new[u]
    IN  \/ \E k \in new[u] \cap DOMAIN Parent : ~present(Parent[k])
        \/ \E r \in Runs : appended[u][r] > 0 /\ ~present(r)
        \/ \E k \in dirty[u] \cap Attempts : ~present(k)

\* Mutant: no index on pending approvals.
IndexRejectsNothing(u) == FALSE

(***************************************************************************)
(* ix_approval_requests_pending_unique is checked by every INSERT, and     *)
(* _publish inserts the new requests before it updates the saved ones.     *)
(***************************************************************************)
IndexRejects(u) ==
    TwoPending([k \in Keys |-> IF k \in new[u] THEN staged[u][k] ELSE db[k]])

\* What makes SQLiteUnitOfWork.commit raise.
SQLiteRefuses(u, w) ==
    \/ w = "unique" /\ Taken(u)
    \/ w = "missing" /\ Dangling(u)
    \/ w = "lock" /\ Stale(u)
    \/ w = "pending" /\ IndexRejects(u)

\* Mutant: a request that is saved still counts with its committed status.
MemoryPendingTwiceUnsaved(u) ==
    TwoPending([k \in Keys |-> IF k \in new[u] THEN staged[u][k] ELSE db[k]])

\* The end of _validate_uniqueness_locked.
MemoryPendingTwice(u) == TwoPending(Merged(u))

\* The beginning of _validate_uniqueness_locked.
MemoryTaken(u) == \E k \in new[u] : Exists(db[k])

\* _validate_revisions_locked.
MemoryStale(u) ==
    \E k \in (dirty[u] \ new[u]) \cap Versioned : db[k].rev # read[u][k].rev

\* What makes MemoryUnitOfWork.commit raise.
MemoryRefuses(u, w) ==
    \/ w = "unique" /\ MemoryTaken(u)
    \/ w = "pending" /\ MemoryPendingTwice(u)
    \/ w = "lock" /\ MemoryStale(u)

Refuses(u, w) ==
    IF Adapter = "sqlite" THEN SQLiteRefuses(u, w) ELSE MemoryRefuses(u, w)

Reasons == {"unique", "missing", "lock", "pending"}

\* Mutant: events are numbered from the snapshot.
LastSequenceOfSnapshot(u, r) == base[u][r]

\* _allocate_published_events reads the sequence under the write lock.
LastSequence(u, r) == lastSeq[r]

Published(u) ==
    UNION {{[run |-> r, seq |-> LastSequence(u, r) + i, by |-> u]
               : i \in 1 .. appended[u][r]} : r \in Runs}

\* A run without events is inserted with the sequence of the snapshot.
PublishedSequence(u, r) ==
    IF appended[u][r] = 0 /\ Adapter = "sqlite" /\ r \in new[u]
    THEN base[u][r]
    ELSE LastSequence(u, r) + appended[u][r]

\* _publish, and mark_committed, which only SQLite's snapshot has.
Commit(u) ==
    /\ phase[u] = "open"
    /\ \A w \in Reasons : ~Refuses(u, w)
    /\ phase' = [phase EXCEPT ![u] = "committed"]
    /\ db' = Merged(u)
    /\ log' = log \cup Published(u)
    /\ lastSeq' = [r \in Runs |-> PublishedSequence(u, r)]
    /\ IF Adapter = "sqlite"
       THEN /\ base' = [base EXCEPT ![u] =
                          [r \in Runs |-> IF appended[u][r] > 0
                                          THEN PublishedSequence(u, r)
                                          ELSE base[u][r]]]
            /\ seen' = [seen EXCEPT ![u] =
                          [r \in Runs |-> seen[u][r] \cup
                              {e.seq : e \in {f \in Published(u) : f.run = r}}]]
            /\ appended' = [appended EXCEPT ![u] = [r \in Runs |-> 0]]
       ELSE UNCHANGED <<base, seen, appended>>
    /\ UNCHANGED <<loaded, read, staged, new, dirty, ops, why>>

\* The commit raises; commit itself or __exit__ rolls the transaction back.
CommitRefused(u, w) ==
    /\ phase[u] = "open"
    /\ Refuses(u, w)
    /\ phase' = [phase EXCEPT ![u] = "rolled_back"]
    /\ why' = [why EXCEPT ![u] = w]
    /\ UNCHANGED <<store, snapshot, changes>>

\* BEGIN IMMEDIATE waits longer than busy_timeout for another writer.
CommitBusy(u) ==
    /\ Adapter = "sqlite"
    /\ phase[u] = "open"
    /\ \E v \in Uows \ {u} : phase[v] = "open"
    /\ phase' = [phase EXCEPT ![u] = "rolled_back"]
    /\ why' = [why EXCEPT ![u] = "busy"]
    /\ UNCHANGED <<store, snapshot, changes>>

\* The with block is left without a commit, or rollback is called.
Exit(u) ==
    /\ phase[u] = "open"
    /\ phase' = [phase EXCEPT ![u] = "rolled_back"]
    /\ UNCHANGED <<store, snapshot, changes, why>>

\* Every unit of work is over.
Finished ==
    /\ \A u \in Uows : phase[u] \in {"committed", "rolled_back"}
    /\ UNCHANGED vars

UowNext(u) ==
    \/ OpenMemory(u)
    \/ LoadTable(u)
    \/ \E d \in Definitions : AddDefinition(u, d)
    \/ \E r \in Runs : AddRun(u, r) \/ SaveRun(u, r) \/ AppendEvent(u, r)
    \/ \E s \in Steps : AddStep(u, s) \/ SaveStep(u, s)
    \/ \E a \in Attempts : AddAttempt(u, a) \/ SaveAttempt(u, a)
    \/ \E p \in Approvals : AddApproval(u, p) \/ SaveApproval(u, p)
    \/ Commit(u)
    \/ \E w \in Reasons : CommitRefused(u, w)
    \/ CommitBusy(u)
    \/ Exit(u)

Next == Finished \/ \E u \in Uows : UowNext(u)

Spec == Init /\ [][Next]_vars

-----------------------------------------------------------------------------
(* Properties.                                                             *)

Row == [rev : Int, done : SUBSET Uows, pend : BOOLEAN]
Phases == {"new", "open", "committed", "rolled_back"}

\* The type of every variable: revisions, sequences and sets of keys of the tables.
TypeOK ==
    /\ db \in [Keys -> Row]
    /\ \A e \in log : e.run \in Runs /\ e.seq \in Nat
    /\ lastSeq \in [Runs -> Nat]
    /\ phase \in [Uows -> Phases]
    /\ loaded \in [Uows -> 0 .. Len(LoadOrder)]
    /\ read \in [Uows -> [Keys -> Row]]
    /\ seen \in [Uows -> [Runs -> SUBSET Nat]]
    /\ base \in [Uows -> [Runs -> Nat]]
    /\ staged \in [Uows -> [Keys -> Row]]
    /\ new \in [Uows -> SUBSET Keys]
    /\ dirty \in [Uows -> SUBSET Keys]
    /\ appended \in [Uows -> [Runs -> Nat]]
    /\ ops \in [Uows -> Nat]
    /\ why \in [Uows -> Reasons \cup {"none", "busy"}]

(***************************************************************************)
(* The audit events of a run carry the sequence numbers 1, 2, ... up to    *)
(* the run's last_event_sequence, each of them once, however the commits   *)
(* of concurrent units of work interleave: the numbers are allocated under *)
(* the write lock by _allocate_published_events and not from the snapshot. *)
(***************************************************************************)
EventsContiguous ==
    /\ \A r \in Runs : Sequences(r) = 1 .. lastSeq[r]
    /\ \A e, f \in log : e.run = f.run /\ e.seq = f.seq => e = f

(***************************************************************************)
(* No two requests of a run are pending at once, although two units of     *)
(* work may both have seen none: ApprovalRepository.pending may raise for  *)
(* no run.                                                                 *)
(***************************************************************************)
OnePending == ~TwoPending(db)

(***************************************************************************)
(* No lost update: a commit that replaces the row of a run, a step or an   *)
(* approval starts from the row it replaces, so that everything earlier    *)
(* commits did to it stays, and its revision grows.  Together with the     *)
(* tables never losing a row this is what the expected revisions are for.  *)
(***************************************************************************)
NoLostUpdate ==
    [][\A k \in Versioned :
          db'[k] # db[k] => /\ db[k].done \subseteq db'[k].done
                            /\ db[k].rev < db'[k].rev]_vars

(***************************************************************************)
(* events.list is ordered, the staged events after the committed ones,     *)
(* although a commit may come between the SELECT of the events and the     *)
(* SELECT of the sequences: a number read is never staged again.           *)
(***************************************************************************)
EventsListedInOrder ==
    \A u \in Uows, r \in Runs :
        phase[u] # "new" => seen[u][r] \subseteq 1 .. base[u][r]

(***************************************************************************)
(* Units of work that change different rows never refuse each other, even  *)
(* those of the same run and with torn snapshots: a commit that fails on a *)
(* revision or a key shares a row with another one that was committed, or  *)
(* has added a row it could see.                                           *)
(***************************************************************************)
DisjointCommitsMerge ==
    \A u \in Uows : why[u] \in {"unique", "lock"} =>
        \/ \E k \in new[u] : Exists(read[u][k])
        \/ \E v \in Uows \ {u} :
              /\ phase[v] = "committed"
              /\ (new[u] \cup dirty[u]) \cap (new[v] \cup dirty[v]) # {}

(***************************************************************************)
(* The pending request of a run can be replaced by a new one, as           *)
(* _establish_approval_barrier does when the binding has changed: a commit *)
(* refused for a second pending request left one alone that it had read as *)
(* pending, added two itself, or comes after another one that touched the  *)
(* requests.                                                               *)
(***************************************************************************)
PendingIsReplaced ==
    \A u \in Uows : why[u] = "pending" =>
        \/ \E p \in Approvals \ dirty[u] : read[u][p].pend
        \/ \E p, q \in new[u] \cap Approvals : p # q
        \/ \E v \in Uows \ {u} :
              phase[v] = "committed" /\ (new[v] \cup dirty[v]) \cap Approvals # {}

=============================================================================
