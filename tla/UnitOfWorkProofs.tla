-------------------------- MODULE UnitOfWorkProofs --------------------------
(***************************************************************************)
(* Proofs about UnitOfWork for both adapters, any tables and any number of *)
(* units of work.                                                          *)
(*                                                                         *)
(* A commit compares revisions and then overwrites rows with what was      *)
(* derived from the snapshot.  That nothing is lost rests on two facts     *)
(* that hold between any two commits: a row read is a past state of the    *)
(* row, and the same one if the revision is still the same (ReadIsPast);   *)
(* and a staged row extends the row read (StagedExtendsRead).              *)
(***************************************************************************)
EXTENDS UnitOfWork, TLAPS

\* A missing row has no content.
MissingIsEmpty == \A k \in Keys : ~Exists(db[k]) => db[k] = NoRow

\* The rows a unit of work has read are past or present rows of the table.
ReadIsPast ==
    \A u \in Uows, k \in Versioned : Exists(read[u][k]) =>
        /\ read[u][k].rev <= db[k].rev
        /\ read[u][k].rev = db[k].rev => read[u][k] = db[k]

\* Nothing is staged before the snapshot is complete.
StagedLater == \A u \in Uows : phase[u] = "new" => new[u] = {} /\ dirty[u] = {}

\* A staged row exists; one that was only saved extends the row that was read.
StagedExtendsRead ==
    \A u \in Uows : \A k \in new[u] \cup dirty[u] :
        /\ Exists(staged[u][k])
        /\ k \notin new[u] => /\ Exists(read[u][k])
                              /\ read[u][k].rev < staged[u][k].rev
                              /\ read[u][k].done \subseteq staged[u][k].done
                              /\ ~staged[u][k].pend

\* Only runs in the table have events, as far as SQLite is concerned.
MissingRunsSilent ==
    Adapter = "sqlite" => \A r \in Runs : ~Exists(db[r]) => lastSeq[r] = 0

\* Snapshots lag behind the sequences of the store.
SnapshotsLag ==
    \A u \in Uows, r \in Runs :
        /\ base[u][r] <= lastSeq[r]
        /\ seen[u][r] \subseteq 1 .. lastSeq[r]

\* From the second table on, the events read precede the sequence read.
SeenBeforeBase ==
    \A u \in Uows :
        /\ (loaded[u] >= 2 \/ phase[u] # "new") =>
               \A r \in Runs : seen[u][r] \subseteq 1 .. base[u][r]
        /\ phase[u] = "new" => loaded[u] < Len(LoadOrder)

IInv ==
    /\ TypeOK
    /\ EventsContiguous
    /\ OnePending
    /\ MissingIsEmpty
    /\ ReadIsPast
    /\ StagedLater
    /\ StagedExtendsRead
    /\ MissingRunsSilent
    /\ SnapshotsLag
    /\ SeenBeforeBase

-----------------------------------------------------------------------------
(* The initial state, and the steps that leave the store alone.            *)

\* A fresh database and units of work that have not started satisfy IInv.
LEMMA InitIInv == Init => IInv
<1> SUFFICES ASSUME Init PROVE IInv
  OBVIOUS
<1> PICK seed \in Seeds :
          /\ db = [k \in Keys |->
                     IF k \in seed
                     THEN [rev |-> 0, done |-> {}, pend |-> k \in Approvals]
                     ELSE NoRow]
          /\ log = {[run |-> r, seq |-> 1, by |-> "create_run"] : r \in Runs \cap seed}
          /\ lastSeq = [r \in Runs |-> IF r \in seed THEN 1 ELSE 0]
  BY DEF Init
<1>1. TypeOK
  <2>1. db \in [Keys -> Row]
    BY DEF Row, NoRow
  <2>2. \A e \in log : e.run \in Runs /\ e.seq \in Nat
    OBVIOUS
  <2> QED
    BY <2>1, <2>2 DEF Init, TypeOK, Row, NoRow, Phases, LoadOrder
<1>2. EventsContiguous
  <2>1. \A r \in Runs : Sequences(r) = 1 .. lastSeq[r]
    <3> SUFFICES ASSUME NEW r \in Runs PROVE Sequences(r) = 1 .. lastSeq[r]
      OBVIOUS
    <3>1. CASE r \in seed
      <4>1. Sequences(r) = {1}
        <5>1. [run |-> r, seq |-> 1, by |-> "create_run"] \in log
          BY <3>1
        <5>2. \A e \in log : e.seq = 1
          OBVIOUS
        <5> QED
          BY <5>1, <5>2 DEF Sequences
      <4> QED
        BY <3>1, <4>1
    <3>2. CASE r \notin seed
      BY <3>2 DEF Sequences
    <3> QED
      BY <3>1, <3>2
  <2> QED
    BY <2>1 DEF EventsContiguous
<1>3. OnePending
  BY StoreAssumption DEF OnePending, TwoPending, NoRow, Keys
<1>4. /\ MissingIsEmpty
      /\ ReadIsPast
      /\ StagedLater
      /\ StagedExtendsRead
      /\ MissingRunsSilent
  BY DEF Init, MissingIsEmpty, ReadIsPast, StagedLater, StagedExtendsRead,
         MissingRunsSilent, Exists, NoRow, Keys, Versioned
<1>5. SnapshotsLag /\ SeenBeforeBase
  BY DEF Init, SnapshotsLag, SeenBeforeBase, LoadOrder
<1> QED
  BY <1>1, <1>2, <1>3, <1>4, <1>5 DEF IInv

\* Only a commit changes the store: the invariants of the store alone persist.
LEMMA StoreUnchanged ==
  ASSUME IInv, UNCHANGED store
  PROVE  EventsContiguous' /\ OnePending' /\ MissingIsEmpty' /\ MissingRunsSilent'
BY DEF IInv, store, EventsContiguous, Sequences, OnePending, TwoPending,
       MissingIsEmpty, MissingRunsSilent

\* Reading rows into a snapshot in which nothing is staged yet.
LEMMA ReadingRows ==
  ASSUME IInv, NEW u \in Uows, phase[u] = "new",
         UNCHANGED <<store, changes>>,
         NEW f, NEW g,
         phase' = [phase EXCEPT ![u] = f],
         read' = [read EXCEPT ![u] = g],
         \A k \in Keys : g[k] \in {db[k], read[u][k]}
  PROVE  ReadIsPast' /\ StagedLater' /\ StagedExtendsRead'
<1> USE DEF IInv, store, changes, TypeOK
<1>1. ReadIsPast'
  <2> SUFFICES ASSUME NEW v \in Uows, NEW k \in Versioned, Exists(read'[v][k])
               PROVE  /\ read'[v][k].rev <= db[k].rev
                      /\ read'[v][k].rev = db[k].rev => read'[v][k] = db[k]
    BY DEF ReadIsPast
  <2>1. k \in Keys /\ db[k].rev \in Int
    BY DEF Versioned, Keys, Row
  <2>2. read'[v][k] = db[k] \/ read'[v][k] = read[v][k]
    BY <2>1
  <2> QED
    BY <2>1, <2>2 DEF ReadIsPast
<1>2. new[u] = {} /\ dirty[u] = {}
  BY DEF StagedLater
<1>3. StagedLater'
  BY <1>2 DEF StagedLater
<1>4. StagedExtendsRead'
  <2> SUFFICES ASSUME NEW v \in Uows, NEW k \in new[v] \cup dirty[v]
               PROVE  /\ Exists(staged[v][k])
                      /\ k \notin new[v] =>
                            /\ Exists(read'[v][k])
                            /\ read'[v][k].rev < staged[v][k].rev
                            /\ read'[v][k].done \subseteq staged[v][k].done
                            /\ ~staged[v][k].pend
    BY DEF StagedExtendsRead
  <2>1. v # u
    BY <1>2
  <2>2. read'[v] = read[v]
    BY <2>1
  <2> QED
    BY <2>2 DEF StagedExtendsRead
<1> QED
  BY <1>1, <1>3, <1>4

\* The memory adapter reads a consistent snapshot.
LEMMA OpenMemoryIInv ==
  ASSUME IInv, NEW u \in Uows, OpenMemory(u)
  PROVE  IInv'
<1> USE DEF IInv, OpenMemory, store, changes
<1>1. \A r \in Runs : Sequences(r) \in SUBSET Nat
  BY DEF TypeOK, Sequences
<1>2. TypeOK'
  BY <1>1 DEF TypeOK, Phases
<1>3. ReadIsPast' /\ StagedLater' /\ StagedExtendsRead'
  BY ReadingRows
<1>4. SnapshotsLag'
  BY <1>1 DEF TypeOK, SnapshotsLag, EventsContiguous
<1>5. SeenBeforeBase'
  BY DEF TypeOK, SeenBeforeBase, EventsContiguous, LoadOrder
<1> QED
  BY <1>2, <1>3, <1>4, <1>5, StoreUnchanged

\* One SELECT of the SQLite adapter.
LEMMA LoadTableIInv ==
  ASSUME IInv, NEW u \in Uows, LoadTable(u)
  PROVE  IInv'
<1> DEFINE t == LoadOrder[loaded[u] + 1]
<1> USE DEF IInv, LoadTable, store, changes
<1>1. loaded[u] \in 0 .. 6 /\ Len(LoadOrder) = 7
  BY DEF TypeOK, SeenBeforeBase, LoadOrder
<1>2. \A r \in Runs : Sequences(r) \in SUBSET Nat
  BY DEF TypeOK, Sequences
<1>3. TypeOK'
  <2>1. read' \in [Uows -> [Keys -> Row]]
    BY DEF TypeOK
  <2>2. loaded' \in [Uows -> 0 .. Len(LoadOrder)]
    BY <1>1 DEF TypeOK
  <2>3. seen' \in [Uows -> [Runs -> SUBSET Nat]] /\ base' \in [Uows -> [Runs -> Nat]]
    BY <1>2 DEF TypeOK
  <2>4. phase' \in [Uows -> Phases]
    BY DEF TypeOK, Phases
  <2> QED
    BY <2>1, <2>2, <2>3, <2>4 DEF TypeOK
<1>4. ReadIsPast' /\ StagedLater' /\ StagedExtendsRead'
  <2> DEFINE g == [k \in Keys |-> IF k \in Table(t) THEN db[k] ELSE read[u][k]]
  <2>1. \A k \in Keys : g[k] \in {db[k], read[u][k]}
    OBVIOUS
  <2>2. read' = [read EXCEPT ![u] = g]
    OBVIOUS
  <2>3. phase' = [phase EXCEPT ![u] =
                    IF loaded[u] + 1 = Len(LoadOrder) THEN "open" ELSE "new"]
    OBVIOUS
  <2> HIDE DEF g
  <2> QED
    BY <2>1, <2>2, <2>3, ReadingRows
<1>5. SnapshotsLag'
  <2> SUFFICES ASSUME NEW v \in Uows, NEW r \in Runs
               PROVE  /\ base'[v][r] <= lastSeq[r]
                      /\ seen'[v][r] \subseteq 1 .. lastSeq[r]
    BY DEF SnapshotsLag
  <2>1. base'[v][r] = base[v][r] \/ base'[v][r] = lastSeq[r]
    BY DEF TypeOK
  <2>2. seen'[v][r] = seen[v][r] \/ seen'[v][r] = Sequences(r)
    BY DEF TypeOK
  <2>3. lastSeq[r] \in Nat /\ Sequences(r) = 1 .. lastSeq[r]
    BY DEF TypeOK, EventsContiguous
  <2> QED
    BY <2>1, <2>2, <2>3 DEF SnapshotsLag
<1>6. SeenBeforeBase'
  <2>1. loaded'[u] = loaded[u] + 1 /\ \A v \in Uows \ {u} : loaded'[v] = loaded[v]
    BY DEF TypeOK
  <2>2. phase'[u] = "new" => loaded'[u] < Len(LoadOrder)
    BY <1>1, <2>1 DEF TypeOK
  <2>3. \A v \in Uows \ {u} : seen'[v] = seen[v] /\ base'[v] = base[v]
                               /\ phase'[v] = phase[v]
    BY DEF TypeOK
  <2>4. ASSUME loaded'[u] >= 2 \/ phase'[u] # "new", NEW r \in Runs
        PROVE  seen'[u][r] \subseteq 1 .. base'[u][r]
    <3>1. loaded[u] >= 1
      BY <1>1, <2>1, <2>4 DEF TypeOK
    <3>2. CASE loaded[u] = 1
      <4>1. t = "sequences"
        BY <3>2 DEF LoadOrder
      <4>2. seen' = seen /\ base'[u] = lastSeq
        BY <4>1 DEF TypeOK
      <4> QED
        BY <4>2 DEF SnapshotsLag
    <3>3. CASE loaded[u] >= 2
      <4>1. t # "sequences" /\ t # "events"
        BY <3>3, <1>1 DEF LoadOrder
      <4>2. seen' = seen /\ base' = base
        BY <4>1
      <4> QED
        BY <4>2, <3>3 DEF SeenBeforeBase
    <3> QED
      BY <1>1, <3>1, <3>2, <3>3
  <2> QED
    BY <2>1, <2>2, <2>3, <2>4 DEF SeenBeforeBase
<1> QED
  BY <1>3, <1>4, <1>5, <1>6, StoreUnchanged

\* Adding a row to the private snapshot.
LEMMA StageNewIInv ==
  ASSUME IInv, NEW u \in Uows, NEW k \in Keys, StageNew(u, k)
  PROVE  IInv'
<1> USE DEF IInv, StageNew, store, snapshot
<1>1. TypeOK'
  BY DEF TypeOK, Row
<1>2. StagedExtendsRead'
  <2> SUFFICES ASSUME NEW v \in Uows, NEW l \in new'[v] \cup dirty[v]
               PROVE  /\ Exists(staged'[v][l])
                      /\ l \notin new'[v] =>
                            /\ Exists(read[v][l])
                            /\ read[v][l].rev < staged'[v][l].rev
                            /\ read[v][l].done \subseteq staged'[v][l].done
                            /\ ~staged'[v][l].pend
    BY DEF StagedExtendsRead
  <2>1. CASE v = u /\ l = k
    BY <2>1 DEF TypeOK, Exists
  <2>2. CASE ~(v = u /\ l = k)
    <3>1. staged'[v][l] = staged[v][l] /\ l \in new[v] \cup dirty[v]
          /\ (l \in new[v] <=> l \in new'[v])
      BY <2>2 DEF TypeOK
    <3> QED
      BY <3>1 DEF StagedExtendsRead
  <2> QED
    BY <2>1, <2>2
<1>3. ReadIsPast' /\ StagedLater' /\ SnapshotsLag' /\ SeenBeforeBase'
  BY DEF TypeOK, ReadIsPast, StagedLater, SnapshotsLag, SeenBeforeBase, Writable
<1> QED
  BY <1>1, <1>2, <1>3, StoreUnchanged

\* Saving a row in the private snapshot.
LEMMA StageSaveIInv ==
  ASSUME IInv, NEW u \in Uows, NEW k \in Keys, StageSave(u, k)
  PROVE  IInv'
<1> USE DEF IInv, StageSave, store, snapshot
<1>1. Visible(u, k) \in Row
  BY DEF TypeOK, Visible
<1>2. TypeOK'
  BY <1>1 DEF TypeOK, Row
<1>3. StagedExtendsRead'
  <2> SUFFICES ASSUME NEW v \in Uows, NEW l \in new[v] \cup dirty'[v]
               PROVE  /\ Exists(staged'[v][l])
                      /\ l \notin new[v] =>
                            /\ Exists(read[v][l])
                            /\ read[v][l].rev < staged'[v][l].rev
                            /\ read[v][l].done \subseteq staged'[v][l].done
                            /\ ~staged'[v][l].pend
    BY DEF StagedExtendsRead
  <2>1. CASE v = u /\ l = k
    <3>1. staged'[u][k] = [rev  |-> Visible(u, k).rev + 1,
                           done |-> Visible(u, k).done \cup {u},
                           pend |-> FALSE]
      BY DEF TypeOK
    <3>2. Exists(staged'[u][k])
      BY <1>1, <3>1 DEF Exists, Row
    <3>3. k \notin new[u] => /\ Exists(read[u][k])
                             /\ read[u][k].rev <= Visible(u, k).rev
                             /\ read[u][k].done \subseteq Visible(u, k).done
      <4>1. CASE k \in dirty[u]
        BY <4>1 DEF StagedExtendsRead, Visible, TypeOK, Row
      <4>2. CASE k \notin dirty[u]
        BY <4>2 DEF Visible, TypeOK, Row
      <4> QED
        BY <4>1, <4>2
    <3>4. read[u][k].rev \in Int /\ Visible(u, k).rev \in Int
      BY <1>1 DEF TypeOK, Row
    <3> QED
      BY <2>1, <3>1, <3>2, <3>3, <3>4
  <2>2. CASE ~(v = u /\ l = k)
    <3>1. staged'[v][l] = staged[v][l] /\ l \in new[v] \cup dirty[v]
      BY <2>2 DEF TypeOK
    <3> QED
      BY <3>1 DEF StagedExtendsRead
  <2> QED
    BY <2>1, <2>2
<1>4. ReadIsPast' /\ StagedLater' /\ SnapshotsLag' /\ SeenBeforeBase'
  BY DEF TypeOK, ReadIsPast, StagedLater, SnapshotsLag, SeenBeforeBase, Writable
<1> QED
  BY <1>2, <1>3, <1>4, StoreUnchanged

\* Staging an event.
LEMMA AppendEventIInv ==
  ASSUME IInv, NEW u \in Uows, NEW r \in Runs, AppendEvent(u, r)
  PROVE  IInv'
<1> USE DEF IInv, AppendEvent, store, snapshot
<1>1. TypeOK'
  BY DEF TypeOK
<1>2. /\ ReadIsPast' /\ StagedLater' /\ StagedExtendsRead'
      /\ SnapshotsLag' /\ SeenBeforeBase'
  BY DEF ReadIsPast, StagedLater, StagedExtendsRead, SnapshotsLag, SeenBeforeBase
<1> QED
  BY <1>1, <1>2, StoreUnchanged

\* A unit of work that ends without a commit.
LEMMA RollbackIInv ==
  ASSUME IInv, NEW u \in Uows, phase[u] = "open",
         phase' = [phase EXCEPT ![u] = "rolled_back"],
         why' \in [Uows -> Reasons \cup {"none", "busy"}],
         UNCHANGED <<store, snapshot, changes>>
  PROVE  IInv'
<1> USE DEF IInv, store, snapshot, changes
<1>1. TypeOK'
  BY DEF TypeOK, Phases
<1>2. /\ ReadIsPast' /\ StagedLater' /\ StagedExtendsRead'
      /\ SnapshotsLag' /\ SeenBeforeBase'
  BY DEF TypeOK, ReadIsPast, StagedLater, StagedExtendsRead, SnapshotsLag,
         SeenBeforeBase
<1> QED
  BY <1>1, <1>2, StoreUnchanged

-----------------------------------------------------------------------------
(* The commit.                                                             *)

\* What a commit that is not refused knows of the store, whatever the adapter.
LEMMA CommitAccepted ==
  ASSUME IInv, NEW u \in Uows, Commit(u)
  PROVE  /\ \A k \in new[u] : ~Exists(db[k])
         /\ \A k \in (dirty[u] \ new[u]) \cap Versioned : db[k].rev = read[u][k].rev
         /\ Adapter = "sqlite" => ~Dangling(u) /\ ~IndexRejects(u)
         /\ Adapter = "memory" => ~TwoPending(Merged(u))
<1>1. \A w \in Reasons : ~Refuses(u, w)
  BY DEF Commit
<1>2. CASE Adapter = "sqlite"
  <2>1. \A w \in Reasons : ~SQLiteRefuses(u, w)
    BY <1>1, <1>2 DEF Refuses
  <2> QED
    BY <1>2, <2>1 DEF SQLiteRefuses, Reasons, Taken, Stale
<1>3. CASE Adapter = "memory"
  <2>1. \A w \in Reasons : ~MemoryRefuses(u, w)
    BY <1>1, <1>3 DEF Refuses
  <2> QED
    BY <1>3, <2>1 DEF MemoryRefuses, Reasons, MemoryTaken, MemoryStale,
                      MemoryPendingTwice
<1> QED
  BY <1>2, <1>3, StoreAssumption

\* A commit extends the rows it replaces and removes none.
LEMMA CommitExtends ==
  ASSUME IInv, NEW u \in Uows, Commit(u)
  PROVE  /\ \A k \in Versioned :
               db'[k] # db[k] => /\ db[k].done \subseteq db'[k].done
                                 /\ db[k].rev < db'[k].rev
         /\ \A k \in Keys : Exists(db[k]) => Exists(db'[k])
         /\ \A k \in new[u] \cup dirty[u] : Exists(db'[k])
<1> USE DEF IInv
<1>1. \A k \in Keys : db'[k] = IF k \in new[u] \cup dirty[u] THEN staged[u][k]
                                                         ELSE db[k]
  BY DEF Commit, Merged
<1>2. new[u] \subseteq Keys /\ dirty[u] \subseteq Keys
  BY DEF TypeOK
<1>3. \A k \in new[u] \cup dirty[u] : Exists(db'[k])
  BY <1>1, <1>2 DEF StagedExtendsRead
<1>4. ASSUME NEW k \in Versioned, db'[k] # db[k]
      PROVE  db[k].done \subseteq db'[k].done /\ db[k].rev < db'[k].rev
  <2>1. k \in Keys /\ k \in new[u] \cup dirty[u] /\ db'[k] = staged[u][k]
    BY <1>1, <1>4 DEF Versioned, Keys
  <2>2. CASE k \in new[u]
    <3>1. db[k] = NoRow
      BY <2>1, <2>2, CommitAccepted DEF MissingIsEmpty
    <3>2. staged[u][k].rev \in Int /\ Exists(staged[u][k])
      BY <2>1 DEF StagedExtendsRead, TypeOK, Row
    <3> QED
      BY <2>1, <3>1, <3>2 DEF NoRow, Exists
  <2>3. CASE k \notin new[u]
    <3>1. db[k].rev = read[u][k].rev
      BY <1>4, <2>1, <2>3, CommitAccepted
    <3>2. Exists(read[u][k])
      BY <2>1, <2>3 DEF StagedExtendsRead
    <3>3. read[u][k] = db[k]
      BY <1>4, <3>1, <3>2 DEF ReadIsPast
    <3> QED
      BY <2>1, <2>3, <3>3 DEF StagedExtendsRead
  <2> QED
    BY <2>2, <2>3
<1> QED
  BY <1>1, <1>3, <1>4

\* The events of a commit continue the sequence of each run.
LEMMA CommitSequences ==
  ASSUME IInv, NEW u \in Uows, Commit(u)
  PROVE  /\ \A r \in Runs : lastSeq'[r] = lastSeq[r] + appended[u][r]
         /\ \A r \in Runs : {e.seq : e \in {f \in Published(u) : f.run = r}}
                            = lastSeq[r] + 1 .. lastSeq[r] + appended[u][r]
         /\ \A e \in Published(u) : /\ e.run \in Runs
                                    /\ e.seq \in lastSeq[e.run] + 1
                                         .. lastSeq[e.run] + appended[u][e.run]
                                    /\ e = [run |-> e.run, seq |-> e.seq, by |-> u]
<1> USE DEF IInv
<1>1. \A r \in Runs : /\ lastSeq[r] \in Nat
                      /\ base[u][r] \in Nat
                      /\ appended[u][r] \in Nat
  BY DEF TypeOK
<1>2. ASSUME NEW r \in Runs PROVE lastSeq'[r] = lastSeq[r] + appended[u][r]
  <2>1. lastSeq'[r] = PublishedSequence(u, r)
    BY <1>2 DEF Commit
  <2>2. CASE appended[u][r] = 0 /\ Adapter = "sqlite" /\ r \in new[u]
    <3>1. ~Exists(db[r])
      BY <2>2, CommitAccepted
    <3>2. lastSeq[r] = 0
      BY <1>2, <2>2, <3>1 DEF MissingRunsSilent
    <3>3. base[u][r] <= lastSeq[r]
      BY <1>2 DEF SnapshotsLag
    <3> QED
      BY <1>1, <1>2, <2>1, <2>2, <3>2, <3>3 DEF PublishedSequence
  <2>3. CASE ~(appended[u][r] = 0 /\ Adapter = "sqlite" /\ r \in new[u])
    BY <2>1, <2>3 DEF PublishedSequence, LastSequence
  <2> QED
    BY <2>2, <2>3
<1>3. ASSUME NEW e \in Published(u)
      PROVE  /\ e.run \in Runs
             /\ e.seq \in lastSeq[e.run] + 1 .. lastSeq[e.run] + appended[u][e.run]
             /\ e = [run |-> e.run, seq |-> e.seq, by |-> u]
  <2>1. PICK r \in Runs : \E i \in 1 .. appended[u][r] :
                 e = [run |-> r, seq |-> lastSeq[r] + i, by |-> u]
    BY <1>3 DEF Published, LastSequence
  <2>2. PICK i \in 1 .. appended[u][r] :
                 e = [run |-> r, seq |-> lastSeq[r] + i, by |-> u]
    BY <2>1
  <2> QED
    BY <1>1, <2>2
<1>4. ASSUME NEW r \in Runs, NEW n \in lastSeq[r] + 1 .. lastSeq[r] + appended[u][r]
      PROVE  [run |-> r, seq |-> n, by |-> u] \in Published(u)
  <2>1. n - lastSeq[r] \in 1 .. appended[u][r] /\ lastSeq[r] + (n - lastSeq[r]) = n
    BY <1>1, <1>4
  <2> QED
    BY <1>4, <2>1 DEF Published, LastSequence
<1>5. \A r \in Runs : {e.seq : e \in {f \in Published(u) : f.run = r}}
                     = lastSeq[r] + 1 .. lastSeq[r] + appended[u][r]
  <2> TAKE r \in Runs
  <2> DEFINE S == {e.seq : e \in {f \in Published(u) : f.run = r}}
  <2>1. \A n \in S : n \in lastSeq[r] + 1 .. lastSeq[r] + appended[u][r]
    BY <1>3
  <2>2. ASSUME NEW n \in lastSeq[r] + 1 .. lastSeq[r] + appended[u][r]
        PROVE  n \in S
    <3> DEFINE e == [run |-> r, seq |-> n, by |-> u]
    <3>1. e \in {f \in Published(u) : f.run = r} /\ e.seq = n
      BY <1>4
    <3> HIDE DEF e
    <3> QED
      BY <3>1
  <2> QED
    BY <2>1, <2>2
<1> QED
  BY <1>2, <1>3, <1>5

\* A commit preserves the invariant.
LEMMA CommitIInv ==
  ASSUME IInv, NEW u \in Uows, Commit(u)
  PROVE  IInv'
<1> USE DEF IInv
<1>1. /\ \A k \in Keys : db'[k] = IF k \in new[u] \cup dirty[u] THEN staged[u][k]
                                                            ELSE db[k]
      /\ log' = log \cup Published(u)
      /\ UNCHANGED <<loaded, read, staged, new, dirty, ops, why>>
      /\ phase[u] = "open"
      /\ phase' = [phase EXCEPT ![u] = "committed"]
  BY DEF Commit, Merged
<1>2. \A r \in Runs : /\ lastSeq[r] \in Nat
                      /\ appended[u][r] \in Nat
                      /\ base[u][r] \in Nat
                      /\ lastSeq'[r] = lastSeq[r] + appended[u][r]
  BY CommitSequences DEF TypeOK
<1>3. \A r \in Runs :
        /\ base'[u][r] \in {base[u][r], lastSeq'[r]}
        /\ seen'[u][r] \in {seen[u][r],
                            seen[u][r] \cup (lastSeq[r] + 1 .. lastSeq[r] + appended[u][r])}
        /\ appended[u][r] = 0 \/ seen'[u][r] = seen[u][r] \/ base'[u][r] = lastSeq'[r]
        /\ appended'[u][r] \in Nat
  <2>1. CASE Adapter = "sqlite"
    <3>1. \A r \in Runs : lastSeq'[r] = PublishedSequence(u, r)
      BY DEF Commit
    <3>2. \A r \in Runs : base'[u][r] = IF appended[u][r] > 0
                                        THEN PublishedSequence(u, r)
                                        ELSE base[u][r]
      BY <2>1 DEF Commit, TypeOK
    <3>3. \A r \in Runs : seen'[u][r] = seen[u][r] \cup
                              {e.seq : e \in {f \in Published(u) : f.run = r}}
      BY <2>1 DEF Commit, TypeOK
    <3>4. \A r \in Runs : appended'[u][r] = 0
      BY <2>1 DEF Commit, TypeOK
    <3>5. \A r \in Runs : seen'[u][r] = seen[u][r] \cup
                              (lastSeq[r] + 1 .. lastSeq[r] + appended[u][r])
      BY <3>3, CommitSequences
    <3>6. \A r \in Runs : appended[u][r] = 0 \/ base'[u][r] = lastSeq'[r]
      BY <1>2, <3>1, <3>2
    <3> QED
      BY <1>2, <3>1, <3>2, <3>4, <3>5, <3>6
  <2>2. CASE Adapter # "sqlite"
    BY <1>2, <2>2 DEF Commit
  <2> QED
    BY <2>1, <2>2
<1>4. \A v \in Uows \ {u} : /\ base'[v] = base[v]
                            /\ seen'[v] = seen[v]
                            /\ phase'[v] = phase[v]
  BY DEF Commit, TypeOK
<1>5. TypeOK'
  <2>1. db' \in [Keys -> Row]
    BY DEF Commit, Merged, TypeOK
  <2>2. \A e \in log' : e.run \in Runs /\ e.seq \in Nat
    BY <1>1, <1>2, CommitSequences DEF TypeOK
  <2>3. lastSeq' \in [Runs -> Nat]
    <3>1. lastSeq' = [r \in Runs |-> PublishedSequence(u, r)]
      BY DEF Commit
    <3> QED
      BY <3>1, <1>2
  <2>4. phase' \in [Uows -> Phases]
    BY <1>1 DEF TypeOK, Phases
  <2>5. /\ seen' \in [Uows -> [Runs -> SUBSET Nat]]
        /\ base' \in [Uows -> [Runs -> Nat]]
        /\ appended' \in [Uows -> [Runs -> Nat]]
    <3>1. CASE Adapter = "sqlite"
      <4>1. \A r \in Runs : {e.seq : e \in {f \in Published(u) : f.run = r}} \subseteq Nat
        BY <1>2, CommitSequences
      <4>2. \A r \in Runs : PublishedSequence(u, r) \in Nat
        BY <1>2 DEF Commit
      <4>3. /\ seen \in [Uows -> [Runs -> SUBSET Nat]]
            /\ base \in [Uows -> [Runs -> Nat]]
            /\ appended \in [Uows -> [Runs -> Nat]]
        BY DEF TypeOK
      <4>4. seen' \in [Uows -> [Runs -> SUBSET Nat]]
        <5> DEFINE g == [r \in Runs |-> seen[u][r] \cup
                            {e.seq : e \in {f \in Published(u) : f.run = r}}]
        <5>1. g \in [Runs -> SUBSET Nat]
          BY <4>1, <4>3
        <5>2. seen' = [seen EXCEPT ![u] = g]
          BY <3>1 DEF Commit
        <5> HIDE DEF g
        <5> QED
          BY <4>3, <5>1, <5>2
      <4>5. base' \in [Uows -> [Runs -> Nat]]
        <5> DEFINE g == [r \in Runs |-> IF appended[u][r] > 0
                                        THEN PublishedSequence(u, r)
                                        ELSE base[u][r]]
        <5>1. g \in [Runs -> Nat]
          BY <4>2, <4>3
        <5>2. base' = [base EXCEPT ![u] = g]
          BY <3>1 DEF Commit
        <5> HIDE DEF g
        <5> QED
          BY <4>3, <5>1, <5>2
      <4>6. appended' \in [Uows -> [Runs -> Nat]]
        <5>1. appended' = [appended EXCEPT ![u] = [r \in Runs |-> 0]]
          BY <3>1 DEF Commit
        <5> QED
          BY <4>3, <5>1
      <4> QED
        BY <4>4, <4>5, <4>6
    <3>2. CASE Adapter # "sqlite"
      BY <3>2 DEF Commit, TypeOK
    <3> QED
      BY <3>1, <3>2
  <2> QED
    BY <1>1, <2>1, <2>2, <2>3, <2>4, <2>5 DEF TypeOK
<1>6. EventsContiguous'
  <2>1. ASSUME NEW r \in Runs PROVE Sequences(r)' = 1 .. lastSeq'[r]
    <3>1. Sequences(r)' = Sequences(r) \cup {e.seq : e \in {f \in Published(u) : f.run = r}}
      BY <1>1 DEF Sequences
    <3>2. Sequences(r)' = (1 .. lastSeq[r])
                            \cup (lastSeq[r] + 1 .. lastSeq[r] + appended[u][r])
      BY <2>1, <3>1, CommitSequences DEF EventsContiguous
    <3> QED
      BY <1>2, <2>1, <3>2
  <2>2. ASSUME NEW e \in log', NEW f \in log', e.run = f.run, e.seq = f.seq
        PROVE  e = f
    <3>1. \A g \in log : g.run \in Runs /\ g.seq \in 1 .. lastSeq[g.run]
      BY DEF EventsContiguous, Sequences, TypeOK
    <3>2. \A g \in Published(u) : /\ g.run \in Runs
                                 /\ g.seq > lastSeq[g.run]
                                 /\ g = [run |-> g.run, seq |-> g.seq, by |-> u]
      BY <1>2, CommitSequences
    <3>3. CASE e \in log /\ f \in log
      BY <2>2, <3>3 DEF EventsContiguous
    <3>4. CASE e \in Published(u) /\ f \in Published(u)
      BY <2>2, <3>2, <3>4
    <3>5. CASE e \in log /\ f \in Published(u)
      BY <1>2, <2>2, <3>1, <3>2, <3>5
    <3>6. CASE e \in Published(u) /\ f \in log
      BY <1>2, <2>2, <3>1, <3>2, <3>6
    <3> QED
      BY <1>1, <2>2, <3>3, <3>4, <3>5, <3>6
  <2> QED
    BY <2>1, <2>2 DEF EventsContiguous
<1>7. OnePending'
  <2>1. db' = Merged(u)
    BY DEF Commit
  <2>2. CASE Adapter = "memory"
    BY <2>1, <2>2, CommitAccepted DEF OnePending, TwoPending
  <2>3. CASE Adapter = "sqlite"
    <3> DEFINE ins == [k \in Keys |-> IF k \in new[u] THEN staged[u][k] ELSE db[k]]
    <3>1. ~TwoPending(ins)
      BY <2>3, CommitAccepted DEF IndexRejects
    <3>2. \A p \in Approvals : db'[p].pend => ins[p].pend
      <4> TAKE p \in Approvals
      <4>1. p \in Keys
        BY DEF Keys
      <4>2. CASE p \in dirty[u] \ new[u]
        BY <1>1, <4>1, <4>2 DEF StagedExtendsRead
      <4>3. CASE p \notin dirty[u] \ new[u]
        BY <1>1, <4>1, <4>3
      <4> QED
        BY <4>2, <4>3
    <3> HIDE DEF ins
    <3> QED
      BY <3>1, <3>2 DEF OnePending, TwoPending
  <2> QED
    BY <2>2, <2>3, StoreAssumption
<1>8. MissingIsEmpty'
  BY <1>1, CommitExtends DEF MissingIsEmpty
<1>9. ReadIsPast'
  <2> SUFFICES ASSUME NEW v \in Uows, NEW k \in Versioned, Exists(read[v][k])
               PROVE  /\ read[v][k].rev <= db'[k].rev
                      /\ read[v][k].rev = db'[k].rev => read[v][k] = db'[k]
    BY <1>1 DEF ReadIsPast
  <2>1. k \in Keys
    BY DEF Versioned, Keys
  <2>2. read[v][k].rev \in Int /\ db[k].rev \in Int /\ db'[k].rev \in Int
    <3>1. read[v][k] \in Row /\ db[k] \in Row
      BY <2>1 DEF TypeOK
    <3>2. db'[k] \in Row
      BY <1>5, <2>1 DEF TypeOK, Row
    <3> QED
      BY <3>1, <3>2 DEF Row
  <2>3. db'[k] = db[k] \/ db[k].rev < db'[k].rev
    BY CommitExtends
  <2> QED
    BY <2>2, <2>3 DEF ReadIsPast
<1>10. StagedLater' /\ StagedExtendsRead'
  BY <1>1 DEF StagedLater, StagedExtendsRead, TypeOK
<1>11. MissingRunsSilent'
  <2> SUFFICES ASSUME Adapter = "sqlite", NEW r \in Runs, ~Exists(db'[r])
               PROVE  lastSeq'[r] = 0
    BY DEF MissingRunsSilent
  <2>1. r \in Keys /\ ~Exists(db[r]) /\ r \notin new[u]
    BY CommitExtends DEF Keys
  <2>2. ~(appended[u][r] > 0)
    BY <2>1, CommitAccepted DEF Dangling
  <2> QED
    BY <1>2, <2>1, <2>2 DEF MissingRunsSilent
<1>12. SnapshotsLag'
  <2> SUFFICES ASSUME NEW v \in Uows, NEW r \in Runs
               PROVE  /\ base'[v][r] <= lastSeq'[r]
                      /\ seen'[v][r] \subseteq 1 .. lastSeq'[r]
    BY DEF SnapshotsLag
  <2>1. base[v][r] <= lastSeq[r] /\ seen[v][r] \subseteq 1 .. lastSeq[r]
        /\ base[v][r] \in Nat
    BY DEF SnapshotsLag, TypeOK
  <2>2. CASE v = u
    BY <1>2, <1>3, <2>1, <2>2
  <2>3. CASE v # u
    BY <1>2, <1>4, <2>1, <2>3
  <2> QED
    BY <2>2, <2>3
<1>13. SeenBeforeBase'
  <2>1. ASSUME NEW r \in Runs PROVE seen'[u][r] \subseteq 1 .. base'[u][r]
    <3>1. seen[u][r] \subseteq 1 .. base[u][r] /\ base[u][r] <= lastSeq[r]
      BY <1>1, <2>1 DEF SeenBeforeBase, SnapshotsLag
    <3>2. CASE appended[u][r] = 0
      <4>1. lastSeq[r] + 1 .. lastSeq[r] + appended[u][r] = {}
        BY <1>2, <2>1, <3>2
      <4>2. seen'[u][r] = seen[u][r]
        BY <1>3, <2>1, <4>1
      <4> QED
        BY <1>2, <1>3, <2>1, <3>1, <3>2, <4>2
    <3>3. CASE seen'[u][r] = seen[u][r]
      BY <1>2, <1>3, <2>1, <3>1, <3>3
    <3>4. CASE base'[u][r] = lastSeq'[r]
      BY <1>2, <1>3, <2>1, <3>1, <3>4
    <3> QED
      BY <1>3, <2>1, <3>2, <3>3, <3>4
  <2> QED
    BY <1>1, <1>4, <2>1 DEF SeenBeforeBase, TypeOK
<1> QED
  BY <1>5, <1>6, <1>7, <1>8, <1>9, <1>10, <1>11, <1>12, <1>13

-----------------------------------------------------------------------------
(* The theorems.                                                           *)

\* Every step preserves the invariant.
LEMMA NextIInv == IInv /\ [Next]_vars => IInv'
<1> SUFFICES ASSUME IInv, [Next]_vars PROVE IInv'
  OBVIOUS
<1>1. CASE UNCHANGED vars
  <2> USE <1>1 DEF vars, store, snapshot, changes
  <2>1. TypeOK'
    BY DEF IInv, TypeOK
  <2>2. /\ ReadIsPast' /\ StagedLater' /\ StagedExtendsRead'
        /\ SnapshotsLag' /\ SeenBeforeBase'
    BY DEF IInv, ReadIsPast, StagedLater, StagedExtendsRead, SnapshotsLag,
           SeenBeforeBase
  <2> QED
    BY <2>1, <2>2, StoreUnchanged DEF IInv
<1>2. ASSUME NEW u \in Uows, UowNext(u) PROVE IInv'
  <2>1. CASE OpenMemory(u)
    BY <2>1, OpenMemoryIInv
  <2>2. CASE LoadTable(u)
    BY <2>2, LoadTableIInv
  <2>3. CASE \E k \in Keys : StageNew(u, k)
    BY <2>3, StageNewIInv
  <2>4. CASE \E k \in Keys : StageSave(u, k)
    BY <2>4, StageSaveIInv
  <2>5. CASE \E r \in Runs : AppendEvent(u, r)
    BY <2>5, AppendEventIInv
  <2>6. CASE Commit(u)
    BY <2>6, CommitIInv
  <2>7. CASE \E w \in Reasons : CommitRefused(u, w)
    <3>1. why' \in [Uows -> Reasons \cup {"none", "busy"}]
      BY <2>7 DEF CommitRefused, IInv, TypeOK
    <3> QED
      BY <2>7, <3>1, RollbackIInv DEF CommitRefused
  <2>8. CASE CommitBusy(u)
    <3>1. why' \in [Uows -> Reasons \cup {"none", "busy"}]
      BY <2>8 DEF CommitBusy, IInv, TypeOK
    <3> QED
      BY <2>8, <3>1, RollbackIInv DEF CommitBusy
  <2>9. CASE Exit(u)
    <3>1. why' \in [Uows -> Reasons \cup {"none", "busy"}]
      BY <2>9 DEF Exit, IInv, TypeOK
    <3> QED
      BY <2>9, <3>1, RollbackIInv DEF Exit
  <2> QED
    BY <1>2, <2>1, <2>2, <2>3, <2>4, <2>5, <2>6, <2>7, <2>8, <2>9
       DEF UowNext, AddDefinition, AddRun, SaveRun, AddStep, SaveStep, AddAttempt,
           SaveAttempt, AddApproval, SaveApproval, Keys
<1> QED
  BY <1>1, <1>2 DEF Next, Finished

\* The inductive invariant holds in every behaviour.
THEOREM StoreInvariant == Spec => []IInv
BY InitIInv, NextIInv, PTL DEF Spec

(***************************************************************************)
(* For any number of concurrent units of work and runs, over either        *)
(* adapter, the audit events of a run are numbered without gaps or         *)
(* duplicates (_allocate_published_events).                                *)
(***************************************************************************)
THEOREM SequencesContiguous == Spec => []EventsContiguous
<1>1. IInv => EventsContiguous
  BY DEF IInv
<1> QED
  BY <1>1, StoreInvariant, PTL

(***************************************************************************)
(* No run ever has two pending approval requests, although both adapters   *)
(* check this in different ways and only at the commit.                    *)
(***************************************************************************)
THEOREM SinglePending == Spec => []OnePending
<1>1. IInv => OnePending
  BY DEF IInv
<1> QED
  BY <1>1, StoreInvariant, PTL

(***************************************************************************)
(* What events.list returns is ordered even over a torn SQLite snapshot,   *)
(* because the events are read before the sequences.                       *)
(***************************************************************************)
THEOREM ListingsOrdered == Spec => []EventsListedInOrder
<1>1. IInv => EventsListedInOrder
  BY DEF IInv, SeenBeforeBase, EventsListedInOrder
<1> QED
  BY <1>1, StoreInvariant, PTL

(***************************************************************************)
(* No commit loses what an earlier one did to a run, a step or an approval *)
(* (the expected revisions of save).                                       *)
(***************************************************************************)
THEOREM UpdatesKept == Spec => NoLostUpdate
<1> DEFINE Kept == \A k \in Versioned :
                     db'[k] # db[k] => /\ db[k].done \subseteq db'[k].done
                                       /\ db[k].rev < db'[k].rev
<1>1. IInv /\ [Next]_vars => [Kept]_vars
  <2> SUFFICES ASSUME IInv, Next PROVE Kept \/ UNCHANGED vars
    OBVIOUS
  <2>1. CASE \E u \in Uows : Commit(u)
    BY <2>1, CommitExtends
  <2>2. CASE UNCHANGED db
    BY <2>2
  <2> QED
    BY <2>1, <2>2
       DEF Next, Finished, vars, UowNext, OpenMemory, LoadTable, AddDefinition,
           AddRun, SaveRun, AddStep, SaveStep, AddAttempt, SaveAttempt, AddApproval,
           SaveApproval, StageNew, StageSave, AppendEvent, CommitRefused, CommitBusy,
           Exit, store
<1> QED
  BY <1>1, StoreInvariant, PTL DEF Spec, NoLostUpdate

-----------------------------------------------------------------------------
(* Who changed a row that is not as it was read.                           *)

\* The SELECT of the table of k is done.
Loaded(u, k) == \/ phase[u] # "new"
                \/ \E i \in 1 .. loaded[u] : k \in Table(LoadOrder[i])

\* Another unit of work has committed a change of k.
ChangedByOther(u, k) ==
    \E v \in Uows \ {u} : phase[v] = "committed" /\ k \in new[v] \cup dirty[v]

\* Rows are as they were read, unless another unit of work has changed them.
ReadIsPresent ==
    \A u \in Uows, k \in Keys :
        Loaded(u, k) /\ phase[u] # "committed" =>
            read[u][k] = db[k] \/ ChangedByOther(u, k)

RefusedIsOver == \A u \in Uows : why[u] \in {"unique", "lock"} => phase[u] = "rolled_back"

AuthorInv == ReadIsPresent /\ RefusedIsOver /\ DisjointCommitsMerge

\* All the tables are read when the snapshot is complete.
LEMMA AllTablesRead ==
    ASSUME NEW k \in Keys
    PROVE  \E i \in 1 .. Len(LoadOrder) : k \in Table(LoadOrder[i])
<1>1. /\ Len(LoadOrder) = 7 /\ LoadOrder[3] = "definitions" /\ LoadOrder[4] = "runs"
      /\ LoadOrder[5] = "steps" /\ LoadOrder[6] = "attempts" /\ LoadOrder[7] = "approvals"
  BY DEF LoadOrder
<1>2. /\ Table("definitions") = Definitions /\ Table("runs") = Runs
      /\ Table("steps") = Steps /\ Table("attempts") = Attempts
      /\ Table("approvals") = Approvals
  BY DEF Table
<1>3. /\ 3 \in 1..7 /\ 4 \in 1..7 /\ 5 \in 1..7 /\ 6 \in 1..7 /\ 7 \in 1..7
  OBVIOUS
<1> QED
  BY <1>1, <1>2, <1>3, Zenon DEF Keys

\* What a committed unit of work has changed stays changed.
LEMMA AuthorsStay ==
    ASSUME NEW u \in Uows, NEW k \in Keys, ChangedByOther(u, k),
           \A v \in Uows : phase[v] = "committed" =>
              phase'[v] = "committed" /\ new'[v] = new[v] /\ dirty'[v] = dirty[v]
    PROVE  ChangedByOther(u, k)'
BY DEF ChangedByOther

\* A unit of work u that reads, stages or is over changes nothing for the others.
LEMMA OthersStand ==
    ASSUME AuthorInv, NEW u \in Uows, UNCHANGED store,
           phase[u] # "committed", phase'[u] # "committed",
           \A v \in Uows \ {u} : /\ phase'[v] = phase[v] /\ loaded'[v] = loaded[v]
                                 /\ read'[v] = read[v] /\ why'[v] = why[v]
                                 /\ new'[v] = new[v] /\ dirty'[v] = dirty[v],
           new[u] \subseteq new'[u], dirty[u] \subseteq dirty'[u],
           \A k \in Keys : Loaded(u, k)' =>
              read'[u][k] = db[k] \/ (Loaded(u, k) /\ read'[u][k] = read[u][k]),
           why'[u] \in {"unique", "lock"} =>
              /\ phase'[u] = "rolled_back"
              /\ \/ why[u] = why'[u] /\ read'[u] = read[u]
                 \/ \E k \in new'[u] : Exists(read'[u][k])
                 \/ \E k \in (new'[u] \cup dirty'[u]) \cap Keys : ChangedByOther(u, k)
    PROVE  AuthorInv'
<1>1. \A v \in Uows, k \in Keys : ChangedByOther(v, k) => ChangedByOther(v, k)'
  BY AuthorsStay
<1>2. ReadIsPresent'
  <2> SUFFICES ASSUME NEW v \in Uows, NEW k \in Keys, Loaded(v, k)', phase'[v] # "committed"
               PROVE  read'[v][k] = db[k] \/ ChangedByOther(v, k)'
    BY DEF ReadIsPresent, store
  <2>1. CASE v = u
    BY <1>1, <2>1 DEF AuthorInv, ReadIsPresent
  <2>2. CASE v # u
    <3>1. Loaded(v, k) /\ phase[v] # "committed" /\ read'[v] = read[v]
      BY <2>2 DEF Loaded
    <3> QED
      BY <1>1, <3>1 DEF AuthorInv, ReadIsPresent
  <2> QED
    BY <2>1, <2>2
<1>3. RefusedIsOver'
  BY DEF AuthorInv, RefusedIsOver
<1>4. DisjointCommitsMerge'
  <2> SUFFICES ASSUME NEW v \in Uows, why'[v] \in {"unique", "lock"}
               PROVE  \/ \E k \in new'[v] : Exists(read'[v][k])
                      \/ \E w \in Uows \ {v} :
                            /\ phase'[w] = "committed"
                            /\ (new'[v] \cup dirty'[v]) \cap (new'[w] \cup dirty'[w]) # {}
    BY DEF DisjointCommitsMerge
  <2>1. ASSUME why[v] = why'[v], read'[v] = read[v]
        PROVE  \/ \E k \in new'[v] : Exists(read'[v][k])
               \/ \E w \in Uows \ {v} :
                     /\ phase'[w] = "committed"
                     /\ (new'[v] \cup dirty'[v]) \cap (new'[w] \cup dirty'[w]) # {}
    <3>1. new[v] \subseteq new'[v] /\ dirty[v] \subseteq dirty'[v]
      OBVIOUS
    <3>2. CASE \E k \in new[v] : Exists(read[v][k])
      BY <2>1, <3>1, <3>2
    <3>3. CASE \E w \in Uows \ {v} :
                  /\ phase[w] = "committed"
                  /\ (new[v] \cup dirty[v]) \cap (new[w] \cup dirty[w]) # {}
      <4>1. PICK w \in Uows \ {v} : /\ phase[w] = "committed"
                                    /\ (new[v] \cup dirty[v]) \cap (new[w] \cup dirty[w]) # {}
        BY <3>3
      <4>2. w # u /\ phase'[w] = "committed" /\ new'[w] = new[w] /\ dirty'[w] = dirty[w]
        BY <4>1
      <4> QED
        BY <3>1, <4>1, <4>2
    <3> QED
      BY <2>1, <3>2, <3>3 DEF AuthorInv, DisjointCommitsMerge
  <2>2. CASE v = u /\ \E k \in (new'[u] \cup dirty'[u]) \cap Keys : ChangedByOther(u, k)
    BY <1>1, <2>2 DEF ChangedByOther
  <2> QED
    BY <2>1, <2>2
<1> QED
  BY <1>2, <1>3, <1>4 DEF AuthorInv

\* Reading.
LEMMA ReadsKeepAuthors ==
    ASSUME IInv, AuthorInv, NEW u \in Uows, OpenMemory(u) \/ LoadTable(u)
    PROVE  AuthorInv'
<1>1. /\ UNCHANGED <<store, changes, why>> /\ phase[u] = "new"
      /\ phase'[u] \in {"new", "open"}
      /\ \A v \in Uows \ {u} : /\ phase'[v] = phase[v] /\ loaded'[v] = loaded[v]
                               /\ read'[v] = read[v]
  BY DEF OpenMemory, LoadTable, IInv, TypeOK, changes
<1>2. why[u] \notin {"unique", "lock"}
  BY <1>1 DEF AuthorInv, RefusedIsOver
<1>3. ASSUME NEW k \in Keys, Loaded(u, k)'
      PROVE  read'[u][k] = db[k] \/ (Loaded(u, k) /\ read'[u][k] = read[u][k])
  <2>1. CASE OpenMemory(u)
    BY <2>1 DEF OpenMemory, IInv, TypeOK
  <2>2. CASE LoadTable(u)
    <3> DEFINE t == LoadOrder[loaded[u] + 1]
    <3>1. /\ loaded'[u] = loaded[u] + 1 /\ loaded[u] \in 0 .. Len(LoadOrder)
          /\ phase'[u] = "new" \/ loaded[u] + 1 = Len(LoadOrder)
          /\ read'[u][k] = IF k \in Table(t) THEN db[k] ELSE read[u][k]
      BY <2>2 DEF LoadTable, IInv, TypeOK
    <3>2. \E i \in 1 .. loaded[u] + 1 : k \in Table(LoadOrder[i])
      BY <1>3, <3>1, AllTablesRead DEF Loaded
    <3>3. PICK i \in 1 .. loaded[u] + 1 : k \in Table(LoadOrder[i])
      BY <3>2
    <3>4. CASE i = loaded[u] + 1
      BY <3>1, <3>3, <3>4
    <3>5. CASE i \in 1 .. loaded[u]
      BY <3>1, <3>3, <3>5 DEF Loaded
    <3>6. loaded[u] \in Nat
      BY <3>1 DEF LoadOrder
    <3> QED
      BY <3>3, <3>4, <3>5, <3>6
  <2> QED
    BY <2>1, <2>2
<1> QED
  BY <1>1, <1>2, <1>3, OthersStand DEF changes

\* Staging a change.
LEMMA StagesKeepAuthors ==
    ASSUME IInv, AuthorInv, NEW u \in Uows,
           \/ \E k \in Keys : StageNew(u, k) \/ StageSave(u, k)
           \/ \E r \in Runs : AppendEvent(u, r)
    PROVE  AuthorInv'
<1>1. /\ UNCHANGED <<store, phase, snapshot, why>> /\ phase[u] = "open"
      /\ \A v \in Uows \ {u} : new'[v] = new[v] /\ dirty'[v] = dirty[v]
      /\ new[u] \subseteq new'[u] /\ dirty[u] \subseteq dirty'[u]
  BY DEF StageNew, StageSave, AppendEvent, Writable, IInv, TypeOK
<1>2. why[u] \notin {"unique", "lock"}
  BY <1>1 DEF AuthorInv, RefusedIsOver
<1>3. \A k \in Keys : Loaded(u, k)' => Loaded(u, k) /\ read'[u][k] = read[u][k]
  BY <1>1 DEF Loaded, snapshot
<1> QED
  BY <1>1, <1>2, <1>3, OthersStand DEF snapshot

\* A commit is refused, or the block is left.
LEMMA RefusalsKeepAuthors ==
    ASSUME IInv, AuthorInv, NEW u \in Uows,
           (\E w \in Reasons : CommitRefused(u, w)) \/ CommitBusy(u) \/ Exit(u)
    PROVE  AuthorInv'
<1>1. /\ UNCHANGED <<store, snapshot, changes>> /\ phase[u] = "open"
      /\ phase'[u] = "rolled_back"
      /\ \A v \in Uows \ {u} : phase'[v] = phase[v] /\ why'[v] = why[v]
  BY DEF CommitRefused, CommitBusy, Exit, IInv, TypeOK
<1>2. ASSUME why'[u] \in {"unique", "lock"}
      PROVE  \/ why[u] = why'[u] /\ read'[u] = read[u]
             \/ \E k \in new'[u] : Exists(read'[u][k])
             \/ \E k \in (new'[u] \cup dirty'[u]) \cap Keys : ChangedByOther(u, k)
  <2>1. CASE CommitBusy(u) \/ Exit(u)
    BY <1>1, <1>2, <2>1 DEF CommitBusy, Exit, IInv, TypeOK, snapshot
  <2>2. ASSUME NEW w \in Reasons, CommitRefused(u, w)
        PROVE  \/ \E k \in new[u] : Exists(read[u][k])
               \/ \E k \in (new[u] \cup dirty[u]) \cap Keys : ChangedByOther(u, k)
    <3>1. w \in {"unique", "lock"} /\ Refuses(u, w)
      BY <1>2, <2>2 DEF CommitRefused, IInv, TypeOK
    <3>2. \/ \E k \in new[u] : Exists(db[k])
          \/ \E k \in (dirty[u] \ new[u]) \cap Versioned : db[k].rev # read[u][k].rev
      BY <3>1 DEF Refuses, SQLiteRefuses, MemoryRefuses, Taken, Stale, MemoryTaken, MemoryStale
    <3>3. new[u] \subseteq Keys /\ dirty[u] \subseteq Keys
      BY DEF IInv, TypeOK
    <3>4. \A k \in Keys : read[u][k] = db[k] \/ ChangedByOther(u, k)
      BY <1>1 DEF AuthorInv, ReadIsPresent, Loaded
    <3>5. CASE \E k \in new[u] : Exists(db[k])
      BY <3>3, <3>4, <3>5
    <3>6. CASE \E k \in (dirty[u] \ new[u]) \cap Versioned : db[k].rev # read[u][k].rev
      BY <3>3, <3>4, <3>6
    <3> QED
      BY <3>2, <3>5, <3>6
  <2> QED
    BY <1>1, <2>1, <2>2 DEF snapshot, changes
<1>3. \A k \in Keys : Loaded(u, k)' => Loaded(u, k) /\ read'[u][k] = read[u][k]
  BY <1>1 DEF Loaded, snapshot
<1> QED
  BY <1>1, <1>2, <1>3, OthersStand DEF snapshot, changes

\* A commit is the change by another that the others may meet.
LEMMA CommitKeepsAuthors ==
    ASSUME IInv, AuthorInv, NEW u \in Uows, Commit(u)
    PROVE  AuthorInv'
<1>1. /\ phase[u] = "open" /\ phase'[u] = "committed"
      /\ \A v \in Uows \ {u} : phase'[v] = phase[v]
      /\ UNCHANGED <<loaded, read, staged, new, dirty, ops, why>>
      /\ \A k \in Keys : k \notin new[u] \cup dirty[u] => db'[k] = db[k]
  BY DEF Commit, Merged, IInv, TypeOK
<1>2. \A v \in Uows, k \in Keys : ChangedByOther(v, k) => ChangedByOther(v, k)'
  BY <1>1, AuthorsStay
<1>3. ReadIsPresent'
  <2> SUFFICES ASSUME NEW v \in Uows, NEW k \in Keys, Loaded(v, k)', phase'[v] # "committed"
               PROVE  read[v][k] = db'[k] \/ ChangedByOther(v, k)'
    BY <1>1 DEF ReadIsPresent
  <2>1. v # u /\ Loaded(v, k) /\ phase[v] # "committed"
    BY <1>1 DEF Loaded
  <2>2. CASE k \in new[u] \cup dirty[u]
    BY <1>1, <2>1, <2>2 DEF ChangedByOther
  <2>3. CASE k \notin new[u] \cup dirty[u]
    BY <1>1, <1>2, <2>1, <2>3 DEF AuthorInv, ReadIsPresent
  <2> QED
    BY <2>2, <2>3
<1>4. RefusedIsOver'
  BY <1>1 DEF AuthorInv, RefusedIsOver
<1>5. DisjointCommitsMerge'
  BY <1>1 DEF AuthorInv, DisjointCommitsMerge
<1> QED
  BY <1>3, <1>4, <1>5 DEF AuthorInv

LEMMA NextAuthors ==
    ASSUME IInv, AuthorInv, [Next]_vars
    PROVE  AuthorInv'
<1>1. CASE UNCHANGED vars
  BY <1>1 DEF vars, store, snapshot, changes, AuthorInv, ReadIsPresent, Loaded,
     ChangedByOther, RefusedIsOver, DisjointCommitsMerge
<1>2. ASSUME NEW u \in Uows, UowNext(u)
      PROVE  AuthorInv'
  BY <1>2, ReadsKeepAuthors, StagesKeepAuthors, RefusalsKeepAuthors, CommitKeepsAuthors
     DEF UowNext, AddDefinition, AddRun, SaveRun, AddStep, SaveStep, AddAttempt,
         SaveAttempt, AddApproval, SaveApproval, Keys
<1> QED
  BY <1>1, <1>2 DEF Next, Finished

(***************************************************************************)
(* Units of work that change different rows never refuse each other: a     *)
(* commit refused for a revision or a key met a row that another committed *)
(* one has changed, or added a row it could see.                           *)
(***************************************************************************)
THEOREM RefusalsHaveAuthors == Spec => []DisjointCommitsMerge
<1>1. Init => AuthorInv
  BY DEF Init, AuthorInv, ReadIsPresent, Loaded, RefusedIsOver, DisjointCommitsMerge
<1>2. IInv /\ AuthorInv /\ [Next]_vars => AuthorInv'
  BY NextAuthors
<1>3. AuthorInv => DisjointCommitsMerge
  BY DEF AuthorInv
<1> QED
  BY <1>1, <1>2, <1>3, StoreInvariant, PTL DEF Spec

-----------------------------------------------------------------------------
(* Why the memory adapter refuses a second pending request.                *)

PendingIsOver == \A u \in Uows : why[u] = "pending" => phase[u] = "rolled_back"

\* A step of a unit of work that is not over leaves the others alone.
LEMMA StepIsOwn ==
    ASSUME IInv, NEW w \in Uows, UowNext(w)
    PROVE  /\ phase[w] \in {"new", "open"}
           /\ \A v \in Uows \ {w} : /\ phase'[v] = phase[v] /\ read'[v] = read[v]
                                    /\ new'[v] = new[v] /\ dirty'[v] = dirty[v]
                                    /\ why'[v] = why[v]
<1>1. CASE OpenMemory(w) \/ LoadTable(w)
  BY <1>1 DEF OpenMemory, LoadTable, changes, IInv, TypeOK
<1>2. CASE \/ \E k \in Keys : StageNew(w, k) \/ StageSave(w, k)
           \/ \E r \in Runs : AppendEvent(w, r)
  BY <1>2 DEF StageNew, StageSave, AppendEvent, Writable, snapshot, IInv, TypeOK
<1>3. CASE Commit(w)
  BY <1>3 DEF Commit, IInv, TypeOK
<1>4. CASE (\E x \in Reasons : CommitRefused(w, x)) \/ CommitBusy(w) \/ Exit(w)
  BY <1>4 DEF CommitRefused, CommitBusy, Exit, snapshot, changes, IInv, TypeOK
<1> QED
  BY <1>1, <1>2, <1>3, <1>4
     DEF UowNext, AddDefinition, AddRun, SaveRun, AddStep, SaveStep, AddAttempt,
         SaveAttempt, AddApproval, SaveApproval, Keys

\* Only a refused commit gives the reason, and then it has one.
LEMMA RefusalIsGiven ==
    ASSUME IInv, PendingIsOver, NEW w \in Uows, UowNext(w), why'[w] = "pending"
    PROVE  CommitRefused(w, "pending")
<1>1. why[w] # "pending"
  BY StepIsOwn DEF PendingIsOver
<1>2. CASE \/ OpenMemory(w) \/ LoadTable(w) \/ Commit(w) \/ Exit(w)
           \/ \E k \in Keys : StageNew(w, k) \/ StageSave(w, k)
           \/ \E r \in Runs : AppendEvent(w, r)
  BY <1>1, <1>2 DEF OpenMemory, LoadTable, Commit, Exit, StageNew, StageSave, AppendEvent
<1>3. ASSUME NEW x \in Reasons, CommitRefused(w, x)
      PROVE  CommitRefused(w, "pending")
  BY <1>3 DEF CommitRefused, IInv, TypeOK
<1>4. CASE CommitBusy(w)
  BY <1>4 DEF CommitBusy, IInv, TypeOK
<1> QED
  BY <1>2, <1>3, <1>4
     DEF UowNext, AddDefinition, AddRun, SaveRun, AddStep, SaveStep, AddAttempt,
         SaveAttempt, AddApproval, SaveApproval, Keys

\* The merged table has two pending requests, of which one may be staged.
LEMMA TwoPendingExplained ==
    ASSUME Adapter = "memory", IInv, AuthorInv, NEW u \in Uows, CommitRefused(u, "pending")
    PROVE  \/ \E p \in Approvals \ dirty[u] : read[u][p].pend
           \/ \E p, q \in new[u] \cap Approvals : p # q
           \/ \E v \in Uows \ {u} :
                 phase[v] = "committed" /\ (new[v] \cup dirty[v]) \cap Approvals # {}
<1>1. PICK p, q \in Approvals : p # q /\ Merged(u)[p].pend /\ Merged(u)[q].pend
  BY DEF CommitRefused, Refuses, MemoryRefuses, MemoryPendingTwice, TwoPending
<1>2. ASSUME NEW r \in Approvals, r \notin new[u], Merged(u)[r].pend
      PROVE  \/ r \notin dirty[u] /\ read[u][r].pend
             \/ \E v \in Uows \ {u} :
                   phase[v] = "committed" /\ (new[v] \cup dirty[v]) \cap Approvals # {}
  <2>1. r \in Keys
    BY DEF Keys
  <2>2. r \notin dirty[u]
    BY <1>2, <2>1 DEF Merged, IInv, StagedExtendsRead
  <2>3. db[r].pend
    BY <1>2, <2>1, <2>2 DEF Merged
  <2>4. read[u][r] = db[r] \/ ChangedByOther(u, r)
    BY <2>1 DEF CommitRefused, AuthorInv, ReadIsPresent, Loaded
  <2> QED
    BY <2>2, <2>3, <2>4 DEF ChangedByOther
<1>3. CASE p \in new[u] /\ q \in new[u]
  BY <1>1, <1>3
<1>4. CASE p \notin new[u]
  BY <1>1, <1>2, <1>4
<1>5. CASE q \notin new[u]
  BY <1>1, <1>2, <1>5
<1> QED
  BY <1>3, <1>4, <1>5

LEMMA NextReplaces ==
    ASSUME Adapter = "memory", IInv, AuthorInv, PendingIsOver, PendingIsReplaced, [Next]_vars
    PROVE  PendingIsOver' /\ PendingIsReplaced'
<1>1. CASE UNCHANGED vars
  BY <1>1 DEF vars, snapshot, changes, PendingIsOver, PendingIsReplaced
<1>2. ASSUME NEW w \in Uows, UowNext(w)
      PROVE  PendingIsOver' /\ PendingIsReplaced'
  <2>1. PendingIsOver'
    <3>1. why'[w] = "pending" => phase'[w] = "rolled_back"
      BY <1>2, RefusalIsGiven DEF CommitRefused, IInv, TypeOK
    <3> QED
      BY <1>2, <3>1, StepIsOwn DEF PendingIsOver
  <2>2. ASSUME NEW u \in Uows, why'[u] = "pending"
        PROVE  \/ \E p \in Approvals \ dirty'[u] : read'[u][p].pend
               \/ \E p, q \in new'[u] \cap Approvals : p # q
               \/ \E v \in Uows \ {u} :
                     phase'[v] = "committed" /\ (new'[v] \cup dirty'[v]) \cap Approvals # {}
    <3>1. \A v \in Uows : phase[v] = "committed" =>
             phase'[v] = "committed" /\ new'[v] = new[v] /\ dirty'[v] = dirty[v]
      BY <1>2, StepIsOwn
    <3>2. CASE u = w
      <4>1. CommitRefused(w, "pending")
        BY <1>2, <2>2, <3>2, RefusalIsGiven
      <4>2. read' = read /\ new' = new /\ dirty' = dirty
        BY <4>1 DEF CommitRefused, snapshot, changes
      <4> QED
        BY <3>1, <3>2, <4>1, <4>2, TwoPendingExplained
    <3>3. CASE u # w
      <4>1. /\ why[u] = "pending" /\ read'[u] = read[u]
            /\ new'[u] = new[u] /\ dirty'[u] = dirty[u]
        BY <1>2, <2>2, <3>3, StepIsOwn
      <4> QED
        BY <3>1, <4>1 DEF PendingIsReplaced
    <3> QED
      BY <3>2, <3>3
  <2> QED
    BY <2>1, <2>2 DEF PendingIsReplaced
<1> QED
  BY <1>1, <1>2 DEF Next, Finished

(***************************************************************************)
(* The memory adapter lets a pending request be replaced: a commit refused *)
(* for a second one left the pending request it had read alone, added two, *)
(* or was overtaken by another change of the requests.                     *)
(***************************************************************************)
THEOREM RequestsAreReplaced ==
    ASSUME Adapter = "memory"
    PROVE  Spec => []PendingIsReplaced
<1>1. Init => AuthorInv /\ PendingIsOver /\ PendingIsReplaced
  BY DEF Init, AuthorInv, ReadIsPresent, Loaded, RefusedIsOver, DisjointCommitsMerge,
         PendingIsOver, PendingIsReplaced
<1>2. IInv /\ AuthorInv /\ PendingIsOver /\ PendingIsReplaced /\ [Next]_vars
        => AuthorInv' /\ PendingIsOver' /\ PendingIsReplaced'
  BY NextAuthors, NextReplaces
<1> QED
  BY <1>1, <1>2, StoreInvariant, PTL DEF Spec
=============================================================================
