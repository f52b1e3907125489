---------------------------- MODULE CachesProofs ----------------------------
(***************************************************************************)
(* The theorems about the vector indexes: the ones that the engine trains  *)
(* and persists (IndexCache), and the rows of the server's index, which    *)
(* follow the engine's documents by a log of their own (VectorIndex).      *)
(***************************************************************************)
EXTENDS VectorIndex, IndexCache, FiniteSetTheorems, WellFoundedInduction, TLAPS

USE Zenon

-----------------------------------------------------------------------------
(***************************************************************************)
(* IndexExact and CacheTrusted of module IndexCache for any vector ids,    *)
(* any number of writers and of writes, trainings, compactions and         *)
(* crashes.                                                                *)
(*                                                                         *)
(* The argument: a checkpoint (generation, bytes) never comes back once a  *)
(* frame was appended or a generation published, so metadata with the      *)
(* arena's checkpoint was encoded from the vectors the journal still has.  *)
(* For an index that is encoded with no lease this needs a checkpoint that *)
(* was read with no write in flight, which is what `raced` records.        *)
(***************************************************************************)

Vec == [Id -> Nat]
Snapshots == {"train", "shard", "reshard"}
Persisting == {"persist", "files"}
Steps == {"idle", "apply", "detached", "again"} \cup Snapshots \cup Persisting

\* The fields of a thread's op, whatever they hold.
IsOp(o) == o \in [id : {o.id}, val : {o.val}, revision : {o.revision}, snap : {o.snap},
                  kind : {o.kind}, todo : {o.todo}, meta : {o.meta}, again : {o.again}]

CacheShape ==
    /\ gen \in Nat /\ used \in Nat /\ revision \in Nat /\ written \in Nat
    /\ stored \in Vec /\ vectors \in Vec
    /\ index = [k \in Kind |-> index[k]]
    /\ pc \in [Thread -> Steps]
    /\ op = [t \in Thread |-> op[t]]
    /\ \A t \in Thread : IsOp(op[t]) /\ op[t].revision \in Nat

\* Who holds the lease, and what the others may not be doing then.
LeaseHeld ==
    /\ ~open => lease = Free /\ \A t \in Thread : pc[t] = "idle"
    /\ \A t \in Thread : pc[t] = "apply" => t \in Writer /\ lease = t /\ op[t].id \in Id
    /\ lease \in Writer => pc[lease] = "apply"
    /\ \A t \in Thread : pc[t] = "reshard" =>
          lease = t /\ t = Keeper /\ op[t].revision = revision

\* The live vectors are the journal's but for the write in flight, and the
\* indices range over the live vectors.
LiveExact ==
    open =>
      /\ lease \notin Writer => vectors = stored
      /\ lease \in Writer => stored = [vectors EXCEPT ![op[lease].id] = op[lease].val]
      /\ index["ivf"] \in {vectors, Untrained}
      /\ raced \/ index["nsg"] \in {vectors, Untrained}

\* A snapshot with the store's revision is the store.
SnapshotsExact ==
    \A t \in Thread : pc[t] \in Snapshots =>
        /\ op[t].revision <= revision
        /\ op[t].snap \in Vec
        /\ op[t].revision = revision => op[t].snap = vectors

Reached(c) ==
    /\ c[1] \in Nat /\ c[2] \in Int
    /\ c[1] < gen \/ (c[1] = gen /\ c[2] <= used)
\* Metadata that an open would accept covers the journal's vectors.
Covers(m) ==
    /\ Reached(m.ckpt)
    /\ raced \/ (m.ckpt = Checkpoint => m.crc["nsg"] \in {stored, Untrained})

MetaExact ==
    /\ Covers(meta)
    /\ \A t \in Thread : pc[t] \in Persisting => Covers(op[t].meta)
    /\ \A t \in Thread : pc[t] = "detached" =>
          /\ Reached(op[t].meta.ckpt)
          /\ op[t].meta.ckpt = Checkpoint => lease \notin Writer

CInv == CacheShape /\ LeaseHeld /\ LiveExact /\ SnapshotsExact /\ MetaExact

-----------------------------------------------------------------------------
(* Operators.                                                              *)

\* Three kinds of thread, none of them called free.
LEMMA Threads ==
    /\ Writer \subseteq Thread /\ Keeper \in Thread /\ Compactor \in Thread
    /\ Keeper \notin Writer /\ Compactor \notin Writer /\ Keeper # Compactor
    /\ Free \notin Thread
BY IndexCacheAssumption DEF Thread, Free

\* The op of an idle thread.
LEMMA NoOpFields ==
    IsOp(NoOp) /\ NoOp.revision = 0 /\ NoOp.revision \in Nat
BY DEF NoOp, IsOp

EncodedIs(e, o, x, c) ==
    /\ IsOp(e) /\ e.revision = o.revision
    /\ e.meta.ckpt = c /\ e.meta.crc["nsg"] = x["nsg"]

\* What encode_indices notes of the shards x for the checkpoint c.
LEMMA EncodedFields ==
    ASSUME NEW o, IsOp(o), NEW x, NEW l, NEW c
    PROVE  EncodedIs(Encoded(o, x, l, c), o, x, c)
<1> DEFINE s == SelectSeq(<<"nsg", "ivf">>, LAMBDA k : x[k] # Untrained)
           m == [ckpt |-> c, layout |-> l, crc |-> [k \in Kind |-> Serialized(k, x[k])]]
           e == [o EXCEPT !.todo = s, !.meta = m]
<1>1. Encoded(o, x, l, c) = e
  BY DEF Encoded
<1>2. m.ckpt = c /\ m.crc["nsg"] = x["nsg"]
  BY DEF Serialized, Kind
<1> HIDE DEF s, m
<1>3. IsOp(e) /\ e.revision = o.revision /\ e.meta = m
  BY DEF IsOp
<1> QED BY <1>1, <1>2, <1>3 DEF EncodedIs

\* At the start nothing is trained, stored or written.
LEMMA CacheInitial == Init => CInv
<1> SUFFICES ASSUME Init PROVE CInv
  OBVIOUS
<1> USE Threads, NoOpFields DEF Init
<1>1. CacheShape
  BY DEF CacheShape, Vec, Absent, Steps, Kind
<1>2. LeaseHeld /\ SnapshotsExact
  BY DEF LeaseHeld, SnapshotsExact, Snapshots, Thread
<1>3. LiveExact
  BY DEF LiveExact, Kind, Thread
<1>4. MetaExact
  BY SMT DEF MetaExact, Covers, Reached, NoMeta, Checkpoint, Kind, Persisting
<1> QED BY <1>1, <1>2, <1>3, <1>4 DEF CInv

-----------------------------------------------------------------------------
\* A step that leaves journal, shards and revision alone, moves one thread
\* with a lease it holds or leaves, and hands over metadata that is covered.
Quiet(t, to, o) ==
    /\ UNCHANGED <<gen, used, stored, vectors, index, revision, written, open>>
    /\ open
    /\ pc' = [pc EXCEPT ![t] = to] /\ op' = [op EXCEPT ![t] = o]
    /\ pc[t] # "apply" /\ to \in Steps \ ({"apply", "detached"} \cup Snapshots)
    /\ IsOp(o) /\ o.revision \in Nat
    /\ lease' \in {lease, Free, t} /\ (lease' # lease => lease \in {Free, t})
    /\ raced => raced'
    /\ to \in Persisting => Covers(o.meta)'
    /\ meta' = meta \/ (pc[t] \in Persisting /\ meta' = op[t].meta)

\* Persistence, training's end and the like are quiet.
LEMMA QuietKeeps ==
    ASSUME CInv, NEW t \in {Keeper, Compactor}, NEW to, NEW o, Quiet(t, to, o)
    PROVE  CInv'
<1> USE Threads DEF CInv, Quiet
<1>0. /\ t \in Thread /\ t \notin Writer /\ pc'[t] = to /\ op'[t] = o
      /\ \A u \in Thread \ {t} : pc'[u] = pc[u] /\ op'[u] = op[u]
  BY DEF CacheShape
<1>1. CacheShape'
  BY <1>0 DEF CacheShape
<1>2. LeaseHeld'
  BY SMT, <1>0 DEF LeaseHeld, Snapshots, CacheShape
<1>3. LiveExact'
  <2>1. lease' \in Writer => lease' = lease /\ op'[lease] = op[lease]
    BY <1>0
  <2>2. lease' \notin Writer => lease \notin Writer
    BY <1>0
  <2> QED BY <2>1, <2>2 DEF LiveExact
<1>4. SnapshotsExact'
  BY SMT, <1>0 DEF SnapshotsExact
<1>5. MetaExact'
  <2>1. \A m : Covers(m) => Covers(m)'
    BY DEF Covers, Reached, Checkpoint
  <2>2. Covers(meta)'
    BY <2>1 DEF MetaExact, Covers, Reached, Checkpoint
  <2>3. \A u \in Thread : pc'[u] \in Persisting => Covers(op[u].meta)'
    <3> SUFFICES ASSUME NEW u \in Thread, pc'[u] \in Persisting PROVE Covers(op[u].meta)'
      OBVIOUS
    <3>1. CASE u = t
      BY SMT, <1>0, <3>1 DEF Covers, Reached, Checkpoint
    <3>2. CASE u # t
      <4>1. pc[u] \in Persisting /\ op'[u] = op[u]
        BY <1>0, <3>2
      <4>2. PICK m : m = op[u].meta /\ m = op'[u].meta
        BY <4>1
      <4>3. Covers(m)
        BY <4>1, <4>2 DEF MetaExact
      <4>4. Covers(m)'
        BY <2>1, <4>3
      <4> QED BY <4>2, <4>4 DEF Covers, Reached, Checkpoint
    <3> QED BY <3>1, <3>2
  <2>4. \A u \in Thread : pc'[u] = "detached" =>
          /\ Reached(op[u].meta.ckpt)'
          /\ op'[u].meta.ckpt = Checkpoint' => lease' \notin Writer
    <3> SUFFICES ASSUME NEW u \in Thread, pc'[u] = "detached"
                 PROVE  /\ Reached(op[u].meta.ckpt)'
                        /\ op'[u].meta.ckpt = Checkpoint' => lease' \notin Writer
      OBVIOUS
    <3>1. pc[u] = "detached" /\ op'[u] = op[u]
      BY <1>0
    <3>2. Reached(op[u].meta.ckpt) /\ (op[u].meta.ckpt = Checkpoint => lease \notin Writer)
      BY <3>1 DEF MetaExact
    <3>3. gen' = gen /\ used' = used /\ (lease \notin Writer => lease' \notin Writer)
      BY <1>0
    <3> QED BY <3>1, <3>2, <3>3 DEF Reached, Checkpoint
  <2> QED BY <2>2, <2>3, <2>4 DEF MetaExact
<1> QED BY <1>1, <1>2, <1>3, <1>4, <1>5

\* The journal moves on: what was encoded for an earlier checkpoint is not
\* accepted any more.
LEMMA Advances ==
    ASSUME CInv, gen' \in Nat, used' \in Nat, gen' > gen \/ (gen' = gen /\ used' > used),
           raced' = raced, NEW m, Reached(m.ckpt)
    PROVE  Covers(m)' /\ Reached(m.ckpt)' /\ m.ckpt # Checkpoint'
<1>1. Reached(m.ckpt)'
  BY SMT DEF CInv, CacheShape, Reached
<1>2. m.ckpt # Checkpoint'
  BY SMT DEF CInv, CacheShape, Reached, Checkpoint
<1> QED BY <1>1, <1>2 DEF Covers

\* The durable append.
LEMMA AppendKeeps ==
    ASSUME CInv, NEW t \in Writer, NEW i \in Id, NEW v \in {Absent, written + 1},
           AppendWrite(t, i, v)
    PROVE  CInv'
<1> USE Threads DEF CInv
<1> DEFINE o == [NoOp EXCEPT !.id = i, !.val = v]
<1>0. /\ lease = Free /\ lease' = t /\ open /\ open' = open /\ raced' = raced
      /\ stored' = [stored EXCEPT ![i] = v] /\ used' = used + 1 /\ written' = written + 1
      /\ gen' = gen /\ vectors' = vectors /\ index' = index /\ revision' = revision
      /\ meta' = meta
      /\ pc' = [pc EXCEPT ![t] = "apply"] /\ op' = [op EXCEPT ![t] = o]
  BY DEF AppendWrite, At, Goto, Hold, disk, shards
<1>1. IsOp(o) /\ o.id = i /\ o.val = v /\ o.revision = 0
  BY DEF NoOp, IsOp
<1> HIDE DEF o
<1>2. /\ t \in Thread /\ pc'[t] = "apply" /\ op'[t] = o
      /\ \A u \in Thread \ {t} : pc'[u] = pc[u] /\ op'[u] = op[u]
  BY <1>0 DEF CacheShape
<1>3. CacheShape'
  <2>1. v \in Nat /\ stored' \in Vec
    BY SMT, <1>0 DEF CacheShape, Vec, Absent
  <2>2. op' = [u \in Thread |-> op'[u]] /\ pc' \in [Thread -> Steps]
    BY <1>0 DEF CacheShape, Steps
  <2>3. \A u \in Thread : IsOp(op'[u]) /\ op'[u].revision \in Nat
    BY SMT, <1>1, <1>2 DEF CacheShape
  <2> QED BY SMT, <1>0, <2>1, <2>2, <2>3 DEF CacheShape, IsOp
<1>4. LeaseHeld'
  BY SMT, <1>0, <1>1, <1>2 DEF LeaseHeld, CacheShape, Free
<1>5. LiveExact'
  BY <1>0, <1>1, <1>2 DEF LiveExact, Free
<1>6. SnapshotsExact'
  BY SMT, <1>0, <1>2 DEF SnapshotsExact, Snapshots
<1>7. MetaExact'
  <2>1. \A m : Reached(m.ckpt) =>
            Covers(m)' /\ Reached(m.ckpt)' /\ m.ckpt # Checkpoint'
    BY SMT, <1>0, Advances DEF CacheShape
  <2>2. Covers(meta)'
    BY <1>0, <2>1 DEF MetaExact, Covers, Reached, Checkpoint
  <2>3. \A u \in Thread : pc'[u] \in Persisting => Covers(op[u].meta)'
    <3>1. \A u \in Thread : pc[u] \in Persisting => Reached(op[u].meta.ckpt)
      BY DEF MetaExact, Covers
    <3>2. \A u \in Thread : pc'[u] \in Persisting => pc[u] \in Persisting /\ op'[u] = op[u]
      BY <1>2 DEF Persisting
    <3>3. \A u \in Thread : pc'[u] \in Persisting => Reached(op'[u].meta.ckpt)
      BY <3>1, <3>2
    <3>4. ASSUME NEW u \in Thread, pc'[u] \in Persisting
          PROVE  Covers(op[u].meta)'
      <4>1. PICK m : m = op'[u].meta
        OBVIOUS
      <4>2. Reached(m.ckpt)
        BY <3>3, <3>4, <4>1
      <4>3. Covers(m)'
        BY <2>1, <4>2
      <4> QED BY <4>1, <4>3 DEF Covers, Reached
    <3> QED BY <3>4
  <2>4. \A u \in Thread : pc'[u] = "detached" =>
          Reached(op[u].meta.ckpt)' /\ op'[u].meta.ckpt # Checkpoint'
    BY <1>2, <2>1 DEF MetaExact, Reached, Checkpoint
  <2> QED BY <2>2, <2>3, <2>4 DEF MetaExact
<1> QED BY <1>3, <1>4, <1>5, <1>6, <1>7

\* The apply: memory catches up with the journal, and an index follows or is
\* dropped.
LEMMA ApplyKeeps ==
    ASSUME CInv, NEW t \in Writer, ApplyWrite(t)
    PROVE  CInv'
<1> USE Threads, NoOpFields DEF CInv
<1>0. /\ t \in Thread /\ pc[t] = "apply" /\ open /\ open' = open /\ raced' = raced
      /\ vectors' = [vectors EXCEPT ![op[t].id] = op[t].val]
      /\ index' \in Reindexed(op[t].id, op[t].val) /\ revision' = revision + 1
      /\ gen' = gen /\ used' = used /\ stored' = stored /\ written' = written
      /\ meta' = meta /\ lease' = IF lease = t THEN Free ELSE lease
      /\ pc' = [pc EXCEPT ![t] = "idle"] /\ op' = [op EXCEPT ![t] = NoOp]
  BY DEF ApplyWrite, At, Goto, Hold, Return, disk, journal, counters
<1>1. /\ pc'[t] = "idle" /\ op'[t] = NoOp
      /\ \A u \in Thread \ {t} : pc'[u] = pc[u] /\ op'[u] = op[u]
      /\ lease = t /\ lease' = Free /\ op[t].id \in Id
  BY <1>0 DEF CacheShape, LeaseHeld
<1>2. vectors' = stored
  BY <1>0, <1>1 DEF LiveExact
<1>3. /\ index' = [k \in Kind |-> index'[k]]
      /\ \A k \in Kind :
            index[k] \in {vectors, Untrained} => index'[k] \in {vectors', Untrained}
  <2>1. CASE index' = index /\ op[t].val = Absent /\ vectors[op[t].id] = Absent
    BY <1>0, <2>1 DEF CacheShape, Vec
  <2>2. CASE index' = [k \in Kind |-> Untrained]
    BY <2>2
  <2>3. CASE \E n \in Online(index["nsg"], op[t].id, op[t].val),
                f \in Online(index["ivf"], op[t].id, op[t].val) :
                    index' = [k \in Kind |-> IF k = "nsg" THEN n ELSE f]
    BY <1>0, <2>3 DEF Online, Kind
  <2> QED BY SMT, <1>0, <2>1, <2>2, <2>3 DEF Reindexed
<1>4. CacheShape'
  <2>1. op' = [u \in Thread |-> op'[u]] /\ pc' \in [Thread -> Steps]
    BY <1>0 DEF CacheShape, Steps
  <2>2. \A u \in Thread : IsOp(op'[u]) /\ op'[u].revision \in Nat
    BY <1>1 DEF CacheShape
  <2>3. vectors' \in Vec /\ stored' \in Vec
    BY <1>0, <1>2 DEF CacheShape
  <2>4. revision' \in Nat
    <3>1. revision' = revision + 1 /\ revision \in Nat
      BY <1>0 DEF CacheShape
    <3> QED BY SMT, <3>1
  <2> QED BY <1>0, <1>3, <2>1, <2>2, <2>3, <2>4 DEF CacheShape, IsOp
<1>5. LeaseHeld'
  BY <1>0, <1>1 DEF LeaseHeld, CacheShape, Free
<1>6. LiveExact'
  BY <1>0, <1>1, <1>2, <1>3 DEF LiveExact, Kind, Free
<1>7. SnapshotsExact'
  BY SMT, <1>0, <1>1 DEF SnapshotsExact, Snapshots, CacheShape
<1>8. MetaExact'
  <2>1. \A m : Covers(m) => Covers(m)'
    BY <1>0 DEF Covers, Reached, Checkpoint
  <2>2. Covers(meta)'
    BY <1>0, <2>1 DEF MetaExact, Covers, Reached, Checkpoint
  <2>3. \A u \in Thread : pc'[u] \in Persisting => Covers(op[u].meta)'
    <3> SUFFICES ASSUME NEW u \in Thread, pc'[u] \in Persisting PROVE Covers(op[u].meta)'
      OBVIOUS
    <3>1. u # t /\ pc[u] \in Persisting /\ op'[u] = op[u]
      BY <1>0, <1>1 DEF Persisting
    <3>2. PICK m : m = op[u].meta /\ m = op'[u].meta
      BY <3>1
    <3>3. Covers(m)
      BY <3>1, <3>2 DEF MetaExact
    <3>4. Covers(m)'
      BY <2>1, <3>3
    <3> QED BY <3>2, <3>4 DEF Covers, Reached, Checkpoint
  <2>4. \A u \in Thread : pc'[u] = "detached" =>
          Reached(op[u].meta.ckpt)' /\ lease' \notin Writer
    <3> SUFFICES ASSUME NEW u \in Thread, pc'[u] = "detached"
                 PROVE  Reached(op[u].meta.ckpt)' /\ lease' \notin Writer
      OBVIOUS
    <3>1. pc[u] = "detached" /\ op'[u] = op[u] /\ lease' \notin Writer
      BY <1>0, <1>1
    <3>2. Reached(op[u].meta.ckpt)
      BY <3>1 DEF MetaExact
    <3>3. gen' = gen /\ used' = used
      BY <1>0
    <3> QED BY <3>1, <3>2, <3>3 DEF Reached
  <2> QED BY <2>2, <2>3, <2>4 DEF MetaExact
<1> QED BY <1>4, <1>5, <1>6, <1>7, <1>8

\* The end of a call: a persist call of a compaction, or the operation.
LEMMA ReturnKeeps ==
    ASSUME CInv, NEW t \in {Keeper, Compactor}, Return(t) \/ Persisted(t),
           pc[t] # "apply", open,
           UNCHANGED <<gen, used, stored, vectors, index, revision, written, open, raced>>,
           meta' = meta \/ (pc[t] \in Persisting /\ meta' = op[t].meta)
    PROVE  CInv'
<1>1. CASE Return(t)
  <2>1. Quiet(t, "idle", NoOp)
    BY <1>1, NoOpFields DEF Return, Goto, Hold, Quiet, Steps, Snapshots, Persisting
  <2> QED BY <2>1, QuietKeeps
<1>2. CASE Goto(t, "again") /\ Hold(t, NoOp) /\ UNCHANGED lease
  <2>1. Quiet(t, "again", NoOp)
    BY <1>2, NoOpFields DEF Goto, Hold, Quiet, Steps, Snapshots, Persisting
  <2> QED BY <2>1, QuietKeeps
<1> QED BY <1>1, <1>2 DEF Persisted

\* write_indices: a step of it writes no more than a file, the metadata it was
\* given, or nothing.
LEMMA PersistKeeps ==
    ASSUME CInv, NEW t \in {Keeper, Compactor}, Persist(t)
    PROVE  CInv'
<1> USE DEF At, journal, shards, counters, disk
<1>1. CASE SkipWrite(t)
  BY <1>1, ReturnKeeps DEF SkipWrite
<1>2. CASE WriteMeta(t)
  <2>1. pc[t] \in Persisting /\ open
    BY <1>2 DEF WriteMeta, Writing, Persisting
  <2> QED BY <1>2, <2>1, ReturnKeeps DEF WriteMeta, Persisting
<1>3. CASE WriteFails(t)
  BY <1>3, ReturnKeeps DEF WriteFails
<1>4. CASE WriteFile(t)
  <2>0. PICK o : o = [op[t] EXCEPT !.todo = Tail(op[t].todo)]
    OBVIOUS
  <2>1. IsOp(op[t]) /\ op[t].revision \in Nat /\ t \in Thread
    BY Threads DEF CInv, CacheShape
  <2>2. IsOp(o) /\ o.revision = op[t].revision /\ o.meta = op[t].meta
    BY <2>0, <2>1 DEF IsOp
  <2>3. pc[t] \in Persisting /\ open
    BY <1>4 DEF WriteFile, Writing, Persisting
  <2>4. /\ UNCHANGED <<gen, used, stored, vectors, index, revision, written, open, lease,
                       meta, raced>>
        /\ pc' = [pc EXCEPT ![t] = "files"] /\ op' = [op EXCEPT ![t] = o]
    BY <1>4, <2>0 DEF WriteFile, Goto, Hold
  <2>5. Covers(o.meta)
    BY <2>1, <2>2, <2>3 DEF CInv, MetaExact
  <2>6. Covers(o.meta)'
    BY <2>4, <2>5 DEF Covers, Reached, Checkpoint
  <2>7. Quiet(t, "files", o)
    BY <2>1, <2>2, <2>3, <2>4, <2>6 DEF Quiet, Steps, Snapshots, Persisting
  <2> QED BY <2>7, QuietKeeps
<1> QED BY <1>1, <1>2, <1>3, <1>4 DEF Persist

\* encode_indices for a checkpoint c: under the lease of flush, detached in a
\* compaction, and once more at its end.
LEMMA EncodeKeeps ==
    ASSUME CInv, NEW t \in {Keeper, Compactor}, Flush(t) \/ EncodeDetached(t) \/ EncodeAgain(t)
    PROVE  CInv'
<1> USE DEF At, Goto, Hold, journal, shards, counters, disk
<1>0. t \in Thread /\ CacheShape
  BY Threads DEF CInv
<1>1. /\ UNCHANGED <<gen, used, stored, vectors, index, revision, written, open, meta>>
      /\ open /\ pc[t] \in {"idle", "detached", "again"}
      /\ pc' = [pc EXCEPT ![t] = "persist"]
      /\ lease' \in {lease, t} /\ (lease' # lease => lease = Free)
  BY DEF Flush, EncodeDetached, EncodeAgain
<1>a. raced => raced'
  BY DEF Flush, EncodeDetached, EncodeAgain
<1>2. \E o, c : /\ IsOp(o) /\ o.revision \in Nat /\ Reached(c)
                /\ raced' \/ (c = Checkpoint => lease \notin Writer)
                /\ op' = [op EXCEPT ![t] = Encoded(o, index, layout, c)]
  <2>1. Reached(Checkpoint)
    BY SMT, <1>0 DEF CacheShape, Reached, Checkpoint
  <2>2. CASE Flush(t)
    <3>1. lease \notin Writer
      BY <2>2, Threads DEF Flush
    <3>2. op' = [op EXCEPT ![t] = Encoded(NoOp, index, layout, Checkpoint)]
      BY <2>2 DEF Flush
    <3> QED BY <2>1, <3>1, <3>2, NoOpFields
  <2>3. CASE EncodeDetached(t)
    <3> DEFINE n == [NoOp EXCEPT !.again = TRUE]
    <3>1. IsOp(n) /\ n.revision \in Nat
      BY DEF NoOp, IsOp
    <3>2. op' = [op EXCEPT ![t] = Encoded(n, index, layout, op[t].meta.ckpt)]
      BY <2>3 DEF EncodeDetached
    <3> HIDE DEF n
    <3>3. Reached(op[t].meta.ckpt) /\ (op[t].meta.ckpt = Checkpoint => lease \notin Writer)
      BY <1>0, <2>3 DEF CInv, MetaExact, EncodeDetached
    <3> QED BY <3>1, <3>2, <3>3
  <2>4. CASE EncodeAgain(t)
    <3>1. raced' \/ lease \notin Writer
      BY <2>4 DEF EncodeAgain
    <3>2. op' = [op EXCEPT ![t] = Encoded(NoOp, index, layout, Checkpoint)]
      BY <2>4 DEF EncodeAgain
    <3> QED BY <2>1, <3>1, <3>2, NoOpFields
  <2> QED BY <2>2, <2>3, <2>4
<1>3. PICK o, c : /\ IsOp(o) /\ o.revision \in Nat /\ Reached(c)
                  /\ raced' \/ (c = Checkpoint => lease \notin Writer)
                  /\ op' = [op EXCEPT ![t] = Encoded(o, index, layout, c)]
  BY <1>2
<1>4. PICK e : e = Encoded(o, index, layout, c)
  OBVIOUS
<1>5. IsOp(e) /\ e.revision \in Nat /\ e.meta.ckpt = c /\ e.meta.crc["nsg"] = index["nsg"]
  <2>1. EncodedIs(e, o, index, c)
    BY <1>3, <1>4, EncodedFields
  <2> QED BY <1>3, <2>1 DEF EncodedIs
<1>6. Covers(e.meta)'
  <2>1. Reached(e.meta.ckpt)'
    BY <1>1, <1>3, <1>5 DEF Reached
  <2>2. raced' \/ (c = Checkpoint => index["nsg"] \in {stored, Untrained})
    BY <1>1, <1>a, <1>3 DEF CInv, LiveExact
  <2>3. raced' \/ (e.meta.ckpt = Checkpoint' => e.meta.crc["nsg"] \in {stored', Untrained})
    BY <1>1, <1>5, <2>2 DEF Checkpoint
  <2> QED BY <2>1, <2>3 DEF Covers
<1>7. Quiet(t, "persist", e)
  BY <1>1, <1>a, <1>3, <1>4, <1>5, <1>6 DEF Quiet, Steps, Snapshots, Persisting
<1> QED BY <1>7, QuietKeeps

\* A reader changes its own step and op alone.
ReadsOnly ==
    /\ gen' = gen /\ used' = used /\ stored' = stored /\ vectors' = vectors
    /\ index' = index /\ revision' = revision /\ written' = written
    /\ open' = open /\ meta' = meta /\ lease' = lease /\ raced' = raced

\* The read snapshot of a training or a sharding.
LEMMA SnapshotKeeps ==
    ASSUME CInv, NEW to \in {"train", "shard"}, NEW o,
           IsOp(o), o.revision = revision, o.snap = vectors,
           ReadsOnly, open, pc[Keeper] = "idle", Goto(Keeper, to), Hold(Keeper, o)
    PROVE  CInv'
<1> USE Threads DEF CInv
<1> DEFINE t == Keeper
<1>0. pc' = [pc EXCEPT ![t] = to] /\ op' = [op EXCEPT ![t] = o]
  BY DEF Goto, Hold
<1>1. /\ gen' = gen /\ used' = used /\ stored' = stored /\ vectors' = vectors
      /\ index' = index /\ revision' = revision /\ written' = written
      /\ open' = open /\ meta' = meta /\ lease' = lease /\ raced' = raced
  BY DEF ReadsOnly
<1>2. /\ pc'[t] = to /\ op'[t] = o
      /\ \A u \in Thread \ {t} : pc'[u] = pc[u] /\ op'[u] = op[u]
  BY <1>0 DEF CacheShape
<1>3. CacheShape'
  <2>1. op' = [u \in Thread |-> op'[u]] /\ pc' \in [Thread -> Steps]
    BY <1>0 DEF CacheShape, Steps, Snapshots
  <2>2. \A u \in Thread : IsOp(op'[u]) /\ op'[u].revision \in Nat
    BY <1>2 DEF CacheShape
  <2> QED BY <1>1, <2>1, <2>2 DEF CacheShape, IsOp
<1>4. LeaseHeld'
  BY <1>1, <1>2 DEF LeaseHeld, CacheShape
<1>5. LiveExact'
  <2>1. lease' \in Writer => lease' = lease /\ op'[lease] = op[lease]
    BY <1>1, <1>2
  <2> QED BY <1>1, <2>1 DEF LiveExact
<1>6. SnapshotsExact'
  <2>1. o.revision <= revision /\ o.snap \in Vec
    BY SMT DEF CacheShape
  <2> QED BY <1>1, <1>2, <2>1 DEF SnapshotsExact
<1>7. MetaExact'
  <2>1. \A m : Covers(m) => Covers(m)'
    BY <1>1 DEF Covers, Reached, Checkpoint
  <2>2. Covers(meta)'
    BY <1>1 DEF MetaExact, Covers, Reached, Checkpoint
  <2>3. \A u \in Thread : pc'[u] \in Persisting => Covers(op[u].meta)'
    <3> SUFFICES ASSUME NEW u \in Thread, pc'[u] \in Persisting PROVE Covers(op[u].meta)'
      OBVIOUS
    <3>1. u # t /\ pc[u] \in Persisting /\ op'[u] = op[u]
      BY <1>2 DEF Persisting
    <3>2. PICK m : m = op[u].meta /\ m = op'[u].meta
      BY <3>1
    <3>3. Covers(m)
      BY <3>1, <3>2 DEF MetaExact
    <3>4. Covers(m)'
      BY <2>1, <3>3
    <3> QED BY <3>2, <3>4 DEF Covers, Reached, Checkpoint
  <2>4. \A u \in Thread : pc'[u] = "detached" =>
          /\ Reached(op[u].meta.ckpt)'
          /\ op'[u].meta.ckpt = Checkpoint' => lease' \notin Writer
    BY <1>1, <1>2 DEF MetaExact, Reached, Checkpoint
  <2> QED BY <2>2, <2>3, <2>4 DEF MetaExact
<1> QED BY <1>3, <1>4, <1>5, <1>6, <1>7

\* The exclusive section that installs what was worked on with no lock: an
\* index, or the shards themselves; both hand new metadata to write_indices.
LEMMA InstallKeeps ==
    ASSUME CInv, TrainInstall(Keeper) \/ Reshard(Keeper)
    PROVE  CInv'
<1> USE Threads DEF CInv
<1> DEFINE t == Keeper
<1>1. /\ UNCHANGED <<gen, used, stored, written, open, meta, raced>> /\ open
      /\ pc[t] \in {"train", "reshard"} /\ pc' = [pc EXCEPT ![t] = "persist"]
      /\ lease' = t /\ lease \notin Writer /\ revision' \in {revision, revision + 1}
      /\ index' \in [Kind -> {index'[k] : k \in Kind}]
  <2>1. CASE TrainInstall(t)
    BY <2>1 DEF TrainInstall, Unchanged, At, Goto, Hold, journal, disk, counters, CacheShape
  <2>2. CASE Reshard(t)
    BY <2>2 DEF Reshard, At, Goto, Hold, journal, disk, counters, LeaseHeld
  <2> QED BY <2>1, <2>2
<1>2. /\ op[t].snap = stored /\ vectors = stored /\ vectors' = stored
      /\ index'["ivf"] \in {stored, Untrained}
      /\ raced \/ index'["nsg"] \in {stored, Untrained}
  <2>1. vectors = stored
    BY <1>1 DEF LiveExact
  <2>2. op[t].snap = vectors
    <3>1. op[t].revision = revision
      BY DEF TrainInstall, Reshard, At, Unchanged, LeaseHeld
    <3> QED BY <1>1, <3>1 DEF SnapshotsExact, Snapshots
  <2>3. CASE TrainInstall(t)
    <3>1. PICK trained \in {Untrained, op[t].snap} :
             index' = [index EXCEPT ![op[t].kind] = trained] /\ vectors' = vectors
      BY <2>3 DEF TrainInstall
    <3>2. \A k \in Kind : index'[k] \in {index[k], trained}
      BY <3>1 DEF CacheShape
    <3> QED BY <1>1, <2>1, <2>2, <3>1, <3>2 DEF LiveExact, Kind
  <2>4. CASE Reshard(t)
    BY <2>1, <2>2, <2>4 DEF Reshard, Kind
  <2> QED BY <2>1, <2>2, <2>3, <2>4
<1>3. \E l, c : c = Checkpoint /\ op' = [op EXCEPT ![t] = Encoded(NoOp, index', l, c)]
  BY DEF TrainInstall, Reshard, Hold
<1>4. PICK l, c, x, e : /\ c = Checkpoint /\ x = index' /\ e = Encoded(NoOp, x, l, c)
                        /\ op' = [op EXCEPT ![t] = e]
  BY <1>3
<1>5. IsOp(e) /\ e.revision \in Nat /\ e.meta.ckpt = c /\ e.meta.crc["nsg"] = x["nsg"]
  <2>1. EncodedIs(e, NoOp, x, c)
    BY <1>4, EncodedFields, NoOpFields
  <2> QED BY <2>1, NoOpFields DEF EncodedIs
<1>6. /\ pc'[t] = "persist" /\ op'[t] = e
      /\ \A u \in Thread \ {t} : pc'[u] = pc[u] /\ op'[u] = op[u]
  BY <1>1, <1>4 DEF CacheShape
<1>7. CacheShape'
  <2>1. op' = [u \in Thread |-> op'[u]] /\ pc' \in [Thread -> Steps]
    BY <1>1, <1>4 DEF CacheShape, Steps, Persisting
  <2>2. \A u \in Thread : IsOp(op'[u]) /\ op'[u].revision \in Nat
    BY <1>5, <1>6 DEF CacheShape
  <2>3. revision' \in Nat
    <3>1. revision \in Nat /\ revision' \in {revision, revision + 1}
      BY <1>1 DEF CacheShape
    <3> QED BY SMT, <3>1
  <2> QED BY <1>1, <1>2, <2>1, <2>2, <2>3 DEF CacheShape, IsOp
<1>8. LeaseHeld'
  BY <1>1, <1>6 DEF LeaseHeld, CacheShape
<1>9. LiveExact'
  BY <1>1, <1>2 DEF LiveExact
<1>10. SnapshotsExact'
  BY SMT, <1>1, <1>2, <1>6 DEF SnapshotsExact, Snapshots, CacheShape
<1>11. MetaExact'
  <2>1. \A m : Covers(m) => Covers(m)'
    BY <1>1 DEF Covers, Reached, Checkpoint
  <2>2. Covers(meta)'
    BY <1>1, <2>1 DEF MetaExact, Covers, Reached, Checkpoint
  <2>3. Covers(e.meta)'
    BY SMT, <1>1, <1>2, <1>4, <1>5 DEF Covers, Reached, Checkpoint, CacheShape
  <2>4. \A u \in Thread : pc'[u] \in Persisting => Covers(op[u].meta)'
    <3> SUFFICES ASSUME NEW u \in Thread, pc'[u] \in Persisting PROVE Covers(op[u].meta)'
      OBVIOUS
    <3>1. CASE u = t
      BY <1>6, <2>3, <3>1 DEF Covers, Reached, Checkpoint
    <3>2. CASE u # t
      <4>1. pc[u] \in Persisting /\ op'[u] = op[u]
        BY <1>6, <3>2
      <4>2. PICK m : m = op[u].meta /\ m = op'[u].meta
        BY <4>1
      <4>3. Covers(m)
        BY <4>1, <4>2 DEF MetaExact
      <4>4. Covers(m)'
        BY <2>1, <4>3
      <4> QED BY <4>2, <4>4 DEF Covers, Reached, Checkpoint
    <3> QED BY <3>1, <3>2
  <2>5. \A u \in Thread : pc'[u] = "detached" =>
          Reached(op[u].meta.ckpt)' /\ lease' \notin Writer
    BY <1>1, <1>6 DEF MetaExact, Reached
  <2> QED BY <2>2, <2>4, <2>5 DEF MetaExact
<1> QED BY <1>7, <1>8, <1>9, <1>10, <1>11

\* save_shard_meta, under the lease.
LEMMA SaveShardMetaKeeps ==
    ASSUME CInv, SaveShardMeta(Keeper)
    PROVE  CInv'
<1> USE Threads DEF CInv
<1> DEFINE t == Keeper
<1>1. /\ UNCHANGED <<gen, used, stored, vectors, index, revision, written, open, meta, op,
                     raced>>
      /\ open /\ pc[t] = "shard" /\ pc' = [pc EXCEPT ![t] = "reshard"]
      /\ lease = Free /\ lease' = t /\ op[t].revision = revision
  BY DEF SaveShardMeta, Unchanged, At, Goto, journal, shards, counters
<1>2. pc'[t] = "reshard" /\ \A u \in Thread \ {t} : pc'[u] = pc[u]
  BY <1>1 DEF CacheShape
<1>3. CacheShape'
  BY <1>1 DEF CacheShape, IsOp, Steps, Snapshots
<1>4. LeaseHeld'
  BY <1>1, <1>2 DEF LeaseHeld, CacheShape
<1>5. LiveExact' /\ SnapshotsExact'
  BY <1>1, <1>2 DEF LiveExact, SnapshotsExact, Snapshots
<1>6. MetaExact'
  BY <1>1, <1>2 DEF MetaExact, Covers, Reached, Checkpoint, Persisting
<1> QED BY <1>3, <1>4, <1>5, <1>6

\* A compaction publishes a generation of the same vectors.
LEMMA PublishKeeps ==
    ASSUME CInv, CompactPublish(Compactor)
    PROVE  CInv'
<1> USE Threads DEF CInv
<1> DEFINE t == Compactor
<1>1. /\ UNCHANGED <<stored, vectors, index, written, open, meta, lease,
                     raced>>
      /\ open /\ pc[t] = "idle" /\ lease = Free
      /\ pc' = [pc EXCEPT ![t] = "detached"]
      /\ gen' = gen + 1 /\ revision' = revision + 1
      /\ used' = Cardinality({i \in Id : stored[i] # Absent})
  BY DEF CompactPublish, At, Goto, shards, disk, counters
<1>2. used' \in Nat
  <2>1. IsFiniteSet({i \in Id : stored[i] # Absent})
    BY IndexCacheAssumption, FS_Subset
  <2> QED BY <1>1, <2>1, FS_CardinalityType
<1>3. gen' \in Nat /\ gen' > gen /\ revision' \in Nat /\ revision' > revision
  BY SMT, <1>1 DEF CacheShape
<1>4. PICK o : /\ op' = [op EXCEPT ![t] = o]
               /\ IsOp(o) /\ o.revision = 0 /\ o.meta.ckpt = <<gen', used'>>
  <2>1. ASSUME NEW c
        PROVE  LET o == [NoOp EXCEPT !.meta.ckpt = c]
               IN  IsOp(o) /\ o.revision = 0 /\ o.meta.ckpt = c
    BY DEF NoOp, NoMeta, IsOp
  <2> QED BY <2>1 DEF CompactPublish, Hold
<1>5. /\ pc'[t] = "detached" /\ op'[t] = o
      /\ \A u \in Thread \ {t} : pc'[u] = pc[u] /\ op'[u] = op[u]
  BY <1>1, <1>4 DEF CacheShape
<1>6. CacheShape'
  <2>1. op' = [u \in Thread |-> op'[u]] /\ pc' \in [Thread -> Steps]
    BY <1>1, <1>4 DEF CacheShape, Steps
  <2>2. \A u \in Thread : IsOp(op'[u]) /\ op'[u].revision \in Nat
    BY SMT, <1>4, <1>5 DEF CacheShape
  <2> QED BY <1>1, <1>2, <1>3, <2>1, <2>2 DEF CacheShape, IsOp
<1>7. LeaseHeld'
  BY <1>1, <1>5 DEF LeaseHeld, CacheShape
<1>8. LiveExact'
  BY <1>1 DEF LiveExact
<1>9. SnapshotsExact'
  BY SMT, <1>1, <1>3, <1>5 DEF SnapshotsExact, Snapshots, CacheShape
<1>10. MetaExact'
  <2>1. \A m : Reached(m.ckpt) =>
            Covers(m)' /\ Reached(m.ckpt)' /\ m.ckpt # Checkpoint'
    BY <1>1, <1>2, <1>3, Advances
  <2>2. Covers(meta)'
    BY <1>1, <2>1 DEF MetaExact, Covers, Reached, Checkpoint
  <2>3. \A u \in Thread : pc'[u] \in Persisting => Covers(op[u].meta)'
    BY SMT, <1>5, <2>1 DEF MetaExact, Persisting, Covers, Reached, Checkpoint
  <2>4. \A u \in Thread : pc'[u] = "detached" =>
          Reached(op[u].meta.ckpt)' /\ lease' \notin Writer
    <3> SUFFICES ASSUME NEW u \in Thread, pc'[u] = "detached"
                 PROVE  Reached(op[u].meta.ckpt)' /\ lease' \notin Writer
      OBVIOUS
    <3>1. lease' \notin Writer
      BY <1>1, <1>2, <1>3, <1>4
    <3>2. CASE u = t
      <4>1. op'[u].meta.ckpt = <<gen', used'>>
        BY <1>4, <1>5, <3>2
      <4>2. Reached(op[u].meta.ckpt)'
        BY SMT, <1>2, <1>3, <4>1 DEF Reached
      <4> QED BY <3>1, <4>2
    <3>3. CASE u # t
      <4>1. pc[u] = "detached" /\ op'[u] = op[u]
        BY <1>5, <3>3
      <4>2. PICK m : m = op[u].meta /\ m = op'[u].meta
        BY <4>1
      <4>3. Reached(m.ckpt)
        BY <4>1, <4>2 DEF MetaExact
      <4>4. Reached(m.ckpt)'
        BY <2>1, <4>3
      <4> QED BY <3>1, <4>2, <4>4 DEF Reached
    <3> QED BY <3>2, <3>3
  <2> QED BY <2>2, <2>3, <2>4 DEF MetaExact
<1> QED BY <1>6, <1>7, <1>8, <1>9, <1>10

\* The process stops anywhere; the threads and the lease are gone.
LEMMA StopKeeps ==
    ASSUME CInv, Stop
    PROVE  CInv'
<1> USE Threads, NoOpFields DEF CInv
<1>1. /\ UNCHANGED <<gen, used, stored, vectors, index, revision, written, meta, raced>>
      /\ ~open' /\ lease' = Free
      /\ pc' = [t \in Thread |-> "idle"] /\ op' = [t \in Thread |-> NoOp]
  BY DEF Stop, journal, shards, disk
<1>2. CacheShape'
  BY <1>1 DEF CacheShape, IsOp, Steps
<1>3. LeaseHeld' /\ LiveExact' /\ SnapshotsExact'
  BY <1>1 DEF LeaseHeld, LiveExact, SnapshotsExact, Snapshots
<1>4. MetaExact'
  BY <1>1 DEF MetaExact, Covers, Reached, Checkpoint, Persisting
<1> QED BY <1>2, <1>3, <1>4

\* What an open would load.
LEMMA LoadedExact ==
    ASSUME CInv, NEW l
    PROVE  /\ Loaded("ivf", l) \in {stored, Untrained}
           /\ raced \/ Loaded("nsg", l) \in {stored, Untrained}
<1>1. Loaded("ivf", l) \in {stored, Untrained}
  BY DEF Loaded
<1>2. raced \/ Loaded("nsg", l) \in {stored, Untrained}
  BY DEF Loaded, CInv, MetaExact, Covers
<1> QED BY <1>1, <1>2

\* An open: the journal is replayed and the indices are loaded.
LEMMA OpenKeeps ==
    ASSUME CInv, Open
    PROVE  CInv'
<1> USE Threads DEF CInv
<1>1. /\ UNCHANGED <<gen, used, stored, written, meta, raced, lease, pc, op>>
      /\ ~open /\ vectors' = stored /\ revision' = 0
      /\ index' = [k \in Kind |-> Loaded(k, shardMeta)]
  BY DEF Open, journal, disk, counters
<1>2. lease = Free /\ \A t \in Thread : pc[t] = "idle"
  BY <1>1 DEF LeaseHeld
<1>3. CacheShape'
  BY <1>1 DEF CacheShape, IsOp
<1>4. LeaseHeld' /\ SnapshotsExact'
  BY <1>1, <1>2 DEF LeaseHeld, SnapshotsExact, Snapshots
<1>5. LiveExact'
  BY <1>1, <1>2, LoadedExact DEF LiveExact, Kind
<1>6. MetaExact'
  BY <1>1, <1>2 DEF MetaExact, Covers, Reached, Checkpoint, Persisting
<1> QED BY <1>3, <1>4, <1>5, <1>6

\* Every step keeps the invariant.
LEMMA CacheStep == CInv /\ [Next]_vars => CInv'
<1> SUFFICES ASSUME CInv, [Next]_vars PROVE CInv'
  OBVIOUS
<1>1. CASE \E t \in Writer, i \in Id, v \in {Absent, written + 1} : AppendWrite(t, i, v)
  BY <1>1, AppendKeeps
<1>2. CASE \E t \in Writer : ApplyWrite(t)
  BY <1>2, ApplyKeeps
<1>3. CASE \E t \in {Keeper, Compactor} : Persist(t)
  BY <1>3, PersistKeeps
<1>4. CASE Flush(Keeper) \/ EncodeDetached(Compactor) \/ EncodeAgain(Compactor)
  BY <1>4, EncodeKeeps
<1>5. CASE ShardSnapshot(Keeper) \/ \E k \in Kind : TrainSnapshot(Keeper, k)
  <2> DEFINE n == [NoOp EXCEPT !.revision = revision, !.snap = vectors]
             m(k) == [NoOp EXCEPT !.kind = k, !.revision = revision, !.snap = vectors]
  <2>1. IsOp(n) /\ n.revision = revision /\ n.snap = vectors
    BY DEF NoOp, IsOp
  <2>2. ASSUME NEW k PROVE IsOp(m(k)) /\ m(k).revision = revision /\ m(k).snap = vectors
    BY DEF NoOp, IsOp
  <2>3. ReadsOnly /\ open /\ pc[Keeper] = "idle"
    BY <1>5 DEF ReadsOnly, ShardSnapshot, TrainSnapshot, At, journal, shards, disk
  <2>4. CASE ShardSnapshot(Keeper)
    <3>1. Goto(Keeper, "shard") /\ Hold(Keeper, n)
      BY <2>4 DEF ShardSnapshot
    <3> HIDE DEF n
    <3> QED BY <2>1, <2>3, <3>1, SnapshotKeeps
  <2>5. CASE \E k \in Kind : TrainSnapshot(Keeper, k)
    <3>1. PICK k \in Kind : TrainSnapshot(Keeper, k)
      BY <2>5
    <3>2. Goto(Keeper, "train") /\ Hold(Keeper, m(k))
      BY <3>1 DEF TrainSnapshot
    <3>3. IsOp(m(k)) /\ m(k).revision = revision /\ m(k).snap = vectors
      BY <2>2
    <3> HIDE DEF m
    <3> QED BY <2>3, <3>2, <3>3, SnapshotKeeps
  <2> QED BY <1>5, <2>4, <2>5
<1>6. CASE SnapshotStale(Keeper)
  BY <1>6, ReturnKeeps DEF SnapshotStale, At, journal, shards, disk, counters
<1>7. CASE TrainInstall(Keeper) \/ Reshard(Keeper)
  BY <1>7, InstallKeeps
<1>8. CASE SaveShardMeta(Keeper)
  BY <1>8, SaveShardMetaKeeps
<1>9. CASE CompactPublish(Compactor)
  BY <1>9, PublishKeeps
<1>10. CASE Stop
  BY <1>10, StopKeeps
<1>11. CASE Open
  BY <1>11, OpenKeeps
<1>12. CASE UNCHANGED vars
  <2> USE <1>12 DEF vars, journal, shards, disk, counters
  <2>1. CacheShape' /\ LeaseHeld'
    BY DEF CInv, CacheShape, LeaseHeld, IsOp
  <2>2. LiveExact' /\ SnapshotsExact'
    BY DEF CInv, LiveExact, SnapshotsExact
  <2>3. MetaExact'
    BY DEF CInv, MetaExact, Covers, Reached, Checkpoint
  <2> QED BY <2>1, <2>2, <2>3 DEF CInv
<1> QED
  BY <1>1, <1>2, <1>3, <1>4, <1>5, <1>6, <1>7, <1>8, <1>9, <1>10, <1>11, <1>12
     DEF Next, Maintain, Compact

-----------------------------------------------------------------------------
(* Theorems.                                                               *)

\* The inductive invariant, for any constants.
THEOREM CacheInvariant == Spec => []CInv
BY CacheInitial, CacheStep, PTL DEF Spec

\* With no write in flight, memory is the journal and every trained index
\* ranges over exactly the journal's vectors, through training, resharding,
\* compaction, persistence and reopening (engine/mod.rs, engine/shard.rs).
THEOREM CacheIndexExact == Spec => []IndexExact
<1>1. CInv => IndexExact
  BY Threads DEF CInv, LiveExact, IndexExact, Exact
<1> QED BY <1>1, CacheInvariant, PTL

\* Wherever the process stops, load_indices loads the journal's vectors or
\* nothing, unless a checkpoint was read beside a write in flight.
THEOREM CacheTrustedAlways == Spec => []CacheTrusted
<1>1. CInv => CacheTrusted
  BY LoadedExact DEF CacheTrusted, Trustworthy, Kind
<1> QED BY <1>1, CacheInvariant, PTL

-----------------------------------------------------------------------------
(***************************************************************************)
(* RowsMatchEngine of module VectorIndex for any documents, batches and    *)
(* bounds.                                                                 *)
(*                                                                         *)
(* The argument: the rows in memory are at all times what a recovery would *)
(* make of each pair of a log and a CURRENT that a crash may leave, but    *)
(* for the append under way; and while the marker is not there, no row is  *)
(* of another version than the engine's.  With the marker every row is     *)
(* checked before the first query.                                         *)
(***************************************************************************)

VRows == [VDocs -> Nat]
VFrames == Seq(VDocs \X Nat)
VLog == [epoch : Nat, frames : VFrames]
VCurrent == [epoch : Nat, log_epoch : Nat, covered : Nat]

\* The documents that frames write, and frames that all delete.
Rewrites(frames, d) == \E i \in 1 .. Len(frames) : frames[i][1] = d
AllDeletes(frames) == \A i \in 1 .. Len(frames) : frames[i][2] = 0

\* The rows of the documents not rewritten are of the engine's versions.
Matching(v, r, frames) ==
    \A d \in VDocs : ~Rewrites(frames, d) /\ v[d] # 0 => r[d] \in {0, v[d]}
Matches(v, r) == \A d \in VDocs : v[d] # 0 => r[d] \in {0, v[d]}

\* A recovery from the log of that epoch and CURRENT c gives the rows r.
BaseRows(snaps, c) == IF c.epoch = 0 THEN NoRows ELSE snaps[c.epoch]
Skips(epoch, c) == IF c.epoch = 0 \/ c.log_epoch # epoch THEN 0 ELSE c.covered
Rest(frames, k) == SubSeq(frames, k + 1, Len(frames))
Gives(snaps, epoch, frames, c, r) ==
    /\ Skips(epoch, c) <= Len(frames)
    /\ ApplyFrames(BaseRows(snaps, c), Rest(frames, Skips(epoch, c))) = r

\* The frames of the log whose rows are published.
Settled == IF request.step = "append" THEN SubSeq(rowsLog.frames, 1, request.from)
           ELSE rowsLog.frames

VRequest ==
    {Resting} \cup [step : {"append"}, from : Nat, frames : VFrames, next : {"commit", "idle"}]
              \cup [step : {"commit", "remove"}, frames : VFrames]
VBuild ==
    {Resting} \cup [step : {"captured", "written", "publish", "published", "rotate"},
                    rows : VRows, before : VCurrent, oldLog : VLog, current : VCurrent]

VTypeOK ==
    /\ versions \in VRows /\ rows \in VRows /\ rowsLog \in VLog /\ current \in VCurrent
    /\ snapshots \in [1 .. MaxBuilds -> VRows] /\ manifest \in Nat /\ marker \in BOOLEAN
    /\ serving \in {"open", "closed", "reconcile"}
    /\ request \in VRequest /\ build \in VBuild
    /\ vleft \in [stores : 0 .. MaxStored, builds : Nat, stops : Nat]
    /\ serving # "open" => request = Resting /\ build = Resting

\* Epochs only grow: a log is not newer than CURRENT, which is never of a log newer
\* than the one there is.
EpochsOK ==
    /\ current.epoch + vleft.builds <= MaxBuilds
    /\ rowsLog.epoch <= current.epoch /\ current.log_epoch <= rowsLog.epoch
    /\ serving # "closed" /\ build.step \in {"idle", "captured", "written"} =>
          manifest = current.epoch

\* What the maintenance under way has captured and done.
Published == {"publish", "published", "rotate"}
BuildOK ==
    build.step # "idle" =>
        /\ build.current.epoch = manifest + 1
        /\ build.current.epoch + vleft.builds <= MaxBuilds
        /\ current = IF build.step \in Published THEN build.current ELSE build.before
        /\ build.step # "captured" => snapshots[build.current.epoch] = build.rows
        /\ build.step # "rotate" =>
              /\ build.before.epoch = manifest /\ build.before.log_epoch <= rowsLog.epoch
              /\ rowsLog.epoch <= manifest
              /\ Gives(snapshots, rowsLog.epoch, Settled, build.before, rows)
              /\ build.current.log_epoch = rowsLog.epoch
              /\ build.current.covered <= Len(Settled)
              /\ ApplyFrames(build.rows, Rest(Settled, build.current.covered)) = rows
        /\ build.step = "rotate" =>
              /\ request.step # "append"
              /\ rowsLog.epoch = build.current.epoch
              /\ build.oldLog.epoch = build.current.log_epoch /\ build.oldLog.epoch <= manifest
              /\ ApplyFrames(build.rows, rowsLog.frames) = rows
              /\ Gives(snapshots, build.oldLog.epoch, build.oldLog.frames, current, rows)

\* The log is what was there before the append, and its frames.
AppendOK ==
    request.step = "append" =>
        /\ marker /\ request.from <= Len(rowsLog.frames)
        /\ rowsLog.frames = Settled \o request.frames

RecoverOK ==
    /\ Skips(rowsLog.epoch, current) <= Len(Settled)
    /\ serving # "closed" => Gives(snapshots, rowsLog.epoch, Settled, current, rows)

MatchOK ==
    /\ request.step = "idle" /\ serving = "open" => Matches(versions, rows)
    /\ request.step = "append" /\ request.next = "commit" => Matches(versions, rows)
    /\ request.step = "append" /\ request.next = "idle" =>
          AllDeletes(request.frames) /\ Matching(versions, rows, request.frames)
    /\ request.step = "commit" =>
          /\ marker /\ Matching(versions, rows, request.frames)
          /\ \A d \in VDocs : Rewrites(request.frames, d) =>
                rows[d] = ApplyFrames(versions, request.frames)[d]
    /\ request.step = "remove" => Matching(versions, rows, request.frames)
    /\ serving = "reconcile" => marker
    /\ ~marker /\ serving = "open" => Matches(versions, rows)
    /\ ~marker /\ serving = "closed" => Matches(versions, Recovered(rowsLog, current))

VInv == VTypeOK /\ EpochsOK /\ BuildOK /\ AppendOK /\ RecoverOK /\ MatchOK
-----------------------------------------------------------------------------
(* Induction.  The library's induction theorems take the induction hypothesis as an *)
(* operator, which the provers cannot instantiate.  Its theorem on minimal elements *)
(* takes a set: an induction is a proof about the least counterexample.             *)

\* Every non-empty set of naturals has a least element.
LEMMA LeastNatural ==
    ASSUME NEW T, T \subseteq Nat, T # {}
    PROVE  \E m \in T : \A n \in T : m <= n
<1> DEFINE R == OpToRel(<, Nat)
<1>1. IsWellFoundedOn(R, Nat)
  BY NatLessThanWellFounded
<1>2. \A m, n \in Nat : n < m => <<n, m>> \in R
  BY DEF OpToRel
<1> HIDE DEF R
<1>3. PICK m \in T : \A n \in T : ~(<<n, m>> \in R)
  BY <1>1, WFMin
<1>4. \A n \in T : m <= n
  <2> SUFFICES ASSUME NEW n \in T, n < m
               PROVE  FALSE
    BY SMT
  <2>1. m \in Nat /\ n \in Nat
    OBVIOUS
  <2> QED
    BY <1>2, <1>3, <2>1
<1> QED
  BY <1>4

\* Induction up to a bound, about the set G of the numbers that have the property.
LEMMA UpTo ==
    ASSUME NEW n \in Nat, NEW G, 0 \in G,
           \A i \in 0 .. n - 1 : i \in G => i + 1 \in G
    PROVE  \A i \in 0 .. n : i \in G
<1> DEFINE T == {i \in 0 .. n : i \notin G}
<1> SUFFICES ASSUME T # {}
             PROVE  FALSE
  OBVIOUS
<1>1. PICK m \in T : \A i \in T : m <= i
  <2>1. T \subseteq Nat
    BY SMT
  <2> HIDE DEF T
  <2> QED
    BY <2>1, LeastNatural
<1>2. m \in 1 .. n
  BY SMT, <1>1
<1>3. m - 1 \in 0 .. n - 1 /\ m - 1 \notin T
  BY SMT, <1>1, <1>2
<1>4. m - 1 \in G
  BY SMT, <1>3
<1>5. (m - 1) + 1 \in G
  BY <1>3, <1>4
<1> QED
  BY SMT, <1>1, <1>2, <1>5

StaysIn(S, n, F) == \A i \in 1 .. n, y \in S : F[<<i, y>>] \in S
IsIterated(S, x, n, F) ==
    \E g \in [0 .. n -> S] : g[0] = x /\ \A i \in 1 .. n : g[i] = F[<<i, g[i - 1]>>]
\* n steps of a function on S can be taken.
LEMMA Iterates ==
    ASSUME NEW S, NEW x \in S, NEW n \in Nat, NEW F, StaysIn(S, n, F)
    PROVE  IsIterated(S, x, n, F)
<1> USE DEF StaysIn, IsIterated
<1> DEFINE Is(g, k) == /\ g \in [0 .. k -> S] /\ g[0] = x
                       /\ \A i \in 1 .. k : g[i] = F[<<i, g[i - 1]>>]
           G == {k \in Nat : \E g : Is(g, k)}
<1>1. 0 \in G
  <2> DEFINE g == [i \in 0 .. 0 |-> x]
  <2>1. Is(g, 0)
    BY SMT
  <2> QED
    BY <2>1
<1>2. ASSUME NEW k \in 0 .. n - 1, k \in G
      PROVE  k + 1 \in G
  <2>1. PICK g : Is(g, k)
    BY <1>2
  <2> DEFINE y == F[<<k + 1, g[k]>>]
             h == [i \in 0 .. k + 1 |-> IF i = k + 1 THEN y ELSE g[i]]
  <2>2. k \in 0 .. k /\ k + 1 \in 1 .. n /\ k \in Nat /\ k + 1 \in Nat /\ 0 # k + 1 /\ 0 \in 0 .. k + 1
    BY SMT
  <2>3. g[k] \in S /\ y \in S
    BY <2>1, <2>2
  <2> HIDE DEF y
  <2>4. \A i \in 0 .. k : h[i] = g[i] /\ g[i] \in S
    BY SMT, <2>1
  <2>5. h[k + 1] = y
    BY SMT
  <2>6. h \in [0 .. k + 1 -> S]
    <3>1. \A i \in 0 .. k + 1 : i = k + 1 \/ i \in 0 .. k
      BY SMT
    <3> QED
      BY <2>3, <2>4, <3>1
  <2>7. \A i \in 1 .. k + 1 : h[i] = F[<<i, h[i - 1]>>]
    <3> SUFFICES ASSUME NEW i \in 1 .. k + 1
                 PROVE  h[i] = F[<<i, h[i - 1]>>]
      OBVIOUS
    <3>1. CASE i = k + 1
      <4>1. i - 1 = k
        BY SMT, <3>1
      <4>2. h[i - 1] = g[k]
        BY <2>2, <2>4, <4>1
      <4> QED
        BY <2>5, <3>1, <4>2 DEF y
    <3>2. CASE i # k + 1
      <4>1. i \in 1 .. k /\ i \in 0 .. k /\ i - 1 \in 0 .. k
        BY SMT, <3>2
      <4> QED
        BY <2>1, <2>4, <4>1
    <3> QED
      BY <3>1, <3>2
  <2>8. h[0] = x
    <3>1. 0 \in 0 .. k
      BY SMT
    <3> QED
      BY <2>1, <2>4, <3>1
  <2> HIDE DEF h
  <2> QED
    BY <2>2, <2>6, <2>7, <2>8
<1> HIDE DEF G
<1>3. \A k \in 0 .. n : k \in G
  BY <1>1, <1>2, UpTo
<1>4. n \in 0 .. n
  BY SMT
<1> QED
  BY <1>3, <1>4 DEF G

-----------------------------------------------------------------------------
(* What applying frames gives.                                             *)

Put(r, f) == [r EXCEPT ![f[1]] = f[2]]
IsRun(g, base, frames) ==
    /\ g[0] = base
    /\ \A i \in 0 .. Len(frames) : g[i] \in VRows
    /\ \A i \in 1 .. Len(frames) : g[i] = Put(g[i - 1], frames[i])

\* A frame writes one row.
LEMMA PutRow ==
    ASSUME NEW r \in VRows, NEW f \in VDocs \X Nat
    PROVE  /\ Put(r, f) \in VRows /\ f[1] \in VDocs /\ f[2] \in Nat
           /\ \A d \in VDocs : Put(r, f)[d] = IF d = f[1] THEN f[2] ELSE r[d]
  BY SMT DEF Put, VRows

\* Applying frames goes through a run of rows to the last of them.
LEMMA ApplyRun ==
    ASSUME NEW base \in VRows, NEW frames \in VFrames
    PROVE  \E g : IsRun(g, base, frames) /\ g[Len(frames)] = ApplyFrames(base, frames)
<1> DEFINE n == Len(frames)
           E(f) == [i \in 0 .. n |-> IF i = 0 THEN base
                                     ELSE [f[i - 1] EXCEPT ![frames[i][1]] = frames[i][2]]]
           g == CHOOSE f : f = E(f)
           F == [p \in (1 .. n) \X VRows |-> Put(p[2], frames[p[1]])]
<1>1. n \in Nat /\ \A i \in 1 .. n : frames[i] \in VDocs \X Nat /\ i - 1 \in 0 .. n /\ i \in 0 .. n /\ i # 0
  BY SMT DEF VFrames
<1>2. ASSUME NEW i \in 1 .. n, NEW r \in VRows
      PROVE  F[<<i, r>>] = Put(r, frames[i]) /\ F[<<i, r>>] \in VRows
  <2>1. F[<<i, r>>] = Put(r, frames[i])
    BY SMT
  <2> QED
    BY <1>1, <2>1, PutRow
<1> HIDE DEF F
<1>3. PICK h \in [0 .. n -> VRows] : h[0] = base /\ \A i \in 1 .. n : h[i] = F[<<i, h[i - 1]>>]
  <2>1. StaysIn(VRows, n, F)
    BY <1>2 DEF StaysIn
  <2>2. n \in Nat
    BY <1>1
  <2> HIDE DEF n
  <2>3. IsIterated(VRows, base, n, F)
    BY <2>1, <2>2, Iterates
  <2> QED
    BY <2>3 DEF IsIterated
<1>4. \A i \in 1 .. n : h[i] = Put(h[i - 1], frames[i])
  <2> SUFFICES ASSUME NEW i \in 1 .. n
               PROVE  h[i] = Put(h[i - 1], frames[i])
    OBVIOUS
  <2>1. h[i - 1] \in VRows
    BY <1>1, <1>3
  <2> QED
    BY <1>2, <1>3, <2>1
<1>5. \A i \in 0 .. n : h[i] = E(h)[i]
  <2> SUFFICES ASSUME NEW i \in 0 .. n
               PROVE  h[i] = E(h)[i]
    OBVIOUS
  <2>1. CASE i = 0
    BY <1>3, <2>1
  <2>2. CASE i # 0
    <3>1. i \in 1 .. n
      BY SMT, <1>1, <2>2
    <3> QED
      BY <1>4, <2>2, <3>1 DEF Put
  <2> QED
    BY <2>1, <2>2
<1>6. h = E(h)
  BY <1>3, <1>5
<1> HIDE DEF E
<1>7. g = E(g)
  BY <1>6
<1>8. g[n] = ApplyFrames(base, frames)
  BY DEF ApplyFrames, E
<1>9. IsRun(g, base, frames)
  <2>1. g[0] = base
    <3>1. 0 \in 0 .. n
      BY SMT, <1>1
    <3> QED
      BY <1>7, <3>1 DEF E
  <2>2. \A i \in 1 .. n : g[i] = Put(g[i - 1], frames[i])
    BY <1>1, <1>7 DEF E, Put
  <2>3. \A i \in 0 .. n : g[i] \in VRows
    <3> DEFINE G == {i \in 0 .. n : g[i] \in VRows}
    <3>1. 0 \in G
      <4>1. 0 \in 0 .. n
        BY SMT, <1>1
      <4> QED
        BY <2>1, <4>1
    <3>2. ASSUME NEW i \in 0 .. n - 1, i \in G
          PROVE  i + 1 \in G
      <4>1. i + 1 \in 1 .. n /\ i + 1 \in 0 .. n /\ (i + 1) - 1 = i
        BY SMT, <1>1
      <4>2. g[i + 1] = Put(g[i], frames[i + 1])
        BY <2>2, <4>1
      <4>3. Put(g[i], frames[i + 1]) \in VRows
        BY <1>1, <3>2, <4>1, PutRow
      <4> QED
        BY <4>1, <4>2, <4>3
    <3> HIDE DEF G
    <3>3. \A i \in 0 .. n : i \in G
      BY <1>1, <3>1, <3>2, UpTo
    <3> QED
      BY <3>3 DEF G
  <2> QED
    BY <2>1, <2>2, <2>3 DEF IsRun
<1> QED
  BY <1>8, <1>9

\* There is one run.
LEMMA RunIs ==
    ASSUME NEW base \in VRows, NEW frames \in VFrames, NEW g, IsRun(g, base, frames)
    PROVE  ApplyFrames(base, frames) = g[Len(frames)] /\ ApplyFrames(base, frames) \in VRows
<1>1. PICK h : IsRun(h, base, frames) /\ h[Len(frames)] = ApplyFrames(base, frames)
  BY ApplyRun
<1> DEFINE n == Len(frames)
           G == {i \in 0 .. n : g[i] = h[i]}
<1>2. n \in Nat /\ 0 \in 0 .. n /\ n \in 0 .. n
  BY SMT DEF VFrames
<1>3. 0 \in G
  BY <1>1, <1>2 DEF IsRun
<1>4. ASSUME NEW i \in 0 .. n - 1, i \in G
      PROVE  i + 1 \in G
  <2>1. i + 1 \in 1 .. n /\ i + 1 \in 0 .. n /\ (i + 1) - 1 = i
    BY SMT, <1>2
  <2>2. g[i + 1] = Put(g[i], frames[i + 1]) /\ h[i + 1] = Put(h[i], frames[i + 1])
    BY <1>1, <2>1 DEF IsRun
  <2> QED
    BY <1>4, <2>1, <2>2
<1> HIDE DEF G
<1>5. \A i \in 0 .. n : i \in G
  BY <1>2, <1>3, <1>4, UpTo
<1> QED
  BY <1>1, <1>2, <1>5 DEF G, IsRun

\* No frames change nothing, one frame writes its row.
LEMMA ApplyFew ==
    ASSUME NEW base \in VRows
    PROVE  /\ ApplyFrames(base, <<>>) = base
           /\ \A f \in VDocs \X Nat : ApplyFrames(base, <<f>>) = Put(base, f)
<1>1. ApplyFrames(base, <<>>) = base
  <2> DEFINE g == [i \in 0 .. 0 |-> base]
             none == <<>>
  <2>1. none \in VFrames /\ Len(none) = 0
    BY SMT DEF VFrames
  <2>2. g[0] = base /\ \A i \in 0 .. 0 : g[i] = base
    BY SMT
  <2>3. \A i : i \notin 1 .. 0
    BY SMT
  <2> HIDE DEF g, none
  <2>4. IsRun(g, base, none)
    BY <2>1, <2>2, <2>3 DEF IsRun
  <2>5. ApplyFrames(base, none) = g[0]
    BY <2>1, <2>4, RunIs
  <2> QED
    BY <2>2, <2>5 DEF none
<1>2. ASSUME NEW f \in VDocs \X Nat
      PROVE  ApplyFrames(base, <<f>>) = Put(base, f)
  <2> DEFINE p == Put(base, f)
             g == [i \in 0 .. 1 |-> IF i = 0 THEN base ELSE p]
             one == <<f>>
  <2>1. one \in VFrames /\ Len(one) = 1 /\ one[1] = f
    BY SMT DEF VFrames
  <2>2. p \in VRows
    BY PutRow
  <2> HIDE DEF p
  <2>3. g[0] = base /\ g[1] = p /\ 1 - 1 = 0 /\ \A i \in 0 .. 1 : g[i] \in {base, p}
    BY SMT
  <2>4. \A i \in 1 .. 1 : i = 1
    BY SMT
  <2> HIDE DEF g, one
  <2>5. IsRun(g, base, one)
    BY <2>1, <2>2, <2>3, <2>4 DEF IsRun, p
  <2>6. ApplyFrames(base, one) = g[1]
    BY <2>1, <2>5, RunIs
  <2> QED
    BY <2>3, <2>6 DEF one, p
<1> QED
  BY <1>1, <1>2

\* Frames after frames.
LEMMA ApplyMore ==
    ASSUME NEW base \in VRows, NEW s \in VFrames, NEW t \in VFrames
    PROVE  ApplyFrames(base, s \o t) = ApplyFrames(ApplyFrames(base, s), t)
<1> DEFINE m == Len(s)  n == Len(t)  st == s \o t
<1>1. /\ m \in Nat /\ n \in Nat /\ st \in VFrames /\ Len(st) = m + n
      /\ \A i \in 1 .. m : st[i] = s[i]
      /\ \A i \in 1 .. m + n : i \notin 1 .. m => i - m \in 1 .. n /\ st[i] = t[i - m]
  BY SMT DEF VFrames
<1>2. PICK g : IsRun(g, base, s) /\ g[m] = ApplyFrames(base, s)
  BY ApplyRun
<1> DEFINE mid == g[m]
<1>3. mid \in VRows
  <2>1. m \in 0 .. m
    BY SMT, <1>1
  <2> QED
    BY <1>2, <2>1 DEF IsRun
<1>4. PICK h : IsRun(h, mid, t) /\ h[n] = ApplyFrames(mid, t)
  BY <1>3, ApplyRun
<1> DEFINE k == [i \in 0 .. m + n |-> IF i <= m THEN g[i] ELSE h[i - m]]
<1> HIDE DEF st, m, n
<1>5. /\ \A i \in 0 .. m : k[i] = g[i]
      /\ \A i \in 0 .. n : i # 0 => k[m + i] = h[i]
      /\ m \in 0 .. m /\ 0 \in 0 .. m /\ 0 \in 0 .. n /\ m + 0 = m
      /\ n \in 0 .. n
  BY SMT, <1>1
<1>6. \A i \in 0 .. n : k[m + i] = h[i]
  <2>1. h[0] = g[m]
    BY <1>4 DEF IsRun
  <2> QED
    BY <1>5, <2>1
<1> HIDE DEF k
<1>7. IsRun(k, base, st)
  <2>1. k[0] = base
    BY <1>2, <1>5 DEF IsRun
  <2>2. \A i \in 0 .. m + n : k[i] \in VRows
    <3> SUFFICES ASSUME NEW i \in 0 .. m + n
                 PROVE  k[i] \in VRows
      OBVIOUS
    <3>1. i \in 0 .. m \/ (i - m \in 0 .. n /\ m + (i - m) = i)
      BY SMT, <1>1
    <3>2. \A j \in 0 .. m : g[j] \in VRows
      BY <1>2 DEF IsRun, m
    <3>3. \A j \in 0 .. n : h[j] \in VRows
      BY <1>4 DEF IsRun, n
    <3> QED
      BY <1>5, <1>6, <3>1, <3>2, <3>3
  <2>3. \A i \in 1 .. m + n : k[i] = Put(k[i - 1], st[i])
    <3> SUFFICES ASSUME NEW i \in 1 .. m + n
                 PROVE  k[i] = Put(k[i - 1], st[i])
      OBVIOUS
    <3>1. CASE i \in 1 .. m
      <4>1. i \in 0 .. m /\ i - 1 \in 0 .. m
        BY SMT, <1>1, <3>1
      <4>2. g[i] = Put(g[i - 1], s[i])
        BY <1>2, <3>1 DEF IsRun, m
      <4> QED
        BY <1>1, <1>5, <3>1, <4>1, <4>2
    <3>2. CASE i \notin 1 .. m
      <4> DEFINE j == i - m
      <4>1. j \in 1 .. n /\ st[i] = t[j]
        BY <1>1, <3>2
      <4>2. j \in 0 .. n /\ j - 1 \in 0 .. n /\ m + j = i /\ m + (j - 1) = i - 1
        BY SMT, <1>1, <4>1
      <4> HIDE DEF j
      <4>3. h[j] = Put(h[j - 1], t[j])
        BY <1>4, <4>1 DEF IsRun, n
      <4>4. k[i] = h[j] /\ k[i - 1] = h[j - 1]
        BY <1>6, <4>2
      <4> QED
        BY <4>1, <4>3, <4>4
    <3> QED
      BY <3>1, <3>2
  <2> QED
    BY <1>1, <2>1, <2>2, <2>3 DEF IsRun
<1>8. ApplyFrames(base, st) = k[m + n]
  <2>1. st \in VFrames /\ Len(st) = m + n
    BY <1>1
  <2>2. ApplyFrames(base, st) = k[Len(st)]
    BY <1>7, <2>1, RunIs
  <2> QED
    BY <2>1, <2>2
<1>9. k[m + n] = h[n]
  BY <1>5, <1>6
<1> QED
  BY <1>2, <1>4, <1>8, <1>9 DEF st

\* A document that no frame writes keeps its row; the others do not depend on the row
\* they had, and have none when the frames delete.
LEMMA ApplyRows ==
    ASSUME NEW base \in VRows, NEW other \in VRows, NEW frames \in VFrames
    PROVE  \A d \in VDocs :
              /\ ~Rewrites(frames, d) => ApplyFrames(base, frames)[d] = base[d]
              /\ Rewrites(frames, d) =>
                    /\ ApplyFrames(base, frames)[d] = ApplyFrames(other, frames)[d]
                    /\ AllDeletes(frames) => ApplyFrames(base, frames)[d] = 0
<1> SUFFICES ASSUME NEW d \in VDocs
             PROVE  /\ ~Rewrites(frames, d) => ApplyFrames(base, frames)[d] = base[d]
                    /\ Rewrites(frames, d) =>
                          /\ ApplyFrames(base, frames)[d] = ApplyFrames(other, frames)[d]
                          /\ AllDeletes(frames) => ApplyFrames(base, frames)[d] = 0
  OBVIOUS
<1>1. PICK g : IsRun(g, base, frames) /\ g[Len(frames)] = ApplyFrames(base, frames)
  BY ApplyRun
<1>2. PICK h : IsRun(h, other, frames) /\ h[Len(frames)] = ApplyFrames(other, frames)
  BY ApplyRun
<1> DEFINE n == Len(frames)
           Hit(i) == \E j \in 1 .. i : frames[j][1] = d
           Right(i) == /\ ~Hit(i) => g[i][d] = base[d]
                       /\ Hit(i) => g[i][d] = h[i][d] /\ (AllDeletes(frames) => g[i][d] = 0)
           G == {i \in 0 .. n : Right(i)}
<1>3. n \in Nat /\ 0 \in 0 .. n /\ n \in 0 .. n /\ \A i \in 1 .. n : frames[i] \in VDocs \X Nat
  BY SMT DEF VFrames
<1>4. 0 \in G
  <2>1. \A j : j \notin 1 .. 0
    BY SMT
  <2> QED
    BY <1>1, <1>3, <2>1 DEF IsRun
<1>5. ASSUME NEW i \in 0 .. n - 1, i \in G
      PROVE  i + 1 \in G
  <2>1. /\ i + 1 \in 1 .. n /\ i + 1 \in 0 .. n /\ i \in 0 .. n /\ (i + 1) - 1 = i /\ i + 1 \in 1 .. i + 1
        /\ \A j \in 1 .. i + 1 : j = i + 1 \/ j \in 1 .. i
        /\ \A j \in 1 .. i : j \in 1 .. i + 1
    BY SMT, <1>3
  <2> DEFINE f == frames[i + 1]
  <2>2. f \in VDocs \X Nat
    BY <1>3, <2>1
  <2>3. g[i] \in VRows /\ h[i] \in VRows /\ g[i + 1] = Put(g[i], f) /\ h[i + 1] = Put(h[i], f)
    BY <1>1, <1>2, <2>1 DEF IsRun
  <2> HIDE DEF f
  <2>4. /\ g[i + 1][d] = IF d = f[1] THEN f[2] ELSE g[i][d]
        /\ h[i + 1][d] = IF d = f[1] THEN f[2] ELSE h[i][d]
    <3>1. \A r \in VRows : Put(r, f)[d] = IF d = f[1] THEN f[2] ELSE r[d]
      BY <2>2, PutRow
    <3>2. /\ Put(g[i], f)[d] = IF d = f[1] THEN f[2] ELSE g[i][d]
          /\ Put(h[i], f)[d] = IF d = f[1] THEN f[2] ELSE h[i][d]
      BY <2>3, <3>1
    <3> QED
      BY <2>3, <3>2
  <2>5. CASE f[1] = d
    <3>1. Hit(i + 1)
      BY <2>1, <2>5 DEF f
    <3>2. AllDeletes(frames) => f[2] = 0
      BY <2>1 DEF f, AllDeletes
    <3> HIDE DEF Hit
    <3> QED
      BY <2>1, <2>4, <2>5, <3>1, <3>2
  <2>6. CASE f[1] # d
    <3>1. Hit(i + 1) <=> Hit(i)
      BY <2>1, <2>6 DEF f
    <3> HIDE DEF Hit
    <3> QED
      BY <1>5, <2>1, <2>4, <2>6, <3>1
  <2> QED
    BY <2>5, <2>6
<1> HIDE DEF G
<1>6. n \in G
  BY <1>3, <1>4, <1>5, UpTo
<1> QED
  BY <1>1, <1>2, <1>6 DEF G, Rewrites

\* The result is rows.
LEMMA ApplyType ==
    ASSUME NEW base \in VRows, NEW frames \in VFrames
    PROVE  ApplyFrames(base, frames) \in VRows
<1>1. PICK g : IsRun(g, base, frames)
  BY ApplyRun
<1> QED
  BY <1>1, RunIs

\* The frames with which remove deletes: of those documents that have a row.
LEMMA DeletesFrames ==
    ASSUME NEW base \in VRows, NEW frames \in VFrames
    PROVE  /\ Deletes(base, frames) \in VFrames /\ AllDeletes(Deletes(base, frames))
           /\ \A d \in VDocs : Rewrites(frames, d) /\ base[d] # 0 => Rewrites(Deletes(base, frames), d)
<1> DEFINE n == Len(frames)
           E(f) == [i \in 0 .. n |-> IF i = 0 THEN <<>>
                                     ELSE IF base[frames[i][1]] = 0 THEN f[i - 1]
                                     ELSE Append(f[i - 1], <<frames[i][1], 0>>)]
           g == CHOOSE f : f = E(f)
           Next1(s, i) == IF base[frames[i][1]] = 0 THEN s ELSE Append(s, <<frames[i][1], 0>>)
           F == [p \in (1 .. n) \X VFrames |-> Next1(p[2], p[1])]
           none == <<>>
<1>1. /\ n \in Nat /\ 0 \in 0 .. n /\ n \in 0 .. n /\ none \in VFrames
      /\ \A i \in 1 .. n : /\ frames[i] \in VDocs \X Nat /\ frames[i][1] \in VDocs
                           /\ i - 1 \in 0 .. n /\ i \in 0 .. n /\ i # 0
  BY SMT DEF VFrames
<1>2. \A s \in VFrames, i \in 1 .. n : Next1(s, i) \in VFrames
  <2> SUFFICES ASSUME NEW s \in VFrames, NEW d \in VDocs
               PROVE  Append(s, <<d, 0>>) \in VFrames
    BY <1>1
  <2> QED
    BY SMT DEF VFrames
<1>3. ASSUME NEW i \in 1 .. n, NEW s \in VFrames
      PROVE  F[<<i, s>>] = Next1(s, i) /\ F[<<i, s>>] \in VFrames
  <2>1. F[<<i, s>>] = Next1(s, i)
    <3> HIDE DEF Next1
    <3> QED
      BY SMT
  <2> QED
    BY <1>2, <2>1
<1> HIDE DEF F
<1>4. PICK h \in [0 .. n -> VFrames] : h[0] = none /\ \A i \in 1 .. n : h[i] = F[<<i, h[i - 1]>>]
  <2>1. StaysIn(VFrames, n, F)
    BY <1>3 DEF StaysIn
  <2>2. n \in Nat /\ none \in VFrames
    BY <1>1
  <2> HIDE DEF n, none
  <2>3. IsIterated(VFrames, none, n, F)
    BY <2>1, <2>2, Iterates
  <2> QED
    BY <2>3 DEF IsIterated
<1>5. \A i \in 1 .. n : h[i] = Next1(h[i - 1], i)
  <2> SUFFICES ASSUME NEW i \in 1 .. n
               PROVE  h[i] = Next1(h[i - 1], i)
    OBVIOUS
  <2>1. h[i - 1] \in VFrames
    BY <1>1, <1>4
  <2> HIDE DEF Next1
  <2> QED
    BY <1>3, <1>4, <2>1
<1>6. \A i \in 0 .. n : h[i] = E(h)[i]
  <2> SUFFICES ASSUME NEW i \in 0 .. n
               PROVE  h[i] = E(h)[i]
    OBVIOUS
  <2>1. CASE i = 0
    BY <1>4, <2>1
  <2>2. CASE i # 0
    <3>1. i \in 1 .. n
      BY SMT, <1>1, <2>2
    <3> QED
      BY <1>5, <2>2, <3>1
  <2> QED
    BY <2>1, <2>2
<1>7. h = E(h)
  BY <1>4, <1>6
<1> HIDE DEF E
<1>8. g = E(g)
  BY <1>7
<1>9. g[n] = Deletes(base, frames)
  BY DEF Deletes, E
<1>10. g[0] = none /\ \A i \in 1 .. n : g[i] = Next1(g[i - 1], i)
  BY <1>1, <1>8 DEF E
<1> HIDE DEF g
<1> DEFINE Right(s, i) ==
               /\ s \in VFrames /\ AllDeletes(s)
               /\ \A d \in VDocs : (\E j \in 1 .. i : frames[j][1] = d) /\ base[d] # 0 => Rewrites(s, d)
           G == {i \in 0 .. n : Right(g[i], i)}
<1>11. 0 \in G
  <2>1. Len(none) = 0 /\ \A j : j \notin 1 .. 0
    BY SMT
  <2> HIDE DEF none
  <2> QED
    BY <1>1, <1>10, <2>1 DEF AllDeletes
<1>12. ASSUME NEW i \in 0 .. n - 1, i \in G
       PROVE  i + 1 \in G
  <2>1. /\ i + 1 \in 1 .. n /\ i + 1 \in 0 .. n /\ (i + 1) - 1 = i
        /\ \A j \in 1 .. i + 1 : j = i + 1 \/ j \in 1 .. i
    BY SMT, <1>1
  <2> DEFINE s == g[i]  d == frames[i + 1][1]  t == Append(s, <<d, 0>>)
  <2>2. g[i + 1] = Next1(s, i + 1) /\ d \in VDocs /\ Right(s, i)
    BY <1>1, <1>10, <1>12, <2>1
  <2>3. CASE base[d] = 0
    BY <2>1, <2>2, <2>3
  <2>4. CASE base[d] # 0
    <3>1. g[i + 1] = t
      BY <2>2, <2>4
    <3> HIDE DEF s, d
    <3>2. /\ t \in VFrames /\ \A k \in 1 .. Len(t) : k \in 1 .. Len(s) \/ k = Len(s) + 1
          /\ \A k \in 1 .. Len(s) : t[k] = s[k] /\ k \in 1 .. Len(t)
          /\ t[Len(s) + 1] = <<d, 0>> /\ Len(s) + 1 \in 1 .. Len(t)
      BY SMT, <2>2 DEF VFrames
    <3>3. <<d, 0>>[1] = d /\ <<d, 0>>[2] = 0
      OBVIOUS
    <3> HIDE DEF t
    <3>4. AllDeletes(t)
      BY <2>2, <3>2, <3>3 DEF AllDeletes
    <3>5. Rewrites(t, d) /\ \A e \in VDocs : Rewrites(s, e) => Rewrites(t, e)
      BY <3>2, <3>3 DEF Rewrites
    <3>6. \A e \in VDocs : (\E j \in 1 .. i + 1 : frames[j][1] = e) => e = d \/ \E j \in 1 .. i : frames[j][1] = e
      BY <2>1 DEF d
    <3>7. Right(t, i + 1)
      BY <2>2, <3>2, <3>4, <3>5, <3>6
    <3> QED
      BY <2>1, <3>1, <3>7
  <2> QED
    BY <2>3, <2>4
<1> HIDE DEF G
<1>13. n \in G
  BY <1>1, <1>11, <1>12, UpTo
<1>14. Right(g[n], n)
  BY <1>13 DEF G
<1> QED
  BY <1>9, <1>14 DEF Rewrites

-----------------------------------------------------------------------------
(* What a recovery gives.                                                  *)

IsRest(r, S, s, k) ==
    /\ r \in Seq(S) /\ Len(r) = Len(s) - k
    /\ \A i \in 1 .. Len(s) - k : r[i] = s[k + i] /\ k + i \in 1 .. Len(s)
\* The frames of a log after the first k.
LEMMA RestOf ==
    ASSUME NEW S, NEW s \in Seq(S), NEW k \in 0 .. Len(s)
    PROVE  /\ IsRest(Rest(s, k), S, s, k)
           /\ k = Len(s) => Rest(s, k) = <<>>
           /\ k = 0 => Rest(s, k) = s
  BY SMT DEF Rest, IsRest

IsFirst(r, S, s, k) == r \in Seq(S) /\ Len(r) = k /\ \A i \in 1 .. k : r[i] = s[i]
\* The first frames of a log.
LEMMA FirstOf ==
    ASSUME NEW S, NEW s \in Seq(S), NEW k \in 0 .. Len(s)
    PROVE  IsFirst(SubSeq(s, 1, k), S, s, k)
  BY SMT DEF IsFirst

IsJoined(u, S, s, t) ==
    /\ u \in Seq(S) /\ Len(u) = Len(s) + Len(t) /\ Len(s) \in Nat /\ Len(t) \in Nat
    /\ \A i \in 1 .. Len(s) : u[i] = s[i]
    /\ \A i \in 1 .. Len(t) : u[Len(s) + i] = t[i]
\* A log that has grown.
LEMMA Joined ==
    ASSUME NEW S, NEW s \in Seq(S), NEW t \in Seq(S)
    PROVE  IsJoined(s \o t, S, s, t)
  BY SMT DEF IsJoined

\* Sequences are equal if their elements are.
LEMMA SameSequence ==
    ASSUME NEW S, NEW s \in Seq(S), NEW t \in Seq(S), Len(s) = Len(t),
           \A i \in 1 .. Len(s) : s[i] = t[i]
    PROVE  s = t
  BY SMT

\* The rest, and the beginning, of a log that has grown.
LEMMA RestMore ==
    ASSUME NEW s \in VFrames, NEW t \in VFrames, NEW k \in 0 .. Len(s)
    PROVE  /\ s \o t \in VFrames /\ k \in 0 .. Len(s \o t)
           /\ Rest(s \o t, k) = Rest(s, k) \o t
           /\ SubSeq(s \o t, 1, Len(s)) = s
<1> DEFINE S == VDocs \X Nat  u == s \o t  v == Rest(u, k)  r == Rest(s, k)  w == r \o t
           x == SubSeq(u, 1, Len(s))
<1>1. s \in Seq(S) /\ t \in Seq(S)
  BY DEF VFrames
<1> HIDE DEF S
<1>2. IsJoined(u, S, s, t)
  BY <1>1, Joined
<1> HIDE DEF u
<1>3. k \in 0 .. Len(u) /\ Len(s) \in 0 .. Len(u) /\ u \in Seq(S)
  BY SMT, <1>2 DEF IsJoined
<1>4. IsRest(v, S, u, k)
  BY <1>3, RestOf
<1>5. IsRest(r, S, s, k)
  BY <1>1, RestOf
<1>6. IsJoined(w, S, r, t)
  <2>1. r \in Seq(S)
    BY <1>5 DEF IsRest
  <2> HIDE DEF r
  <2> QED
    BY <1>1, <2>1, Joined
<1>7. IsFirst(x, S, u, Len(s))
  BY <1>3, FirstOf
<1> USE DEF IsRest, IsFirst, IsJoined
<1> HIDE DEF v, r
<1> HIDE DEF w, x
<1>8. x = s
  BY <1>1, <1>2, <1>7, SameSequence
<1>9. v = w
  <2>1. Len(v) = Len(w) /\ Len(w) = Len(r) + Len(t) /\ Len(r) \in Nat
    BY SMT, <1>2, <1>4, <1>5, <1>6
  <2>2. ASSUME NEW i \in 1 .. Len(v)
        PROVE  v[i] = w[i]
    <3>1. v[i] = u[k + i]
      BY <1>4
    <3>2. CASE i \in 1 .. Len(r)
      BY <1>2, <1>5, <1>6, <3>1, <3>2
    <3>3. CASE i \notin 1 .. Len(r)
      <4> DEFINE j == i - Len(r)
      <4>1. j \in 1 .. Len(t) /\ Len(r) + j = i /\ Len(s) + j = k + i
        BY SMT, <1>2, <1>5, <2>1, <3>3
      <4> HIDE DEF j
      <4> QED
        BY <1>2, <1>6, <3>1, <4>1
    <3> QED
      BY <3>2, <3>3
  <2> QED
    BY <1>4, <1>6, <2>1, <2>2, SameSequence
<1> QED
  BY <1>2, <1>3, <1>8, <1>9 DEF S, u, v, r, w, x, VFrames

\* Places in a log.
LEMMA LogParts ==
    ASSUME NEW s \in VFrames
    PROVE  /\ Len(s) \in Nat /\ 0 <= Len(s) /\ Rest(s, 0) = s /\ Rest(s, Len(s)) = <<>>
           /\ \A k \in Nat : k <= Len(s) <=> k \in 0 .. Len(s)
           /\ \A k \in 0 .. Len(s) : Rest(s, k) \in VFrames /\ SubSeq(s, 1, k) \in VFrames
           /\ \A k \in 0 .. Len(s) : Len(SubSeq(s, 1, k)) = k
<1>1. Len(s) \in Nat /\ 0 \in 0 .. Len(s) /\ Len(s) \in 0 .. Len(s) /\ 0 <= Len(s)
  BY SMT DEF VFrames
<1>2. \A k \in Nat : k <= Len(s) <=> k \in 0 .. Len(s)
  BY SMT, <1>1
<1>3. Rest(s, 0) = s /\ Rest(s, Len(s)) = <<>>
  BY <1>1, RestOf DEF VFrames
<1>4. \A k \in 0 .. Len(s) : Rest(s, k) \in VFrames
  BY RestOf DEF VFrames, IsRest
<1>5. \A k \in 0 .. Len(s) : SubSeq(s, 1, k) \in VFrames /\ Len(SubSeq(s, 1, k)) = k
  BY FirstOf DEF VFrames, IsFirst
<1> QED
  BY <1>1, <1>2, <1>3, <1>4, <1>5

\* The rows a recovery starts with, and the frames it skips.
LEMMA BaseType ==
    ASSUME NEW snaps \in [1 .. MaxBuilds -> VRows], NEW c \in VCurrent, c.epoch <= MaxBuilds,
           NEW epoch
    PROVE  BaseRows(snaps, c) \in VRows /\ Skips(epoch, c) \in Nat
<1>1. NoRows \in VRows
  BY SMT DEF NoRows, VRows
<1>2. MaxBuilds \in Nat
  BY VectorIndexAssumption
<1>3. c.epoch # 0 => c.epoch \in 1 .. MaxBuilds
  BY SMT, <1>2 DEF VCurrent
<1>4. c.covered \in Nat /\ 0 \in Nat
  BY SMT DEF VCurrent
<1> QED
  BY <1>1, <1>3, <1>4 DEF BaseRows, Skips

\* open computes it.
LEMMA RecoveredIs ==
    ASSUME NEW l \in VLog, NEW c \in VCurrent, Skips(l.epoch, c) <= Len(l.frames)
    PROVE  Gives(snapshots, l.epoch, l.frames, c, Recovered(l, c))
<1>1. Skipped(l, c) = Skips(l.epoch, c)
  BY SMT DEF Skipped, Skips, VLog, VCurrent, VFrames
<1> QED
  BY <1>1 DEF Gives, Recovered, BaseRows, Rest

\* More frames in the log.
LEMMA GivesMore ==
    ASSUME NEW snaps \in [1 .. MaxBuilds -> VRows], NEW c \in VCurrent, c.epoch <= MaxBuilds,
           NEW epoch, NEW s \in VFrames, NEW t \in VFrames, NEW r, Gives(snaps, epoch, s, c, r)
    PROVE  Gives(snaps, epoch, s \o t, c, ApplyFrames(r, t))
<1> DEFINE b == BaseRows(snaps, c)  k == Skips(epoch, c)
<1>1. b \in VRows /\ k \in Nat
  BY BaseType
<1>2. k <= Len(s) /\ ApplyFrames(b, Rest(s, k)) = r
  BY DEF Gives
<1> HIDE DEF b, k
<1>3. k \in 0 .. Len(s)
  BY <1>1, <1>2, LogParts
<1>4. Rest(s \o t, k) = Rest(s, k) \o t /\ Rest(s, k) \in VFrames /\ k <= Len(s \o t)
  <2>1. Rest(s \o t, k) = Rest(s, k) \o t /\ k \in 0 .. Len(s \o t) /\ s \o t \in VFrames
    BY <1>3, RestMore
  <2> QED
    BY <1>1, <1>3, <2>1, LogParts
<1>5. ApplyFrames(b, Rest(s, k) \o t) = ApplyFrames(r, t)
  BY <1>1, <1>2, <1>4, ApplyMore
<1> QED
  BY <1>4, <1>5 DEF Gives, b, k

\* A snapshot of another epoch.
LEMMA GivesBeside ==
    ASSUME NEW snaps, NEW other, NEW c, c.epoch # 0 => other[c.epoch] = snaps[c.epoch],
           NEW epoch, NEW s, NEW r, Gives(snaps, epoch, s, c, r)
    PROVE  Gives(other, epoch, s, c, r)
<1>1. BaseRows(other, c) = BaseRows(snaps, c)
  BY DEF BaseRows
<1> QED
  BY <1>1 DEF Gives

\* CURRENT names a snapshot, of the log there is or of the one before.
LEMMA GivesSnapshot ==
    ASSUME NEW snaps, NEW c, c.epoch # 0, NEW epoch, NEW s \in VFrames, NEW r
    PROVE  /\ /\ c.log_epoch = epoch /\ c.covered <= Len(s)
              /\ ApplyFrames(snaps[c.epoch], Rest(s, c.covered)) = r
              => Gives(snaps, epoch, s, c, r)
           /\ c.log_epoch # epoch /\ ApplyFrames(snaps[c.epoch], s) = r => Gives(snaps, epoch, s, c, r)
<1>1. BaseRows(snaps, c) = snaps[c.epoch]
  BY DEF BaseRows
<1>2. c.log_epoch = epoch => Skips(epoch, c) = c.covered
  BY DEF Skips
<1>3. c.log_epoch # epoch => Skips(epoch, c) = 0
  BY DEF Skips
<1>4. Rest(s, 0) = s /\ 0 <= Len(s)
  BY LogParts
<1> QED
  BY <1>1, <1>2, <1>3, <1>4 DEF Gives

-----------------------------------------------------------------------------
(* What keeps the parts of the invariant about recovery.                   *)

\* The fields of the state.
LEMMA VFields ==
    ASSUME VTypeOK, AppendOK
    PROVE  /\ rowsLog.epoch \in Nat /\ rowsLog.frames \in VFrames
           /\ rowsLog = [epoch |-> rowsLog.epoch, frames |-> rowsLog.frames]
           /\ current.epoch \in Nat /\ current.log_epoch \in Nat /\ current.covered \in Nat
           /\ vleft.builds \in Nat /\ manifest \in Nat /\ MaxBuilds \in Nat
           /\ Settled \in VFrames
           /\ request.step \in {"idle", "append", "commit", "remove"}
           /\ request.step = "idle" <=> request = Resting
           /\ request.step = "append" => request.from \in Nat /\ request.next \in {"commit", "idle"}
           /\ request.step # "idle" => request.frames \in VFrames
           /\ build.step \in {"idle", "captured", "written", "publish", "published", "rotate"}
           /\ build.step = "idle" <=> build = Resting
           /\ build.step # "idle" =>
                 /\ build.rows \in VRows /\ build.before \in VCurrent /\ build.current \in VCurrent
                 /\ build.oldLog \in VLog
<1>1. /\ rowsLog.epoch \in Nat /\ rowsLog.frames \in VFrames
      /\ rowsLog = [epoch |-> rowsLog.epoch, frames |-> rowsLog.frames]
      /\ current.epoch \in Nat /\ current.log_epoch \in Nat /\ current.covered \in Nat
  BY SMT DEF VTypeOK, VLog, VCurrent
<1>2. vleft.builds \in Nat /\ manifest \in Nat /\ MaxBuilds \in Nat
  BY SMT, VectorIndexAssumption DEF VTypeOK
<1>3. /\ request.step \in {"idle", "append", "commit", "remove"}
      /\ request.step = "idle" <=> request = Resting
      /\ request.step = "append" => request.from \in Nat /\ request.next \in {"commit", "idle"}
      /\ request.step # "idle" => request.frames \in VFrames
  BY SMT DEF VTypeOK, VRequest, Resting
<1>4. /\ build.step \in {"idle", "captured", "written", "publish", "published", "rotate"}
      /\ build.step = "idle" <=> build = Resting
      /\ build.step # "idle" =>
            /\ build.rows \in VRows /\ build.before \in VCurrent /\ build.current \in VCurrent
            /\ build.oldLog \in VLog
  BY SMT DEF VTypeOK, VBuild, Resting
<1>5. Settled \in VFrames
  <2>1. request.step = "append" => request.from \in 0 .. Len(rowsLog.frames)
    BY <1>1, <1>3, LogParts DEF AppendOK
  <2> QED
    BY <1>1, <2>1, LogParts DEF Settled
<1> QED
  BY <1>1, <1>2, <1>3, <1>4, <1>5

\* A build's log and CURRENTs.
LEMMA VBuildFields ==
    ASSUME VTypeOK, build.step # "idle"
    PROVE  /\ build.before.epoch \in Nat /\ build.before.log_epoch \in Nat
           /\ build.current.epoch \in Nat /\ build.current.log_epoch \in Nat
           /\ build.current.covered \in Nat
           /\ build.oldLog.epoch \in Nat /\ build.oldLog.frames \in VFrames
  BY SMT DEF VTypeOK, VBuild, VCurrent, VLog, Resting

\* The epochs in use have snapshots.
LEMMA EpochsBound ==
    ASSUME VTypeOK, AppendOK, EpochsOK, BuildOK
    PROVE  /\ current.epoch <= MaxBuilds
           /\ build.step # "idle" => build.current.epoch <= MaxBuilds /\ build.current.epoch # 0
           /\ build.step \notin {"idle", "rotate"} => build.before.epoch <= MaxBuilds
<1>1. current.epoch <= MaxBuilds
  BY SMT, VFields DEF EpochsOK
<1>2. ASSUME build.step # "idle"
      PROVE  build.current.epoch <= MaxBuilds /\ build.current.epoch # 0
  <2>1. build.current.epoch = manifest + 1 /\ build.current.epoch + vleft.builds <= MaxBuilds
    BY <1>2 DEF BuildOK
  <2> QED
    BY SMT, <2>1, VFields
<1>3. ASSUME build.step \notin {"idle", "rotate"}
      PROVE  build.before.epoch <= MaxBuilds
  <2>1. build.before.epoch = manifest /\ build.current.epoch = manifest + 1
    BY <1>3 DEF BuildOK
  <2> QED
    BY SMT, <1>2, <1>3, <2>1, VFields
<1> QED
  BY <1>1, <1>2, <1>3

\* Nothing published changes.
LEMMA SameRecovery ==
    ASSUME VInv, Settled' = Settled, rowsLog'.epoch = rowsLog.epoch,
           UNCHANGED <<rows, current, snapshots, manifest, build>>,
           serving' # "closed" => serving # "closed", vleft'.builds = vleft.builds,
           build.step = "rotate" => rowsLog' = rowsLog /\ request'.step # "append"
    PROVE  (EpochsOK /\ BuildOK /\ RecoverOK)'
<1>1. EpochsOK'
  BY DEF VInv, EpochsOK
<1>2. RecoverOK'
  BY DEF VInv, RecoverOK
<1>3. BuildOK'
  BY DEF VInv, BuildOK, Published
<1> QED
  BY <1>1, <1>2, <1>3

\* The rows of more frames are published.
LEMMA MoreRecovered ==
    ASSUME VInv, NEW t \in VFrames, Settled' = Settled \o t, rowsLog'.epoch = rowsLog.epoch,
           rows' = ApplyFrames(rows, t), build.step # "rotate",
           UNCHANGED <<current, snapshots, manifest, build, serving>>, serving # "closed",
           vleft'.builds = vleft.builds
    PROVE  (EpochsOK /\ BuildOK /\ RecoverOK)'
<1> USE DEF VInv
<1>1. EpochsOK'
  BY DEF EpochsOK
<1>2. Settled \in VFrames /\ current \in VCurrent /\ snapshots \in [1 .. MaxBuilds -> VRows]
  BY VFields DEF VTypeOK
<1>3. RecoverOK'
  <2>1. Gives(snapshots, rowsLog.epoch, Settled, current, rows)
    BY DEF RecoverOK
  <2>2. Gives(snapshots, rowsLog.epoch, Settled \o t, current, ApplyFrames(rows, t))
    BY <1>2, <2>1, EpochsBound, GivesMore
  <2>3. Skips(rowsLog.epoch, current) <= Len(Settled \o t)
    BY <2>2 DEF Gives
  <2> QED
    BY <2>2, <2>3 DEF RecoverOK
<1>4. BuildOK'
  <2> SUFFICES ASSUME build.step # "idle"
               PROVE  BuildOK'
    BY DEF BuildOK
  <2> DEFINE k == build.current.covered
  <2>1. /\ build.rows \in VRows /\ build.before \in VCurrent /\ k \in Nat
        /\ build.before.epoch <= MaxBuilds
    BY VFields, VBuildFields, EpochsBound
  <2>2. Gives(snapshots, rowsLog.epoch, Settled \o t, build.before, ApplyFrames(rows, t))
    <3>1. Gives(snapshots, rowsLog.epoch, Settled, build.before, rows)
      BY DEF BuildOK
    <3> QED
      BY <1>2, <2>1, <3>1, GivesMore
  <2>3. k <= Len(Settled) /\ ApplyFrames(build.rows, Rest(Settled, k)) = rows
    BY DEF BuildOK
  <2> HIDE DEF k
  <2>4. k \in 0 .. Len(Settled) /\ Rest(Settled, k) \in VFrames
    BY <1>2, <2>1, <2>3, LogParts
  <2>5. Rest(Settled \o t, k) = Rest(Settled, k) \o t /\ k <= Len(Settled \o t)
    <3>1. /\ Rest(Settled \o t, k) = Rest(Settled, k) \o t /\ k \in 0 .. Len(Settled \o t)
          /\ Settled \o t \in VFrames
      BY <1>2, <2>4, RestMore
    <3> QED
      BY <2>1, <3>1, LogParts
  <2>6. ApplyFrames(build.rows, Rest(Settled \o t, k)) = ApplyFrames(rows, t)
    BY <2>1, <2>3, <2>4, <2>5, ApplyMore
  <2> QED
    BY <2>2, <2>5, <2>6 DEF k, BuildOK, Published
<1> QED
  BY <1>1, <1>3, <1>4

\* A log with other frames.
LEMMA LogWith ==
    ASSUME NEW e, NEW f, NEW g
    PROVE  /\ [[epoch |-> e, frames |-> f] EXCEPT !.frames = g] = [epoch |-> e, frames |-> g]
           /\ [epoch |-> e, frames |-> g].epoch = e /\ [epoch |-> e, frames |-> g].frames = g
  BY SMT

-----------------------------------------------------------------------------
(* The steps of a request.                                                 *)

\* An append of frames begins.
LEMMA AppendRowsStep ==
    ASSUME VInv, NEW frames \in VFrames, NEW next \in {"commit", "idle"}, AppendRows(frames, next),
           serving = "open", vleft' \in [stores : 0 .. MaxStored, builds : {vleft.builds}, stops : Nat]
    PROVE  (VTypeOK /\ EpochsOK /\ BuildOK /\ AppendOK /\ RecoverOK)'
<1> USE DEF VInv
<1> DEFINE old == rowsLog.frames
<1>1. old \in VFrames /\ rowsLog.epoch \in Nat /\ vleft.builds \in Nat /\ Len(old) \in Nat
  BY VFields, LogParts
<1>2. build.step # "rotate" /\ request.step # "append"
  BY DEF AppendRows, LogFree
<1>3. old \o frames \in VFrames /\ SubSeq(old \o frames, 1, Len(old)) = old /\ Len(old) <= Len(old \o frames)
  <2>1. Len(old) \in 0 .. Len(old)
    BY SMT, <1>1
  <2>2. /\ old \o frames \in VFrames /\ SubSeq(old \o frames, 1, Len(old)) = old
        /\ Len(old) \in 0 .. Len(old \o frames)
    BY <1>1, <2>1, RestMore
  <2> HIDE DEF old
  <2> QED
    BY <1>1, <2>2, LogParts
<1>4. /\ rowsLog'.epoch = rowsLog.epoch /\ rowsLog'.frames = old \o frames
      /\ rowsLog' = [epoch |-> rowsLog.epoch, frames |-> old \o frames]
  <2>1. rowsLog' = [rowsLog EXCEPT !.frames = old \o frames]
    BY DEF AppendRows
  <2>2. rowsLog = [epoch |-> rowsLog.epoch, frames |-> rowsLog.frames]
    BY VFields
  <2> QED
    BY <2>1, <2>2, LogWith
<1>5. /\ request' = [step |-> "append", from |-> Len(old), frames |-> frames, next |-> next]
      /\ marker' = TRUE /\ UNCHANGED <<versions, rows, current, snapshots, manifest, serving, build>>
  BY DEF AppendRows
<1>6. /\ request'.step = "append" /\ request'.from = Len(old) /\ request'.frames = frames
      /\ request' \in VRequest
  BY SMT, <1>1, <1>5 DEF VRequest
<1>7. rowsLog' \in VLog
  BY SMT, <1>1, <1>3, <1>4 DEF VLog
<1>8. vleft'.builds = vleft.builds /\ vleft' \in [stores : 0 .. MaxStored, builds : Nat, stops : Nat]
  BY SMT, <1>1
<1>9. Settled' = Settled
  BY <1>2, <1>3, <1>4, <1>6 DEF Settled
<1> HIDE DEF old
<1>10. VTypeOK'
  BY <1>5, <1>6, <1>7, <1>8 DEF VTypeOK
<1>11. AppendOK'
  <2>1. Settled' = old
    BY <1>2, <1>9 DEF Settled, old
  <2> QED
    BY <1>3, <1>4, <1>5, <1>6, <2>1 DEF AppendOK
<1>12. (EpochsOK /\ BuildOK /\ RecoverOK)'
  BY <1>2, <1>4, <1>5, <1>8, <1>9, SameRecovery
<1> QED
  BY <1>10, <1>11, <1>12

\* What a document or a delete asks for.
LEMMA OneDelete ==
    ASSUME NEW d \in VDocs
    PROVE  LET f == <<<<d, 0>>>>
           IN  f \in VFrames /\ \A e \in VDocs : Rewrites(f, e) <=> e = d
  BY SMT DEF VFrames, Rewrites

\* The frames of a batch.
LEMMA BatchFrames ==
    ASSUME NEW batch \in VBatches, NEW token \in Nat
    PROVE  [i \in DOMAIN batch |-> <<batch[i], token>>] \in VFrames
<1>1. batch \in Seq(VDocs)
  BY VectorIndexAssumption
<1> QED
  BY SMT, <1>1 DEF VFrames

\* store_docs stages its rows.
LEMMA StageStep ==
    ASSUME VInv, NEW batch \in VBatches, StageRows(batch)
    PROVE  VInv'
<1> DEFINE token == MaxStored - vleft.stores + 1
           frames == [i \in DOMAIN batch |-> <<batch[i], token>>]
<1>1. /\ token \in Nat
      /\ vleft' \in [stores : 0 .. MaxStored, builds : {vleft.builds}, stops : Nat]
  <2>1. vleft \in [stores : 0 .. MaxStored, builds : Nat, stops : Nat] /\ MaxStored \in Nat
    BY VectorIndexAssumption DEF VInv, VTypeOK
  <2>2. vleft.stores > 0 /\ vleft' = [vleft EXCEPT !.stores = vleft.stores - 1]
    BY DEF StageRows
  <2> QED
    BY SMT, <2>1, <2>2
<1>2. frames \in VFrames
  BY <1>1, BatchFrames
<1>3. AppendRows(frames, "commit") /\ serving = "open" /\ request.step = "idle"
  BY DEF StageRows
<1> HIDE DEF frames, token
<1>4. (VTypeOK /\ EpochsOK /\ BuildOK /\ AppendOK /\ RecoverOK)'
  BY <1>1, <1>2, <1>3, AppendRowsStep
<1>5. MatchOK'
  <2>1. Matches(versions, rows)
    BY <1>3 DEF VInv, MatchOK
  <2>2. request'.step = "append" /\ request'.next = "commit"
    BY <1>3 DEF AppendRows
  <2>3. marker' = TRUE /\ versions' = versions /\ rows' = rows
    BY <1>3 DEF AppendRows
  <2> QED
    BY <2>1, <2>2, <2>3 DEF MatchOK
<1> QED
  BY <1>4, <1>5 DEF VInv

\* A row of the engine's version, and rows after frames.
LEMMA MatchAfter ==
    ASSUME NEW v \in VRows, NEW r \in VRows, NEW frames \in VFrames
    PROVE  /\ Matches(v, r) => Matching(v, r, frames)
           /\ AllDeletes(frames) /\ Matching(v, r, frames) => Matches(v, ApplyFrames(r, frames))
           /\ Matching(v, r, frames) => Matching(v, ApplyFrames(r, frames), frames)
           /\ Matching(v, r, frames) /\ (\A d \in VDocs : Rewrites(frames, d) => r[d] = ApplyFrames(v, frames)[d])
              => Matches(ApplyFrames(v, frames), r)
<1>1. \A d \in VDocs : /\ ~Rewrites(frames, d) => ApplyFrames(r, frames)[d] = r[d]
                       /\ ~Rewrites(frames, d) => ApplyFrames(v, frames)[d] = v[d]
                       /\ Rewrites(frames, d) /\ AllDeletes(frames) => ApplyFrames(r, frames)[d] = 0
  BY ApplyRows
<1> QED
  BY <1>1 DEF Matches, Matching

\* The sync, and the rows published.
LEMMA AppendDoneStep ==
    ASSUME VInv, AppendDone
    PROVE  VInv'
<1> DEFINE t == request.frames
<1>1. /\ request.step = "append" /\ t \in VFrames /\ Settled \in VFrames
      /\ request.next \in {"commit", "idle"} /\ rows \in VRows /\ versions \in VRows
  BY VFields DEF AppendDone, VInv, VTypeOK
<1>2. /\ rows' = ApplyFrames(rows, t)
      /\ UNCHANGED <<versions, rowsLog, current, snapshots, manifest, marker, serving, build, vleft>>
  BY DEF AppendDone
<1>3. /\ request.next = "idle" => request' = Resting
      /\ request.next = "commit" => request' = [step |-> "commit", frames |-> t]
  BY DEF AppendDone
<1>4. rowsLog.frames = Settled \o t /\ marker
  BY <1>1 DEF VInv, AppendOK
<1>5. /\ request' \in VRequest /\ request'.step # "append"
      /\ request.next = "idle" => request'.step = "idle"
      /\ request.next = "commit" => request'.step = "commit" /\ request'.frames = t
  <2> HIDE DEF t
  <2> QED
    BY SMT, <1>1, <1>3 DEF VRequest, Resting
<1>6. Settled' = Settled \o t
  BY <1>2, <1>4, <1>5 DEF Settled
<1>7. build.step # "rotate" /\ serving = "open"
  <2>1. build.step = "rotate" => request.step # "append"
    BY DEF VInv, BuildOK
  <2>2. serving # "open" => request.step = "idle"
    BY VFields DEF VInv, VTypeOK
  <2> QED
    BY <1>1, <2>1, <2>2
<1>8. rows' \in VRows
  BY <1>1, <1>2, ApplyType
<1> HIDE DEF t
<1>9. (EpochsOK /\ BuildOK /\ RecoverOK)'
  BY <1>1, <1>2, <1>6, <1>7, MoreRecovered
<1>10. VTypeOK'
  BY <1>2, <1>5, <1>7, <1>8 DEF VInv, VTypeOK
<1>11. AppendOK'
  BY <1>5 DEF AppendOK
<1>12. MatchOK'
  <2>1. CASE request.next = "idle"
    <3>1. AllDeletes(t) /\ Matching(versions, rows, t)
      BY <1>1, <2>1 DEF VInv, MatchOK, t
    <3>2. Matches(versions, rows')
      BY <1>1, <1>2, <3>1, MatchAfter
    <3> QED
      BY <1>2, <1>4, <1>5, <2>1, <3>2 DEF MatchOK
  <2>2. CASE request.next = "commit"
    <3>1. Matches(versions, rows)
      BY <1>1, <2>2 DEF VInv, MatchOK
    <3>2. Matching(versions, rows', t)
      BY <1>1, <1>2, <3>1, MatchAfter
    <3>3. \A d \in VDocs : Rewrites(t, d) => rows'[d] = ApplyFrames(versions, t)[d]
      BY <1>1, <1>2, ApplyRows
    <3> QED
      BY <1>2, <1>4, <1>5, <2>2, <3>2, <3>3 DEF MatchOK
  <2> QED
    BY <1>1, <2>1, <2>2
<1> QED
  BY <1>9, <1>10, <1>11, <1>12 DEF VInv

\* The steps beside the index.
LEMMA EngineSteps ==
    ASSUME VInv, EngineCommits \/ EngineRefuses \/ \E d \in VDocs : DeleteDoc(d)
    PROVE  VInv'
<1>1. /\ request.step \in {"commit", "idle"} /\ UNCHANGED <<indexState, serving, build, vleft>>
      /\ serving = "open"
  <2>1. request.step \in {"commit", "idle"} /\ UNCHANGED <<indexState, serving, build, vleft>>
    BY DEF EngineCommits, EngineRefuses, DeleteDoc
  <2>2. request.step = "commit" => serving = "open"
    BY VFields DEF VInv, VTypeOK
  <2> QED
    BY <2>1, <2>2 DEF DeleteDoc, EngineCommits, EngineRefuses
<1>2. UNCHANGED <<rows, rowsLog, current, snapshots, manifest, marker>>
  BY <1>1 DEF indexState
<1>3. versions \in VRows /\ rows \in VRows
  BY DEF VInv, VTypeOK
<1>4. ASSUME request' \in VRequest, request'.step # "append", versions' \in VRows, MatchOK'
      PROVE  VInv'
  <2>1. Settled' = Settled
    BY <1>1, <1>2, <1>4 DEF Settled
  <2>2. (EpochsOK /\ BuildOK /\ RecoverOK)'
    BY <1>1, <1>2, <1>4, <2>1, SameRecovery
  <2>3. VTypeOK'
    BY <1>1, <1>2, <1>4 DEF VInv, VTypeOK
  <2>4. AppendOK'
    BY <1>4 DEF AppendOK
  <2> QED
    BY <1>4, <2>2, <2>3, <2>4 DEF VInv
<1>5. ASSUME EngineCommits
      PROVE  VInv'
  <2> DEFINE t == request.frames
  <2>1. request.step = "commit" /\ versions' = ApplyFrames(versions, t) /\ request' = Resting
    BY <1>5 DEF EngineCommits
  <2>2. t \in VFrames
    BY <2>1, VFields DEF VInv
  <2>3. /\ marker /\ Matching(versions, rows, t)
        /\ \A d \in VDocs : Rewrites(t, d) => rows[d] = ApplyFrames(versions, t)[d]
    BY <2>1 DEF VInv, MatchOK
  <2> HIDE DEF t
  <2>4. Matches(versions', rows) /\ versions' \in VRows
    BY <1>3, <2>1, <2>2, <2>3, MatchAfter, ApplyType
  <2>5. request' \in VRequest /\ request'.step = "idle"
    BY <2>1 DEF VRequest, Resting
  <2>6. MatchOK'
    BY <1>1, <1>2, <2>3, <2>4, <2>5 DEF MatchOK
  <2> QED
    BY <1>4, <2>4, <2>5, <2>6
<1>6. ASSUME EngineRefuses
      PROVE  VInv'
  <2> DEFINE t == request.frames
  <2>1. request.step = "commit" /\ versions' = versions /\ request' = [request EXCEPT !.step = "remove"]
    BY <1>6 DEF EngineRefuses
  <2>2. t \in VFrames
    BY <2>1, VFields DEF VInv
  <2>3. marker /\ Matching(versions, rows, t)
    BY <2>1 DEF VInv, MatchOK
  <2>4. request' \in VRequest /\ request'.step = "remove" /\ request'.frames = t
    <3>1. request \in VRequest
      BY DEF VInv, VTypeOK
    <3> QED
      BY SMT, <2>1, <3>1 DEF VRequest, Resting
  <2> HIDE DEF t
  <2>5. MatchOK'
    BY <1>1, <1>2, <2>1, <2>3, <2>4 DEF MatchOK
  <2> QED
    BY <1>3, <1>4, <2>1, <2>4, <2>5
<1>7. ASSUME NEW d \in VDocs, DeleteDoc(d)
      PROVE  VInv'
  <2> DEFINE t == <<<<d, 0>>>>
  <2>1. /\ request.step = "idle" /\ versions' = [versions EXCEPT ![d] = 0]
        /\ request' = [step |-> "remove", frames |-> t]
    BY <1>7 DEF DeleteDoc
  <2>2. t \in VFrames
    BY OneDelete
  <2> HIDE DEF t
  <2>3. request' \in VRequest /\ request'.step = "remove" /\ request'.frames = t
    BY SMT, <2>1, <2>2 DEF VRequest
  <2>4. versions' \in VRows /\ \A e \in VDocs : versions'[e] = IF e = d THEN 0 ELSE versions[e]
    BY SMT, <1>3, <2>1 DEF VRows
  <2>5. Matches(versions, rows)
    BY <1>1, <2>1 DEF VInv, MatchOK
  <2>6. Matches(versions', rows)
    BY <2>4, <2>5 DEF Matches
  <2>7. Matching(versions', rows, t)
    BY <1>3, <2>2, <2>4, <2>6, MatchAfter
  <2>8. MatchOK'
    BY <1>1, <1>2, <2>3, <2>6, <2>7 DEF MatchOK
  <2> QED
    BY <1>4, <2>3, <2>4, <2>8
<1> QED
  BY <1>5, <1>6, <1>7

\* remove.
LEMMA RemoveStep ==
    ASSUME VInv, RemoveRows
    PROVE  VInv'
<1> DEFINE t == request.frames  known == Deletes(rows, t)
<1>1. request.step = "remove" /\ t \in VFrames /\ rows \in VRows /\ versions \in VRows
  BY VFields DEF RemoveRows, VInv, VTypeOK
<1>2. serving = "open" /\ Matching(versions, rows, t)
  BY <1>1, VFields DEF VInv, VTypeOK, MatchOK
<1> HIDE DEF t
<1>3. /\ known \in VFrames /\ AllDeletes(known)
      /\ \A d \in VDocs : Rewrites(t, d) /\ rows[d] # 0 => Rewrites(known, d)
  BY <1>1, DeletesFrames
<1>4. Matching(versions, rows, known)
  BY <1>2, <1>3 DEF Matching
<1> HIDE DEF known
<1>5. CASE AppendRows(known, "idle") /\ UNCHANGED vleft
  <2>1. vleft' \in [stores : 0 .. MaxStored, builds : {vleft.builds}, stops : Nat]
    <3>1. vleft \in [stores : 0 .. MaxStored, builds : Nat, stops : Nat]
      BY DEF VInv, VTypeOK
    <3> QED
      BY SMT, <1>5, <3>1
  <2>2. (VTypeOK /\ EpochsOK /\ BuildOK /\ AppendOK /\ RecoverOK)'
    BY <1>2, <1>3, <1>5, <2>1, AppendRowsStep
  <2>3. request'.step = "append" /\ request'.next = "idle" /\ request'.frames = known
    BY <1>5 DEF AppendRows
  <2>4. marker' = TRUE /\ versions' = versions /\ rows' = rows
    BY <1>5 DEF AppendRows
  <2>5. MatchOK'
    BY <1>3, <1>4, <2>3, <2>4 DEF MatchOK
  <2> QED
    BY <2>2, <2>5 DEF VInv
<1>6. CASE known = <<>> /\ request' = Resting /\ UNCHANGED <<versions, indexState, serving, build, vleft>>
  <2>1. request'.step = "idle" /\ request' \in VRequest
    BY <1>6 DEF Resting, VRequest
  <2>2. UNCHANGED <<rows, rowsLog, current, snapshots, manifest, marker>>
    BY <1>6 DEF indexState
  <2>3. Settled' = Settled
    BY <1>1, <2>1, <2>2 DEF Settled
  <2>4. (EpochsOK /\ BuildOK /\ RecoverOK)'
    BY <1>6, <2>1, <2>2, <2>3, SameRecovery
  <2>5. Matches(versions, rows)
    <3>1. \A d : ~Rewrites(known, d)
      <4>1. Len(known) = 0 /\ \A i : i \notin 1 .. 0
        BY SMT, <1>6
      <4> QED
        BY <4>1 DEF Rewrites
    <3> QED
      BY <1>4, <3>1 DEF Matches, Matching
  <2>6. MatchOK'
    BY <1>2, <1>6, <2>1, <2>2, <2>5 DEF MatchOK
  <2>7. VTypeOK' /\ AppendOK'
    BY <1>2, <1>6, <2>1, <2>2 DEF VInv, VTypeOK, AppendOK
  <2> QED
    BY <2>4, <2>6, <2>7 DEF VInv
<1> QED
  BY <1>5, <1>6 DEF RemoveRows, known, t

-----------------------------------------------------------------------------
(* The steps of maintenance.                                               *)

\* A request does not notice.
LEMMA BuildBeside ==
    ASSUME VInv, serving = "open", UNCHANGED <<versions, rows, marker, serving, request>>,
           rowsLog' = rowsLog \/ request.step # "append"
    PROVE  AppendOK' /\ MatchOK'
<1>1. AppendOK'
  BY DEF VInv, AppendOK, Settled
<1>2. MatchOK'
  BY DEF VInv, MatchOK
<1> QED
  BY <1>1, <1>2

\* Who maintains has the index open.
LEMMA BuildServing ==
    ASSUME VInv, build.step # "idle"
    PROVE  serving = "open"
  BY VFields DEF VInv, VTypeOK

BuildOf(a, b, c, d, e) == [step |-> a, rows |-> b, before |-> c, oldLog |-> d, current |-> e]
IsOf(x, a, b, c, d, e) == x = BuildOf(a, b, c, d, e)
StepTo(b, to) == [b EXCEPT !.step = to]
StepWith(b, to, l) == [b EXCEPT !.step = to, !.oldLog = l]
\* A build with another step, and another log.
LEMMA BuildWith ==
    ASSUME NEW a, NEW b, NEW c, NEW d, NEW e, NEW to, NEW l, NEW x, IsOf(x, a, b, c, d, e)
    PROVE  /\ IsOf(StepTo(x, to), to, b, c, d, e)
           /\ IsOf(StepWith(x, to, l), to, b, c, l, e)
<1>1. [x EXCEPT !.step = to] = BuildOf(to, b, c, d, e)
  BY SMT DEF BuildOf, IsOf
<1>2. [BuildOf(to, b, c, d, e) EXCEPT !.oldLog = l] = BuildOf(to, b, c, l, e)
  BY SMT DEF BuildOf
<1>3. [x EXCEPT !.step = to, !.oldLog = l] = [[x EXCEPT !.step = to] EXCEPT !.oldLog = l]
  OBVIOUS
<1> QED
  BY <1>1, <1>2, <1>3 DEF StepTo, StepWith, IsOf

IsBuild(b, to, l) ==
    /\ b \in VBuild /\ b.step = to /\ b.rows = build.rows /\ b.before = build.before
    /\ b.oldLog = l /\ b.current = build.current
\* A build at its next step.
LEMMA BuildMoves ==
    ASSUME VTypeOK, build.step # "idle", NEW to \in {"written", "publish", "published", "rotate"},
           NEW l \in VLog
    PROVE  /\ IsBuild(StepTo(build, to), to, build.oldLog)
           /\ IsBuild(StepWith(build, to, l), to, l)
<1> DEFINE s == build.step  r == build.rows  before == build.before  old == build.oldLog
           c == build.current
<1>1. /\ IsOf(build, s, r, before, old, c)
      /\ r \in VRows /\ before \in VCurrent /\ c \in VCurrent /\ old \in VLog
  BY SMT DEF VTypeOK, VBuild, Resting, BuildOf, IsOf
<1> HIDE DEF s, r, before, old, c
<1>2. /\ IsOf(StepTo(build, to), to, r, before, old, c)
      /\ IsOf(StepWith(build, to, l), to, r, before, l, c)
  BY <1>1, BuildWith
<1>3. ASSUME NEW b, NEW x \in VLog, IsOf(b, to, r, before, x, c)
      PROVE  IsBuild(b, to, x)
  <2>1. b \in VBuild
    BY SMT, <1>1, <1>3 DEF VBuild, BuildOf, IsOf
  <2> QED
    BY <1>3, <2>1 DEF IsBuild, BuildOf, IsOf, r, before, c
<1> QED
  BY <1>1, <1>2, <1>3 DEF old

\* The rows are captured.
LEMMA CaptureStep ==
    ASSUME VInv, Capture
    PROVE  VInv'
<1> DEFINE c == [epoch |-> manifest + 1, log_epoch |-> rowsLog.epoch, covered |-> Len(rowsLog.frames)]
           b == [step |-> "captured", rows |-> rows, before |-> current, oldLog |-> rowsLog,
                 current |-> c]
<1>1. /\ serving = "open" /\ build.step = "idle" /\ request.step # "append" /\ build' = b
      /\ vleft.builds > 0 /\ vleft' = [vleft EXCEPT !.builds = vleft.builds - 1]
      /\ UNCHANGED <<versions, indexState, serving, request>>
  BY DEF Capture, LogFree
<1>2. UNCHANGED <<rows, rowsLog, current, snapshots, manifest, marker>>
  BY <1>1 DEF indexState
<1>3. VTypeOK /\ EpochsOK /\ BuildOK /\ AppendOK /\ RecoverOK /\ MatchOK
  BY DEF VInv
<1>4. /\ rowsLog.epoch \in Nat /\ rowsLog.frames \in VFrames /\ manifest \in Nat /\ rowsLog \in VLog
      /\ rows \in VRows /\ current \in VCurrent
  BY <1>3, VFields DEF VTypeOK
<1>5. Len(rowsLog.frames) \in Nat /\ Rest(rowsLog.frames, Len(rowsLog.frames)) = <<>>
  BY <1>4, LogParts
<1>6. /\ c \in VCurrent /\ c.epoch = manifest + 1 /\ c.log_epoch = rowsLog.epoch
      /\ c.covered = Len(rowsLog.frames)
  BY SMT, <1>4, <1>5 DEF VCurrent
<1> HIDE DEF c
<1>7. /\ b \in VBuild /\ b.step = "captured" /\ b.rows = rows /\ b.before = current
      /\ b.current = c
  BY SMT, <1>4, <1>6 DEF VBuild
<1> HIDE DEF b
<1>8. /\ vleft' \in [stores : 0 .. MaxStored, builds : Nat, stops : Nat]
      /\ vleft'.builds = vleft.builds - 1
  <2>1. vleft \in [stores : 0 .. MaxStored, builds : Nat, stops : Nat]
    BY <1>3 DEF VTypeOK
  <2> QED
    BY SMT, <1>1, <2>1
<1>9. AppendOK' /\ MatchOK'
  BY <1>1, <1>2, BuildBeside
<1>10. VTypeOK'
  BY <1>1, <1>2, <1>3, <1>7, <1>8 DEF VTypeOK
<1>11. Settled = rowsLog.frames /\ Settled' = Settled
  BY <1>1, <1>2 DEF Settled
<1>12. manifest = current.epoch /\ current.epoch + vleft.builds <= MaxBuilds
  BY <1>1, <1>3 DEF EpochsOK
<1>13. /\ current.epoch + (vleft.builds - 1) <= MaxBuilds
       /\ (manifest + 1) + (vleft.builds - 1) <= MaxBuilds
  BY SMT, <1>3, <1>12, VFields
<1>14. EpochsOK'
  BY <1>1, <1>2, <1>3, <1>8, <1>12, <1>13 DEF EpochsOK
<1>15. RecoverOK'
  BY <1>1, <1>2, <1>3, <1>11 DEF RecoverOK
<1>16. Gives(snapshots, rowsLog.epoch, Settled, current, rows)
  BY <1>1, <1>3 DEF RecoverOK
<1>17. ApplyFrames(rows, Rest(Settled, c.covered)) = rows /\ c.covered <= Len(Settled)
  <2>1. ApplyFrames(rows, <<>>) = rows
    BY <1>4, ApplyFew
  <2>2. Len(rowsLog.frames) <= Len(rowsLog.frames)
    BY SMT, <1>5
  <2> QED
    BY <1>5, <1>6, <1>11, <2>1, <2>2
<1>18. rowsLog.epoch <= current.epoch /\ current.log_epoch <= rowsLog.epoch
  BY <1>3 DEF EpochsOK
<1>19. BuildOK'
  BY <1>1, <1>2, <1>6, <1>7, <1>8, <1>11, <1>12, <1>13, <1>16, <1>17, <1>18 DEF BuildOK, Published
<1> QED
  BY <1>9, <1>10, <1>14, <1>15, <1>19 DEF VInv

\* The snapshot's files are written.
LEMMA WriteSnapshotStep ==
    ASSUME VInv, WriteSnapshot
    PROVE  VInv'
<1> DEFINE e == build.current.epoch
<1>1. /\ build.step = "captured" /\ build' = [build EXCEPT !.step = "written"]
      /\ snapshots' = [snapshots EXCEPT ![e] = build.rows]
      /\ UNCHANGED <<versions, serving, request, vleft, rows, rowsLog, current, manifest, marker>>
  BY DEF WriteSnapshot, Build
<1>2. VTypeOK /\ EpochsOK /\ BuildOK /\ AppendOK /\ RecoverOK /\ MatchOK
  BY DEF VInv
<1>3. serving = "open"
  BY <1>1, BuildServing
<1>4. /\ build' \in VBuild /\ build'.step = "written" /\ build'.rows = build.rows
      /\ build'.before = build.before /\ build'.current = build.current
  <2>1. rowsLog \in VLog
    BY <1>2 DEF VTypeOK
  <2> QED
    <3>1. build' = StepTo(build, "written")
      BY <1>1 DEF StepTo
    <3>2. IsBuild(build', "written", build.oldLog)
      BY <1>1, <1>2, <2>1, <3>1, BuildMoves
    <3> QED
      BY <3>2 DEF IsBuild
<1>5. e = manifest + 1 /\ current = build.before /\ build.before.epoch = manifest
  BY <1>1, <1>2 DEF BuildOK, Published
<1>6. e \in 1 .. MaxBuilds /\ e # manifest /\ manifest \in Nat
  <2>1. e <= MaxBuilds /\ manifest \in Nat /\ MaxBuilds \in Nat
    BY <1>1, <1>2, EpochsBound, VFields
  <2> HIDE DEF e
  <2> QED
    BY SMT, <1>5, <2>1
<1>7. /\ snapshots' \in [1 .. MaxBuilds -> VRows] /\ snapshots'[e] = build.rows
      /\ manifest # 0 => snapshots'[manifest] = snapshots[manifest]
  <2>1. snapshots \in [1 .. MaxBuilds -> VRows] /\ build.rows \in VRows
    BY <1>1, <1>2, VFields DEF VTypeOK
  <2>2. snapshots' \in [1 .. MaxBuilds -> VRows]
    BY <1>1, <2>1
  <2>3. snapshots'[e] = build.rows
    BY <1>1, <1>6, <2>1
  <2>4. manifest # 0 => snapshots'[manifest] = snapshots[manifest]
    <3>1. manifest # 0 => manifest \in 1 .. MaxBuilds
      <4> HIDE DEF e
      <4>1. MaxBuilds \in Nat
        BY VectorIndexAssumption
      <4> QED
        BY SMT, <1>5, <1>6, <4>1
    <3> QED
      BY <1>1, <1>6, <2>1, <3>1
  <2> QED
    BY <2>2, <2>3, <2>4
<1>8. AppendOK' /\ MatchOK'
  BY <1>1, <1>3, BuildBeside
<1>9. VTypeOK'
  BY <1>1, <1>2, <1>3, <1>4, <1>7 DEF VTypeOK
<1>10. EpochsOK'
  BY <1>1, <1>2, <1>4 DEF EpochsOK
<1>11. Settled' = Settled
  BY <1>1 DEF Settled
<1>12. Gives(snapshots', rowsLog.epoch, Settled, current, rows)
  <2>1. Gives(snapshots, rowsLog.epoch, Settled, current, rows)
    BY <1>2, <1>3 DEF RecoverOK
  <2>2. current.epoch # 0 => snapshots'[current.epoch] = snapshots[current.epoch]
    BY <1>5, <1>7
  <2> QED
    BY <2>1, <2>2, GivesBeside
<1>13. RecoverOK'
  BY <1>1, <1>2, <1>11, <1>12 DEF RecoverOK
<1>14. BuildOK'
  BY <1>1, <1>2, <1>4, <1>5, <1>7, <1>11, <1>12 DEF BuildOK, Published
<1> QED
  BY <1>8, <1>9, <1>10, <1>13, <1>14 DEF VInv

\* CURRENT is renamed, and synced.
LEMMA PublishSteps ==
    ASSUME VInv, PublishCurrent \/ SyncCurrent
    PROVE  VInv'
<1>1. /\ build.step \in {"written", "publish"}
      /\ \E to \in {"publish", "published"} : build' = [build EXCEPT !.step = to]
      /\ current' = build.current
      /\ UNCHANGED <<versions, serving, request, vleft, rows, rowsLog, snapshots, manifest, marker>>
  <2>1. CASE PublishCurrent
    BY <2>1 DEF PublishCurrent, Build
  <2>2. CASE SyncCurrent
    BY <2>2 DEF SyncCurrent, Build, indexState, VInv, BuildOK, Published
  <2> QED
    BY <2>1, <2>2
<1>2. VTypeOK /\ EpochsOK /\ BuildOK /\ AppendOK /\ RecoverOK /\ MatchOK
  BY DEF VInv
<1>3. serving = "open"
  BY <1>1, BuildServing
<1>4. /\ build' \in VBuild /\ build'.step \in {"publish", "published"} /\ build'.rows = build.rows
      /\ build'.before = build.before /\ build'.current = build.current
  <2>1. rowsLog \in VLog
    BY <1>2 DEF VTypeOK
  <2>2. PICK to \in {"publish", "published"} : build' = [build EXCEPT !.step = to]
    BY <1>1
  <2>3. IsBuild(build', to, build.oldLog)
    <3>1. build' = StepTo(build, to)
      BY <2>2 DEF StepTo
    <3> QED
      BY <1>1, <1>2, <2>1, <3>1, BuildMoves
  <2> QED
    BY <2>3 DEF IsBuild
<1> DEFINE c == build.current
<1>5. /\ c.epoch = manifest + 1 /\ c.epoch + vleft.builds <= MaxBuilds
      /\ snapshots[c.epoch] = build.rows /\ c.log_epoch = rowsLog.epoch /\ c.covered <= Len(Settled)
      /\ ApplyFrames(build.rows, Rest(Settled, c.covered)) = rows /\ rowsLog.epoch <= manifest
  BY <1>1, <1>2 DEF BuildOK
<1>6. c \in VCurrent /\ c.epoch # 0 /\ Settled \in VFrames
  BY <1>1, <1>2, VFields, EpochsBound
<1> HIDE DEF c
<1>7. Gives(snapshots, rowsLog.epoch, Settled, c, rows)
  BY <1>5, <1>6, GivesSnapshot
<1>8. Settled' = Settled
  BY <1>1 DEF Settled
<1>9. AppendOK' /\ MatchOK'
  BY <1>1, <1>3, BuildBeside
<1>10. VTypeOK'
  BY <1>1, <1>2, <1>3, <1>4, <1>6 DEF VTypeOK, c
<1>11. EpochsOK'
  <2>1. rowsLog.epoch <= c.epoch /\ rowsLog.epoch <= rowsLog.epoch
    BY SMT, <1>2, <1>5, VFields
  <2> QED
    BY <1>1, <1>4, <1>5, <2>1 DEF EpochsOK, c
<1>12. RecoverOK'
  <2>1. Skips(rowsLog.epoch, c) <= Len(Settled)
    BY <1>7 DEF Gives
  <2> QED
    BY <1>1, <1>7, <1>8, <2>1 DEF RecoverOK, c
<1>13. BuildOK'
  BY <1>1, <1>2, <1>4, <1>8 DEF BuildOK, Published
<1> QED
  BY <1>9, <1>10, <1>11, <1>12, <1>13 DEF VInv

\* The log is rotated.
LEMMA RotateStep ==
    ASSUME VInv, RotateLog
    PROVE  VInv'
<1> DEFINE c == build.current
           new == Rest(rowsLog.frames, c.covered)
<1>1. /\ request.step # "append" /\ build.step = "published"
      /\ build' = [build EXCEPT !.step = "rotate", !.oldLog = rowsLog]
      /\ rowsLog' = [epoch |-> c.epoch, frames |-> new]
      /\ UNCHANGED <<versions, rows, current, snapshots, manifest, marker, serving, request, vleft>>
  BY DEF RotateLog, LogFree, Rest
<1>2. VTypeOK /\ EpochsOK /\ BuildOK /\ AppendOK /\ RecoverOK /\ MatchOK
  BY DEF VInv
<1>3. serving = "open"
  BY <1>1, BuildServing
<1>4. /\ build' \in VBuild /\ build'.step = "rotate" /\ build'.rows = build.rows
      /\ build'.current = c /\ build'.oldLog = rowsLog
  <2>1. rowsLog \in VLog
    BY <1>2 DEF VTypeOK
  <2> QED
    <3>1. build' = StepWith(build, "rotate", rowsLog)
      BY <1>1 DEF StepWith
    <3>2. IsBuild(build', "rotate", rowsLog)
      BY <1>1, <1>2, <2>1, <3>1, BuildMoves
    <3> QED
      BY <3>2 DEF IsBuild
<1>5. Settled = rowsLog.frames /\ rowsLog.frames \in VFrames
  BY <1>1, <1>2, VFields DEF Settled
<1>6. /\ c.epoch = manifest + 1 /\ c.epoch + vleft.builds <= MaxBuilds /\ current = c
      /\ snapshots[c.epoch] = build.rows /\ c.log_epoch = rowsLog.epoch
      /\ c.covered <= Len(rowsLog.frames)
      /\ ApplyFrames(build.rows, new) = rows /\ rowsLog.epoch <= manifest
  BY <1>1, <1>2, <1>5 DEF BuildOK, Published
<1>7. c \in VCurrent /\ c.epoch # 0 /\ c.covered \in Nat /\ c.epoch \in Nat
  BY <1>1, <1>2, VFields, EpochsBound, VBuildFields
<1> HIDE DEF c
<1>8. new \in VFrames
  <2>1. c.covered \in 0 .. Len(rowsLog.frames)
    BY <1>5, <1>6, <1>7, LogParts
  <2> QED
    BY <1>5, <2>1, LogParts
<1> HIDE DEF new
<1>9. rowsLog' \in VLog /\ rowsLog'.epoch = c.epoch /\ rowsLog'.frames = new
  BY SMT, <1>1, <1>7, <1>8 DEF VLog
<1>10. Settled' = new
  BY <1>1, <1>9 DEF Settled
<1>11. /\ c.log_epoch # c.epoch /\ c.log_epoch <= c.epoch /\ c.epoch <= c.epoch
  BY SMT, <1>2, <1>6, VFields
<1>12. Gives(snapshots, c.epoch, new, c, rows)
  BY <1>6, <1>7, <1>8, <1>11, GivesSnapshot
<1>13. AppendOK' /\ MatchOK'
  BY <1>1, <1>3, BuildBeside
<1>14. VTypeOK'
  BY <1>1, <1>2, <1>3, <1>4, <1>9 DEF VTypeOK
<1>15. EpochsOK'
  BY <1>1, <1>4, <1>6, <1>9, <1>11 DEF EpochsOK
<1>16. RecoverOK'
  <2>1. Skips(c.epoch, c) <= Len(new)
    BY <1>12 DEF Gives
  <2> QED
    BY <1>1, <1>6, <1>9, <1>10, <1>12, <2>1 DEF RecoverOK
<1>17. Gives(snapshots, rowsLog.epoch, rowsLog.frames, current, rows)
  BY <1>2, <1>3, <1>5 DEF RecoverOK
<1>18. BuildOK'
  <2>1. /\ build'.oldLog.epoch = rowsLog.epoch /\ build'.oldLog.frames = rowsLog.frames
        /\ build'.current = c /\ current' = c /\ manifest' = manifest /\ rows' = rows
        /\ build'.rows = build.rows /\ vleft' = vleft /\ snapshots' = snapshots
    BY <1>1, <1>4, <1>6
  <2>2. request'.step # "append" /\ build'.step = "rotate"
    BY <1>1, <1>4
  <2>3. Gives(snapshots, rowsLog.epoch, rowsLog.frames, c, rows)
    BY <1>6, <1>17
  <2> QED
    BY <1>6, <1>9, <2>1, <2>2, <2>3 DEF BuildOK, Published
<1> QED
  BY <1>13, <1>14, <1>15, <1>16, <1>18 DEF VInv

\* The snapshot becomes the index.
LEMMA InstallStep ==
    ASSUME VInv, InstallSnapshot
    PROVE  VInv'
<1> DEFINE c == build.current
<1>1. /\ build.step = "rotate" /\ build' = Resting
      /\ rows' = ApplyFrames(build.rows, rowsLog.frames) /\ manifest' = c.epoch
      /\ snapshots' = [e \in DOMAIN snapshots |-> IF e = manifest' - 1 THEN NoRows ELSE snapshots[e]]
      /\ UNCHANGED <<versions, rowsLog, current, marker, serving, request, vleft>>
  BY DEF InstallSnapshot
<1>2. VTypeOK /\ EpochsOK /\ BuildOK /\ AppendOK /\ RecoverOK /\ MatchOK
  BY DEF VInv
<1>3. serving = "open"
  BY <1>1, BuildServing
<1>4. /\ request.step # "append" /\ rows' = rows /\ current = c /\ c.epoch = manifest + 1
  BY <1>1, <1>2 DEF BuildOK, Published
<1>5. manifest \in Nat /\ c.epoch \in 1 .. MaxBuilds /\ c.epoch # manifest' - 1 /\ c.epoch \in Nat
  <2>1. c.epoch <= MaxBuilds /\ manifest \in Nat /\ MaxBuilds \in Nat
    BY <1>1, <1>2, EpochsBound, VFields
  <2> HIDE DEF c
  <2> QED
    BY SMT, <1>1, <1>4, <2>1
<1>6. snapshots' \in [1 .. MaxBuilds -> VRows] /\ snapshots'[c.epoch] = snapshots[c.epoch]
  <2>1. snapshots \in [1 .. MaxBuilds -> VRows]
    BY <1>2 DEF VTypeOK
  <2>2. NoRows \in VRows
    BY SMT DEF NoRows, VRows
  <2> HIDE DEF c
  <2> QED
    BY <1>1, <1>5, <2>1, <2>2
<1>7. build'.step = "idle" /\ build' \in VBuild
  BY <1>1 DEF Resting, VBuild
<1>8. AppendOK' /\ MatchOK'
  BY <1>1, <1>3, <1>4, BuildBeside
<1>9. VTypeOK'
  BY <1>1, <1>2, <1>3, <1>4, <1>5, <1>6, <1>7 DEF VTypeOK
<1>10. EpochsOK'
  BY <1>1, <1>2, <1>4, <1>7 DEF EpochsOK
<1>11. Settled' = Settled
  BY <1>1 DEF Settled
<1>12. RecoverOK'
  <2>1. Gives(snapshots, rowsLog.epoch, Settled, current, rows)
    BY <1>2, <1>3 DEF RecoverOK
  <2>2. snapshots'[current.epoch] = snapshots[current.epoch]
    BY <1>4, <1>6
  <2>3. Gives(snapshots', rowsLog.epoch, Settled, current, rows)
    BY <2>1, <2>2, GivesBeside
  <2> QED
    BY <1>1, <1>2, <1>4, <1>11, <2>3 DEF RecoverOK
<1>13. BuildOK'
  BY <1>7 DEF BuildOK
<1> QED
  BY <1>8, <1>9, <1>10, <1>12, <1>13 DEF VInv

-----------------------------------------------------------------------------
(* The end of a process, and the next open.                                *)

\* A log and a CURRENT that a crash may leave.
Leaves(l, c) ==
    /\ l \in VLog /\ c \in VCurrent
    /\ l.epoch <= c.epoch /\ c.log_epoch <= l.epoch /\ c.epoch + vleft.builds <= MaxBuilds
    /\ Skips(l.epoch, c) <= Len(l.frames)
    /\ serving # "closed" /\ request.step # "append" =>
          Gives(snapshots, l.epoch, l.frames, c, rows)

\* From what a crash leaves the index is recovered.
LEMMA CrashLeaves ==
    ASSUME VInv, NEW l \in LogsLeft, NEW c \in CurrentsLeft
    PROVE  Leaves(l, c)
<1>1. VTypeOK /\ EpochsOK /\ BuildOK /\ AppendOK /\ RecoverOK /\ MatchOK
  BY DEF VInv
<1>2. /\ rowsLog.epoch \in Nat /\ rowsLog.frames \in VFrames /\ Settled \in VFrames
      /\ current \in VCurrent /\ rowsLog \in VLog
  BY <1>1, VFields DEF VTypeOK
<1>3. CASE build.step = "rotate" /\ l = build.oldLog
  <2>1. c = current
    BY <1>3 DEF CurrentsLeft
  <2>2. /\ Gives(snapshots, l.epoch, l.frames, current, rows) /\ l.epoch <= manifest
        /\ l.epoch = current.log_epoch /\ current.epoch = manifest + 1
    BY <1>1, <1>3 DEF BuildOK, Published
  <2>3. l \in VLog /\ l.epoch \in Nat
    BY <1>1, <1>3, VFields, VBuildFields
  <2>4. l.epoch <= current.epoch /\ current.log_epoch <= l.epoch
    BY SMT, <1>1, <2>2, <2>3, VFields
  <2>5. current.epoch + vleft.builds <= MaxBuilds
    BY <1>1 DEF EpochsOK
  <2>6. Skips(l.epoch, current) <= Len(l.frames)
    BY <2>2 DEF Gives
  <2> QED
    BY <1>2, <2>1, <2>2, <2>3, <2>4, <2>5, <2>6 DEF Leaves
<1>4. CASE ~(build.step = "rotate" /\ l = build.oldLog)
  <2>1. /\ l \in VLog /\ l.epoch = rowsLog.epoch /\ Len(Settled) <= Len(l.frames)
        /\ request.step # "append" => l.frames = Settled
    <3>1. CASE request.step # "append"
      <4>1. l = rowsLog /\ Settled = rowsLog.frames
        BY <1>4, <3>1 DEF LogsLeft, Settled
      <4>2. Len(Settled) \in Nat
        BY <1>2, LogParts
      <4>3. Len(Settled) <= Len(Settled)
        BY SMT, <4>2
      <4> QED
        BY <1>2, <4>1, <4>3
    <3>2. CASE request.step = "append"
      <4> DEFINE f == rowsLog.frames
      <4>1. PICK n \in request.from .. Len(f) : l = [rowsLog EXCEPT !.frames = SubSeq(f, 1, n)]
        BY <3>2 DEF LogsLeft
      <4>2. request.from \in Nat /\ request.from <= Len(f) /\ Len(f) \in Nat
        BY <1>1, <1>2, <3>2, VFields, LogParts DEF AppendOK
      <4>3. n \in 0 .. Len(f) /\ request.from <= n /\ request.from \in 0 .. Len(f)
        <5> HIDE DEF f
        <5> QED
          BY SMT, <4>2
      <4>4. SubSeq(f, 1, n) \in VFrames /\ Len(SubSeq(f, 1, n)) = n
        BY <1>2, <4>3, LogParts
      <4>5. Len(Settled) = request.from
        BY <1>2, <3>2, <4>3, LogParts DEF Settled
      <4>6. rowsLog = [epoch |-> rowsLog.epoch, frames |-> f]
        BY <1>1, VFields
      <4>7. l = [epoch |-> rowsLog.epoch, frames |-> SubSeq(f, 1, n)]
        BY <4>1, <4>6, LogWith
      <4>8. l.epoch = rowsLog.epoch /\ l.frames = SubSeq(f, 1, n)
        BY <4>7
      <4> DEFINE g == SubSeq(f, 1, n)
      <4> HIDE DEF f, g
      <4>9. l \in VLog
        <5>1. g \in VFrames /\ l = [epoch |-> rowsLog.epoch, frames |-> g]
          BY <4>4, <4>7 DEF g
        <5> QED
          BY SMT, <1>2, <5>1 DEF VLog
      <4> QED
        BY <3>2, <4>3, <4>4, <4>5, <4>8, <4>9
    <3> QED
      BY <3>1, <3>2
  <2>2. ASSUME c \in VCurrent, rowsLog.epoch <= c.epoch, c.log_epoch <= rowsLog.epoch,
               c.epoch + vleft.builds <= MaxBuilds, Skips(rowsLog.epoch, c) <= Len(Settled),
               c.epoch <= MaxBuilds,
               serving # "closed" => Gives(snapshots, rowsLog.epoch, Settled, c, rows)
        PROVE  Leaves(l, c)
    <3>1. Skips(l.epoch, c) <= Len(l.frames)
      <4>1. Skips(rowsLog.epoch, c) \in Nat
        BY <1>1, <2>2, BaseType DEF VTypeOK
      <4>2. Len(Settled) \in Nat /\ Len(l.frames) \in Nat
        <5>1. l.frames \in VFrames
          BY SMT, <2>1 DEF VLog
        <5> QED
          BY <1>2, <5>1, LogParts
      <4> DEFINE a == Skips(rowsLog.epoch, c)  b == Len(Settled)  d == Len(l.frames)
      <4>3. a \in Nat /\ b \in Nat /\ d \in Nat /\ a <= b /\ b <= d
        BY <2>1, <2>2, <4>1, <4>2
      <4> HIDE DEF a, b, d
      <4>4. a <= d
        BY SMT, <4>3
      <4> QED
        BY <2>1, <4>4 DEF a, d
    <3> QED
      BY <2>1, <2>2, <3>1 DEF Leaves
  <2>3. CASE c = current
    <3>1. /\ rowsLog.epoch <= current.epoch /\ current.log_epoch <= rowsLog.epoch
          /\ current.epoch + vleft.builds <= MaxBuilds /\ Skips(rowsLog.epoch, current) <= Len(Settled)
          /\ serving # "closed" => Gives(snapshots, rowsLog.epoch, Settled, current, rows)
      BY <1>1 DEF EpochsOK, RecoverOK
    <3> QED
      BY <1>1, <1>2, <2>2, <2>3, <3>1, EpochsBound
  <2>4. CASE build.step = "publish" /\ c = build.before
    <3>1. /\ rowsLog.epoch <= manifest /\ c.log_epoch <= rowsLog.epoch /\ c.epoch = manifest
          /\ Gives(snapshots, rowsLog.epoch, Settled, c, rows)
          /\ build.current.epoch = manifest + 1 /\ build.current.epoch + vleft.builds <= MaxBuilds
      BY <1>1, <2>4 DEF BuildOK
    <3>2. Skips(rowsLog.epoch, c) <= Len(Settled)
      BY <3>1 DEF Gives
    <3>3. c \in VCurrent /\ manifest \in Nat /\ vleft.builds \in Nat /\ MaxBuilds \in Nat
      BY <1>1, <2>4, VFields
    <3>4. manifest + vleft.builds <= MaxBuilds /\ manifest <= MaxBuilds
      BY SMT, <3>1, <3>3
    <3> QED
      BY <2>2, <3>1, <3>2, <3>3, <3>4
  <2> QED
    BY <2>3, <2>4 DEF CurrentsLeft
<1> QED
  BY <1>3, <1>4

\* What a recovery gives are the rows.
LEMMA RecoversRows ==
    ASSUME VTypeOK, NEW l \in VLog, NEW c \in VCurrent, c.epoch <= MaxBuilds,
           Skips(l.epoch, c) <= Len(l.frames)
    PROVE  /\ Recovered(l, c) \in VRows
           /\ Gives(snapshots, l.epoch, l.frames, c, Recovered(l, c))
           /\ \A r : Gives(snapshots, l.epoch, l.frames, c, r) => r = Recovered(l, c)
<1>1. Gives(snapshots, l.epoch, l.frames, c, Recovered(l, c))
  BY RecoveredIs
<1>2. \A r : Gives(snapshots, l.epoch, l.frames, c, r) => r = Recovered(l, c)
  BY <1>1 DEF Gives
<1> DEFINE b == BaseRows(snapshots, c)  k == Skips(l.epoch, c)  f == l.frames
<1>3. b \in VRows /\ k \in Nat /\ f \in VFrames
  <2>1. f \in VFrames
    BY SMT DEF VLog
  <2> QED
    BY <2>1, BaseType DEF VTypeOK
<1>4. ApplyFrames(b, Rest(f, k)) = Recovered(l, c)
  BY <1>1 DEF Gives
<1>5. k <= Len(f)
  OBVIOUS
<1> HIDE DEF b, k, f
<1>6. Rest(f, k) \in VFrames
  BY <1>3, <1>5, LogParts
<1>7. Recovered(l, c) \in VRows
  BY <1>3, <1>4, <1>6, ApplyType
<1> QED
  BY <1>1, <1>2, <1>7

\* The state of a store that has stopped.
LEMMA StoppedStep ==
    ASSUME VInv, Leaves(rowsLog', current'), serving' = "closed", request' = Resting, build' = Resting,
           rows' = NoRows, manifest' = 0, UNCHANGED <<versions, snapshots>>, marker' \in BOOLEAN,
           vleft.stops > 0, vleft' = [vleft EXCEPT !.stops = vleft.stops - 1],
           ~marker' => Matches(versions, Recovered(rowsLog', current'))
    PROVE  VInv'
<1>1. /\ vleft' \in [stores : 0 .. MaxStored, builds : Nat, stops : Nat]
      /\ vleft'.builds = vleft.builds
  <2>1. vleft \in [stores : 0 .. MaxStored, builds : Nat, stops : Nat]
    BY DEF VInv, VTypeOK
  <2> QED
    BY SMT, <2>1
<1>2. rows' \in VRows /\ manifest' \in Nat
  BY SMT DEF NoRows, VRows
<1>3. request'.step = "idle" /\ build'.step = "idle" /\ request' \in VRequest /\ build' \in VBuild
  BY DEF Resting, VRequest, VBuild
<1>4. rowsLog' \in VLog /\ current' \in VCurrent
  BY DEF Leaves
<1>5. VTypeOK'
  BY <1>1, <1>2, <1>3, <1>4 DEF VInv, VTypeOK
<1>6. Settled' = rowsLog'.frames
  BY <1>3 DEF Settled
<1>7. EpochsOK' /\ RecoverOK' /\ BuildOK' /\ AppendOK'
  BY <1>1, <1>3, <1>6 DEF Leaves, EpochsOK, RecoverOK, BuildOK, AppendOK
<1>8. Recovered(rowsLog, current)' = Recovered(rowsLog', current')
  BY DEF Recovered
<1>9. MatchOK'
  BY <1>3, <1>8 DEF MatchOK
<1> QED
  BY <1>5, <1>7, <1>9 DEF VInv

\* A crash, and a close.
LEMMA StopSteps ==
    ASSUME VInv, CrashIndex \/ CloseIndex
    PROVE  VInv'
<1>1. VTypeOK /\ EpochsOK /\ BuildOK /\ AppendOK /\ RecoverOK /\ MatchOK
  BY DEF VInv
<1>2. ASSUME NEW l, NEW c, Leaves(l, c), Matches(versions, rows), serving # "closed", request.step # "append"
      PROVE  Matches(versions, Recovered(l, c))
  <2>1. l \in VLog /\ c \in VCurrent /\ Skips(l.epoch, c) <= Len(l.frames)
    BY <1>2 DEF Leaves
  <2>2. c.epoch <= MaxBuilds
    <3>1. c.epoch + vleft.builds <= MaxBuilds /\ c.epoch \in Nat
      BY SMT, <1>2, <2>1 DEF Leaves, VCurrent
    <3> QED
      BY SMT, <1>1, <3>1, VFields
  <2>3. Gives(snapshots, l.epoch, l.frames, c, rows)
    BY <1>2 DEF Leaves
  <2>4. rows = Recovered(l, c)
    BY <1>1, <2>1, <2>2, <2>3, RecoversRows
  <2> QED
    BY <1>2, <2>4
<1>3. ASSUME CrashIndex
      PROVE  VInv'
  <2>1. /\ serving' = "closed" /\ request' = Resting /\ build' = Resting
        /\ rows' = NoRows /\ manifest' = 0 /\ UNCHANGED <<versions, snapshots, marker>>
        /\ vleft.stops > 0 /\ vleft' = [vleft EXCEPT !.stops = vleft.stops - 1]
        /\ rowsLog' \in LogsLeft /\ current' \in CurrentsLeft
    BY <1>3 DEF CrashIndex
  <2>2. Leaves(rowsLog', current')
    BY <2>1, CrashLeaves
  <2>3. ASSUME ~marker
        PROVE  Matches(versions, Recovered(rowsLog', current'))
    <3>1. request.step # "append" /\ serving # "reconcile"
      BY <1>1, <2>3 DEF AppendOK, MatchOK
    <3>2. CASE serving = "open"
      <4>1. Matches(versions, rows)
        BY <1>1, <2>3, <3>2 DEF MatchOK
      <4> QED
        BY <1>2, <2>2, <3>1, <3>2, <4>1
    <3>3. CASE serving = "closed"
      <4>1. Matches(versions, Recovered(rowsLog, current))
        BY <1>1, <2>3, <3>3 DEF MatchOK
      <4>2. build.step = "idle" /\ request.step = "idle"
        <5>1. request = Resting /\ build = Resting
          BY <1>1, <3>3 DEF VTypeOK
        <5> QED
          BY <5>1 DEF Resting
      <4>3. rowsLog' = rowsLog /\ current' = current
        BY <2>1, <4>2 DEF LogsLeft, CurrentsLeft
      <4> QED
        BY <4>1, <4>3
    <3> QED
      BY <1>1, <3>1, <3>2, <3>3 DEF VTypeOK
  <2>4. marker' \in BOOLEAN
    BY <1>1, <2>1 DEF VTypeOK
  <2> QED
    BY <2>1, <2>2, <2>3, <2>4, StoppedStep
<1>4. ASSUME CloseIndex
      PROVE  VInv'
  <2>1. /\ serving' = "closed" /\ rows' = NoRows /\ manifest' = 0 /\ marker' = FALSE
        /\ vleft.stops > 0 /\ vleft' = [vleft EXCEPT !.stops = vleft.stops - 1]
        /\ serving = "open" /\ request.step = "idle" /\ build.step = "idle"
        /\ UNCHANGED <<versions, rowsLog, current, snapshots, request, build>>
    BY <1>4 DEF CloseIndex
  <2>2. request = Resting /\ build = Resting
    BY <1>1, <2>1, VFields
  <2>3. Leaves(rowsLog', current')
    <3>1. rowsLog \in LogsLeft /\ current \in CurrentsLeft
      BY <2>1 DEF LogsLeft, CurrentsLeft
    <3> QED
      BY <2>1, <3>1, CrashLeaves
  <2>4. Matches(versions, rows)
    BY <1>1, <2>1 DEF MatchOK
  <2>5. Matches(versions, Recovered(rowsLog', current'))
    BY <1>2, <2>1, <2>3, <2>4
  <2> QED
    BY <2>1, <2>2, <2>3, <2>5, StoppedStep
<1> QED
  BY <1>3, <1>4

\* The next open.
LEMMA OpenStep ==
    ASSUME VInv, OpenIndex
    PROVE  VInv'
<1>1. VTypeOK /\ EpochsOK /\ BuildOK /\ AppendOK /\ RecoverOK /\ MatchOK
  BY DEF VInv
<1>2. /\ serving = "closed" /\ rows' = Recovered(rowsLog, current) /\ manifest' = current.epoch
      /\ serving' = IF marker THEN "reconcile" ELSE "open"
      /\ UNCHANGED <<versions, rowsLog, current, snapshots, marker, request, build, vleft>>
  BY DEF OpenIndex
<1>3. request = Resting /\ build = Resting /\ request.step = "idle" /\ build.step = "idle"
  BY <1>1, <1>2, VFields DEF VTypeOK
<1>4. Settled = rowsLog.frames /\ Settled' = rowsLog.frames
  BY <1>2, <1>3 DEF Settled
<1>5. /\ rowsLog \in VLog /\ current \in VCurrent /\ current.epoch <= MaxBuilds
      /\ Skips(rowsLog.epoch, current) <= Len(rowsLog.frames) /\ current.epoch \in Nat
  BY <1>1, <1>4, EpochsBound, VFields DEF VTypeOK, RecoverOK
<1>6. rows' \in VRows /\ Gives(snapshots, rowsLog.epoch, rowsLog.frames, current, rows')
  BY <1>1, <1>2, <1>5, RecoversRows
<1>7. VTypeOK'
  BY <1>1, <1>2, <1>3, <1>5, <1>6 DEF VTypeOK
<1>8. EpochsOK' /\ RecoverOK' /\ BuildOK' /\ AppendOK'
  BY <1>1, <1>2, <1>3, <1>4, <1>5, <1>6 DEF EpochsOK, RecoverOK, BuildOK, AppendOK
<1>9. MatchOK'
  <2>1. ~marker => Matches(versions, rows')
    BY <1>1, <1>2 DEF MatchOK
  <2> QED
    BY <1>2, <1>3, <2>1 DEF MatchOK
<1> QED
  BY <1>7, <1>8, <1>9 DEF VInv

\* reconcile.
LEMMA ReconcileStep ==
    ASSUME VInv, Reconcile
    PROVE  VInv'
<1>1. VTypeOK /\ EpochsOK /\ BuildOK /\ AppendOK /\ RecoverOK /\ MatchOK
  BY DEF VInv
<1>2. /\ serving = "reconcile" /\ request = Resting /\ build = Resting
      /\ UNCHANGED <<versions, current, snapshots, manifest, request, build, vleft>>
      /\ marker' = (StaleRows # {}) /\ serving' = IF StaleRows = {} THEN "open" ELSE "reconcile"
  BY <1>1 DEF Reconcile, VTypeOK
<1>3. request.step = "idle" /\ build.step = "idle" /\ request'.step = "idle"
  BY <1>2 DEF Resting
<1>4. Settled = rowsLog.frames /\ Settled' = rowsLog'.frames
  BY <1>3 DEF Settled
<1>5. CASE StaleRows = {}
  <2>1. UNCHANGED <<rows, rowsLog>> /\ serving' = "open" /\ marker' = FALSE
    BY <1>2, <1>5 DEF Reconcile
  <2>2. Matches(versions, rows)
    BY <1>5 DEF StaleRows, Matches
  <2>3. (EpochsOK /\ BuildOK /\ RecoverOK)'
    BY <1>2, <1>3, <1>4, <2>1, SameRecovery
  <2>4. VTypeOK' /\ AppendOK'
    BY <1>1, <1>2, <1>3, <2>1 DEF VTypeOK, AppendOK
  <2>5. MatchOK'
    BY <1>2, <1>3, <2>1, <2>2 DEF MatchOK
  <2> QED
    BY <2>3, <2>4, <2>5 DEF VInv
<1>6. CASE StaleRows # {}
  <2>1. PICK d \in StaleRows : /\ rows' = [rows EXCEPT ![d] = 0]
                               /\ rowsLog' = [rowsLog EXCEPT !.frames = Append(rowsLog.frames, <<d, 0>>)]
    BY <1>6 DEF Reconcile
  <2>2. d \in VDocs /\ rows \in VRows /\ rowsLog.frames \in VFrames /\ rowsLog.epoch \in Nat
    BY <1>1, VFields DEF StaleRows, VTypeOK
  <2> DEFINE p == <<d, 0>>  f == <<p>>  old == rowsLog.frames
  <2>3. serving' = "reconcile" /\ marker' = TRUE
    BY <1>2, <1>6
  <2>4. p \in VDocs \X Nat /\ f \in VFrames /\ p[1] = d /\ p[2] = 0
    BY SMT, <2>2 DEF VFrames
  <2>5. Append(old, p) = old \o f
    <3> HIDE DEF p, old
    <3>1. p \in VDocs \X Nat /\ old \in VFrames
      BY <2>2, <2>4 DEF old
    <3> QED
      BY SMT, <3>1 DEF VFrames
  <2>6. rows' = ApplyFrames(rows, f)
    <3>1. ApplyFrames(rows, f) = Put(rows, p)
      BY <2>2, <2>4, ApplyFew
    <3>2. Put(rows, p) = [rows EXCEPT ![d] = 0]
      BY DEF Put
    <3> QED
      BY <2>1, <3>1, <3>2
  <2>7. rowsLog' = [epoch |-> rowsLog.epoch, frames |-> old \o f]
    <3>1. rowsLog = [epoch |-> rowsLog.epoch, frames |-> old]
      BY <1>1, VFields
    <3>2. rowsLog' = [rowsLog EXCEPT !.frames = old \o f]
      BY <2>1, <2>5
    <3> QED
      BY <3>1, <3>2, LogWith
  <2>8. old \o f \in VFrames /\ rows' \in VRows
    <3>1. 0 \in 0 .. Len(old)
      BY SMT, <2>2, LogParts
    <3>2. old \o f \in VFrames
      BY <2>2, <2>4, <3>1, RestMore
    <3> QED
      BY <2>2, <2>4, <2>6, <3>2, ApplyType
  <2> HIDE DEF f, old, p
  <2>9. rowsLog' \in VLog /\ rowsLog'.epoch = rowsLog.epoch /\ rowsLog'.frames = old \o f
    <3> DEFINE g == old \o f
    <3>1. g \in VFrames /\ rowsLog' = [epoch |-> rowsLog.epoch, frames |-> g]
      BY <2>7, <2>8
    <3> HIDE DEF g
    <3>2. rowsLog' \in VLog /\ rowsLog'.epoch = rowsLog.epoch /\ rowsLog'.frames = g
      BY SMT, <2>2, <3>1 DEF VLog
    <3> QED
      BY <3>2 DEF g
  <2>10. Settled' = Settled \o f
    BY <1>4, <2>9 DEF old
  <2>11. build.step # "rotate" /\ serving # "closed" /\ vleft'.builds = vleft.builds
    BY <1>2, <1>3
  <2>12. (EpochsOK /\ BuildOK /\ RecoverOK)'
    BY <1>2, <2>3, <2>4, <2>6, <2>9, <2>10, <2>11, MoreRecovered
  <2>13. VTypeOK' /\ AppendOK'
    BY <1>1, <1>2, <1>3, <2>3, <2>8, <2>9 DEF VTypeOK, AppendOK
  <2>14. MatchOK'
    BY <1>2, <1>3, <2>3 DEF MatchOK
  <2> QED
    BY <2>12, <2>13, <2>14 DEF VInv
<1> QED
  BY <1>5, <1>6

-----------------------------------------------------------------------------
(* The theorems.                                                           *)

\* An index that nobody has written to.
LEMMA VIndexInitial == VIndexInit => VInv
<1> SUFFICES ASSUME VIndexInit
             PROVE  VInv
  OBVIOUS
<1> DEFINE none == <<>>
<1>1. none \in VFrames /\ Len(none) = 0 /\ NoRows \in VRows /\ 0 <= 0
  BY SMT DEF VFrames, NoRows, VRows
<1>2. /\ versions = NoRows /\ rows = NoRows /\ rowsLog = [epoch |-> 0, frames |-> none]
      /\ current = [epoch |-> 0, log_epoch |-> 0, covered |-> 0]
      /\ snapshots = [e \in 1 .. MaxBuilds |-> NoRows] /\ manifest = 0 /\ marker = FALSE
      /\ serving = "open" /\ request = Resting /\ build = Resting
      /\ vleft = [stores |-> MaxStored, builds |-> MaxBuilds, stops |-> MaxStops]
  BY DEF VIndexInit
<1> HIDE DEF none
<1>3. /\ rowsLog \in VLog /\ rowsLog.epoch = 0 /\ rowsLog.frames = none
      /\ current \in VCurrent /\ current.epoch = 0 /\ current.log_epoch = 0
  BY SMT, <1>1, <1>2 DEF VLog, VCurrent
<1>4. /\ vleft \in [stores : 0 .. MaxStored, builds : Nat, stops : Nat] /\ vleft.builds = MaxBuilds
      /\ 0 + MaxBuilds <= MaxBuilds
  <2>1. MaxStored \in Nat /\ MaxBuilds \in Nat /\ MaxStops \in Nat
    BY VectorIndexAssumption
  <2> QED
    BY SMT, <1>2, <2>1
<1>5. request.step = "idle" /\ build.step = "idle" /\ request \in VRequest /\ build \in VBuild
  BY <1>2 DEF Resting, VRequest, VBuild
<1>6. snapshots \in [1 .. MaxBuilds -> VRows] /\ manifest \in Nat
  BY SMT, <1>1, <1>2
<1>7. VTypeOK
  BY <1>1, <1>2, <1>3, <1>4, <1>5, <1>6 DEF VTypeOK
<1>8. EpochsOK /\ BuildOK /\ AppendOK
  BY <1>1, <1>2, <1>3, <1>4, <1>5 DEF EpochsOK, BuildOK, AppendOK
<1>9. RecoverOK
  <2>1. Settled = none /\ Skips(0, current) = 0 /\ BaseRows(snapshots, current) = NoRows
    BY <1>3, <1>5 DEF Settled, Skips, BaseRows
  <2>2. ApplyFrames(NoRows, none) = NoRows
    BY <1>1, ApplyFew DEF none
  <2>3. Rest(none, 0) = none
    BY <1>1, LogParts
  <2> QED
    BY <1>1, <1>2, <1>3, <2>1, <2>2, <2>3 DEF RecoverOK, Gives
<1>10. MatchOK
  <2>1. Matches(NoRows, NoRows)
    BY DEF Matches, NoRows
  <2> QED
    BY <1>2, <1>5, <2>1 DEF MatchOK
<1> QED
  BY <1>7, <1>8, <1>9, <1>10 DEF VInv

\* Every step keeps the invariant.
LEMMA VIndexStep == VInv /\ [VIndexNext]_vindexVars => VInv'
<1> SUFFICES ASSUME VInv, [VIndexNext]_vindexVars
             PROVE  VInv'
  OBVIOUS
<1>1. CASE UNCHANGED vindexVars
  <2>1. UNCHANGED <<versions, rows, rowsLog, current, snapshots, manifest, marker, serving,
                    request, build, vleft>>
    BY <1>1 DEF vindexVars
  <2>2. Settled' = Settled /\ Recovered(rowsLog, current)' = Recovered(rowsLog, current)
    BY <2>1 DEF Settled, Recovered
  <2> QED
    BY <2>1, <2>2 DEF VInv, VTypeOK, EpochsOK, BuildOK, AppendOK, RecoverOK, MatchOK
<1>2. CASE VIndexNext
  BY <1>2, StageStep, AppendDoneStep, EngineSteps, RemoveStep, CaptureStep, WriteSnapshotStep,
     PublishSteps, RotateStep, InstallStep, StopSteps, OpenStep, ReconcileStep DEF VIndexNext
<1> QED
  BY <1>1, <1>2

\* What the rows are at every step of every process.
THEOREM VIndexInvariant == VIndexSpec => []VInv
  BY VIndexInitial, VIndexStep, PTL DEF VIndexSpec

\* No query ranks a document of the engine by the vector of another version.
THEOREM VIndexRows == VIndexSpec => []RowsMatchEngine
<1>1. VInv => RowsMatchEngine
  BY DEF VInv, MatchOK, Matches, RowsMatchEngine
<1> QED
  BY <1>1, VIndexInvariant, PTL
=============================================================================
