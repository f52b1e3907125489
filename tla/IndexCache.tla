----------------------------- MODULE IndexCache -----------------------------
(***************************************************************************)
(* The trained vector indices (NSG graph, IVF lists) and their files:      *)
(* online insertion and invalidation (engine/shard.rs), training and       *)
(* auto-sharding from a snapshot checked against the revision, persistence *)
(* bound to an arena checkpoint, and loading (engine/mod.rs), run by       *)
(* writers, a maintenance thread and a compaction at the same time.        *)
(*                                                                         *)
(* The journal is what it replays to (stored) and its length; how an       *)
(* append or a compaction gets there is Arena's and Store's subject.  An   *)
(* index is the vectors it ranges over; a checksum is the content it       *)
(* covers; the shards of a sharded store are one logical shard.            *)
(***************************************************************************)
EXTENDS Integers, Sequences, FiniteSets

CONSTANTS
    Id,                    \* vector ids
    Writer,                \* threads that write
    Keeper, Compactor,     \* the index maintenance thread, the compacting thread
    MaxWrites, MaxTrainings, MaxCompactions, MaxCrashes   \* bounds

ASSUME IndexCacheAssumption ==
    /\ IsFiniteSet(Id)
    /\ Keeper # Compactor /\ {Keeper, Compactor} \cap Writer = {}
    /\ "free" \notin Writer \cup {Keeper, Compactor}

VARIABLES
    gen, used,      \* arena.checkpoint(): generation name and bytes (frames) in it
    stored,         \* the vectors a replay of the journal gives
    vectors,        \* the live vectors
    index,          \* nsg, ivf of the live shards
    layout,         \* ShardSet of the live engine: "single" or "multi"
    shardMeta,      \* shard_meta.json
    revision,
    lease,          \* writer lease
    pc, op,         \* per thread: step; the write, snapshot or encoding in hand
    files,          \* index files, by layout (which names them) and kind
    meta,           \* indices.json
    persisted,      \* persisted_indices: metadata this process wrote last
    raced,          \* a checkpoint was read while a write was between append and apply
    open, written, trainings, crashes

disk == <<shardMeta, files, meta>>
journal == <<gen, used, stored>>
shards == <<vectors, index, layout>>
counters == <<written, trainings, crashes>>
vars == <<journal, shards, revision, lease, pc, op, disk, persisted, raced, open, counters>>

Thread == Writer \cup {Keeper, Compactor}
Kind == {"nsg", "ivf"}
Layout == {"single", "multi"}
Free == "free"
Absent == 0
Untrained == [i \in Id |-> -1]       \* None, and a file that is not there
Centroids == [i \in Id |-> 0]        \* all a serialized IVF holds: its lists are skipped
Checkpoint == <<gen, used>>

NoMeta == [ckpt |-> <<0, -1>>, layout |-> "single", crc |-> [k \in Kind |-> Untrained]]
NoOp == [id |-> Absent, val |-> Absent, revision |-> 0, snap |-> Untrained,
         kind |-> "nsg", todo |-> <<>>, meta |-> NoMeta, again |-> FALSE]

Init ==
    /\ gen = 0 /\ used = 0 /\ stored = [i \in Id |-> Absent] /\ vectors = stored
    /\ index = [k \in Kind |-> Untrained] /\ layout = "single" /\ shardMeta = "single"
    /\ revision = 0 /\ lease = Free
    /\ pc = [t \in Thread |-> "idle"] /\ op = [t \in Thread |-> NoOp]
    /\ files = [l \in Layout |-> [k \in Kind |-> Untrained]]
    /\ meta = NoMeta /\ persisted = NoMeta
    /\ raced = FALSE /\ open = TRUE /\ written = 0 /\ trainings = 0 /\ crashes = 0

At(t, step) == open /\ pc[t] = step
Goto(t, step) == pc' = [pc EXCEPT ![t] = step]
Hold(t, o) == op' = [op EXCEPT ![t] = o]
Return(t) ==
    /\ Goto(t, "idle") /\ Hold(t, NoOp)
    /\ lease' = IF lease = t THEN Free ELSE lease

-----------------------------------------------------------------------------
(* Writes.                                                                 *)

\* commit_payload_at_revision up to the durable append: v = Absent is a delete
AppendWrite(t, i, v) ==
    /\ At(t, "idle") /\ lease = Free /\ written < MaxWrites
    /\ lease' = t /\ Goto(t, "apply") /\ Hold(t, [NoOp EXCEPT !.id = i, !.val = v])
    /\ stored' = [stored EXCEPT ![i] = v] /\ used' = used + 1 /\ written' = written + 1
    /\ UNCHANGED <<gen, shards, revision, disk, persisted, raced, open, trainings, crashes>>

\* Online insertion into one trained index; a failed one drops the index.
Online(x, i, v) == IF x = Untrained THEN {x} ELSE {[x EXCEPT ![i] = v], Untrained}

\* Shard::insert, Shard::remove: what becomes of the trained indices
Reindexed(i, v) ==
    IF v = Absent /\ vectors[i] = Absent THEN {index}
    ELSE IF v = Absent \/ vectors[i] # Absent THEN {[k \in Kind |-> Untrained]}
    ELSE {[k \in Kind |-> IF k = "nsg" THEN n ELSE f] :
             n \in Online(index["nsg"], i, v), f \in Online(index["ivf"], i, v)}

\* publish, apply_mutations under the shards' write lock, revision, end of the lease
ApplyWrite(t) ==
    /\ At(t, "apply")
    /\ vectors' = [vectors EXCEPT ![op[t].id] = op[t].val]
    /\ index' \in Reindexed(op[t].id, op[t].val)
    /\ revision' = revision + 1 /\ Return(t)
    /\ UNCHANGED <<journal, layout, disk, persisted, raced, open, counters>>

-----------------------------------------------------------------------------
(* Persistence: encode_indices and write_indices.                          *)

\* What is serialized of an index
Serialized(k, x) == IF k = "ivf" /\ x # Untrained THEN Centroids ELSE x

\* encode_indices of the shards x with layout l, for checkpoint c
Encoded(o, x, l, c) ==
    [o EXCEPT !.todo = SelectSeq(<<"nsg", "ivf">>, LAMBDA k : x[k] # Untrained),
              !.meta = [ckpt |-> c, layout |-> l, crc |-> [k \in Kind |-> Serialized(k, x[k])]]]

\* The end of a persist call: compact_impl has a second one
Persisted(t) ==
    IF op[t].again
    THEN Goto(t, "again") /\ Hold(t, NoOp) /\ UNCHANGED lease
    ELSE Return(t)

\* write_indices does nothing for the metadata this process wrote last
SkipWrite(t) ==
    /\ At(t, "persist") /\ persisted = op[t].meta /\ Persisted(t)
    /\ UNCHANGED <<journal, shards, revision, disk, persisted, raced, open, counters>>

Writing(t) == At(t, "files") \/ (At(t, "persist") /\ persisted # op[t].meta)

\* The index files one by one ...
WriteFile(t) ==
    /\ Writing(t)
    /\ op[t].todo # <<>>
    /\ LET k == Head(op[t].todo)
       IN  files' = [files EXCEPT ![op[t].meta.layout][k] = op[t].meta.crc[k]]
    /\ Hold(t, [op[t] EXCEPT !.todo = Tail(@)]) /\ Goto(t, "files")
    /\ UNCHANGED <<journal, shards, revision, lease, shardMeta, meta, persisted, raced, open, counters>>

\* ... and indices.json last
WriteMeta(t) ==
    /\ Writing(t)
    /\ op[t].todo = <<>>
    /\ meta' = op[t].meta /\ persisted' = op[t].meta /\ Persisted(t)
    /\ UNCHANGED <<journal, shards, revision, shardMeta, files, raced, open, counters>>

\* An atomic_write fails: the files before it stay, the call returns its error.
WriteFails(t) ==
    /\ At(t, "files") /\ Return(t)
    /\ UNCHANGED <<journal, shards, revision, disk, persisted, raced, open, counters>>

\* flush: persist_indices under the exclusive gate
Flush(t) ==
    /\ At(t, "idle") /\ lease = Free
    /\ lease' = t /\ Goto(t, "persist") /\ Hold(t, Encoded(NoOp, index, layout, Checkpoint))
    /\ UNCHANGED <<journal, shards, revision, disk, persisted, raced, open, counters>>

-----------------------------------------------------------------------------
(* Training and sharding: a snapshot taken under the read gate, worked on  *)
(* with no lock, installed under the exclusive gate if the revision stayed.*)

TrainSnapshot(t, k) ==
    /\ At(t, "idle") /\ trainings < MaxTrainings
    /\ trainings' = trainings + 1 /\ Goto(t, "train")
    /\ Hold(t, [NoOp EXCEPT !.kind = k, !.revision = revision, !.snap = vectors])
    /\ UNCHANGED <<journal, shards, revision, lease, disk, persisted, raced, open, written, crashes>>

ShardSnapshot(t) ==
    /\ At(t, "idle") /\ layout = "single" /\ trainings < MaxTrainings
    /\ trainings' = trainings + 1 /\ Goto(t, "shard")
    /\ Hold(t, [NoOp EXCEPT !.revision = revision, !.snap = vectors])
    /\ UNCHANGED <<journal, shards, revision, lease, disk, persisted, raced, open, written, crashes>>

\* A mutation of Unchanged: the revision is not compared.
BugUnchanged(t) == lease = Free

\* The exclusive gate is taken and the revision is the snapshot's
Unchanged(t) == lease = Free /\ revision = op[t].revision

\* "store changed during training; retry maintenance"
SnapshotStale(t) ==
    /\ At(t, "train") \/ At(t, "shard")
    /\ lease = Free /\ ~Unchanged(t) /\ Return(t)
    /\ UNCHANGED <<journal, shards, revision, disk, persisted, raced, open, counters>>

\* install, then persist_indices; an empty shard trains no index
TrainInstall(t) ==
    /\ At(t, "train") /\ Unchanged(t)
    /\ LET trained == IF \A i \in Id : op[t].snap[i] = Absent THEN Untrained ELSE op[t].snap
       IN  index' = [index EXCEPT ![op[t].kind] = trained]
    /\ lease' = t /\ Goto(t, "persist") /\ Hold(t, Encoded(NoOp, index', layout, Checkpoint))
    /\ UNCHANGED <<journal, vectors, layout, revision, disk, persisted, raced, open, counters>>

\* maybe_auto_shard: save_shard_meta ...
SaveShardMeta(t) ==
    /\ At(t, "shard") /\ Unchanged(t)
    /\ shardMeta' = "multi" /\ lease' = t /\ Goto(t, "reshard")
    /\ UNCHANGED <<journal, shards, revision, op, files, meta, persisted, raced, open, counters>>

\* ... then the new, untrained shards replace the old ones and are persisted
Reshard(t) ==
    /\ At(t, "reshard")
    /\ vectors' = op[t].snap /\ index' = [k \in Kind |-> Untrained] /\ layout' = "multi"
    /\ revision' = revision + 1 /\ Goto(t, "persist")
    /\ Hold(t, Encoded(NoOp, index', "multi", Checkpoint))
    /\ UNCHANGED <<journal, lease, disk, persisted, raced, open, counters>>

-----------------------------------------------------------------------------
(* Compaction, from the publication of its generation on (Store has the    *)
(* rest): the checkpoint is read under the lease, which then ends.         *)

CompactPublish(t) ==
    /\ At(t, "idle") /\ lease = Free /\ gen < MaxCompactions
    /\ gen' = gen + 1 /\ used' = Cardinality({i \in Id : stored[i] # Absent})
    /\ revision' = revision + 1 /\ Goto(t, "detached")
    /\ Hold(t, [NoOp EXCEPT !.meta.ckpt = <<gen', used'>>])
    /\ UNCHANGED <<stored, shards, lease, disk, persisted, raced, open, counters>>

\* persist_indices_detached: the shards are read later, with no lease
EncodeDetached(t) ==
    /\ At(t, "detached") /\ Goto(t, "persist")
    /\ Hold(t, Encoded([NoOp EXCEPT !.again = TRUE], index, layout, op[t].meta.ckpt))
    /\ UNCHANGED <<journal, shards, revision, lease, disk, persisted, raced, open, counters>>

\* The second persist_indices: checkpoint and shards are read with no lease.  (An append
\* between the two reads changes neither, so they are one step.)
EncodeAgain(t) ==
    /\ At(t, "again") /\ Goto(t, "persist")
    /\ Hold(t, Encoded(NoOp, index, layout, Checkpoint))
    /\ raced' = (raced \/ lease \in Writer)
    /\ UNCHANGED <<journal, shards, revision, lease, disk, persisted, open, counters>>

-----------------------------------------------------------------------------
(* Closing or crashing, and opening.                                       *)

\* A mutation of Loaded: the metadata's checkpoint is not compared.
BugLoaded(k, l) ==
    LET file == files[l][k]
    IN  IF meta.layout = l /\ meta.crc[k] # Untrained /\ file = meta.crc[k]
        THEN (IF k = "ivf" THEN stored ELSE file)
        ELSE Untrained

\* load_indices of kind k into shards of layout l: the file counts only when the metadata
\* has the arena's checkpoint, the shard count and the file's checksum; an IVF then
\* receives the vectors that were replayed.
Loaded(k, l) ==
    LET file == files[l][k]
    IN  IF /\ meta.ckpt = Checkpoint /\ meta.layout = l
           /\ meta.crc[k] # Untrained /\ file = meta.crc[k]
        THEN (IF k = "ivf" THEN stored ELSE file)
        ELSE Untrained

Stop ==
    /\ open /\ crashes < MaxCrashes /\ crashes' = crashes + 1 /\ open' = FALSE
    /\ pc' = [t \in Thread |-> "idle"] /\ op' = [t \in Thread |-> NoOp] /\ lease' = Free
    /\ UNCHANGED <<journal, shards, revision, disk, persisted, raced, written, trainings>>

\* WarmCore::new: shards by shard_meta.json, load_from_log, load_indices
Open ==
    /\ ~open /\ open' = TRUE
    /\ vectors' = stored /\ layout' = shardMeta
    /\ index' = [k \in Kind |-> Loaded(k, shardMeta)]
    /\ persisted' = NoMeta /\ revision' = 0
    /\ UNCHANGED <<journal, lease, pc, op, disk, raced, counters>>

Persist(t) == SkipWrite(t) \/ WriteFile(t) \/ WriteMeta(t) \/ WriteFails(t)
Maintain(t) ==
    \/ Flush(t) \/ ShardSnapshot(t) \/ (\E k \in Kind : TrainSnapshot(t, k))
    \/ SnapshotStale(t) \/ TrainInstall(t) \/ SaveShardMeta(t) \/ Reshard(t)
Compact(t) == CompactPublish(t) \/ EncodeDetached(t) \/ EncodeAgain(t)

Next ==
    \/ \E t \in Writer, i \in Id, v \in {Absent, written + 1} : AppendWrite(t, i, v)
    \/ \E t \in Writer : ApplyWrite(t)
    \/ \E t \in {Keeper, Compactor} : Persist(t)
    \/ Maintain(Keeper) \/ Compact(Compactor)
    \/ Stop \/ Open

Spec == Init /\ [][Next]_vars

-----------------------------------------------------------------------------
(* Properties.                                                             *)

\* With no write in flight the live vectors are those of the journal, and a trained index
\* of kind k ranges over exactly these, whether it was trained, maintained online or
\* loaded from its file.
Exact(k) == open /\ lease = Free => vectors = stored /\ index[k] \in {stored, Untrained}

\* Memory and the trained indices are exact: re-sharding from a snapshot drops no write
\* that landed meanwhile, a snapshot that a write overtook is not installed, replaced
\* and deleted vectors leave no trace, and no file of another state is loaded.  (The IVF
\* always: its lists are rebuilt on load.  The NSG unless a checkpoint was read while a
\* write was in flight.)
IndexExact == Exact("ivf") /\ (raced \/ Exact("nsg"))

\* The index files as they are make an open load indices of exactly the journal's vectors
\* or none at all.
Trustworthy == \A k \in Kind : Loaded(k, shardMeta) \in {stored, Untrained}

\* Wherever the process stops, between index files, metadata and shard metadata, across
\* training, sharding and compaction, the cache it leaves is current or not trusted, as
\* long as every checkpoint was read with no write in flight (encode_indices' comment).
CacheTrusted == raced \/ Trustworthy

\* engine/mod.rs, encode_indices: "the checkpoint must be read while no writer can be in
\* flight", so that no open trusts an index that lacks a committed write.
StaleNeverTrusted == Trustworthy
=============================================================================
