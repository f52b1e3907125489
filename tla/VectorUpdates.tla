---------------------------- MODULE VectorUpdates ----------------------------
(***************************************************************************)
(* The durable vector index UpdatableVGraph (qgraph/update.rs and          *)
(* update/format.rs): batches staged in memory and committed as one log    *)
(* frame, consolidation into a new generation of files while searches run, *)
(* process crash and power loss at every step, and the recovery of open.   *)
(*                                                                         *)
(* A vector is the number of the batch it is staged for, a graph is the    *)
(* rows it was built from: a search reads the view under the state's read  *)
(* lock, and what it ranks is not modelled.  A file reached by rename has  *)
(* its content synced before; what a power loss may undo is the rename     *)
(* (and an unlink), until the next sync of the directory, and the unsynced *)
(* end of the log.                                                         *)
(***************************************************************************)
EXTENDS Integers, Sequences, FiniteSets

CONSTANTS
    Id,                   \* external ids
    Created,              \* the sets of ids the index may be created with
    Thread,               \* callers that stage, commit and consolidate
    MaxOps,               \* MAX_OPS of one batch
    MaxCommits, MaxCrashes, MaxFailures   \* bounds

ASSUME VectorUpdatesAssumption ==
    /\ IsFiniteSet(Id) /\ Id # {} /\ Created \subseteq SUBSET Id
    /\ MaxOps \in Nat \ {0} /\ MaxCommits \in Nat

VARIABLES
    disk,        \* the directory as the running system sees it
    survivors,   \* the directories a power loss may leave: that of the last sync, and
                 \* those after each rename or unlink since
    status,      \* "open", "replayed", "cleaning" (within open), "down", "refused"
    state,       \* RwLock<State>
    writer,      \* the permit: 0 free, 1 taken, 2 uncertain
    pc, call,    \* per thread: step; "commit" or "consolidate"
    promised,    \* the content after the last call that returned Ok
    possible,    \* contents of the frames written since: any may be durable
    bridged,     \* a base was published over frames the log had not synced
    crashes, failures

files == <<disk, survivors>>
calls == <<pc, call>>
promises == <<promised, possible>>
counters == <<crashes, failures>>
vars == <<files, status, state, writer, calls, promises, bridged, counters>>

Absent == 0
Original == MaxCommits + 1       \* a row the index was created with
Val == 1 .. Original
View == [Id -> Val \cup {Absent}]
NoFile == [i \in Id |-> -1]
Number == 0 .. MaxCommits
Current == <<"CURRENT", 0>>
Log == <<"updates.log", 0>>
Rows(s) == <<"rows", s>>
Vertex(s) == <<"base", s>>
Generations == {"rows", "base"} \X Number
Operation == [tag : {"insert", "delete", "replace"}, val : Val \cup {Absent}]

\* A log: frames after the origin; synced counts the frames (and the tail) that are
\* durable; the tail is an incomplete ("cut") or complete but damaged ("garbled") frame
NewLog(origin) == [origin |-> origin, frames |-> <<>>, synced |-> 0, tail |-> "none"]

-----------------------------------------------------------------------------
(* Operations on the in-memory state.                                      *)

Live(v) == {i \in Id : v[i] # Absent}

\* validate_op
ValidOp(v, i, o) ==
    /\ o.tag = "insert" <=> v[i] = Absent
    /\ o.tag = "delete" <=> o.val = Absent

\* stage, stage_all, insert_batch: each operation is checked before any is applied
ValidBatch(v, touched, b) == \A i \in DOMAIN b : i \notin touched /\ ValidOp(v, i, b[i])

\* apply, for the operations of a batch
Applied(v, b) == [i \in Id |-> IF i \in DOMAIN b THEN b[i].val ELSE v[i]]

NoOps == <<>>
Batch == UNION {[S -> Operation] : S \in SUBSET Id}
Batches(val) ==
    LET ops == {[tag |-> "insert", val |-> val], [tag |-> "replace", val |-> val],
                [tag |-> "delete", val |-> Absent]}
    IN  UNION {[S -> ops] : S \in (SUBSET Id) \ {{}}}
Joined(a, b) == [i \in DOMAIN a \cup DOMAIN b |-> IF i \in DOMAIN b THEN b[i] ELSE a[i]]

\* State::new, over the base of generation s with rows v
Fresh(s, v) == [base |-> s, view |-> v, ops |-> NoOps, seq |-> s, end |-> 0, changed |-> FALSE]

-----------------------------------------------------------------------------
(* What open makes of a directory.                                         *)

\* Base::open: the rows, and for a nonempty base the graph of as many
BaseOpens(d, s) ==
    LET rows == d[Rows(s)]
        vertex == d[Vertex(s)]
    IN  /\ rows # NoFile
        /\ Live(rows) # {} => vertex # NoFile /\ Cardinality(Live(vertex)) = Cardinality(Live(rows))

\* One turn of format::replay over a base with checkpoint m
ReplayFrame(m, r, f) ==
    IF f.seq <= m THEN r
    ELSE [ok |-> r.ok /\ ValidBatch(r.view, {}, f.ops), view |-> Applied(r.view, f.ops)]

\* format::replay of the frames of l over the rows v of generation m
Replayed(m, v, l) ==
    LET after[k \in 0 .. Len(l.frames)] ==
            IF k = 0 THEN [ok |-> TRUE, view |-> v] ELSE ReplayFrame(m, after[k - 1], l.frames[k])
    IN  after[Len(l.frames)]

\* Manifest::read, Base::open, format::replay
Recovered(d) ==
    LET m == d[Current]
        l == d[Log]
        last == l.origin + Len(l.frames)
        r == Replayed(m, d[Rows(m)], l)
    IN  [ok |-> /\ BaseOpens(d, m) /\ l.origin <= m /\ l.tail # "garbled"
                /\ \A k \in 1 .. Len(l.frames) : l.frames[k].seq = l.origin + k
                /\ r.ok /\ r.view \in View,       \* validate_vector, of every row
         view |-> r.view,
         seq |-> IF last > m THEN last ELSE m]

-----------------------------------------------------------------------------
(* The directory.                                                          *)

\* NamedTempFile::persist, remove_file
Renamed(f, content) ==
    /\ disk' = [disk EXCEPT ![f] = content]
    /\ survivors' = survivors \cup {disk'}

\* sync_directory
DirectorySynced == survivors' = {disk} /\ UNCHANGED disk

\* a write to, or a sync of, the log file
LogFile(l) ==
    /\ disk' = [disk EXCEPT ![Log] = l]
    /\ survivors' = {IF d[Log] = disk[Log] THEN [d EXCEPT ![Log] = l] ELSE d : d \in survivors}

\* what a power loss may make of the end of the log after n frames
TailLoss(l, n) ==
    IF l.synced > Len(l.frames) THEN {l.tail}
    ELSE IF n = Len(l.frames) /\ l.tail = "none" THEN {"none"}
    ELSE {"none", "cut", "garbled"}

\* the log file after a power loss: what was synced, and any part of the rest
LogLoss(l) ==
    LET least == IF l.synced > Len(l.frames) THEN Len(l.frames) ELSE l.synced
        left(n, x) == [l EXCEPT !.frames = SubSeq(@, 1, n), !.tail = x,
                                !.synced = IF x = "none" THEN n ELSE n + 1]
    IN  UNION {{left(n, x) : x \in TailLoss(l, n)} : n \in least .. Len(l.frames)}

-----------------------------------------------------------------------------
(* Calls.                                                                  *)

Running(t, step) == status = "open" /\ pc[t] = step
Goto(t, step) == pc' = [pc EXCEPT ![t] = step]

\* Writer::drop: the permit goes back, unless it was made uncertain
Released == writer' = IF writer = 1 THEN 0 ELSE writer
Returned(t) == Goto(t, "idle") /\ Released /\ call' = [call EXCEPT ![t] = "commit"]

\* a failing I/O call
Fails == failures < MaxFailures /\ failures' = failures + 1 /\ UNCHANGED crashes

Init ==
    /\ \E v \in {[i \in Id |-> IF i \in c THEN Original ELSE Absent] : c \in Created} :
          /\ disk = [f \in {Current, Log} \cup Generations |->
                        IF f = Current THEN 0
                        ELSE IF f = Log THEN NewLog(0)
                        ELSE IF f = Rows(0) \/ (f = Vertex(0) /\ Live(v) # {}) THEN v ELSE NoFile]
          /\ state = Fresh(0, v) /\ promised = v
    /\ survivors = {disk} /\ status = "open" /\ writer = 0
    /\ pc = [t \in Thread |-> "idle"] /\ call = [t \in Thread |-> "commit"]
    /\ possible = {} /\ bridged = FALSE /\ crashes = 0 /\ failures = 0

\* A mutation of Stage: it does not take the permit.
BugStage(t, b) ==
    /\ Running(t, "idle")
    /\ Cardinality(DOMAIN state.ops) + Cardinality(DOMAIN b) <= MaxOps
    /\ ValidBatch(state.view, DOMAIN state.ops, b)
    /\ state' = [state EXCEPT !.view = Applied(@, b), !.ops = Joined(@, b), !.changed = TRUE]
    /\ UNCHANGED <<files, status, writer, calls, promises, bridged, counters>>

\* stage, stage_all, insert_batch: the permit is held for the call only
Stage(t, b) ==
    /\ Running(t, "idle") /\ writer = 0
    /\ Cardinality(DOMAIN state.ops) + Cardinality(DOMAIN b) <= MaxOps
    /\ ValidBatch(state.view, DOMAIN state.ops, b)
    /\ state' = [state EXCEPT !.view = Applied(@, b), !.ops = Joined(@, b), !.changed = TRUE]
    /\ UNCHANGED <<files, status, writer, calls, promises, bridged, counters>>

\* A mutation of Begin: it does not ask whether the permit is free.
BugBegin(t, c) ==
    /\ Running(t, "idle")
    /\ IF state.ops # NoOps THEN state.seq < MaxCommits /\ Goto(t, "append")
       ELSE c = "consolidate" /\ Goto(t, "snapshot")
    /\ writer' = 1 /\ call' = [call EXCEPT ![t] = c]
    /\ UNCHANGED <<files, status, state, promises, bridged, counters>>

\* commit and consolidate_mode take the permit; an empty batch is not written
Begin(t, c) ==
    /\ Running(t, "idle") /\ writer = 0
    /\ IF state.ops # NoOps THEN state.seq < MaxCommits /\ Goto(t, "append")
       ELSE c = "consolidate" /\ Goto(t, "snapshot")
    /\ writer' = 1 /\ call' = [call EXCEPT ![t] = c]
    /\ UNCHANGED <<files, status, state, promises, bridged, counters>>

\* format::append: write_all at log_end; bytes already there may reach past the frame ...
WriteFrame(t) ==
    /\ Running(t, "append") /\ Goto(t, "sync")
    /\ LET l == disk[Log]
           f == [seq |-> state.seq + 1, ops |-> state.ops]
           over == Len(l.frames) > state.end \/ l.tail # "none"
       IN  \E x \in IF over THEN {"none", "garbled"} ELSE {"none"} :
              LogFile([l EXCEPT !.frames = Append(SubSeq(@, 1, state.end), f), !.tail = x])
    /\ possible' = possible \cup {state.view}
    /\ UNCHANGED <<status, state, writer, call, promised, bridged, counters>>

\* ... and sync_all; then commit_with_checkpoints clears the batch
SyncFrame(t) ==
    /\ Running(t, "sync")
    /\ LogFile([disk[Log] EXCEPT !.synced = Len(disk[Log].frames)])
    /\ state' = [state EXCEPT !.seq = @ + 1, !.end = @ + 1, !.ops = NoOps]
    /\ promised' = state.view /\ possible' = {}
    /\ IF call[t] = "commit" THEN Returned(t)
       ELSE Goto(t, "snapshot") /\ UNCHANGED <<call, writer>>
    /\ UNCHANGED <<status, bridged, counters>>

\* A mutation of AppendFails: the permit is given back as if nothing had been written.
BugAppendFails(t) ==
    /\ Fails /\ (Running(t, "append") \/ Running(t, "sync"))
    /\ IF pc[t] = "append"
       THEN \E x \in {"none", "cut"} : LogFile([disk[Log] EXCEPT !.tail = x])
       ELSE UNCHANGED files
    /\ Goto(t, "idle") /\ writer' = 0 /\ call' = [call EXCEPT ![t] = "commit"]
    /\ UNCHANGED <<status, state, promises, bridged>>

\* an append that writes nothing or a part, or whose sync fails
AppendFails(t) ==
    /\ Fails /\ (Running(t, "append") \/ Running(t, "sync"))
    /\ IF pc[t] = "append"
       THEN \E x \in {"none", "cut"} : LogFile([disk[Log] EXCEPT !.tail = x])
       ELSE UNCHANGED files
    /\ Goto(t, "idle") /\ writer' = 2 /\ call' = [call EXCEPT ![t] = "commit"]
    /\ UNCHANGED <<status, state, promises, bridged>>

-----------------------------------------------------------------------------
(* Consolidation, the permit held and searches running.                    *)

\* no delta row and no tombstone: Consolidation::Unchanged
Unchanged(t) ==
    /\ Running(t, "snapshot") /\ ~state.changed /\ Returned(t)
    /\ UNCHANGED <<files, status, state, promises, bridged, counters>>

\* write_mapped_base, write_base_with_checkpoints: the rows of the live ids ...
WriteRows(t) ==
    /\ Running(t, "snapshot") /\ state.changed
    /\ Renamed(Rows(state.seq), state.view)
    /\ Goto(t, IF Live(state.view) = {} THEN "written" ELSE "vertex")
    /\ UNCHANGED <<status, state, writer, call, promises, bridged, counters>>

\* ... and the graph merged or rebuilt over them
WriteVertex(t) ==
    /\ Running(t, "vertex") /\ Goto(t, "written")
    /\ Renamed(Vertex(state.seq), state.view)
    /\ UNCHANGED <<status, state, writer, call, promises, bridged, counters>>

\* sync_directory; Base::open of the new files
SyncGeneration(t) ==
    /\ Running(t, "written") /\ BaseOpens(disk, state.seq) /\ Goto(t, "publish")
    /\ DirectorySynced
    /\ UNCHANGED <<status, state, writer, call, promises, bridged, counters>>

\* an error before the publication: the old generation goes on
BuildFails(t) ==
    /\ Fails /\ (Running(t, "snapshot") \/ Running(t, "vertex") \/ Running(t, "written"))
    /\ Returned(t)
    /\ UNCHANGED <<files, status, state, promises, bridged>>

\* atomic_write of CURRENT ...
Publish(t) ==
    /\ Running(t, "publish") /\ Goto(t, "published")
    /\ Renamed(Current, state.seq)
    /\ bridged' = (bridged \/ disk[Log].synced < Len(disk[Log].frames))
    /\ UNCHANGED <<status, state, writer, call, promises, counters>>

\* ... and the sync of its directory
SyncCurrent(t) ==
    /\ Running(t, "published") /\ Goto(t, "rotate")
    /\ DirectorySynced
    /\ UNCHANGED <<status, state, writer, call, promises, bridged, counters>>

\* format::rotate
Rotate(t) ==
    /\ Running(t, "rotate") /\ Goto(t, "rotated")
    /\ Renamed(Log, NewLog(state.seq))
    /\ UNCHANGED <<status, state, writer, call, promises, bridged, counters>>

\* its directory sync, and the new State put in place of the old
Swap(t) ==
    /\ Running(t, "rotated") /\ Goto(t, "cleanup")
    /\ DirectorySynced
    /\ state' = Fresh(state.seq, disk[Rows(state.seq)])
    /\ UNCHANGED <<status, writer, call, promises, bridged, counters>>

\* an error in the publication leaves the permit uncertain
PublishFails(t) ==
    /\ Fails /\ \E step \in {"publish", "published", "rotate", "rotated"} : Running(t, step)
    /\ Goto(t, "idle") /\ writer' = 2 /\ call' = [call EXCEPT ![t] = "commit"]
    /\ UNCHANGED <<files, status, state, promises, bridged>>

\* A mutation of Stale: the log's sequence is taken for the active generation.
BugStale == {f \in Generations : f[2] # state.seq /\ disk[f] # NoFile}

\* cleanup_generations: the files it removes
Stale == {f \in Generations : f[2] # state.base /\ disk[f] # NoFile}

\* removed one by one, in any order, by a consolidation or by open
RemoveStale(t, f) ==
    /\ Running(t, "cleanup") /\ f \in Stale /\ Renamed(f, NoFile)
    /\ UNCHANGED <<status, state, writer, calls, promises, bridged, counters>>

\* the directory sync that ends consolidate_mode
Consolidated(t) ==
    /\ Running(t, "cleanup") /\ Stale = {} /\ Returned(t)
    /\ DirectorySynced
    /\ promised' = state.view /\ possible' = {}
    /\ UNCHANGED <<status, state, bridged, counters>>

CleanupFails(t) ==
    /\ Fails /\ Running(t, "cleanup") /\ Returned(t)
    /\ UNCHANGED <<files, status, state, promises, bridged>>

-----------------------------------------------------------------------------
(* Open, close and crash.                                                  *)

\* the memory of a process that is gone
Gone == Fresh(0, [i \in Id |-> Absent])

Down ==
    /\ status' = "down" /\ state' = Gone /\ writer' = 0
    /\ pc' = [t \in Thread |-> "idle"] /\ call' = [t \in Thread |-> "commit"]

\* open: replay, or an error that leaves the directory as it is
Open ==
    /\ status \in {"down", "refused"}
    /\ LET r == Recovered(disk)
       IN  IF r.ok
           THEN /\ status' = "replayed"
                /\ state' = [Fresh(disk[Current], r.view) EXCEPT
                                !.seq = r.seq, !.end = Len(disk[Log].frames),
                                !.changed = r.seq > disk[Current]]
           ELSE status' = "refused" /\ UNCHANGED state
    /\ UNCHANGED <<files, writer, calls, promises, bridged, counters>>

\* set_len and sync_all, when bytes follow the last complete frame
Truncate ==
    /\ status = "replayed" /\ status' = "cleaning"
    /\ IF disk[Log].tail = "none" THEN UNCHANGED files
       ELSE LogFile([disk[Log] EXCEPT !.tail = "none", !.synced = Len(disk[Log].frames)])
    /\ UNCHANGED <<state, writer, calls, promises, bridged, counters>>

\* cleanup_generations
OpenRemoves(f) ==
    /\ status = "cleaning" /\ f \in Stale /\ Renamed(f, NoFile)
    /\ UNCHANGED <<status, state, writer, calls, promises, bridged, counters>>

Opened ==
    /\ status = "cleaning" /\ Stale = {} /\ status' = "open"
    /\ DirectorySynced
    /\ UNCHANGED <<state, writer, calls, promises, bridged, counters>>

\* an I/O error in open
OpenFails ==
    /\ Fails /\ status \in {"replayed", "cleaning"} /\ Down
    /\ UNCHANGED <<files, promises, bridged>>

\* the index is dropped, with the batch not committed
Close ==
    /\ status = "open" /\ (\A t \in Thread : pc[t] = "idle") /\ Down
    /\ UNCHANGED <<files, promises, bridged, counters>>

\* the process stops; with power loss, what was not synced may be lost
Crash(power) ==
    /\ status \in {"open", "replayed", "cleaning"} /\ crashes < MaxCrashes
    /\ crashes' = crashes + 1 /\ Down
    /\ IF power
       THEN /\ \E d \in survivors : \E l \in LogLoss(d[Log]) : disk' = [d EXCEPT ![Log] = l]
            /\ survivors' = {disk'}
       ELSE UNCHANGED files
    /\ UNCHANGED <<promises, bridged, failures>>

Commit(t) == WriteFrame(t) \/ SyncFrame(t) \/ AppendFails(t)

Consolidate(t) ==
    \/ Unchanged(t) \/ WriteRows(t) \/ WriteVertex(t) \/ SyncGeneration(t) \/ BuildFails(t)
    \/ Publish(t) \/ SyncCurrent(t) \/ Rotate(t) \/ Swap(t) \/ PublishFails(t)
    \/ (\E f \in Generations : RemoveStale(t, f)) \/ Consolidated(t) \/ CleanupFails(t)

Next ==
    \/ \E t \in Thread :
          \/ \E b \in Batches(state.seq + 1) : Stage(t, b)
          \/ \E c \in {"commit", "consolidate"} : Begin(t, c)
          \/ Commit(t)
          \/ Consolidate(t)
    \/ Open \/ Truncate \/ (\E f \in Generations : OpenRemoves(f)) \/ Opened \/ OpenFails
    \/ Close \/ (\E power \in BOOLEAN : Crash(power))

Spec == Init /\ [][Next]_vars

-----------------------------------------------------------------------------
(* Properties.                                                             *)

Frame == [seq : Number, ops : Batch]
LogType ==
    /\ disk[Log].origin \in Number /\ disk[Log].frames \in Seq(Frame)
    /\ disk[Log].synced \in 0 .. Len(disk[Log].frames) + 1
    /\ disk[Log].tail \in {"none", "cut", "garbled"}

\* The variables have their types; in particular at most one thread is within a call, and
\* the permit says so.
TypeOK ==
    /\ disk[Current] \in Number /\ LogType
    /\ \A f \in Generations : disk[f] \in View \cup {NoFile}
    /\ status \in {"open", "replayed", "cleaning", "down", "refused"}
    /\ state.base \in Number /\ state.seq \in Number /\ state.view \in View
    /\ state.ops \in Batch /\ state.end \in 0 .. MaxCommits /\ state.changed \in BOOLEAN
    /\ writer \in 0 .. 2
    /\ \A t, u \in Thread : pc[t] # "idle" /\ pc[u] # "idle" => t = u /\ writer = 1

\* An open recovers every batch whose commit returned, and of the others a whole batch or
\* nothing: the content after the last acknowledged call, or that of a frame written since.
RecoversCommitted ==
    [][status = "cleaning" /\ status' = "open" => state.view \in possible \cup {promised}]_vars

\* Open refuses the directory only for a complete frame that a power loss damaged, as
\* format::replay says, and at every step of every call the files open to the content in
\* memory, but for the batch not committed: a process crash there loses that batch and
\* nothing else.  (bridged is the case of OpensAfterCrash.)
OpensUnlessGarbled ==
    /\ status = "refused" => disk[Log].tail = "garbled" \/ bridged
    /\ status = "open" /\ ~bridged =>
           LET r == Recovered(disk)
           IN  r.ok /\ Applied(r.view, state.ops) = state.view

\* Whatever a power loss undoes, CURRENT names a generation whose files are there.
CurrentHasBase == \A d \in survivors : BaseOpens(d, d[Current])

\* No step replaces or removes a file of the generation that is mapped in memory, or of the
\* one that CURRENT names and the next open needs.
ActiveGenerationKept ==
    [][\A f \in Generations :
          /\ (status = "open" /\ status' = "open" /\ f[2] = state.base /\ state'.base = state.base)
                => disk'[f] = disk[f]
          /\ (f[2] = disk[Current] /\ disk'[Current] = disk[Current]) => disk'[f] = disk[f]]_vars

\* VECTOR-UPDATES.md: an interruption before the publication replays against the old base,
\* and one after it opens the new base and skips the old prefix.
OpensAfterCrash == status = "refused" => disk[Log].tail = "garbled"

-----------------------------------------------------------------------------
(* The inductive invariant behind CurrentHasBase and ActiveGenerationKept. *)

Frames == Seq([seq : Nat, ops : Batch])
LogRecord == [origin : Number, frames : Frames, synced : Nat, tail : {"none", "cut", "garbled"}]
File == {Current, Log} \cup Generations

\* A directory an open can make sense of
DirOK(d) ==
    /\ d = [f \in File |-> d[f]] /\ d[Current] \in Number
    /\ d[Log] \in LogRecord /\ d[Log].origin + Len(d[Log].frames) <= MaxCommits
    /\ BaseOpens(d, d[Current])

\* d and disk agree on the generation that CURRENT names in both
SameBase(d) ==
    d[Current] = disk[Current] => \A f \in Generations : f[2] = disk[Current] => d[f] = disk[f]

FilesInv == disk \in survivors /\ \A d \in survivors : DirOK(d) /\ SameBase(d)

StateInv ==
    /\ state \in [base : Number, view : View, ops : Batch, seq : Number, end : Nat, changed : BOOLEAN]
    /\ state.base <= state.seq
    /\ state.changed /\ state.ops = NoOps => state.base < state.seq

PermitInv ==
    /\ status \in {"open", "replayed", "cleaning", "down", "refused"}
    /\ writer \in 0 .. 2 /\ (status # "open" => writer = 0)
    /\ pc \in [Thread -> {"idle", "append", "sync", "snapshot", "vertex", "written", "publish",
                          "published", "rotate", "rotated", "cleanup"}]
    /\ \A t \in Thread : pc[t] # "idle" => writer = 1 /\ status = "open"
    /\ \A t, u \in Thread : pc[t] # "idle" /\ pc[u] # "idle" => t = u

Publishing == {"published", "rotate", "rotated"}

\* Memory and files, but for a publication that is going on or has failed
MemoryInv ==
    status \in {"open", "replayed", "cleaning"} =>
        /\ \/ writer = 2 \/ (\E t \in Thread : pc[t] \in Publishing)
           \/ disk[Current] = state.base
        /\ \/ writer = 2 \/ (\E t \in Thread : pc[t] = "rotated")
           \/ /\ disk[Log].origin + state.end <= state.seq
              /\ state.end <= Len(disk[Log].frames)

\* Where a call is says what it has done
CallInv(step) ==
    /\ step \in {"append", "sync"} => state.seq < MaxCommits
    /\ step = "sync" => state.end < Len(disk[Log].frames)
    /\ step \in {"snapshot", "vertex", "written", "publish"} \cup Publishing => state.ops = NoOps
    /\ step \in {"vertex", "written", "publish"} \cup Publishing =>
          state.changed /\ disk[Rows(state.seq)] = state.view
    /\ step \in {"written", "publish"} \cup Publishing =>
          (Live(state.view) = {} \/ disk[Vertex(state.seq)] = state.view)
    /\ step = "publish" => survivors = {disk}
    /\ step \in Publishing => disk[Current] = state.seq
    /\ step = "rotated" => disk[Log] = NewLog(state.seq)

VectorInv ==
    /\ FilesInv /\ StateInv /\ PermitInv /\ MemoryInv
    /\ \A t \in Thread : CallInv(pc[t])

=============================================================================
