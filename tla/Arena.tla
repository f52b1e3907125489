------------------------------- MODULE Arena --------------------------------
(***************************************************************************)
(* The journal's segmented arena (storage.rs): framed appends into a       *)
(* memory-mapped segment, the commit sync and its rollback, growth,        *)
(* rotation, power loss, and the walk that finds the end of the log when   *)
(* the store is opened again.                                              *)
(*                                                                         *)
(* A segment is an array of cells.  A frame is one header cell followed by *)
(* the cells of its payload; the end marker is one cell.  A frame checks   *)
(* out (lengths, LZ4, CRC32) exactly when its payload cells are the ones   *)
(* its header was written with.  `mem` is the mapping (the page cache),    *)
(* `disk` what a power loss leaves: the kernel may write back any dirty    *)
(* cell at any time and in any order, so a crash keeps an arbitrary subset *)
(* of them.  The advisory version word of a header is left out.            *)
(***************************************************************************)
EXTENDS Integers, Sequences, FiniteSets

CONSTANTS
    Data,         \* transactions (journal payloads)
    PayLen,       \* cells of each transaction's stored payload
    SegCells,     \* segment_size
    GrowCells,    \* SEGMENT_SIZE: the growth unit of a segment file
    FsyncCoversEntry,  \* syncing a new file also makes its directory entry durable
    DamageKinds,       \* what damage may do to a cell: {"junk"} or nothing
    MaxSegments, MaxAppends, MaxCrashes, MaxFailures   \* bounds

ASSUME ArenaAssumption ==
    /\ PayLen \in [Data -> Nat \ {0}]
    /\ GrowCells \in Nat \ {0} /\ SegCells \in Nat /\ SegCells % GrowCells = 0
    /\ SegCells > 0 /\ FsyncCoversEntry \in BOOLEAN /\ DamageKinds \subseteq {"junk"}
    /\ \A d \in Data : 1 + PayLen[d] <= GrowCells

VARIABLES
    mem, disk,    \* segment contents: mapped, and durable
    len,          \* length of each segment file
    files,        \* segment files that exist
    dirSynced,    \* ... of which the directory entry is durable
    active,       \* active_id
    woff,         \* write_offset
    pending,      \* rotation_pending
    op,           \* the append in progress: [step, d]
    status,       \* "open", "closed", "down" (crashed), "refused" (open failed)
    acked,        \* transactions whose commit returned Ok, in order
    limbo,        \* a transaction that was not acknowledged but may be on disk
    damaged,      \* a cell of a closed store was damaged
    appends, crashes, failures

vars == <<mem, disk, len, files, dirSynced, active, woff, pending, op, status,
          acked, limbo, damaged, appends, crashes, failures>>
counters == <<appends, crashes, failures>>

None == "none"
Segment == 0 .. MaxSegments - 1
Offset == 0 .. SegCells - 1
Zero == <<"zero">>
End == <<"end">>
Hdr(d) == <<"head", d>>
Pay(d, i) == <<"pay", d, i>>
FrameLen(d) == 1 + PayLen[d]
Blank == [o \in Offset |-> Zero]
Idle == [step |-> "idle", d |-> None]

-----------------------------------------------------------------------------
\* frame_checks_out: a header within the first n cells whose payload is intact.
FrameChecksOut(c, n, o) ==
    \E d \in Data :
        /\ c[o] = Hdr(d)
        /\ o + FrameLen(d) <= n
        /\ \A i \in 1 .. PayLen[d] : c[o + i] = Pay(d, i)

FrameAt(c, o) == CHOOSE d \in Data : c[o] = Hdr(d)

IsLogEnd(cell) == cell \in {Zero, End}

\* committed_after: a valid frame, or also the end marker, at or after `from`.
CommittedAfter(c, n, from, includeEnd) ==
    \E o \in from .. n - 1 : FrameChecksOut(c, n, o) \/ (includeEnd /\ c[o] = End)

LogEndsAt(o) == [ok |-> TRUE, off |-> o, log |-> <<>>]

\* Defect: a bad frame always ends the walk, whatever follows it.
BugDiscoverFail(c, n, o) == LogEndsAt(o)

\* A frame fails its checks: a torn tail, unless committed data follows.
DiscoverFail(c, n, o) == [LogEndsAt(o) EXCEPT !.ok = ~CommittedAfter(c, n, o + 1, TRUE)]

\* discover_offset: walk the frames of the active segment, mapped to n cells,
\* to the first free offset.  The frames passed are the ones replay reads.
DiscoverOffset(c, n) ==
    LET walk[o \in 0 .. n] ==
          IF o = n THEN LogEndsAt(o)
          ELSE IF IsLogEnd(c[o])
               THEN IF CommittedAfter(c, n, o + 1, FALSE)
                    THEN DiscoverFail(c, n, o)
                    ELSE LogEndsAt(o)
          ELSE IF FrameChecksOut(c, n, o)
               THEN LET d == FrameAt(c, o)
                        rest == walk[o + FrameLen(d)]
                    IN  [rest EXCEPT !.log = <<d>> \o @]
               ELSE DiscoverFail(c, n, o)
    IN  walk[0]

\* load_from_log over a sealed segment: read_frame, then next_offset, which
\* moves to the next segment at a log end or when no header fits any more.
ReplaySealed(c, n) ==
    LET walk[o \in 0 .. n] ==
          IF o < n /\ FrameChecksOut(c, n, o)
          THEN LET d == FrameAt(c, o)
                   next == o + FrameLen(d)
                   rest == IF next = SegCells \/ (next < n /\ IsLogEnd(c[next]))
                           THEN LogEndsAt(next)
                           ELSE walk[next]
               IN  [rest EXCEPT !.log = <<d>> \o @]
          ELSE [LogEndsAt(o) EXCEPT !.ok = FALSE]
    IN  walk[0]

Capacity(n) == GrowCells * (IF n = 0 THEN 1 ELSE (n + GrowCells - 1) \div GrowCells)

\* What an open of segment files 0 .. k - 1 with contents c replays.
Replay(c, k) ==
    LET last == DiscoverOffset(c[k - 1], Capacity(len[k - 1]))
        sealed == [s \in 0 .. k - 2 |-> ReplaySealed(c[s], len[s])]
        upto[s \in 0 .. k - 1] ==
            IF s = 0 THEN <<>> ELSE upto[s - 1] \o sealed[s - 1].log
    IN  [last EXCEPT !.ok = @ /\ \A s \in 0 .. k - 2 : sealed[s].ok,
                     !.log = upto[k - 1] \o @]

\* The cells of segment s the kernel may still have to write back.
Dirty(s) == {o \in Offset : mem[s][o] # disk[s][o]}

\* Segment contents after writing back the cells in w.
WriteBack(from, to, w) == [o \in Offset |-> IF o \in w THEN to[o] ELSE from[o]]

Init ==
    /\ mem = [s \in Segment |-> Blank]
    /\ disk = mem
    /\ len = [s \in Segment |-> IF s = 0 THEN GrowCells ELSE 0]
    /\ files = 1 /\ dirSynced = 1
    /\ active = 0 /\ woff = 0 /\ pending = FALSE
    /\ op = Idle
    /\ status = "open"
    /\ acked = <<>> /\ limbo = {}
    /\ damaged = FALSE
    /\ appends = 0 /\ crashes = 0 /\ failures = 0

-----------------------------------------------------------------------------
At(step) == status = "open" /\ op.step = step
Goto(step) == op' = [op EXCEPT !.step = step]
MayFail == failures < MaxFailures /\ failures' = failures + 1

\* Defect: an append after a failed rotation writes into the old segment.
BugMustRotate(d) == woff + FrameLen(d) > SegCells

MustRotate(d) == woff + FrameLen(d) > SegCells \/ pending

\* write_frame takes the active segment's lock.
Begin(d) ==
    /\ At("idle")
    /\ appends < MaxAppends /\ appends' = appends + 1
    /\ MustRotate(d) => active + 1 < MaxSegments
    /\ op' = [step |-> IF MustRotate(d) THEN "seal" ELSE "write", d |-> d]
    /\ UNCHANGED <<mem, disk, len, files, dirSynced, active, woff, pending, status,
                   acked, limbo, damaged, crashes, failures>>

\* rotate_segment_locked makes the segment it seals durable ...
Seal ==
    /\ At("seal") /\ Goto("create")
    /\ disk' = [disk EXCEPT ![active] = mem[active]]
    /\ limbo' = {}
    /\ UNCHANGED <<mem, len, files, dirSynced, active, woff, pending, status,
                   acked, damaged, counters>>

SealFails ==
    /\ At("seal") /\ MayFail /\ op' = Idle
    /\ \E w \in SUBSET Dirty(active) :
          disk' = [disk EXCEPT ![active] = WriteBack(@, mem[active], w)]
    /\ UNCHANGED <<mem, len, files, dirSynced, active, woff, pending, status,
                   acked, limbo, damaged, appends, crashes>>

\* ... then marks the rotation pending and creates the next file ...
Create ==
    /\ At("create") /\ Goto("size")
    /\ pending' = TRUE
    /\ files' = active + 2
    /\ UNCHANGED <<mem, disk, len, dirSynced, active, woff, status,
                   acked, limbo, damaged, counters>>

\* ... where creating it, or any step after that, may fail ...
CreateFails ==
    /\ \/ At("create") /\ pending' = TRUE
       \/ At("size") /\ UNCHANGED pending
    /\ MayFail /\ op' = Idle
    /\ UNCHANGED <<mem, disk, len, files, dirSynced, active, woff, status,
                   acked, limbo, damaged, appends, crashes>>

\* ... and switches to it once its length and directory entry are durable.
Rotate ==
    /\ At("size") /\ Goto("write")
    /\ len' = [len EXCEPT ![active + 1] = GrowCells]
    /\ dirSynced' = files
    /\ active' = active + 1
    /\ woff' = 0
    /\ pending' = FALSE
    /\ UNCHANGED <<mem, disk, files, status, acked, limbo, damaged, counters>>

GrowFails ==
    /\ At("write") /\ woff + FrameLen(op.d) > len[active]
    /\ MayFail /\ op' = Idle
    /\ UNCHANGED <<mem, disk, len, files, dirSynced, active, woff, pending, status,
                   acked, limbo, damaged, appends, crashes>>

\* The cells of the frame being appended, its end marker included if it fits.
FrameRange(o, d) == {c \in o .. o + FrameLen(d) : c < len[active]}

\* grow_segment_locked if needed, then header, payload and end marker.
WriteFrame ==
    /\ At("write") /\ Goto("sync")
    /\ LET d == op.d
           frameEnd == woff + FrameLen(d)
           n == IF frameEnd > len[active] THEN Capacity(frameEnd) ELSE len[active]
       IN  /\ len' = [len EXCEPT ![active] = n]
           /\ mem' = [mem EXCEPT ![active] =
                        [o \in Offset |->
                           CASE o = woff -> Hdr(d)
                             [] o \in woff + 1 .. frameEnd - 1 -> Pay(d, o - woff)
                             [] o = frameEnd /\ o < n -> End
                             [] OTHER -> @[o]]]
           /\ woff' = frameEnd
           /\ limbo' = limbo \cup {d}
    /\ UNCHANGED <<disk, files, dirSynced, active, pending, status,
                   acked, damaged, counters>>

\* Defect: the end marker and the last payload cell are left out of the sync.
BugSync ==
    /\ At("sync") /\ op' = Idle
    /\ LET o == woff - FrameLen(op.d)
       IN  disk' = [disk EXCEPT ![active] = WriteBack(@, mem[active], o .. woff - 2)]
    /\ dirSynced' = IF FsyncCoversEntry THEN files ELSE dirSynced
    /\ acked' = Append(acked, op.d)
    /\ limbo' = {}
    /\ UNCHANGED <<mem, len, files, active, woff, pending, status,
                   damaged, counters>>

\* sync_range over frame and marker: the commit returns Ok.
Sync ==
    /\ At("sync") /\ op' = Idle
    /\ LET o == woff - FrameLen(op.d)
       IN  disk' = [disk EXCEPT ![active] = WriteBack(@, mem[active], FrameRange(o, op.d))]
    /\ dirSynced' = IF FsyncCoversEntry THEN files ELSE dirSynced
    /\ acked' = Append(acked, op.d)
    /\ limbo' = {}
    /\ UNCHANGED <<mem, len, files, active, woff, pending, status,
                   damaged, counters>>

\* Defect: a failed commit moves the write offset back and no more.
BugRolledBack(c, o, d) == c

\* The frame is taken back out of the log: end marker, then zeros.
RolledBack(c, o, d) ==
    [p \in Offset |-> IF p = o THEN End
                      ELSE IF p \in FrameRange(o, d) THEN Zero ELSE c[p]]

\* A failed sync may have written any part of the range; the second, best
\* effort sync of the rolled back range succeeds or fails likewise.
SyncFails ==
    /\ At("sync") /\ MayFail /\ op' = Idle
    /\ LET o == woff - FrameLen(op.d)
           range == FrameRange(o, op.d)
           back == RolledBack(mem[active], o, op.d)
       IN  /\ woff' = o
           /\ mem' = [mem EXCEPT ![active] = back]
           /\ \E w \in SUBSET range :
                 LET first == WriteBack(disk[active], mem[active], w)
                 IN  \/ /\ disk' = [disk EXCEPT ![active] = WriteBack(first, back, range)]
                        /\ limbo' = {}
                     \/ /\ \E v \in SUBSET range :
                              disk' = [disk EXCEPT ![active] = WriteBack(first, back, v)]
                        /\ UNCHANGED limbo
    /\ UNCHANGED <<len, files, dirSynced, active, pending, status,
                   acked, damaged, appends, crashes>>

-----------------------------------------------------------------------------
\* Power loss: any subset of the dirty cells reached the disk, and a file
\* whose directory entry was never synced may be gone.
Crash ==
    /\ status = "open" /\ status' = "down"
    /\ crashes < MaxCrashes /\ crashes' = crashes + 1
    /\ \E w \in SUBSET Dirty(active), k \in dirSynced .. files :
          /\ files' = k /\ dirSynced' = k
          /\ len' = [s \in Segment |-> IF s < k THEN len[s] ELSE 0]
          /\ disk' = [s \in Segment |-> CASE s >= k -> Blank
                                         [] s = active -> WriteBack(disk[s], mem[s], w)
                                         [] OTHER -> disk[s]]
    /\ mem' = disk' /\ op' = Idle
    /\ UNCHANGED <<active, woff, pending, acked, limbo, damaged,
                   appends, failures>>

\* Dropping the arena writes its dirty pages back.
Close ==
    /\ At("idle") /\ status' = "closed"
    /\ disk' = mem
    /\ limbo' = {}
    /\ UNCHANGED <<mem, len, files, dirSynced, active, woff, pending, op, acked, damaged,
                   counters>>

\* A cell of a cleanly closed store is garbled.
Damage(kind) ==
    /\ status = "closed" /\ ~damaged /\ damaged' = TRUE
    /\ \E s \in 0 .. files - 1, o \in Offset :
          /\ disk[s][o] # Zero
          /\ disk' = [disk EXCEPT ![s][o] = <<kind>>]
    /\ mem' = disk'
    /\ UNCHANGED <<len, files, dirSynced, active, woff, pending, op, status, acked, limbo,
                   counters>>

\* PersistentArena::new and load_from_log.  The end marker written at the
\* recovered offset is flushed, though not on every platform durably.
Reopen ==
    /\ status # "open"
    /\ LET last == files - 1
           n == Capacity(len[last])
           found == DiscoverOffset(disk[last], n)
           marked == IF found.ok /\ found.off < n
                     THEN [disk[last] EXCEPT ![found.off] = End] ELSE disk[last]
           log == Replay(disk, files)
       IN  /\ len' = [len EXCEPT ![last] = n]
           /\ mem' = [disk EXCEPT ![last] = marked]
           /\ disk' \in {disk, mem'}
           /\ IF log.ok
              THEN /\ status' = "open"
                   /\ acked' = log.log
                   /\ limbo' = {}
                   /\ active' = last /\ woff' = log.off /\ pending' = FALSE
              ELSE /\ status' = "refused"
                   /\ UNCHANGED <<acked, limbo, active, woff, pending>>
    /\ UNCHANGED <<files, dirSynced, op, damaged, counters>>

-----------------------------------------------------------------------------
Next ==
    \/ \E d \in Data : Begin(d)
    \/ Seal \/ SealFails \/ Create \/ CreateFails \/ Rotate
    \/ GrowFails \/ WriteFrame \/ Sync \/ SyncFails
    \/ Crash \/ Close \/ Reopen
    \/ \E kind \in DamageKinds : Damage(kind)

Spec == Init /\ [][Next]_vars

-----------------------------------------------------------------------------
\* Whatever appends failed, rolled back, rotated or were recovered before, the
\* mapped log between two appends replays to exactly the acknowledged
\* transactions, and ends at the write offset.
LogIsAcknowledged ==
    At("idle") =>
        LET r == Replay(mem, active + 1)
        IN  r.ok /\ r.log = acked /\ r.off = woff

\* An open replays every segment but the last without the torn-tail test, so
\* none of them may ever hold an unfinished append: whatever rotation failed
\* and wherever the power went, an undamaged sealed segment replays.
SealedSegmentsIntact ==
    status # "open" /\ ~damaged =>
        \A s \in 0 .. files - 2 : ReplaySealed(disk[s], len[s]).ok

IsReopened == status # "open" /\ status' = "open"

\* A commit that returned is durable and a transaction is entirely present or
\* entirely absent: an undamaged store that opens again holds the acknowledged
\* transactions in order, followed at most by one that was in flight, or whose
\* rollback could not be synced and which no later commit has overwritten.
RecoversAcknowledged ==
    [][IsReopened /\ ~damaged =>
          acked' \in {acked} \cup {Append(acked, d) : d \in limbo}]_vars

\* A garbled cell inside the committed data of a store that was closed cleanly
\* is refused, never served as a shorter store; only a last frame with no room for an
\* end marker after it is cut.
GarbledNeverShortens ==
    [][status = "closed" /\ status' = "open" =>
          \/ acked' = acked
          \/ \E d \in Data : /\ acked = Append(acked', d)
                             /\ woff' + FrameLen(d) = len[active']]_vars

\* CRASH-CONSISTENCY.md: "A torn frame is cut on open".  Without damage an open
\* after a crash is never refused.
TornFrameIsCut == status = "refused" => damaged
=============================================================================
