----------------------------- MODULE VectorIndex -----------------------------
(***************************************************************************)
(* The persisted vector index of a tenant beside its engine                *)
(* (warm-server/vindex.rs, and store_docs and delete in documents.rs).     *)
(*                                                                         *)
(* A row is the token its vector was staged with; the engine holds the     *)
(* same token as the version of the document.  The index is a log of rows, *)
(* a snapshot of the rows up to some place in a log, and CURRENT, which    *)
(* says which; the engine's own commits are durable (module Store).        *)
(*                                                                         *)
(* Writers hold the tenant's quota lease, so one request is under way at a *)
(* time; maintenance runs beside it.  The process may die anywhere; calls  *)
(* of the operating system do not fail, and a document comes with its      *)
(* vector (a server with an on-device embedder also takes some without).   *)
(***************************************************************************)
EXTENDS Integers, Sequences

CONSTANTS
    VDocs,          \* documents with a vector
    VBatches,       \* what a request stores: sequences of distinct documents
    MaxStored,      \* bound on those requests, and on the tokens
    MaxBuilds,      \* bound on the maintenance runs
    MaxStops        \* bound on the crashes and closings

ASSUME VectorIndexAssumption ==
    /\ VBatches \subseteq Seq(VDocs)
    /\ {MaxStored, MaxBuilds, MaxStops} \subseteq Nat

VARIABLES
    versions,   \* the version of each document in the engine, 0 for none
    rows,       \* State: the token of each document in the index, 0 for none
    rowsLog,    \* rows.log: its epoch and its frames, pairs of document and token
    current,    \* CURRENT: epoch (0: no file), log_epoch and covered
    snapshots,  \* rows-<epoch>.bin and ids-<epoch>.bin
    manifest,   \* VectorIndex.manifest: its epoch, 0 for none
    marker,     \* the file dirty
    serving,    \* closed, or how far the open has come
    request,    \* the request under way
    build,      \* the maintenance under way
    vleft       \* what is left of the bounds

vindexVars == <<versions, rows, rowsLog, current, snapshots, manifest, marker, serving,
                request, build, vleft>>

NoRows == [d \in VDocs |-> 0]
Resting == [step |-> "idle"]

\* apply_frames; a frame with token 0 deletes.
ApplyFrames(base, frames) ==
    LET after[i \in 0..Len(frames)] ==
            IF i = 0 THEN base
            ELSE [after[i - 1] EXCEPT ![frames[i][1]] = frames[i][2]] IN
    after[Len(frames)]

\* Defect: the frames the snapshot covers are skipped in any log.
BugSkipped(log, cur) == IF cur.covered < Len(log.frames) THEN cur.covered ELSE Len(log.frames)

\* open: the frames of the log that the snapshot covers.
Skipped(log, cur) ==
    IF cur.epoch = 0 \/ cur.log_epoch # log.epoch THEN 0
    ELSE IF cur.covered < Len(log.frames) THEN cur.covered ELSE Len(log.frames)

\* load_base, then the rest of the log.
Recovered(log, cur) ==
    ApplyFrames(IF cur.epoch = 0 THEN NoRows ELSE snapshots[cur.epoch],
                SubSeq(log.frames, Skipped(log, cur) + 1, Len(log.frames)))

VIndexInit ==
    /\ versions = NoRows
    /\ rows = NoRows
    /\ rowsLog = [epoch |-> 0, frames |-> <<>>]
    /\ current = [epoch |-> 0, log_epoch |-> 0, covered |-> 0]
    /\ snapshots = [e \in 1..MaxBuilds |-> NoRows]
    /\ manifest = 0
    /\ marker = FALSE
    /\ serving = "open"
    /\ request = Resting
    /\ build = Resting
    /\ vleft = [stores |-> MaxStored, builds |-> MaxBuilds, stops |-> MaxStops]

indexState == <<rows, rowsLog, current, snapshots, manifest, marker>>

\* The log lock is held over an append and over the rotation.
LogFree == request.step # "append" /\ build.step # "rotate"

-----------------------------------------------------------------------------
(* store_docs and delete.                                                  *)

\* append: the marker first, then the frames, not yet synced.
AppendRows(frames, next) ==
    /\ LogFree
    /\ marker' = TRUE
    /\ rowsLog' = [rowsLog EXCEPT !.frames = @ \o frames]
    /\ request' = [step |-> "append", from |-> Len(rowsLog.frames), frames |-> frames,
                   next |-> next]
    /\ UNCHANGED <<versions, rows, current, snapshots, manifest, serving, build>>

\* stage, before the engine commits.
StageRows(batch) ==
    /\ serving = "open"
    /\ request.step = "idle"
    /\ vleft.stores > 0
    /\ vleft' = [vleft EXCEPT !.stores = @ - 1]
    /\ LET token == MaxStored - vleft.stores + 1 IN
       AppendRows([i \in DOMAIN batch |-> <<batch[i], token>>], "commit")

\* The sync, and the rows published before the log lock goes.
AppendDone ==
    /\ request.step = "append"
    /\ rows' = ApplyFrames(rows, request.frames)
    /\ request' = IF request.next = "idle" THEN Resting
                  ELSE [step |-> request.next, frames |-> request.frames]
    /\ UNCHANGED <<versions, rowsLog, current, snapshots, manifest, marker, serving, build, vleft>>

EngineCommits ==
    /\ request.step = "commit"
    /\ versions' = ApplyFrames(versions, request.frames)
    /\ request' = Resting
    /\ UNCHANGED <<indexState, serving, build, vleft>>

\* A failed commit takes the rows out again, as a delete does.
EngineRefuses ==
    /\ request.step = "commit"
    /\ request' = [request EXCEPT !.step = "remove"]
    /\ UNCHANGED <<versions, indexState, serving, build, vleft>>

DeleteDoc(d) ==
    /\ serving = "open"
    /\ request.step = "idle"
    /\ versions[d] # 0
    /\ versions' = [versions EXCEPT ![d] = 0]
    /\ request' = [step |-> "remove", frames |-> <<<<d, 0>>>>]
    /\ UNCHANGED <<indexState, serving, build, vleft>>

\* The delete frames for those documents of some frames that have a row.
Deletes(base, frames) ==
    LET upTo[i \in 0..Len(frames)] ==
            IF i = 0 THEN <<>>
            ELSE IF base[frames[i][1]] = 0 THEN upTo[i - 1]
            ELSE Append(upTo[i - 1], <<frames[i][1], 0>>) IN
    upTo[Len(frames)]

\* remove: the ids the index knows.
RemoveRows ==
    /\ request.step = "remove"
    /\ LET known == Deletes(rows, request.frames) IN
       \/ /\ known # <<>>
          /\ AppendRows(known, "idle")
          /\ UNCHANGED vleft
       \/ /\ known = <<>>
          /\ request' = Resting
          /\ UNCHANGED <<versions, indexState, serving, build, vleft>>

-----------------------------------------------------------------------------
(* maintain, one at a time under the build lock.                           *)

Build(from, to) ==
    /\ build.step = from
    /\ build' = [build EXCEPT !.step = to]
    /\ UNCHANGED <<versions, serving, request, vleft>>

\* The rows and the length of the log, under the log lock, if anything has
\* changed since the last snapshot.
Capture ==
    /\ serving = "open"
    /\ build.step = "idle"
    /\ vleft.builds > 0
    /\ LogFree
    /\ rows # NoRows
    /\ manifest = 0 \/ Len(rowsLog.frames) > Skipped(rowsLog, current)
    /\ build' = [step |-> "captured", rows |-> rows, before |-> current, oldLog |-> rowsLog,
                 current |-> [epoch |-> manifest + 1, log_epoch |-> rowsLog.epoch,
                              covered |-> Len(rowsLog.frames)]]
    /\ vleft' = [vleft EXCEPT !.builds = @ - 1]
    /\ UNCHANGED <<versions, indexState, serving, request>>

\* The three files, each renamed into place, and their directory synced.
WriteSnapshot ==
    /\ Build("captured", "written")
    /\ snapshots' = [snapshots EXCEPT ![build.current.epoch] = build.rows]
    /\ UNCHANGED <<rows, rowsLog, current, manifest, marker>>

\* CURRENT is renamed into place, then synced.
PublishCurrent ==
    /\ Build("written", "publish")
    /\ current' = build.current
    /\ UNCHANGED <<rows, rowsLog, snapshots, manifest, marker>>

SyncCurrent ==
    /\ Build("publish", "published")
    /\ UNCHANGED indexState

\* The rotated log keeps the frames appended since the capture.
RotateLog ==
    /\ LogFree
    /\ build.step = "published"
    /\ build' = [build EXCEPT !.step = "rotate", !.oldLog = rowsLog]
    /\ rowsLog' = [epoch |-> build.current.epoch,
                   frames |-> SubSeq(rowsLog.frames, build.current.covered + 1,
                                     Len(rowsLog.frames))]
    /\ UNCHANGED <<versions, rows, current, snapshots, manifest, marker, serving, request, vleft>>

\* Once it is synced, the snapshot and those frames are the index, and the
\* files of the epoch before go.
InstallSnapshot ==
    /\ build.step = "rotate"
    /\ build' = Resting
    /\ rows' = ApplyFrames(build.rows, rowsLog.frames)
    /\ manifest' = build.current.epoch
    /\ snapshots' = [e \in DOMAIN snapshots |-> IF e = manifest' - 1 THEN NoRows ELSE snapshots[e]]
    /\ UNCHANGED <<versions, rowsLog, current, marker, serving, request, vleft>>

-----------------------------------------------------------------------------
(* The end of a process, and the next open.                                *)

\* What a crash may leave of the log: a batch not yet synced is cut at any
\* frame, and a rename not yet synced has happened or not.
LogsLeft ==
    IF request.step = "append"
    THEN {[rowsLog EXCEPT !.frames = SubSeq(@, 1, n)] : n \in request.from..Len(rowsLog.frames)}
    ELSE {rowsLog} \cup (IF build.step = "rotate" THEN {build.oldLog} ELSE {})
CurrentsLeft == {current} \cup (IF build.step = "publish" THEN {build.before} ELSE {})

CrashIndex ==
    /\ vleft.stops > 0
    /\ vleft' = [vleft EXCEPT !.stops = @ - 1]
    /\ rowsLog' \in LogsLeft
    /\ current' \in CurrentsLeft
    /\ serving' = "closed"
    /\ request' = Resting
    /\ build' = Resting
    /\ rows' = NoRows /\ manifest' = 0
    /\ UNCHANGED <<versions, snapshots, marker>>

\* settle: with nothing under way the index is closed and the marker goes.
CloseIndex ==
    /\ vleft.stops > 0
    /\ serving = "open" /\ request.step = "idle" /\ build.step = "idle"
    /\ vleft' = [vleft EXCEPT !.stops = @ - 1]
    /\ serving' = "closed"
    /\ marker' = FALSE
    /\ rows' = NoRows /\ manifest' = 0
    /\ UNCHANGED <<versions, rowsLog, current, snapshots, request, build>>

OpenIndex ==
    /\ serving = "closed"
    /\ rows' = Recovered(rowsLog, current)
    /\ manifest' = current.epoch
    /\ serving' = IF marker THEN "reconcile" ELSE "open"
    /\ UNCHANGED <<versions, rowsLog, current, snapshots, marker, request, build, vleft>>

\* Rows the engine does not hold, or not at the version recorded.
StaleRows == {d \in VDocs : rows[d] \notin {0, versions[d]}}

\* reconcile drops what the engine does not hold at the version recorded, a
\* frame for each (a crash may come between two), and then the marker.
Reconcile ==
    /\ serving = "reconcile"
    /\ IF StaleRows = {} THEN UNCHANGED <<rows, rowsLog>>
       ELSE \E d \in StaleRows :
              /\ rows' = [rows EXCEPT ![d] = 0]
              /\ rowsLog' = [rowsLog EXCEPT !.frames = Append(@, <<d, 0>>)]
    /\ serving' = IF StaleRows = {} THEN "open" ELSE "reconcile"
    /\ marker' = (StaleRows # {})
    /\ UNCHANGED <<versions, current, snapshots, manifest, request, build, vleft>>

VIndexNext ==
    \/ \E batch \in VBatches : StageRows(batch)
    \/ AppendDone \/ EngineCommits \/ EngineRefuses
    \/ \E d \in VDocs : DeleteDoc(d)
    \/ RemoveRows
    \/ Capture \/ WriteSnapshot \/ PublishCurrent \/ SyncCurrent \/ RotateLog \/ InstallSnapshot
    \/ CrashIndex \/ CloseIndex \/ OpenIndex \/ Reconcile

VIndexSpec == VIndexInit /\ [][VIndexNext]_vindexVars

-----------------------------------------------------------------------------
(* "the previous process stopped mid-way: every indexed document is then   *)
(* checked against the engine": whatever process stopped where - in an     *)
(* append, between the two commits of a write, between snapshot, CURRENT   *)
(* and the rotated log - no query ranks a document the engine holds by the *)
(* vector of another version.  (Rows of deleted documents may stay; hits   *)
(* are read back from the engine.)                                         *)
RowsMatchEngine ==
    serving = "open" /\ request.step = "idle" =>
        \A d \in VDocs : versions[d] # 0 => rows[d] \in {0, versions[d]}
=============================================================================
