------------------------------ MODULE Restore ------------------------------
(***************************************************************************)
(* Replacing a tenant's store by a verified one (warm-server/restore.rs    *)
(* and tenants.rs, restore_staged), as the steps of the directory tree it  *)
(* takes, with a failure of any of them and a crash between any two.       *)
(* Module Tenants shows that nobody else uses the store meanwhile.         *)
(*                                                                         *)
(* `tree` is the tree the process sees and `stable` what is known to       *)
(* survive a crash; a directory sync makes them equal, and one that fails  *)
(* may have done so or not.  A rename is in the tree after a crash or not  *)
(* at all.  A store is the set of items written to it; the engine makes    *)
(* its own writes durable (module Store).                                  *)
(***************************************************************************)
EXTENDS Integers

CONSTANTS
    Writes,        \* items clients write
    Old, New,      \* the item of the first store, and of the image restored
    Absent,        \* no directory
    Undecided,     \* "no other store" of the abstract specification
    FinishMayFailTwice,   \* whether the undoing of a failed finish may fail at once
    MaxRestores,   \* bound on the restores
    MaxPowerLosses \* bound on the crashes

ASSUME RestoreAssumption ==
    /\ Old \notin Writes /\ New \notin Writes /\ Old # New
    /\ "torn" \notin Writes \cup {Old, New} /\ Absent # {"torn"}
    /\ \A s \in SUBSET (Writes \cup {Old, New}) : s # Absent /\ s # Undecided
    /\ FinishMayFailTwice \in BOOLEAN
    /\ MaxRestores \in Nat /\ MaxPowerLosses \in Nat

VARIABLES
    tree, stable,   \* live, backup and staged directory, and the intent file
    restoring,      \* what the process is doing with the tenant
    restores, losses    \* how many there were

restoreVars == <<tree, stable, restoring, restores, losses>>
counts == <<restores, losses>>

Torn == {"torn"}    \* a directory remove_dir_all has begun to empty
IsDir(x) == x # Absent

RestoreInit ==
    /\ tree = [live |-> {Old}, backup |-> Absent, staged |-> Absent, intent |-> FALSE]
    /\ stable = tree
    /\ restoring = "closed"
    /\ restores = 0 /\ losses = 0

Go(to) == restoring' = to
SyncTree == stable' = tree /\ UNCHANGED tree
\* The sync reports an error: it may have reached the device.
SyncFailed == stable' \in {stable, tree} /\ UNCHANGED tree
Change(d) == tree' = d /\ UNCHANGED stable
NoChange == UNCHANGED <<tree, stable>>

-----------------------------------------------------------------------------
(* Opening the tenant, and what its clients do.                            *)

\* recover: an intent on disk is rolled back before anything is opened.
Recover ==
    /\ restoring = "closed"
    /\ Go(IF tree.intent THEN "rollback" ELSE "create")
    /\ NoChange /\ UNCHANGED counts

\* create_dir_all, then open_core, which may fail.
OpenRestored ==
    /\ restoring = "create"
    /\ IF IsDir(tree.live) THEN NoChange
       ELSE /\ tree' = [tree EXCEPT !.live = {}]
            /\ stable' = [stable EXCEPT !.live = {}]
    /\ Go("open") \/ Go("closed")
    /\ UNCHANGED counts

\* An acknowledged write is in the live directory for good.
WriteItem(w) ==
    /\ restoring = "open"
    /\ tree' = [tree EXCEPT !.live = @ \cup {w}]
    /\ stable' = [stable EXCEPT !.live = @ \cup {w}]
    /\ UNCHANGED <<restoring, counts>>

\* Eviction or the flush at shutdown closes it.
CloseStore ==
    /\ restoring = "open"
    /\ Go("closed")
    /\ NoChange /\ UNCHANGED counts

\* A verified, synced image under a staging name of its own.
Stage ==
    /\ restoring = "open" /\ tree.staged = Absent /\ ~tree.intent
    /\ restores < MaxRestores
    /\ tree' = [tree EXCEPT !.staged = {New}]
    /\ stable' = [stable EXCEPT !.staged = {New}]
    /\ restores' = restores + 1
    /\ UNCHANGED <<restoring, losses>>

-----------------------------------------------------------------------------
(* The restore.                                                            *)

\* Restore::begin under a backup name of its own: persist renames the synced
\* intent into place.
PersistIntent ==
    /\ restoring = "open"
    /\ IsDir(tree.live) /\ IsDir(tree.staged) /\ ~tree.intent
    /\ tree' = [tree EXCEPT !.intent = TRUE, !.backup = Absent]
    /\ stable' = [stable EXCEPT !.backup = Absent]
    /\ Go("begun")
    /\ UNCHANGED counts

\* Its directory is synced and the engine closed; an error leaves the engine
\* serving, and the intent where it is.
Begun ==
    /\ restoring = "begun"
    /\ \/ SyncTree /\ Go("aside")
       \/ SyncFailed /\ Go("open")
    /\ UNCHANGED counts

\* publish: the live directory becomes the backup, then the staged one the
\* live one, each synced; every error leads to the rollback.
Aside ==
    /\ restoring = "aside"
    /\ \/ /\ Change([tree EXCEPT !.backup = tree.live, !.live = Absent])
          /\ Go("asided")
       \/ NoChange /\ Go("rollback")
    /\ UNCHANGED counts

SyncAside ==
    /\ restoring = "asided"
    /\ \/ SyncTree /\ Go("publish")
       \/ SyncFailed /\ Go("rollback")
    /\ UNCHANGED counts

PublishStaged ==
    /\ restoring = "publish"
    /\ \/ /\ Change([tree EXCEPT !.live = tree.staged, !.staged = Absent])
          /\ Go("published")
       \/ NoChange /\ Go("rollback")
    /\ UNCHANGED counts

\* The sync, then open_core on the new store.
SyncPublished ==
    /\ restoring = "published"
    /\ \/ SyncTree /\ Go("finish")
       \/ SyncFailed /\ Go("rollback")
       \/ SyncTree /\ Go("rollback")
    /\ UNCHANGED counts

\* finish removes the intent: the commit point.
RemoveIntent ==
    /\ restoring = "finish"
    /\ \/ Change([tree EXCEPT !.intent = FALSE]) /\ Go("finished")
       \/ NoChange /\ Go("rollback")
    /\ UNCHANGED counts

\* Defect: the removal of the intent is not synced.
BugSyncFinish ==
    /\ restoring = "finished"
    /\ NoChange /\ Go("open")
    /\ UNCHANGED counts

\* Only a durable removal is a success; otherwise the restore is undone.
SyncFinish ==
    /\ restoring = "finished"
    /\ \/ SyncTree /\ Go("open")
       \/ SyncFailed /\ Go("unfinished")
    /\ UNCHANGED counts

-----------------------------------------------------------------------------
(* rollback, after an error or from recover.  An error inside it returns   *)
(* with the tenant closed.                                                 *)

\* persist, again: finish may have removed it.  If this fails right after the
\* sync of finish failed, the tenant reopens on the new store with the removal
\* of the intent still undecided: FinishMayFailTwice.
RollPersist ==
    /\ restoring \in {"rollback", "unfinished"}
    /\ \/ Change([tree EXCEPT !.intent = TRUE]) /\ Go("repersisted")
       \/ /\ restoring = "unfinished" => FinishMayFailTwice
          /\ NoChange /\ Go("closed")
    /\ UNCHANGED counts

RollSync ==
    /\ restoring = "repersisted"
    /\ \/ SyncTree /\ Go("remove")
       \/ SyncFailed /\ Go("closed")
    /\ UNCHANGED counts

\* With a backup, the live directory is removed (piece by piece) and the
\* backup takes its place.
RollRemove ==
    /\ restoring = "remove"
    /\ \/ /\ ~IsDir(tree.backup)
          /\ NoChange
          /\ Go(IF IsDir(tree.live) THEN "unstage" ELSE "closed")
       \/ /\ IsDir(tree.backup) /\ IsDir(tree.live) /\ tree.live # Torn
          /\ Change([tree EXCEPT !.live = Torn])
          /\ UNCHANGED restoring \/ Go("closed")
       \/ /\ IsDir(tree.backup) /\ tree.live \in {Torn, Absent}
          /\ Change([tree EXCEPT !.live = Absent])
          /\ Go("back")
    /\ UNCHANGED counts

RollBack ==
    /\ restoring = "back"
    /\ \/ /\ Change([tree EXCEPT !.live = tree.backup, !.backup = Absent])
          /\ Go("backed")
       \/ NoChange /\ Go("closed")
    /\ UNCHANGED counts

RollSyncBack ==
    /\ restoring = "backed"
    /\ \/ SyncTree /\ Go("unstage")
       \/ SyncFailed /\ Go("closed")
    /\ UNCHANGED counts

\* The staged directory goes, and its parent is synced.
Unstage ==
    /\ restoring = "unstage"
    /\ \/ /\ tree' = [tree EXCEPT !.staged = Absent]
          /\ stable' = tree'
          /\ Go("forget")
       \/ /\ tree' = [tree EXCEPT !.staged = Absent]
          /\ stable' \in {stable, tree'}
          /\ Go("closed")
    /\ UNCHANGED counts

\* finish at the end of a rollback, then the reopen.
ForgetIntent ==
    /\ restoring = "forget"
    /\ \/ Change([tree EXCEPT !.intent = FALSE]) /\ Go("forgot")
       \/ NoChange /\ Go("closed")
    /\ UNCHANGED counts

SyncForget ==
    /\ restoring = "forgot"
    /\ \/ SyncTree /\ Go("create")
       \/ SyncFailed /\ Go("closed")
    /\ UNCHANGED counts

-----------------------------------------------------------------------------
\* The process dies: what was not synced is there or not.
CrashRestore ==
    /\ losses < MaxPowerLosses
    /\ losses' = losses + 1
    /\ tree' \in {tree, stable}
    /\ stable' = tree'
    /\ Go("closed")
    /\ UNCHANGED restores

Proceed ==
    \/ Recover \/ OpenRestored \/ Begun \/ Aside \/ SyncAside \/ PublishStaged \/ SyncPublished
    \/ RemoveIntent \/ SyncFinish \/ RollPersist \/ RollSync \/ RollRemove \/ RollBack
    \/ RollSyncBack \/ Unstage \/ ForgetIntent \/ SyncForget

RestoreNext ==
    \/ Proceed \/ (\E w \in Writes : WriteItem(w))
    \/ CloseStore \/ Stage \/ PersistIntent \/ CrashRestore

RestoreSpec == RestoreInit /\ [][RestoreNext]_restoreVars

-----------------------------------------------------------------------------
\* The store the next open would serve from tree d.
Serves(d) == IF d.intent /\ IsDir(d.backup) THEN d.backup ELSE d.live

TenantStore == INSTANCE TenantData WITH
    Item <- Writes \cup {Old, New},
    Image <- {New},
    Nothing <- Undecided,
    data <- Serves(tree),
    other <- IF Serves(tree) # Serves(stable) THEN Serves(stable)
             ELSE IF restoring = "unfinished" THEN tree.backup
             ELSE Undecided

\* restore.rs's tests ask that an interrupted restore "recovers old or
\* committed new without empty store".  Wherever it stops, fails or is undone,
\* what a recovery would serve is the old store with every acknowledged write
\* or the new one, a decided restore is never undone, and no open begins on an
\* empty or half-removed directory.
RestoreAtomic == TenantStore!DataSpec
=============================================================================
