---------------------------- MODULE AccessProofs ----------------------------
(***************************************************************************)
(* The theorems about who may act on a store, and when: the restore of a   *)
(* tenant's data (Restore), the tenants of the server (Tenants) and the    *)
(* mutation gate of the engine (MutationGate).                             *)
(***************************************************************************)
EXTENDS MutationGate, Tenants, Restore, FiniteSetTheorems, TLAPS

USE Zenon

-----------------------------------------------------------------------------
(***************************************************************************)
(* Restore implements TenantData, whatever the clients write and however   *)
(* often the restore is tried, fails and is interrupted: RestoreAtomic for *)
(* every value of the constants.                                           *)
(*                                                                         *)
(* RInv says, for every point of the restore and of its undoing, what the  *)
(* tree and its durable image may look like.  A tree is Plain when it      *)
(* serves its live directory and Kept when it serves the backup.           *)
(***************************************************************************)

Items == Writes \cup {Old, New}
IsStore(x) == x # Absent /\ x \in SUBSET Items
Directory == {Absent, Torn} \cup SUBSET Items
Trees == [live : Directory, backup : {Absent} \cup SUBSET Items, staged : {Absent, {New}},
          intent : BOOLEAN]

Plain(d) == IsStore(d.live) /\ (d.intent => d.backup = Absent)
Kept(d) == d.intent /\ IsStore(d.backup)
Sound(d) == Plain(d) \/ Kept(d)

\* A crash changes nothing the next open serves ...
Agree == Serves(tree) = Serves(stable)
\* ... or the restore is complete but for the intent, which is there again
\* and may be gone after a crash.
Split ==
    /\ Kept(tree) /\ tree.live = {New}
    /\ ~stable.intent /\ stable.live = {New} /\ stable.backup = tree.backup

InPhase ==
    /\ restoring \in {"closed", "rollback", "repersisted"} => Agree \/ Split
    /\ restoring = "closed" /\ ~tree.intent => Plain(stable)
    /\ restoring \in {"rollback", "repersisted"} => tree.intent
    /\ restoring = "create" => ~tree.intent
    /\ restoring \in {"create", "open", "begun", "unstage"} => Plain(tree) /\ Plain(stable) /\ Agree
    /\ restoring = "begun" => tree.intent /\ tree.backup = Absent /\ stable.backup = Absent
                              /\ tree.staged = {New}
    /\ restoring \in {"aside", "publish", "finish", "forget"} => stable = tree /\ tree.intent
    /\ restoring \in {"aside", "forget"} => Plain(tree)
    /\ restoring \in {"aside", "asided", "publish"} => tree.staged = {New}
    /\ restoring = "asided" => /\ Kept(tree) /\ Plain(stable) /\ Agree
                               /\ stable.intent
    /\ restoring = "publish" => Kept(tree)
    /\ restoring \in {"published", "finish"} =>
          /\ Kept(tree) /\ Kept(stable) /\ Agree /\ tree.live = {New}
    /\ restoring \in {"finished", "unfinished"} =>
          /\ ~tree.intent /\ tree.live = {New} /\ IsStore(tree.backup)
          /\ stable.live = {New} /\ stable.backup = tree.backup
    /\ restoring = "finished" => stable.intent
    /\ restoring \in {"remove", "unstage"} => /\ tree.intent /\ stable.intent /\ Agree
                                              /\ tree.backup = stable.backup
    /\ restoring = "back" => /\ Kept(tree) /\ Kept(stable) /\ Agree
    /\ restoring = "backed" => /\ Plain(tree) /\ tree.intent /\ Kept(stable) /\ Agree
    /\ restoring = "forgot" => /\ Plain(tree) /\ ~tree.intent /\ Plain(stable) /\ Agree

Phases == {"closed", "rollback", "repersisted", "create", "open", "begun", "aside", "asided",
           "publish", "published", "finish", "finished", "unfinished", "remove", "back",
           "backed", "unstage", "forget", "forgot"}

RInv ==
    /\ tree \in Trees /\ stable \in Trees /\ restoring \in Phases
    /\ Sound(tree) /\ Sound(stable)
    /\ InPhase

-----------------------------------------------------------------------------
(* Stores, a half-removed directory and no directory are told apart.       *)
LEMMA Kinds ==
    /\ Absent # Torn /\ Absent \notin SUBSET Items /\ Undecided \notin SUBSET Items
    /\ Torn \notin SUBSET Items /\ {New} \in SUBSET Items /\ {Old} \in SUBSET Items
  BY RestoreAssumption DEF Items, Torn

(* A tenant closed without an intent has its invariant.                    *)
LEMMA RestoreInitial == RestoreInit => RInv /\ TenantStore!DataInit({Old})
  BY SMT, Kinds DEF RestoreInit, RInv, InPhase, Phases, Trees, Directory, IsStore, Plain, Kept,
     Sound, Agree, Split, Serves, IsDir, TenantStore!DataInit

(* Every step of the restore, of its undoing and of a crash keeps RInv.    *)
LEMMA RestoreStep ==
    ASSUME ~FinishMayFailTwice
    PROVE  RInv /\ [RestoreNext]_restoreVars => RInv'
<1> SUFFICES ASSUME RInv, [RestoreNext]_restoreVars PROVE RInv'
  OBVIOUS
<1>23. CASE UNCHANGED restoreVars
  BY SMT, <1>23 DEF RInv, InPhase, Agree, Split, restoreVars
<1> USE Kinds DEF RInv, InPhase, Phases, Trees, Directory, IsStore, Plain, Kept, Sound,
                  Agree, Split, Serves, IsDir, Go, SyncTree, SyncFailed, Change, NoChange
<1>1. CASE Recover
  BY SMT, <1>1 DEF Recover
<1>2. CASE OpenRestored
  BY <1>2 DEF OpenRestored
<1>3. CASE Begun
  BY SMT, <1>3 DEF Begun
<1>4. CASE Aside
  <2>1. CASE /\ Change([tree EXCEPT !.backup = tree.live, !.live = Absent])
             /\ Go("asided")
    BY <1>4, <2>1 DEF Aside
  <2>2. CASE NoChange /\ Go("rollback")
    BY SMT, <1>4, <2>2 DEF Aside
  <2> QED BY <1>4, <2>1, <2>2 DEF Aside
<1>5. CASE SyncAside
  BY <1>5 DEF SyncAside
<1>6. CASE PublishStaged
  <2>1. CASE /\ Change([tree EXCEPT !.live = tree.staged, !.staged = Absent])
             /\ Go("published")
    BY <1>6, <2>1 DEF PublishStaged
  <2>2. CASE NoChange /\ Go("rollback")
    BY <1>6, <2>2 DEF PublishStaged
  <2> QED BY <1>6, <2>1, <2>2 DEF PublishStaged
<1>7. CASE SyncPublished
  BY <1>7 DEF SyncPublished
<1>8. CASE RemoveIntent
  BY <1>8 DEF RemoveIntent
<1>9. CASE SyncFinish
  BY <1>9 DEF SyncFinish
<1>10. CASE RollPersist
  <2>1. CASE restoring = "rollback" /\ Change([tree EXCEPT !.intent = TRUE]) /\ Go("repersisted")
    BY <2>1
  <2>2. CASE restoring = "unfinished" /\ Change([tree EXCEPT !.intent = TRUE]) /\ Go("repersisted")
    BY <2>2
  <2>3. CASE restoring = "rollback" /\ NoChange /\ Go("closed")
    BY SMT, <2>3
  <2> QED
    <3> HIDE DEF Change, NoChange, Go
    <3> QED BY <1>10, <2>1, <2>2, <2>3 DEF RollPersist
<1>11. CASE RollSync
  BY <1>11 DEF RollSync
<1>12. CASE RollRemove
  BY SMT, <1>12 DEF RollRemove
<1>13. CASE RollBack
  BY <1>13 DEF RollBack
<1>14. CASE RollSyncBack
  BY <1>14 DEF RollSyncBack
<1>15. CASE Unstage
  BY SMT, <1>15 DEF Unstage
<1>16. CASE ForgetIntent
  <2>1. CASE Change([tree EXCEPT !.intent = FALSE]) /\ Go("forgot")
    BY <1>16, <2>1 DEF ForgetIntent
  <2>2. CASE NoChange /\ Go("closed")
    BY <1>16, <2>2 DEF ForgetIntent
  <2> QED BY <1>16, <2>1, <2>2 DEF ForgetIntent
<1>17. CASE SyncForget
  BY <1>17 DEF SyncForget
<1>18. CASE CloseStore
  BY SMT, <1>18 DEF CloseStore
<1>19. CASE Stage
  BY SMT, <1>19 DEF Stage
<1>20. CASE PersistIntent
  BY <1>20 DEF PersistIntent
<1>21. CASE CrashRestore
  BY <1>21 DEF CrashRestore
<1>22. ASSUME NEW w \in Writes, WriteItem(w) PROVE RInv'
  BY SMT, <1>22 DEF WriteItem, Items
<1> QED
  BY <1>1, <1>2, <1>3, <1>4, <1>5, <1>6, <1>7, <1>8, <1>9, <1>10, <1>11, <1>12, <1>13,
     <1>14, <1>15, <1>16, <1>17, <1>18, <1>19, <1>20, <1>21, <1>22, <1>23
     DEF RestoreNext, Proceed

(* Every such step is one of TenantData, or changes nothing there.         *)
LEMMA RestoreMaps ==
    RInv /\ [RestoreNext]_restoreVars
        => TenantStore!DataNext \/ UNCHANGED TenantStore!dataVars
<1> SUFFICES ASSUME RInv, [RestoreNext]_restoreVars
             PROVE  TenantStore!DataNext \/ UNCHANGED TenantStore!dataVars
  OBVIOUS
<1> USE Kinds DEF RInv, InPhase, Phases, Trees, Directory, IsStore, Plain, Kept, Sound,
                  Agree, Split, Serves, IsDir, Go, SyncTree, SyncFailed, Change, NoChange,
                  TenantStore!DataNext, TenantStore!dataVars, TenantStore!Extend,
                  TenantStore!Replace, TenantStore!Turn, TenantStore!Decide
<1>1. CASE Recover
  BY <1>1 DEF Recover
<1>2. CASE OpenRestored
  BY <1>2 DEF OpenRestored
<1>3. CASE Begun
  BY <1>3 DEF Begun
<1>4. CASE Aside
  BY <1>4 DEF Aside
<1>5. CASE SyncAside
  BY <1>5 DEF SyncAside
<1>6. CASE PublishStaged
  BY <1>6 DEF PublishStaged
<1>7. CASE SyncPublished
  BY <1>7 DEF SyncPublished
<1>8. CASE RemoveIntent
  BY <1>8 DEF RemoveIntent
<1>9. CASE SyncFinish
  BY <1>9 DEF SyncFinish
<1>10. CASE RollPersist
  BY SMT, <1>10 DEF RollPersist
<1>11. CASE RollSync
  BY <1>11 DEF RollSync
<1>12. CASE RollRemove
  BY SMT, <1>12 DEF RollRemove
<1>13. CASE RollBack
  BY <1>13 DEF RollBack
<1>14. CASE RollSyncBack
  BY <1>14 DEF RollSyncBack
<1>15. CASE Unstage
  BY <1>15 DEF Unstage
<1>16. CASE ForgetIntent
  BY <1>16 DEF ForgetIntent
<1>17. CASE SyncForget
  BY <1>17 DEF SyncForget
<1>18. CASE CloseStore
  BY <1>18 DEF CloseStore
<1>19. CASE Stage
  BY <1>19 DEF Stage
<1>20. CASE PersistIntent
  BY <1>20 DEF PersistIntent
<1>21. CASE CrashRestore
  BY <1>21 DEF CrashRestore
<1>22. ASSUME NEW w \in Writes, WriteItem(w)
      PROVE  TenantStore!DataNext \/ UNCHANGED TenantStore!dataVars
  BY <1>22 DEF WriteItem, Items
<1>23. CASE UNCHANGED restoreVars
  BY <1>23 DEF restoreVars
<1> QED
  BY <1>1, <1>2, <1>3, <1>4, <1>5, <1>6, <1>7, <1>8, <1>9, <1>10, <1>11, <1>12, <1>13,
     <1>14, <1>15, <1>16, <1>17, <1>18, <1>19, <1>20, <1>21, <1>22, <1>23
     DEF RestoreNext, Proceed

-----------------------------------------------------------------------------
(* At every point of a restore, its undoing and a recovery, the tree and   *)
(* its durable image serve a whole store, and the same one but between the *)
(* commit point and its sync (restore.rs: begin, publish, finish,          *)
(* rollback, recover).                                                     *)
THEOREM RestoreInvariant ==
    ASSUME ~FinishMayFailTwice
    PROVE  RestoreSpec => []RInv
<1>1. RInv /\ [RestoreNext]_restoreVars => RInv'
  BY RestoreStep
<1> QED BY <1>1, RestoreInitial, PTL DEF RestoreSpec

(* restore.rs, "recovers old or committed new without empty store": for    *)
(* any writes, any number of restores and any number of crashes, the       *)
(* tenant's data goes through what TenantData allows and nothing else, as  *)
(* long as the intent can be written again when finish could not sync its  *)
(* removal.                                                                *)
THEOREM RestoreRefines ==
    ASSUME ~FinishMayFailTwice
    PROVE  RestoreSpec => RestoreAtomic
<1>1. {Old} \in SUBSET (Writes \cup {Old, New})
  OBVIOUS
<1>2. RestoreInit => \E d \in SUBSET (Writes \cup {Old, New}) : TenantStore!DataInit(d)
  BY <1>1, RestoreInitial
<1>3. RInv /\ [RestoreNext]_restoreVars => [TenantStore!DataNext]_(TenantStore!dataVars)
  BY RestoreMaps
<1>4. RestoreSpec => []RInv
  BY RestoreInvariant
<1> QED
  BY <1>2, <1>3, <1>4, PTL DEF RestoreSpec, RestoreAtomic, TenantStore!DataSpec

-----------------------------------------------------------------------------
(***************************************************************************)
(* Theorems about module Tenants, for any number of requests, snapshot and *)
(* restore requests, rounds of core() and passes of the idle loop: at most *)
(* one engine is open on the tenant's directory, and whoever reads or      *)
(* moves its files is alone with them.                                     *)
(*                                                                         *)
(* The argument: a Tenant is reached only through a slot that is ready,    *)
(* and only the holder of the ownership file makes a slot ready, so at     *)
(* most one is.  Everybody past the wait therefore stands at the same      *)
(* RwLock, which keeps copies and moves alone.                             *)
(***************************************************************************)

Away == {"idle", "lookup", "answered"}
Openers == {"opening", "owned"}
Writers == {"exclusive", "copying", "moving", "unflagged",
            "evicting", "closed", "unlisted", "flushing"}
\* The stages of whoever came through a ready slot.
Inside == Writers \cup {"have", "locking", "using", "closing", "swapping",
                        "parked", "picked", "evicted", "flushwait"}

\* The variables have their types, and only lookers open.
TenantsShape ==
    /\ slot \in Objects \cup {None}
    /\ status \in [Objects -> {"none", "opening", "ready", "failed"}]
    /\ engine \in SUBSET Objects
    /\ at \in [Actors -> Away \cup Openers \cup Inside \cup {"waiting"}]
    /\ obj \in [Actors -> Objects \cup {None}]
    /\ \A a \in Actors : at[a] \in Openers => a \in Lookers

\* A reference leads to what its holder believes: an object that is being
\* opened by this actor alone, a ready one, or one that is published.
TenantsReferences ==
    /\ slot # None => status[slot] \in {"opening", "ready"}
    /\ \A a \in Actors :
          /\ at[a] \notin Away => obj[a] \in Objects /\ status[obj[a]] # "none"
          /\ at[a] \in Openers => status[obj[a]] = "opening"
          /\ at[a] \in Inside => status[obj[a]] = "ready"
    /\ \A a, b \in Actors :
          at[a] \in Openers /\ at[b] \in Openers /\ obj[a] = obj[b] => a = b
    /\ \A g \in Objects : status[g] # "none" => g \in Referenced(slot, obj)

\* One Tenant owns the directory; the engines are those of ready tenants.
TenantsOwned ==
    /\ \A g, h \in Objects : status[g] = "ready" /\ status[h] = "ready" => g = h
    /\ \A a \in Actors : at[a] = "owned" =>
          /\ \A g \in Objects : status[g] # "ready"
          /\ \A b \in Actors : at[b] = "owned" => a = b
    /\ \A g \in engine : status[g] = "ready"

\* The RwLock, and what its holders did to the engine.
TenantsLocked ==
    /\ \A a, b \in Actors :
          at[a] \in Writers /\ at[b] \in Writers \cup {"using"} /\ obj[a] = obj[b]
             => a = b
    /\ \A a \in Actors : at[a] = "copying" => obj[a] \in engine
    /\ \A a \in Actors : at[a] = "moving" => obj[a] \notin engine

TInv == TenantsShape /\ TenantsReferences /\ TenantsOwned /\ TenantsLocked

-----------------------------------------------------------------------------
(* Objects.                                                                *)

\* No object has the name of no object.
LEMMA NoneIsNoObject == None \notin Objects
BY SMT, FS_CardinalityType, TenantsAssumption DEF None, Objects

\* There are finitely many actors, requests and the two loops.
LEMMA ActorsFinite == IsFiniteSet(Actors)
<1>1. IsFiniteSet({Evictor} \cup {Flusher})
  BY FS_Singleton, FS_Union
<1>2. IsFiniteSet(Lookers)
  BY TenantsAssumption, FS_Union DEF Lookers
<1> QED
  BY <1>1, <1>2, FS_Union DEF Actors

\* slot() finds a new object while the map has no entry: there is one object
\* more than there are actors.
LEMMA NewObject ==
    ASSUME slot = None
    PROVE  \E h \in Objects : h \notin Referenced(slot, obj)
<1> DEFINE Held == {obj[a] : a \in Actors}
           f == [a \in Actors |-> obj[a]]
           n == Cardinality(Actors)
<1>1. n \in Nat /\ IsFiniteSet(Actors)
  BY ActorsFinite, FS_CardinalityType
<1>2. IsFiniteSet(Held) /\ Cardinality(Held) <= n
  <2>1. f \in Surjection(Actors, Held)
    BY DEF Surjection
  <2> QED BY <1>1, <2>1, FS_Surjection
<1>3. IsFiniteSet(Objects) /\ Cardinality(Objects) = n + 1
  <2>1. IsFiniteSet(1..(n + 1)) /\ Cardinality(1..(n + 1)) = n + 1
    BY SMT, <1>1, FS_Interval, 1 \in Int, n + 1 \in Int
  <2> QED BY <2>1 DEF Objects
<1>4. ~(Objects \subseteq Held)
  <2> SUFFICES ASSUME Objects \subseteq Held PROVE FALSE
    OBVIOUS
  <2>1. Cardinality(Objects) <= Cardinality(Held)
    BY <1>2, FS_Subset
  <2>2. Cardinality(Held) \in Nat
    BY <1>2, FS_CardinalityType
  <2> HIDE DEF Held, n
  <2> QED BY SMT, <1>1, <1>2, <1>3, <2>1, <2>2
<1> QED
  BY <1>4, NoneIsNoObject DEF Referenced

-----------------------------------------------------------------------------
(* The invariant.                                                          *)

\* Before the first request there is no slot, and so nothing to tell apart.
LEMMA TenantsInitial == TenantsInit => TInv
BY SMT, NoneIsNoObject DEF TenantsInit, TInv, TenantsShape, TenantsReferences, TenantsOwned,
   TenantsLocked, Away, Openers, Inside, Writers

\* Dropping a reference, whatever its holder did with the object, leaves the
\* others with what they believe: an object they still hold is kept.
LEMMA ReferenceDropped ==
    ASSUME TInv, NEW a \in Actors, NEW to \in Away,
           Goto(a, to), Hold(slot, Drop(a), status, engine, quiesced)
    PROVE  TInv'
<1> USE NoneIsNoObject DEF TInv, Goto, Hold, Drop, Referenced, Away
<1>1. TenantsShape'
  BY DEF TenantsShape, Openers, Inside, Writers
<1>2. TenantsReferences'
  BY SMT DEF TenantsShape, TenantsReferences, Openers, Inside, Writers
<1>3. TenantsOwned'
  BY SMT DEF TenantsShape, TenantsReferences, TenantsOwned
<1>4. TenantsLocked'
  BY SMT DEF TenantsShape, TenantsReferences, TenantsLocked, Inside, Writers
<1> QED BY <1>1, <1>2, <1>3, <1>4

\* Every step preserves the invariant.
LEMMA TenantsStep == TInv /\ [TenantsNext]_tenantsVars => TInv'
<1> SUFFICES ASSUME TInv, [TenantsNext]_tenantsVars
             PROVE  TInv'
  OBVIOUS
<1> USE NoneIsNoObject DEF TInv, Goto
<1>0. Lookers \subseteq Actors /\ Admins \subseteq Lookers /\ Clients \subseteq Lookers
      /\ Evictor \in Actors /\ Flusher \in Actors
  BY DEF Lookers, Actors
<1>1. ASSUME NEW a \in Lookers, Begins(a) PROVE TInv'
  <2>1. TenantsShape'
      BY <1>0, <1>1 DEF TenantsShape, Away, Openers, Inside, Writers, Begins
  <2>2. TenantsReferences'
      BY SMT, <1>0, <1>1 DEF TenantsShape, TenantsReferences, Away, Openers, Inside, Writers, Begins
  <2>3. TenantsOwned'
      BY SMT, <1>0, <1>1
         DEF TenantsShape, TenantsReferences, TenantsOwned, Away, Openers, Inside, Writers,
             Begins
  <2>4. TenantsLocked'
      BY SMT, <1>0, <1>1
         DEF TenantsShape, TenantsReferences, TenantsOwned, TenantsLocked, Away, Openers,
             Inside, Writers, Begins
  <2> QED BY <2>1, <2>2, <2>3, <2>4
<1>2. ASSUME NEW a \in Lookers, Lookup(a) PROVE TInv'
  <2>1. CASE slot # None
    <3> USE <1>0, <1>2, <2>1 DEF Lookup, Hold, Referenced, Away, Openers, Inside, Writers
    <3>1. TenantsShape'
      BY SMT DEF TenantsShape
    <3>2. TenantsReferences'
      BY SMT DEF TenantsShape, TenantsReferences
    <3>3. TenantsOwned'
      BY SMT DEF TenantsShape, TenantsReferences, TenantsOwned
    <3>4. TenantsLocked'
      BY SMT DEF TenantsShape, TenantsReferences, TenantsOwned, TenantsLocked
    <3> QED BY <3>1, <3>2, <3>3, <3>4
  <2>2. CASE slot = None /\ at' = [at EXCEPT ![a] = "answered"]
            /\ UNCHANGED <<slot, status, engine, quiesced, obj>>
    <3> USE <1>0, <1>2, <2>2 DEF Lookup, Referenced, Away, Openers, Inside, Writers
    <3>1. TenantsShape'
      BY DEF TenantsShape
    <3>2. TenantsReferences'
      BY SMT DEF TenantsShape, TenantsReferences
    <3>3. TenantsOwned'
      BY SMT DEF TenantsShape, TenantsReferences, TenantsOwned
    <3>4. TenantsLocked'
      BY SMT DEF TenantsShape, TenantsReferences, TenantsOwned, TenantsLocked
    <3> QED BY <3>1, <3>2, <3>3, <3>4
  <2>3. CASE slot = None /\ at' = [at EXCEPT ![a] = "opening"]
            /\ Hold(CHOOSE h \in Objects : h \notin Referenced(slot, obj),
                    [obj EXCEPT ![a] = CHOOSE h \in Objects : h \notin Referenced(slot, obj)],
                    [status EXCEPT ![CHOOSE h \in Objects : h \notin Referenced(slot, obj)]
                        = "opening"],
                    engine, quiesced)
    <3> DEFINE g == CHOOSE h \in Objects : h \notin Referenced(slot, obj)
    <3>0. g \in Objects /\ g \notin Referenced(slot, obj)
      BY <2>3, NewObject
    <3>1. Hold(g, [obj EXCEPT ![a] = g], [status EXCEPT ![g] = "opening"], engine, quiesced)
      BY <2>3
    <3> HIDE DEF g
    <3>2. /\ slot' = g /\ obj' = [obj EXCEPT ![a] = g]
          /\ \A h \in Objects : status'[h] = IF h = g THEN "opening"
                 ELSE IF \E b \in Actors \ {a} : obj[b] = h THEN status[h] ELSE "none"
          /\ status' \in [Objects -> {"none", "opening", "ready", "failed"}]
          /\ \A h \in Objects : h \in engine' <=>
                 h \in engine /\ (h = g \/ \E b \in Actors \ {a} : obj[b] = h)
          /\ engine' \subseteq Objects
      <4> DEFINE kept == Referenced(g, [obj EXCEPT ![a] = g])
      <4>1. \A h \in Objects : h \in kept <=> h = g \/ \E b \in Actors \ {a} : obj[b] = h
        BY <1>0, <3>0 DEF Referenced, TenantsShape
      <4>2. /\ slot' = g /\ obj' = [obj EXCEPT ![a] = g]
            /\ status' = [h \in Objects |-> IF h \in kept THEN [status EXCEPT ![g] = "opening"][h]
                                            ELSE "none"]
            /\ engine' = engine \cap kept
        BY <3>1 DEF Hold
      <4> HIDE DEF kept
      <4> QED BY <3>0, <4>1, <4>2 DEF TenantsShape
    <3>3. \A b \in Actors : obj[b] # g
      BY <3>0 DEF Referenced
    <3>4. g \notin engine
      BY <3>0 DEF TenantsShape, TenantsReferences, TenantsOwned
    <3>5. at[a] = "lookup"
      BY <1>2 DEF Lookup
    <3>6. at' = [at EXCEPT ![a] = "opening"]
      BY <2>3
    <3> USE <1>0, <3>0, <3>2, <3>3, <3>4, <3>5, <3>6 DEF Away, Openers, Inside, Writers
    <3>7. TenantsShape'
      BY SMT DEF TenantsShape
    <3>8. TenantsReferences'
      <4>1. \A b \in Actors \ {a} : obj'[b] = obj[b] /\ at'[b] = at[b]
        BY SMT DEF TenantsShape
      <4>2. obj'[a] = g /\ at'[a] = "opening"
        BY DEF TenantsShape
      <4>3. \A b \in Actors \ {a} : at[b] \notin Away => status'[obj[b]] = status[obj[b]]
        BY SMT DEF TenantsReferences
      <4>4. \A h \in Objects : status'[h] # "none" => h \in Referenced(slot, obj)'
        BY SMT, <4>1, <4>2 DEF Referenced
      <4>5. \A b \in Actors :
               /\ at'[b] \notin Away => obj'[b] \in Objects /\ status'[obj'[b]] # "none"
               /\ at'[b] \in Openers => status'[obj'[b]] = "opening"
               /\ at'[b] \in Inside => status'[obj'[b]] = "ready"
        <5> TAKE b \in Actors
        <5>1. CASE b = a
          BY SMT, <4>2, <5>1
        <5>2. CASE b # a
          BY SMT, <4>1, <4>3, <5>2 DEF TenantsReferences
        <5> QED BY <5>1, <5>2
      <4>6. \A b, c \in Actors :
               at'[b] \in Openers /\ at'[c] \in Openers /\ obj'[b] = obj'[c] => b = c
        BY SMT, <4>1, <4>2 DEF TenantsReferences
      <4> QED BY <4>4, <4>5, <4>6 DEF TenantsReferences
    <3>9. TenantsOwned'
      <4>1. \A h \in engine' : status'[h] = "ready"
        BY SMT DEF TenantsShape, TenantsReferences, TenantsOwned, Referenced
      <4> QED BY SMT, <4>1 DEF TenantsShape, TenantsReferences, TenantsOwned
    <3>10. TenantsLocked'
      BY SMT DEF TenantsShape, TenantsReferences, TenantsOwned, TenantsLocked
    <3> QED BY <3>7, <3>8, <3>9, <3>10
  <2> QED BY <1>2, <2>1, <2>2, <2>3 DEF Lookup
<1>3. ASSUME NEW a \in Lookers, OpenFails(a) PROVE TInv'
  <2>1. TenantsShape'
      BY <1>0, <1>3
         DEF TenantsShape, Away, Openers, Inside, Writers, OpenFails, Hold, Drop, Referenced
  <2>2. TenantsReferences'
      BY SMT, <1>0, <1>3
         DEF TenantsShape, TenantsReferences, Away, Openers, Inside, Writers, OpenFails,
             Hold, Drop, Referenced
  <2>3. TenantsOwned'
      BY SMT, <1>0, <1>3
         DEF TenantsShape, TenantsReferences, TenantsOwned, Away, Openers, Inside, Writers,
             OpenFails, Hold, Drop, Referenced
  <2>4. TenantsLocked'
      BY SMT, <1>0, <1>3
         DEF TenantsShape, TenantsReferences, TenantsOwned, TenantsLocked, Away, Openers,
             Inside, Writers, OpenFails, Hold, Drop, Referenced
  <2> QED BY <2>1, <2>2, <2>3, <2>4
<1>4. ASSUME NEW a \in Lookers, LockTenant(a) PROVE TInv'
  <2>1. TenantsShape'
      BY <1>0, <1>4 DEF TenantsShape, Away, Openers, Inside, Writers, LockTenant, Owners
  <2>2. TenantsReferences'
      BY SMT, <1>0, <1>4
         DEF TenantsShape, TenantsReferences, Away, Openers, Inside, Writers, LockTenant,
             Owners
  <2>3. TenantsOwned'
      BY SMT, <1>0, <1>4
         DEF TenantsShape, TenantsReferences, TenantsOwned, Away, Openers, Inside, Writers,
             LockTenant, Owners
  <2>4. TenantsLocked'
      BY SMT, <1>0, <1>4
         DEF TenantsShape, TenantsReferences, TenantsOwned, TenantsLocked, Away, Openers,
             Inside, Writers, LockTenant, Owners
  <2> QED BY <2>1, <2>2, <2>3, <2>4
<1>5. ASSUME NEW a \in Lookers, Opened(a) PROVE TInv'
  <2>1. TenantsShape'
      BY <1>0, <1>5 DEF TenantsShape, TenantsReferences, Away, Openers, Inside, Writers, Opened
  <2>2. TenantsReferences'
      BY SMT, <1>0, <1>5 DEF TenantsShape, TenantsReferences, Away, Openers, Inside, Writers, Opened
  <2>3. TenantsOwned'
      BY SMT, <1>0, <1>5
         DEF TenantsShape, TenantsReferences, TenantsOwned, Away, Openers, Inside, Writers,
             Opened
  <2>4. TenantsLocked'
      BY SMT, <1>0, <1>5
         DEF TenantsShape, TenantsReferences, TenantsOwned, TenantsLocked, Away, Openers,
             Inside, Writers, Opened
  <2> QED BY <2>1, <2>2, <2>3, <2>4
<1>6. ASSUME NEW a \in Lookers, Waited(a) PROVE TInv'
  <2>1. CASE Hold(slot, Drop(a), status, engine, quiesced) /\ at'[a] \in Away
    BY <1>0, <1>6, <2>1, ReferenceDropped DEF Waited, Away, TenantsShape
  <2>2. CASE ~(Hold(slot, Drop(a), status, engine, quiesced) /\ at'[a] \in Away)
    <3>1. TenantsShape'
      BY SMT, <1>0, <1>6, <2>2 DEF TenantsShape, Away, Openers, Inside, Writers, Waited
    <3>2. TenantsReferences'
      BY SMT, <1>0, <1>6, <2>2
         DEF TenantsShape, TenantsReferences, Away, Openers, Inside, Writers, Waited
    <3>3. TenantsOwned'
      BY SMT, <1>0, <1>6, <2>2
         DEF TenantsShape, TenantsReferences, TenantsOwned, Away, Openers, Inside, Writers,
             Waited
    <3>4. TenantsLocked'
      BY SMT, <1>0, <1>6, <2>2
         DEF TenantsShape, TenantsReferences, TenantsOwned, TenantsLocked, Away, Openers,
             Inside, Writers, Waited
    <3> QED BY <3>1, <3>2, <3>3, <3>4
  <2> QED BY <2>1, <2>2
<1>7. ASSUME NEW a \in Lookers, Turned(a) PROVE TInv'
  <2>1. CASE Hold(slot, Drop(a), status, engine, quiesced) /\ at'[a] \in Away
    BY <1>0, <1>7, <2>1, ReferenceDropped DEF Turned, Away, TenantsShape
  <2>2. CASE ~(Hold(slot, Drop(a), status, engine, quiesced) /\ at'[a] \in Away)
    <3>1. TenantsShape'
      BY <1>0, <1>7, <2>2 DEF TenantsShape, Away, Openers, Inside, Writers, Turned
    <3>2. TenantsReferences'
      BY SMT, <1>0, <1>7, <2>2
         DEF TenantsShape, TenantsReferences, Away, Openers, Inside, Writers, Turned
    <3>3. TenantsOwned'
      BY SMT, <1>0, <1>7, <2>2
         DEF TenantsShape, TenantsReferences, TenantsOwned, Away, Openers, Inside, Writers,
             Turned
    <3>4. TenantsLocked'
      BY SMT, <1>0, <1>7, <2>2
         DEF TenantsShape, TenantsReferences, TenantsOwned, TenantsLocked, Away, Openers,
             Inside, Writers, Turned
    <3> QED BY <3>1, <3>2, <3>3, <3>4
  <2> QED BY <2>1, <2>2
<1>8. ASSUME NEW a \in Lookers, ReadLocked(a) PROVE TInv'
  <2>1. TenantsShape'
      BY <1>0, <1>8 DEF TenantsShape, Away, Openers, Inside, Writers, ReadLocked, Writing
  <2>2. TenantsReferences'
      BY SMT, <1>0, <1>8
         DEF TenantsShape, TenantsReferences, Away, Openers, Inside, Writers, ReadLocked,
             Writing
  <2>3. TenantsOwned'
      BY SMT, <1>0, <1>8
         DEF TenantsShape, TenantsReferences, TenantsOwned, Away, Openers, Inside, Writers,
             ReadLocked, Writing
  <2>4. TenantsLocked'
      BY SMT, <1>0, <1>8
         DEF TenantsShape, TenantsReferences, TenantsOwned, TenantsLocked, Away, Openers,
             Inside, Writers, ReadLocked, Writing
  <2> QED BY <2>1, <2>2, <2>3, <2>4
<1>9. ASSUME NEW a \in Lookers, Retry(a) PROVE TInv'
  <2>1. TenantsShape'
      BY <1>0, <1>9
         DEF TenantsShape, Away, Openers, Inside, Writers, Retry, Hold, Drop, Referenced
  <2>2. TenantsReferences'
      BY SMT, <1>0, <1>9
         DEF TenantsShape, TenantsReferences, Away, Openers, Inside, Writers, Retry, Hold,
             Drop, Referenced
  <2>3. TenantsOwned'
      BY SMT, <1>0, <1>9
         DEF TenantsShape, TenantsReferences, TenantsOwned, Away, Openers, Inside, Writers,
             Retry, Hold, Drop, Referenced
  <2>4. TenantsLocked'
      BY SMT, <1>0, <1>9
         DEF TenantsShape, TenantsReferences, TenantsOwned, TenantsLocked, Away, Openers,
             Inside, Writers, Retry, Hold, Drop, Referenced
  <2> QED BY <2>1, <2>2, <2>3, <2>4
<1>10. ASSUME NEW a \in Lookers, Used(a) PROVE TInv'
  BY <1>0, <1>10, ReferenceDropped DEF Used, Away
<1>11. ASSUME NEW a \in Admins, Swap(a) PROVE TInv'
  <2>1. CASE Hold(slot, Drop(a), status, engine, quiesced) /\ at'[a] \in Away
    BY <1>0, <1>11, <2>1, ReferenceDropped DEF Swap, Away, TenantsShape
  <2>2. CASE ~(Hold(slot, Drop(a), status, engine, quiesced) /\ at'[a] \in Away)
    <3>1. TenantsShape'
      BY <1>0, <1>11, <2>2 DEF TenantsShape, Away, Openers, Inside, Writers, Swap
    <3>2. TenantsReferences'
      BY SMT, <1>0, <1>11, <2>2
         DEF TenantsShape, TenantsReferences, Away, Openers, Inside, Writers, Swap
    <3>3. TenantsOwned'
      BY SMT, <1>0, <1>11, <2>2
         DEF TenantsShape, TenantsReferences, TenantsOwned, Away, Openers, Inside, Writers,
             Swap
    <3>4. TenantsLocked'
      BY SMT, <1>0, <1>11, <2>2
         DEF TenantsShape, TenantsReferences, TenantsOwned, TenantsLocked, Away, Openers,
             Inside, Writers, Swap
    <3> QED BY <3>1, <3>2, <3>3, <3>4
  <2> QED BY <2>1, <2>2
<1>12. ASSUME NEW a \in Admins, WriteLocked(a) PROVE TInv'
  <2>1. TenantsShape'
      BY <1>0, <1>12
         DEF TenantsShape, Away, Openers, Inside, Writers, WriteLocked, Reading, Writing
  <2>2. TenantsReferences'
      BY SMT, <1>0, <1>12
         DEF TenantsShape, TenantsReferences, Away, Openers, Inside, Writers, WriteLocked,
             Reading, Writing
  <2>3. TenantsOwned'
      BY SMT, <1>0, <1>12
         DEF TenantsShape, TenantsReferences, TenantsOwned, Away, Openers, Inside, Writers,
             WriteLocked, Reading, Writing
  <2>4. TenantsLocked'
      BY SMT, <1>0, <1>12
         DEF TenantsShape, TenantsReferences, TenantsOwned, TenantsLocked, Away, Openers,
             Inside, Writers, WriteLocked, Reading, Writing
  <2> QED BY <2>1, <2>2, <2>3, <2>4
<1>13. ASSUME NEW a \in Admins, Exclusive(a) PROVE TInv'
  <2>1. TenantsShape'
      BY <1>0, <1>13 DEF TenantsShape, Away, Openers, Inside, Writers, Exclusive
  <2>2. TenantsReferences'
      BY SMT, <1>0, <1>13
         DEF TenantsShape, TenantsReferences, Away, Openers, Inside, Writers, Exclusive
  <2>3. TenantsOwned'
      BY SMT, <1>0, <1>13
         DEF TenantsShape, TenantsReferences, TenantsOwned, Away, Openers, Inside, Writers,
             Exclusive
  <2>4. TenantsLocked'
      BY SMT, <1>0, <1>13
         DEF TenantsShape, TenantsReferences, TenantsOwned, TenantsLocked, Away, Openers,
             Inside, Writers, Exclusive
  <2> QED BY <2>1, <2>2, <2>3, <2>4
<1>14. ASSUME NEW a \in Admins, Moved(a) PROVE TInv'
  <2>1. TenantsShape'
      BY <1>0, <1>14 DEF TenantsShape, TenantsReferences, Away, Openers, Inside, Writers, Moved
  <2>2. TenantsReferences'
      BY SMT, <1>0, <1>14 DEF TenantsShape, TenantsReferences, Away, Openers, Inside, Writers, Moved
  <2>3. TenantsOwned'
      BY SMT, <1>0, <1>14
         DEF TenantsShape, TenantsReferences, TenantsOwned, Away, Openers, Inside, Writers,
             Moved
  <2>4. TenantsLocked'
      BY SMT, <1>0, <1>14
         DEF TenantsShape, TenantsReferences, TenantsOwned, TenantsLocked, Away, Openers,
             Inside, Writers, Moved
  <2> QED BY <2>1, <2>2, <2>3, <2>4
<1>15. ASSUME NEW a \in Admins, Unquiesced(a) PROVE TInv'
  BY <1>0, <1>15, ReferenceDropped DEF Unquiesced, Away
<1>16. CASE EvictPick
  <2>1. TenantsShape'
      BY <1>0, <1>16
         DEF TenantsShape, Away, Openers, Inside, Writers, EvictPick, Hold, Drop, Referenced
  <2>2. TenantsReferences'
      BY SMT, <1>0, <1>16
         DEF TenantsShape, TenantsReferences, Away, Openers, Inside, Writers, EvictPick,
             Hold, Drop, Referenced
  <2>3. TenantsOwned'
      BY SMT, <1>0, <1>16
         DEF TenantsShape, TenantsReferences, TenantsOwned, Away, Openers, Inside, Writers,
             EvictPick, Hold, Drop, Referenced
  <2>4. TenantsLocked'
      BY SMT, <1>0, <1>16
         DEF TenantsShape, TenantsReferences, TenantsOwned, TenantsLocked, Away, Openers,
             Inside, Writers, EvictPick, Hold, Drop, Referenced
  <2> QED BY <2>1, <2>2, <2>3, <2>4
<1>17. CASE EvictTry
  <2>1. CASE Hold(slot, Drop(Evictor), status, engine, quiesced) /\ at'[Evictor] \in Away
    BY <1>0, <1>17, <2>1, ReferenceDropped DEF EvictTry, EvictSkips, Away, TenantsShape
  <2>2. CASE ~(Hold(slot, Drop(Evictor), status, engine, quiesced) /\ at'[Evictor] \in Away)
    <3>1. TenantsShape'
      BY <1>0, <1>17, <2>2
         DEF TenantsShape, Away, Openers, Inside, Writers, EvictTry, EvictSkips, Reading,
             Writing
    <3>2. TenantsReferences'
      BY SMT, <1>0, <1>17, <2>2
         DEF TenantsShape, TenantsReferences, Away, Openers, Inside, Writers, EvictTry,
             EvictSkips, Reading, Writing
    <3>3. TenantsOwned'
      BY SMT, <1>0, <1>17, <2>2
         DEF TenantsShape, TenantsReferences, TenantsOwned, Away, Openers, Inside, Writers,
             EvictTry, EvictSkips, Reading, Writing
    <3>4. TenantsLocked'
      BY SMT, <1>0, <1>17, <2>2
         DEF TenantsShape, TenantsReferences, TenantsOwned, TenantsLocked, Away, Openers,
             Inside, Writers, EvictTry, EvictSkips, Reading, Writing
    <3> QED BY <3>1, <3>2, <3>3, <3>4
  <2> QED BY <2>1, <2>2
<1>18. CASE EvictClose
  <2>1. CASE Hold(slot, Drop(Evictor), status, engine, quiesced) /\ at'[Evictor] \in Away
    BY <1>0, <1>18, <2>1, ReferenceDropped DEF EvictClose, EvictSkips, Away, TenantsShape
  <2>2. CASE ~(Hold(slot, Drop(Evictor), status, engine, quiesced) /\ at'[Evictor] \in Away)
    <3>1. TenantsShape'
      BY <1>0, <1>18, <2>2
         DEF TenantsShape, Away, Openers, Inside, Writers, EvictClose, EvictSkips
    <3>2. TenantsReferences'
      BY SMT, <1>0, <1>18, <2>2
         DEF TenantsShape, TenantsReferences, Away, Openers, Inside, Writers, EvictClose,
             EvictSkips
    <3>3. TenantsOwned'
      BY SMT, <1>0, <1>18, <2>2
         DEF TenantsShape, TenantsReferences, TenantsOwned, Away, Openers, Inside, Writers,
             EvictClose, EvictSkips
    <3>4. TenantsLocked'
      BY SMT, <1>0, <1>18, <2>2
         DEF TenantsShape, TenantsReferences, TenantsOwned, TenantsLocked, Away, Openers,
             Inside, Writers, EvictClose, EvictSkips
    <3> QED BY <3>1, <3>2, <3>3, <3>4
  <2> QED BY <2>1, <2>2
<1>19. CASE EvictUnlist
  <2>1. TenantsShape'
      BY <1>0, <1>19
         DEF TenantsShape, Away, Openers, Inside, Writers, EvictUnlist, Hold, Drop,
             Referenced
  <2>2. TenantsReferences'
      BY SMT, <1>0, <1>19
         DEF TenantsShape, TenantsReferences, Away, Openers, Inside, Writers, EvictUnlist,
             Hold, Drop, Referenced
  <2>3. TenantsOwned'
      BY SMT, <1>0, <1>19
         DEF TenantsShape, TenantsReferences, TenantsOwned, Away, Openers, Inside, Writers,
             EvictUnlist, Hold, Drop, Referenced
  <2>4. TenantsLocked'
      BY SMT, <1>0, <1>19
         DEF TenantsShape, TenantsReferences, TenantsOwned, TenantsLocked, Away, Openers,
             Inside, Writers, EvictUnlist, Hold, Drop, Referenced
  <2> QED BY <2>1, <2>2, <2>3, <2>4
<1>20. CASE EvictUnlock
  <2>1. TenantsShape'
      BY <1>0, <1>20 DEF TenantsShape, Away, Openers, Inside, Writers, EvictUnlock
  <2>2. TenantsReferences'
      BY SMT, <1>0, <1>20
         DEF TenantsShape, TenantsReferences, Away, Openers, Inside, Writers, EvictUnlock
  <2>3. TenantsOwned'
      BY SMT, <1>0, <1>20
         DEF TenantsShape, TenantsReferences, TenantsOwned, Away, Openers, Inside, Writers,
             EvictUnlock
  <2>4. TenantsLocked'
      BY SMT, <1>0, <1>20
         DEF TenantsShape, TenantsReferences, TenantsOwned, TenantsLocked, Away, Openers,
             Inside, Writers, EvictUnlock
  <2> QED BY <2>1, <2>2, <2>3, <2>4
<1>21. CASE EvictDone
  BY <1>0, <1>21, ReferenceDropped DEF EvictDone, EvictSkips, Away
<1>22. CASE FlushDrain
  <2>1. TenantsShape'
      BY SMT, <1>0, <1>22
         DEF TenantsShape, Away, Openers, Inside, Writers, FlushDrain, Hold, Drop,
             Referenced
  <2>2. TenantsReferences'
      BY SMT, <1>0, <1>22
         DEF TenantsShape, TenantsReferences, Away, Openers, Inside, Writers, FlushDrain,
             Hold, Drop, Referenced
  <2>3. TenantsOwned'
      BY SMT, <1>0, <1>22
         DEF TenantsShape, TenantsReferences, TenantsOwned, Away, Openers, Inside, Writers,
             FlushDrain, Hold, Drop, Referenced
  <2>4. TenantsLocked'
      BY SMT, <1>0, <1>22
         DEF TenantsShape, TenantsReferences, TenantsOwned, TenantsLocked, Away, Openers,
             Inside, Writers, FlushDrain, Hold, Drop, Referenced
  <2> QED BY <2>1, <2>2, <2>3, <2>4
<1>23. CASE FlushLocked
  <2>1. TenantsShape'
      BY <1>0, <1>23
         DEF TenantsShape, Away, Openers, Inside, Writers, FlushLocked, Reading, Writing
  <2>2. TenantsReferences'
      BY SMT, <1>0, <1>23
         DEF TenantsShape, TenantsReferences, Away, Openers, Inside, Writers, FlushLocked,
             Reading, Writing
  <2>3. TenantsOwned'
      BY SMT, <1>0, <1>23
         DEF TenantsShape, TenantsReferences, TenantsOwned, Away, Openers, Inside, Writers,
             FlushLocked, Reading, Writing
  <2>4. TenantsLocked'
      BY SMT, <1>0, <1>23
         DEF TenantsShape, TenantsReferences, TenantsOwned, TenantsLocked, Away, Openers,
             Inside, Writers, FlushLocked, Reading, Writing
  <2> QED BY <2>1, <2>2, <2>3, <2>4
<1>24. CASE FlushDone
  BY <1>0, <1>24, ReferenceDropped DEF FlushDone, Away
<1>25. CASE UNCHANGED tenantsVars
  BY SMT, <1>25 DEF tenantsVars, TenantsShape, TenantsReferences, TenantsOwned,
     TenantsLocked, Referenced
<1> QED
  BY <1>0, <1>1, <1>2, <1>3, <1>4, <1>5, <1>6, <1>7, <1>8, <1>9, <1>10, <1>11, <1>12, <1>13,
     <1>14, <1>15, <1>16, <1>17, <1>18, <1>19, <1>20, <1>21, <1>22, <1>23, <1>24, <1>25
  DEF TenantsNext, TenantsProgress, Look, Administer, Evict, Flush

\* The invariant holds in every state of every behaviour.
THEOREM TenantsInvariant == TenantsSpec => []TInv
<1>1. TenantsInit => TInv
  BY TenantsInitial
<1>2. TInv /\ [TenantsNext]_tenantsVars => TInv'
  BY TenantsStep
<1> QED BY <1>1, <1>2, PTL DEF TenantsSpec

\* In a state of the invariant the store is used as StoreExclusive says: all
\* who touch it stand at one Tenant.
LEMMA ExclusiveWhenOwned == TInv => StoreExclusive
<1> SUFFICES ASSUME TInv PROVE StoreExclusive
  OBVIOUS
<1> USE DEF TInv, Movers
<1>1. \A g, h \in engine : g = h
  BY SMT DEF TenantsShape, TenantsOwned
<1>2. \A a, b \in Movers : a = b
  BY SMT DEF TenantsShape, TenantsReferences, TenantsOwned, TenantsLocked, Away, Inside,
     Writers, Actors
<1>3. \A S : (\A x, y \in S : x = y) => Cardinality(S) <= 1
  <2> SUFFICES ASSUME NEW S, \A x, y \in S : x = y
               PROVE  Cardinality(S) <= 1
    OBVIOUS
  <2>1. CASE S = {}
    BY SMT, <2>1, FS_EmptySet
  <2>2. CASE S # {}
    <3>1. PICK x \in S : S = {x}
      BY <2>2
    <3> QED BY SMT, <3>1, FS_Singleton
  <2> QED BY <2>1, <2>2
<1>4. \A a \in Movers :
         /\ at[a] \in {"owned", "moving"} => engine = {}
         /\ at[a] = "copying" => engine = {obj[a]}
         /\ \A b \in Actors \ {a} : at[b] \notin {"using", "evicting", "flushing"}
  BY SMT DEF TenantsShape, TenantsReferences, TenantsOwned, TenantsLocked, Away, Inside,
     Writers, Actors
<1> QED BY <1>1, <1>2, <1>3, <1>4 DEF StoreExclusive

\* The server never has two engines on a tenant's directory, and recovery,
\* snapshots and restores have its files to themselves, however requests,
\* evictions, restores and the flush at shutdown interleave.
THEOREM TenantsStoreExclusive == TenantsSpec => []StoreExclusive
BY TenantsInvariant, ExclusiveWhenOwned, PTL

-----------------------------------------------------------------------------
(***************************************************************************)
(* The safety of the mutation gate for any set of threads and any width of *)
(* the reservation counter.  The inductive invariant adds to the checked   *)
(* properties that the holder is the thread being served: with one owner   *)
(* per ticket this makes the lease exclusive.                              *)
(***************************************************************************)

GateInv ==
    /\ TypeOK
    /\ EveryTicketOwned
    /\ HolderIsServed
    /\ NoLostWakeup
    /\ PublicationExcludesReaders

\* Initially nobody holds or waits.
LEMMA GateInit == Init => GateInv
BY SMT, CounterAssumption
   DEF Init, GateInv, TypeOK, EveryTicketOwned, InQueue, HolderIsServed,
       NoLostWakeup, PublicationExcludesReaders, Step, Waiting, Holding

\* One owner per ticket, and only the served ticket holds: the lease is exclusive.
LEMMA ServedIsExclusive == GateInv => LeaseExclusive
BY DEF GateInv, EveryTicketOwned, InQueue, HolderIsServed, LeaseExclusive

\* WriterLease::release by the holder keeps the queue intact: the next ticket
\* is owned, and no sleeper is left behind.
LEMMA HandOverKeepsInv ==
    ASSUME GateInv, NEW t \in Thread, NEW to \in {"idle", "released"},
           pc[t] \in {"leased", "unlocked"}, HandOver(t, to)
    PROVE  GateInv'
<1>1. /\ ticket[t] = serving /\ serving < next /\ InQueue(t)
      /\ \A u \in Thread \ {t} : InQueue(u) => serving < ticket[u]
  BY SMT DEF GateInv, TypeOK, EveryTicketOwned, HolderIsServed, InQueue, Holding
<1>2. /\ pc'[t] = to
      /\ \A u \in Thread \ {t} :
            pc'[u] = IF pc[u] = "asleep" THEN "notified" ELSE pc[u]
  BY DEF HandOver, NotifyAll, GateInv, TypeOK
<1>3. \A u \in Thread : InQueue(u)' <=> u # t /\ InQueue(u)
  BY <1>2 DEF InQueue, Waiting, Holding
<1>4. TypeOK'
  <2>1. pc' \in [Thread -> Step]
    BY DEF GateInv, TypeOK, HandOver, NotifyAll, Step, Waiting
  <2> QED
    BY SMT, <1>1, <2>1, CounterAssumption DEF GateInv, TypeOK, HandOver
<1>5. EveryTicketOwned'
  BY SMT, <1>1, <1>3, CounterAssumption
     DEF GateInv, TypeOK, EveryTicketOwned, HandOver
<1>6. HolderIsServed'
  <2>1. \A u \in Thread : pc'[u] \notin Holding
    BY <1>2, ServedIsExclusive
       DEF GateInv, LeaseExclusive, Holding, TypeOK
  <2> QED
    BY <2>1 DEF HolderIsServed
<1>7. NoLostWakeup'
  BY <1>2 DEF NoLostWakeup
<1>8. PublicationExcludesReaders'
  BY <1>2 DEF GateInv, PublicationExcludesReaders
<1> QED
  BY <1>4, <1>5, <1>6, <1>7, <1>8 DEF GateInv

\* Every other step moves one thread between two positions of the same kind
\* and leaves the counters alone.
LEMMA MoveKeepsInv ==
    ASSUME GateInv, NEW t \in Thread, NEW to \in Step \ {"asleep", "published", "reading"},
           pc' = [pc EXCEPT ![t] = to], UNCHANGED <<next, serving, ticket, maint>>,
           pc[t] \in Waiting \cup Holding <=> to \in Waiting \cup Holding,
           to \in Holding => ticket[t] = serving
    PROVE  GateInv'
<1>1. /\ pc'[t] = to
      /\ \A u \in Thread \ {t} : pc'[u] = pc[u]
  BY DEF GateInv, TypeOK
<1>2. \A u \in Thread : InQueue(u)' <=> InQueue(u)
  BY <1>1 DEF InQueue
<1>3. TypeOK'
  BY DEF GateInv, TypeOK
<1>4. EveryTicketOwned'
  BY <1>2 DEF GateInv, EveryTicketOwned
<1>5. HolderIsServed'
  BY <1>1 DEF GateInv, HolderIsServed
<1>6. NoLostWakeup'
  BY <1>1 DEF GateInv, NoLostWakeup
<1>7. PublicationExcludesReaders'
  BY <1>1 DEF GateInv, PublicationExcludesReaders
<1> QED
  BY <1>3, <1>4, <1>5, <1>6, <1>7 DEF GateInv

\* Drawing a ticket adds exactly one owner, for the ticket `next`.
LEMMA AcquireKeepsInv ==
    ASSUME GateInv, NEW t \in Thread, NEW m \in BOOLEAN, Acquire(t, m)
    PROVE  GateInv'
<1>1. /\ pc'[t] = IF serving = next THEN "leased" ELSE "asleep"
      /\ ticket'[t] = next
      /\ \A u \in Thread \ {t} : pc'[u] = pc[u] /\ ticket'[u] = ticket[u]
      /\ next' = next + 1 /\ serving' = serving /\ next < CounterMax
      /\ ~InQueue(t)
  BY DEF Acquire, GateInv, TypeOK, InQueue, Waiting, Holding
<1>2. \A u \in Thread : InQueue(u)' <=> u = t \/ InQueue(u)
  BY <1>1 DEF InQueue, Waiting, Holding
<1>3. TypeOK'
  <2>1. pc' \in [Thread -> Step]
    BY DEF Acquire, GateInv, TypeOK, Step, Waiting, Holding
  <2>2. maint' \in [Thread -> BOOLEAN]
    BY DEF Acquire, GateInv, TypeOK
  <2>3. ticket' \in [Thread -> Nat]
    BY SMT DEF Acquire, GateInv, TypeOK
  <2> QED
    BY SMT, <1>1, <2>1, <2>2, <2>3, CounterAssumption DEF GateInv, TypeOK
<1>4. EveryTicketOwned'
  BY SMT, <1>1, <1>2, CounterAssumption DEF GateInv, TypeOK, EveryTicketOwned
<1>5. HolderIsServed'
  BY <1>1 DEF GateInv, HolderIsServed, Holding
<1>6. NoLostWakeup'
  BY <1>1 DEF GateInv, NoLostWakeup
<1>7. PublicationExcludesReaders'
  BY <1>1 DEF GateInv, PublicationExcludesReaders
<1> QED
  BY <1>3, <1>4, <1>5, <1>6, <1>7 DEF GateInv

\* Steps that put a thread on the condition variable or into the readers' lock.
LEMMA LockKeepsInv ==
    ASSUME GateInv, NEW t \in Thread, NEW to \in {"asleep", "published", "reading"},
           pc' = [pc EXCEPT ![t] = to], UNCHANGED <<next, serving, ticket, maint>>,
           to = "asleep" => pc[t] = "notified" /\ ticket[t] # serving,
           to = "published" => /\ pc[t] = "publishing"
                              /\ \A u \in Thread : pc[u] \notin {"reading", "published"},
           to = "reading" => pc[t] = "querying" /\ \A u \in Thread : pc[u] # "published"
    PROVE  GateInv'
<1>1. /\ pc'[t] = to
      /\ \A u \in Thread \ {t} : pc'[u] = pc[u]
  BY DEF GateInv, TypeOK
<1>2. \A u \in Thread : InQueue(u)' <=> InQueue(u)
  BY <1>1 DEF InQueue, Waiting, Holding
<1>3. TypeOK'
  BY DEF GateInv, TypeOK, Step, Waiting, Holding
<1>4. EveryTicketOwned'
  BY <1>2 DEF GateInv, EveryTicketOwned
<1>5. HolderIsServed'
  BY <1>1 DEF GateInv, HolderIsServed, Holding
<1>6. NoLostWakeup'
  BY <1>1 DEF GateInv, NoLostWakeup
<1>7. PublicationExcludesReaders'
  BY SMT, <1>1 DEF GateInv, PublicationExcludesReaders
<1> QED
  BY <1>3, <1>4, <1>5, <1>6, <1>7 DEF GateInv

\* Every step of every thread keeps the invariant.
LEMMA GateStep == GateInv /\ [Next]_vars => GateInv'
<1> SUFFICES ASSUME GateInv, [Next]_vars
             PROVE  GateInv'
  OBVIOUS
<1>1. ASSUME NEW t \in Thread, Lease(t)
      PROVE  GateInv'
  <2>1. ASSUME NEW m \in BOOLEAN, Acquire(t, m) PROVE GateInv'
    BY <2>1, AcquireKeepsInv
  <2>2. CASE Recheck(t)
    <3>1. CASE serving = ticket[t]
      BY <2>2, <3>1, MoveKeepsInv DEF Recheck, Step, Waiting, Holding
    <3>2. CASE serving # ticket[t]
      BY <2>2, <3>2, LockKeepsInv DEF Recheck
    <3> QED
      BY <3>1, <3>2
  <2>3. CASE SpuriousWake(t)
    BY <2>3, MoveKeepsInv DEF SpuriousWake, Step, Waiting, Holding
  <2>4. CASE Release(t)
    BY <2>4, HandOverKeepsInv DEF Release
  <2>5. CASE DropLease(t)
    BY <2>5, HandOverKeepsInv DEF DropLease
  <2>6. CASE DropReleased(t)
    BY <2>6, MoveKeepsInv DEF DropReleased, Step, Waiting, Holding
  <2> QED
    BY <1>1, <2>1, <2>2, <2>3, <2>4, <2>5, <2>6 DEF Lease
<1>2. ASSUME NEW t \in Thread, Publish(t)
      PROVE  GateInv'
  <2>1. CASE BeginPublish(t)
    BY <2>1, MoveKeepsInv DEF BeginPublish, Step, Waiting, Holding, GateInv, HolderIsServed
  <2>2. CASE Published(t)
    BY <2>2, LockKeepsInv DEF Published
  <2>3. CASE DropReaders(t)
    BY <2>3, MoveKeepsInv DEF DropReaders, Step, Waiting, Holding, GateInv, HolderIsServed
  <2>4. CASE DropWriter(t)
    BY <2>4, HandOverKeepsInv DEF DropWriter
  <2> QED
    BY <1>2, <2>1, <2>2, <2>3, <2>4 DEF Publish
<1>3. ASSUME NEW t \in Thread, Query(t)
      PROVE  GateInv'
  <2>1. CASE BeginRead(t)
    BY <2>1, MoveKeepsInv DEF BeginRead, Step, Waiting, Holding
  <2>2. CASE Read(t)
    BY <2>2, LockKeepsInv DEF Read
  <2>3. CASE EndRead(t)
    BY <2>3, MoveKeepsInv DEF EndRead, Step, Waiting, Holding
  <2> QED
    BY <1>3, <2>1, <2>2, <2>3 DEF Query
<1>4. CASE UNCHANGED vars
  BY <1>4 DEF vars, GateInv, TypeOK, EveryTicketOwned, InQueue, HolderIsServed,
              NoLostWakeup, PublicationExcludesReaders
<1> QED
  BY <1>1, <1>2, <1>3, <1>4 DEF Next

\* The gate always satisfies its inductive invariant.
THEOREM GateInvariant == Spec => []GateInv
BY GateInit, GateStep, PTL DEF Spec

\* The gate's counters and every thread's position keep their types (the ticket
\* counters stay within their width: acquire and release use checked_add).
THEOREM GateTypeOK == Spec => []TypeOK
<1>1. GateInv => TypeOK
  BY DEF GateInv
<1> QED
  BY <1>1, GateInvariant, PTL

\* Two threads never hold the writer lease at once (WriterQueue::acquire,
\* WriterLease::release).
THEOREM GateLeaseExclusive == Spec => []LeaseExclusive
BY GateInvariant, ServedIsExclusive, PTL

\* A published transaction excludes queries (TransactionGuard::publish).
THEOREM GateExcludesReaders == Spec => []PublicationExcludesReaders
<1>1. GateInv => PublicationExcludesReaders
  BY DEF GateInv
<1> QED
  BY <1>1, GateInvariant, PTL

\* Every ticket between `serving` and `next` has exactly one owner: releasing
\* and dropping a lease advances the queue exactly once.
THEOREM GateTicketsOwned == Spec => []EveryTicketOwned
<1>1. GateInv => EveryTicketOwned
  BY DEF GateInv
<1> QED
  BY <1>1, GateInvariant, PTL

\* No thread sleeps on the condition variable while its ticket is served.
THEOREM GateNoLostWakeup == Spec => []NoLostWakeup
<1>1. GateInv => NoLostWakeup
  BY DEF GateInv
<1> QED
  BY <1>1, GateInvariant, PTL

\* Leases are granted in ticket order.
THEOREM GateTicketOrder == Spec => GrantsInTicketOrder
<1>1. ASSUME GateInv, GateInv', [Next]_vars
      PROVE  [\A t, u \in Thread :
                 /\ pc[t] \notin Holding /\ pc'[t] \in Holding
                 /\ pc'[u] \in Waiting
                 => ticket'[t] < ticket'[u]]_vars
  <2> SUFFICES ASSUME NEW t \in Thread, NEW u \in Thread,
                      pc'[t] \in Holding, pc'[u] \in Waiting
               PROVE  ticket'[t] < ticket'[u]
    OBVIOUS
  <2>1. t # u
    BY DEF Waiting, Holding
  <2>2. ticket'[t] = serving' /\ InQueue(t)'
    BY <1>1 DEF GateInv, HolderIsServed, InQueue
  <2>3. serving' <= ticket'[u] /\ InQueue(u)'
    BY <1>1 DEF GateInv, EveryTicketOwned, InQueue
  <2>4. ticket'[t] # ticket'[u]
    BY <1>1, <2>1, <2>2, <2>3 DEF GateInv, EveryTicketOwned
  <2> QED
    BY SMT, <1>1, <2>2, <2>3, <2>4 DEF GateInv, TypeOK
<1> QED
  BY <1>1, GateInvariant, PTL DEF Spec, GrantsInTicketOrder
=============================================================================
