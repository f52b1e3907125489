------------------------------ MODULE Tenants ------------------------------
(***************************************************************************)
(* The open stores of the HTTP server (warm-server/tenants.rs), for one    *)
(* tenant: the slot in the map, opening it on first use, the retry loop of *)
(* core(), snapshots and restores that take the store exclusively, idle    *)
(* eviction and the flush at shutdown.                                     *)
(*                                                                         *)
(* A slot and the Tenant it leads to are one object, named by a number;    *)
(* the map and the actors hold references to it.  The Tenant owns the      *)
(* ownership lock of the directory and, while its RwLock holds Some, the   *)
(* engine: both go when the last reference goes.  How a restore moves the  *)
(* directories is module Restore; here it is one exclusive stay.           *)
(***************************************************************************)
EXTENDS Integers, FiniteSets

CONSTANTS
    Clients,      \* requests and compactions: they use the engine
    Admins,       \* snapshot and restore requests: they take it exclusively
    Evictor,      \* the idle loop
    Flusher,      \* flush_all at shutdown
    MaxTries,     \* rounds of core()
    MaxPasses     \* bound on the passes of the idle loop

ASSUME TenantsAssumption ==
    /\ IsFiniteSet(Clients) /\ IsFiniteSet(Admins)
    /\ Clients \cap Admins = {} /\ Evictor # Flusher
    /\ {Evictor, Flusher} \cap (Clients \cup Admins) = {}
    /\ MaxTries \in Nat \ {0} /\ MaxPasses \in Nat

Lookers == Clients \cup Admins
Actors == Lookers \cup {Evictor, Flusher}
\* One object per reference suffices: a new one takes a name nobody holds.
Objects == 1..(Cardinality(Actors) + 1)
None == 0

VARIABLES
    slot,       \* the tenant's entry in AppState.tenants
    status,     \* TenantSlot.status of each object
    engine,     \* objects whose RwLock holds Some(Open)
    quiesced,   \* objects whose quiesced flag is set
    at,         \* where each actor stands
    obj,        \* the object it holds a reference to
    tries,      \* rounds of core() a looker has made
    passes      \* passes the idle loop has made

tenantsVars == <<slot, status, engine, quiesced, at, obj, tries, passes>>

TenantsInit ==
    /\ slot = None
    /\ status = [g \in Objects |-> "none"]
    /\ engine = {} /\ quiesced = {}
    /\ at = [a \in Actors |-> "idle"]
    /\ obj = [a \in Actors |-> None]
    /\ tries = [a \in Lookers |-> 0]
    /\ passes = 0

Goto(a, to) == at' = [at EXCEPT ![a] = to]

\* The actors inside the object's RwLock.
Reading(g) == {a \in Actors : obj[a] = g /\ at[a] = "using"}
Writing(g) == {a \in Actors : obj[a] = g
                 /\ at[a] \in {"exclusive", "copying", "moving", "unflagged",
                               "evicting", "closed", "unlisted", "flushing"}}

\* The map entry becomes s, the references r and the status st: what nobody
\* refers to is dropped, with its engine and its ownership lock.
Referenced(s, r) == {g \in Objects : s = g \/ \E a \in Actors : r[a] = g}
Hold(s, r, st, open, flagged) ==
    LET kept == Referenced(s, r) IN
    /\ slot' = s
    /\ obj' = r
    /\ status' = [g \in Objects |-> IF g \in kept THEN st[g] ELSE "none"]
    /\ engine' = open \cap kept
    /\ quiesced' = flagged \cap kept

Drop(a) == [obj EXCEPT ![a] = None]
\* The tenants that exist, and with them the locked ownership file.
Owners == {g \in Objects : status[g] = "ready"}
          \cup {obj[a] : a \in {b \in Lookers : at[b] = "owned"}}

-----------------------------------------------------------------------------
(* core(): look the slot up, open it if it is new, take the read side.     *)

\* slot(), under the map's mutex: the entry, a refusal (other tenants fill
\* the map), or a new entry that this actor initializes.
Lookup(a) ==
    /\ at[a] = "lookup"
    /\ \/ /\ slot # None
          /\ Goto(a, "waiting")
          /\ Hold(slot, [obj EXCEPT ![a] = slot], status, engine, quiesced)
       \/ /\ slot = None
          /\ Goto(a, "answered")
          /\ UNCHANGED <<slot, status, engine, quiesced, obj>>
       \/ /\ slot = None
          /\ LET g == CHOOSE h \in Objects : h \notin Referenced(slot, obj) IN
             Hold(g, [obj EXCEPT ![a] = g], [status EXCEPT ![g] = "opening"],
                  engine, quiesced)
          /\ Goto(a, "opening")
    /\ UNCHANGED <<tries, passes>>

Begins(a) ==
    /\ at[a] = "idle"
    /\ Goto(a, "lookup")
    /\ UNCHANGED <<slot, status, engine, quiesced, obj, tries, passes>>

\* Defect: a failed open forgets the slot and tells nobody.
BugOpenFails(a) ==
    /\ at[a] \in {"opening", "owned"}
    /\ LET g == obj[a] IN
       Hold(IF slot = g THEN None ELSE slot, Drop(a), status, engine, quiesced)
    /\ Goto(a, "answered")
    /\ UNCHANGED <<tries, passes>>

\* TenantInitialization publishes Failed and forgets the slot, also when the
\* open panics.
OpenFails(a) ==
    /\ at[a] \in {"opening", "owned"}
    /\ LET g == obj[a] IN
       Hold(IF slot = g THEN None ELSE slot, Drop(a),
            [status EXCEPT ![g] = "failed"], engine, quiesced)
    /\ Goto(a, "answered")
    /\ UNCHANGED <<tries, passes>>

\* Defect: the ownership file is not locked.
BugLockTenant(a) ==
    /\ at[a] = "opening"
    /\ Goto(a, "owned")
    /\ UNCHANGED <<slot, status, engine, quiesced, obj, tries, passes>>

\* lock_tenant: try_lock fails while another Tenant of the directory lives.
LockTenant(a) ==
    /\ at[a] = "opening"
    /\ Owners = {}
    /\ Goto(a, "owned")
    /\ UNCHANGED <<slot, status, engine, quiesced, obj, tries, passes>>

\* recover and open_core succeeded.
Opened(a) ==
    /\ at[a] = "owned"
    /\ Goto(a, "have")
    /\ status' = [status EXCEPT ![obj[a]] = "ready"]
    /\ engine' = engine \cup {obj[a]}
    /\ UNCHANGED <<slot, quiesced, obj, tries, passes>>

\* TenantSlot::wait returns.
Waited(a) ==
    /\ at[a] = "waiting"
    /\ \/ /\ status[obj[a]] = "ready"
          /\ Goto(a, "have")
          /\ UNCHANGED <<slot, status, engine, quiesced, obj>>
       \/ /\ status[obj[a]] = "failed"
          /\ Goto(a, "answered")
          /\ Hold(slot, Drop(a), status, engine, quiesced)
    /\ UNCHANGED <<tries, passes>>

\* The quiesced flag turns the request away at once.
Turned(a) ==
    /\ at[a] = "have"
    /\ \/ /\ obj[a] \in quiesced
          /\ Goto(a, "answered")
          /\ Hold(slot, Drop(a), status, engine, quiesced)
       \/ /\ obj[a] \notin quiesced
          /\ Goto(a, "locking")
          /\ UNCHANGED <<slot, status, engine, quiesced, obj>>
    /\ UNCHANGED <<tries, passes>>

\* read_arc: a client keeps the guard, quiesce() keeps the tenant only; a
\* closed store is another round.
ReadLocked(a) ==
    /\ at[a] = "locking"
    /\ Writing(obj[a]) = {}
    /\ Goto(a, IF obj[a] \notin engine THEN "closing"
               ELSE IF a \in Clients THEN "using" ELSE "swapping")
    /\ UNCHANGED <<slot, status, engine, quiesced, obj, tries, passes>>

\* forget_if_closed, and the end of a round.
Retry(a) ==
    /\ at[a] = "closing"
    /\ Hold(IF slot = obj[a] /\ status[slot] = "ready" THEN None ELSE slot,
            Drop(a), status, engine, quiesced)
    /\ tries' = [tries EXCEPT ![a] = @ + 1]
    /\ Goto(a, IF tries[a] + 1 < MaxTries THEN "lookup" ELSE "answered")
    /\ UNCHANGED passes

\* The request is done and drops its guard.
Used(a) ==
    /\ at[a] = "using"
    /\ Goto(a, "answered")
    /\ Hold(slot, Drop(a), status, engine, quiesced)
    /\ UNCHANGED <<tries, passes>>

-----------------------------------------------------------------------------
(* quiesce(), create_snapshot and restore_staged.                          *)

Swap(a) ==
    /\ at[a] = "swapping"
    /\ \/ /\ obj[a] \in quiesced
          /\ Goto(a, "answered")
          /\ Hold(slot, Drop(a), status, engine, quiesced)
       \/ /\ obj[a] \notin quiesced
          /\ Goto(a, "parked")
          /\ quiesced' = quiesced \cup {obj[a]}
          /\ UNCHANGED <<slot, status, engine, obj>>
    /\ UNCHANGED <<tries, passes>>

\* write_arc waits for every guard.
WriteLocked(a) ==
    /\ at[a] = "parked"
    /\ Reading(obj[a]) = {} /\ Writing(obj[a]) = {}
    /\ Goto(a, "exclusive")
    /\ UNCHANGED <<slot, status, engine, quiesced, obj, tries, passes>>

\* A store closed in between is left alone.  Otherwise settle and, for a
\* restore, begin may fail; then the files are copied, or the engine is
\* closed and they are moved.
Exclusive(a) ==
    /\ at[a] = "exclusive"
    /\ \/ /\ Goto(a, "unflagged")
          /\ quiesced' = quiesced \ {obj[a]}
          /\ UNCHANGED engine
       \/ /\ obj[a] \in engine
          /\ Goto(a, "copying")
          /\ UNCHANGED <<engine, quiesced>>
       \/ /\ obj[a] \in engine
          /\ Goto(a, "moving")
          /\ engine' = engine \ {obj[a]}
          /\ UNCHANGED quiesced
    /\ UNCHANGED <<slot, status, obj, tries, passes>>

\* The copy ended, or the moves: reopened on the new or the old store, or
\* left closed when the rollback or its reopen failed.  Quiesced::drop clears
\* the flag before the write guard goes.
Moved(a) ==
    /\ at[a] \in {"copying", "moving"}
    /\ \/ engine' = engine \cup {obj[a]}
       \/ at[a] = "moving" /\ UNCHANGED engine
    /\ quiesced' = quiesced \ {obj[a]}
    /\ Goto(a, "unflagged")
    /\ UNCHANGED <<slot, status, obj, tries, passes>>

Unquiesced(a) ==
    /\ at[a] = "unflagged"
    /\ Goto(a, "answered")
    /\ Hold(slot, Drop(a), status, engine, quiesced)
    /\ UNCHANGED <<tries, passes>>

-----------------------------------------------------------------------------
(* evict_idle_at and flush_all.                                            *)

\* A ready tenant that is idle and not quiesced.
EvictPick ==
    /\ at[Evictor] = "idle" /\ passes < MaxPasses
    /\ slot # None /\ status[slot] = "ready" /\ slot \notin quiesced
    /\ Hold(slot, [obj EXCEPT ![Evictor] = slot], status, engine, quiesced)
    /\ Goto(Evictor, "picked")
    /\ passes' = passes + 1
    /\ UNCHANGED tries

EvictSkips ==
    /\ Goto(Evictor, "idle")
    /\ Hold(slot, Drop(Evictor), status, engine, quiesced)
    /\ UNCHANGED <<tries, passes>>

\* try_write_arc.
EvictTry ==
    /\ at[Evictor] = "picked"
    /\ LET g == obj[Evictor] IN
       \/ /\ Reading(g) = {} /\ Writing(g) = {}
          /\ Goto(Evictor, "evicting")
          /\ UNCHANGED <<slot, status, engine, quiesced, obj, tries, passes>>
       \/ /\ ~(Reading(g) = {} /\ Writing(g) = {})
          /\ EvictSkips

\* The second look with the lock held: used or quiesced since, or settle
\* fails; otherwise the engine is dropped.
EvictClose ==
    /\ at[Evictor] = "evicting"
    /\ LET g == obj[Evictor] IN
       \/ EvictSkips
       \/ /\ g \notin quiesced
          /\ Goto(Evictor, "closed")
          /\ engine' = engine \ {g}
          /\ UNCHANGED <<slot, status, quiesced, obj, tries, passes>>

\* Only then may the slot disappear, if it is still this tenant's.
EvictUnlist ==
    /\ at[Evictor] = "closed"
    /\ LET g == obj[Evictor] IN
       Hold(IF slot = g THEN None ELSE slot, obj, status, engine, quiesced)
    /\ Goto(Evictor, "unlisted")
    /\ UNCHANGED <<tries, passes>>

\* The write guard is dropped, and the loop's reference after it.
EvictUnlock ==
    /\ at[Evictor] = "unlisted"
    /\ Goto(Evictor, "evicted")
    /\ UNCHANGED <<slot, status, engine, quiesced, obj, tries, passes>>

EvictDone ==
    /\ at[Evictor] = "evicted"
    /\ EvictSkips

\* flush_all drains the map; an entry that is still opening is only logged.
FlushDrain ==
    /\ at[Flusher] = "idle" /\ slot # None
    /\ \/ /\ status[slot] = "ready"
          /\ Hold(None, [obj EXCEPT ![Flusher] = slot], status, engine, quiesced)
          /\ Goto(Flusher, "flushwait")
       \/ /\ status[slot] = "opening"
          /\ Hold(None, obj, status, engine, quiesced)
          /\ Goto(Flusher, "answered")
    /\ UNCHANGED <<tries, passes>>

\* It settles under the write lock.
FlushLocked ==
    /\ at[Flusher] = "flushwait"
    /\ Reading(obj[Flusher]) = {} /\ Writing(obj[Flusher]) = {}
    /\ Goto(Flusher, "flushing")
    /\ UNCHANGED <<slot, status, engine, quiesced, obj, tries, passes>>

FlushDone ==
    /\ at[Flusher] = "flushing"
    /\ Goto(Flusher, "answered")
    /\ Hold(slot, Drop(Flusher), status, engine, quiesced)
    /\ UNCHANGED <<tries, passes>>

-----------------------------------------------------------------------------
Look(a) ==
    \/ Lookup(a) \/ OpenFails(a) \/ LockTenant(a) \/ Opened(a) \/ Waited(a)
    \/ Turned(a) \/ ReadLocked(a) \/ Retry(a) \/ Used(a)
Administer(a) ==
    \/ Swap(a) \/ WriteLocked(a) \/ Exclusive(a) \/ Moved(a) \/ Unquiesced(a)
Evict == EvictTry \/ EvictClose \/ EvictUnlist \/ EvictUnlock \/ EvictDone
Flush == FlushLocked \/ FlushDone

\* Some thread that can go on does; requests, idle passes and the shutdown
\* come when they like.
TenantsProgress ==
    \/ \E a \in Lookers : Look(a)
    \/ \E a \in Admins : Administer(a)
    \/ Evict \/ Flush
TenantsNext == TenantsProgress \/ (\E a \in Lookers : Begins(a)) \/ EvictPick \/ FlushDrain
TenantsFairness == WF_tenantsVars(TenantsProgress)

TenantsSpec == TenantsInit /\ [][TenantsNext]_tenantsVars
TenantsFairSpec == TenantsSpec /\ TenantsFairness

-----------------------------------------------------------------------------
\* The actors that read or move the tenant's files themselves: recover under
\* the ownership lock, a snapshot's copy, a restore's moves.
Movers == {a \in Lookers : at[a] \in {"owned", "copying", "moving"}}

\* One engine on the directory at most, and whoever touches the files does so
\* alone: recover and the moves of a restore beside no engine at all, a copy
\* beside no request, eviction or flush.  It takes the slot protocol, the
\* RwLock, the flag and the ownership file together.
StoreExclusive ==
    /\ Cardinality(engine) <= 1
    /\ Cardinality(Movers) <= 1
    /\ \A a \in Movers :
          /\ at[a] \in {"owned", "moving"} => engine = {}
          /\ at[a] = "copying" => engine = {obj[a]}
          /\ \A b \in Actors \ {a} :
                at[b] \notin {"using", "evicting", "flushing"}

\* Every lookup is answered, every snapshot or restore ends and every
\* eviction gets through: nobody waits for a slot that is never published, a
\* lock that is never dropped or a flag that is never cleared.
EveryLookupEnds == []<>(\A a \in Actors : at[a] \in {"idle", "answered"})
=============================================================================
