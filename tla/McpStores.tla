----------------------------- MODULE McpStores -----------------------------
(***************************************************************************)
(* The namespace stores of the MCP server (warm-mcp/store.rs): store_with  *)
(* finds the slot of a namespace, waits for whoever opens or closes it, or *)
(* reserves a new slot, closing an idle store when max_stores are open;    *)
(* remember and forget then read and write under the store's gate.         *)
(*                                                                         *)
(* A slot is the map's entry.  A slot that left the map is held by its     *)
(* waiters only, so what they will read there is given to them when they   *)
(* are notified.  Which idle store is closed (the least recently used) is  *)
(* left open, and the memories of a namespace are one document.            *)
(***************************************************************************)
EXTENDS Integers, FiniteSets

CONSTANTS
    Callers,      \* blocking worker threads, each with one call at a time
    Namespaces,
    Nobody,       \* no caller: a gate that is free
    MaxStores,    \* StoreOptions.max_stores
    MaxCalls      \* bound on the calls made altogether

ASSUME McpStoresAssumption ==
    /\ IsFiniteSet(Callers) /\ IsFiniteSet(Namespaces) /\ Namespaces # {}
    /\ Nobody \notin Callers
    /\ MaxStores \in Nat /\ MaxCalls \in Nat

VARIABLES
    entry,     \* the status of the slot in WarmBackend.stores, or "none"
    cores,     \* how many engines are open on the directory of a namespace
    phase,     \* where each caller stands
    space,     \* the namespace of its call
    victim,    \* the namespace whose store it must close first
    gate,      \* the holder of the gate of the namespace's store
    memory,    \* the version stored in the namespace, 0 when there is none
    seen,      \* the version a writer read under the gate
    toolCalls  \* calls made so far

mcpVars == <<entry, cores, phase, space, victim, gate, memory, seen, toolCalls>>

McpInit ==
    /\ entry = [n \in Namespaces |-> "none"]
    /\ cores = [n \in Namespaces |-> 0]
    /\ phase = [c \in Callers |-> "idle"]
    /\ space = [c \in Callers |-> CHOOSE n \in Namespaces : TRUE]
    /\ victim = space
    /\ gate = [n \in Namespaces |-> Nobody]
    /\ memory = [n \in Namespaces |-> 0]
    /\ seen = [c \in Callers |-> 0]
    /\ toolCalls = 0

To(c, where) == phase' = [phase EXCEPT ![c] = where]

Call(c) ==
    /\ phase[c] = "idle" /\ toolCalls < MaxCalls
    /\ \E n \in Namespaces : space' = [space EXCEPT ![c] = n]
    /\ To(c, "lookup")
    /\ toolCalls' = toolCalls + 1
    /\ UNCHANGED <<entry, cores, victim, gate, memory, seen>>

-----------------------------------------------------------------------------
(* store_with.                                                             *)

Occupied == {n \in Namespaces : entry[n] \notin {"none", "closing"}}

\* Callers with a reference to the slot, and those with one to its store.
Awaiting(n) == {c \in Callers : phase[c] = "waiting" /\ space[c] = n}
Users(n) == {c \in Callers : phase[c] \in {"using", "gated"} /\ space[c] = n}

\* Defect: only the map's reference to the slot is counted.
BugIdle == {n \in Namespaces : entry[n] = "ready" /\ Awaiting(n) = {}}
Idle == {n \in Namespaces : entry[n] = "ready" /\ Awaiting(n) = {} /\ Users(n) = {}}

\* The namespace has a slot: wait for it.  A failed one answers at once.
Join(c) ==
    /\ phase[c] = "lookup"
    /\ entry[space[c]] # "none"
    /\ To(c, IF entry[space[c]] = "failed" THEN "idle" ELSE "waiting")
    /\ UNCHANGED <<entry, cores, space, victim, gate, memory, seen, toolCalls>>

\* It has none and there is room for one more.
Reserve(c) ==
    /\ phase[c] = "lookup"
    /\ entry[space[c]] = "none"
    /\ Cardinality(Occupied) < MaxStores
    /\ entry' = [entry EXCEPT ![space[c]] = "opening"]
    /\ To(c, "opening")
    /\ UNCHANGED <<cores, space, victim, gate, memory, seen, toolCalls>>

\* All max_stores are taken: an idle one goes from Ready to Closing, under
\* the same lock that inserts the new slot.
ReserveEvicting(c) ==
    /\ phase[c] = "lookup"
    /\ entry[space[c]] = "none"
    /\ Cardinality(Occupied) >= MaxStores
    /\ \E old \in Idle :
          /\ entry' = [entry EXCEPT ![space[c]] = "opening", ![old] = "closing"]
          /\ victim' = [victim EXCEPT ![c] = old]
    /\ To(c, "evicting")
    /\ UNCHANGED <<cores, space, gate, memory, seen, toolCalls>>

TooManyStores(c) ==
    /\ phase[c] = "lookup"
    /\ entry[space[c]] = "none"
    /\ Cardinality(Occupied) >= MaxStores
    /\ Idle = {}
    /\ To(c, "idle")
    /\ UNCHANGED <<entry, cores, space, victim, gate, memory, seen, toolCalls>>

\* drop(store) closes the engine.
CloseVictim(c) ==
    /\ phase[c] = "evicting"
    /\ cores' = [cores EXCEPT ![victim[c]] = @ - 1]
    /\ To(c, "closed")
    /\ UNCHANGED <<entry, space, victim, gate, memory, seen, toolCalls>>

\* Defect: the waiters of the closed slot are not notified.
BugUnlistVictim(c) ==
    /\ phase[c] = "closed"
    /\ entry' = [entry EXCEPT ![victim[c]] = "none"]
    /\ To(c, "opening")
    /\ UNCHANGED <<cores, space, victim, gate, memory, seen, toolCalls>>

\* remove_slot, Closed and notify_all: its waiters look the namespace up
\* again.  That they are notified a moment after the slot left the map is
\* the same as their waking late.
UnlistVictim(c) ==
    /\ phase[c] = "closed"
    /\ entry' = [entry EXCEPT ![victim[c]] = "none"]
    /\ phase' = [d \in Callers |-> IF d = c THEN "opening"
                                   ELSE IF d \in Awaiting(victim[c]) THEN "lookup"
                                   ELSE phase[d]]
    /\ UNCHANGED <<cores, space, victim, gate, memory, seen, toolCalls>>

\* open() and finish(Ok): a new Store, with a gate of its own.
OpenNamespace(c) ==
    /\ phase[c] = "opening"
    /\ cores' = [cores EXCEPT ![space[c]] = @ + 1]
    /\ entry' = [entry EXCEPT ![space[c]] = "ready"]
    /\ gate' = [gate EXCEPT ![space[c]] = Nobody]
    /\ To(c, "using")
    /\ UNCHANGED <<space, victim, memory, seen, toolCalls>>

\* finish(Err), or the guard's drop when open panics: every waiter gets the
\* error, and only then does the slot leave the map.
OpenNamespaceFails(c) ==
    /\ phase[c] = "opening"
    /\ entry' = [entry EXCEPT ![space[c]] = "failed"]
    /\ phase' = [d \in Callers |-> IF d = c THEN "failing"
                                   ELSE IF d \in Awaiting(space[c]) THEN "idle"
                                   ELSE phase[d]]
    /\ UNCHANGED <<cores, space, victim, gate, memory, seen, toolCalls>>

UnlistFailed(c) ==
    /\ phase[c] = "failing"
    /\ entry' = [entry EXCEPT ![space[c]] = "none"]
    /\ To(c, "idle")
    /\ UNCHANGED <<cores, space, victim, gate, memory, seen, toolCalls>>

\* wait() returns the store of a slot that is ready.
Obtain(c) ==
    /\ phase[c] = "waiting"
    /\ entry[space[c]] = "ready"
    /\ To(c, "using")
    /\ UNCHANGED <<entry, cores, space, victim, gate, memory, seen, toolCalls>>

-----------------------------------------------------------------------------
(* The operations.  Reads need no gate: they end with LetGo.               *)

\* The end of a call, refusals included; the store's reference goes, and the
\* gate if the caller has it.
LetGo(c) ==
    /\ phase[c] \in {"using", "gated"}
    /\ To(c, "idle")
    /\ gate' = [n \in Namespaces |-> IF gate[n] = c THEN Nobody ELSE gate[n]]
    /\ UNCHANGED <<entry, cores, space, victim, memory, seen, toolCalls>>

\* Defect: the document is read before the gate is taken.
BugTakeGate(c) ==
    /\ phase[c] = "using"
    /\ To(c, "gated")
    /\ seen' = [seen EXCEPT ![c] = memory[space[c]]]
    /\ UNCHANGED <<entry, cores, space, victim, gate, memory, toolCalls>>

\* remember and forget lock the gate and read what is there: the condition
\* of a conditional write is decided on it.
TakeGate(c) ==
    /\ phase[c] = "using"
    /\ gate[space[c]] = Nobody
    /\ gate' = [gate EXCEPT ![space[c]] = c]
    /\ seen' = [seen EXCEPT ![c] = memory[space[c]]]
    /\ To(c, "gated")
    /\ UNCHANGED <<entry, cores, space, victim, memory, toolCalls>>

\* A version that is not the one stored.
Another(v) == IF v = 1 THEN 2 ELSE 1

\* memorize_document with a fresh version, or delete_document.
WriteMemory(c) ==
    /\ phase[c] = "gated"
    /\ LET n == space[c] IN
       /\ \E v \in {0, Another(memory[n])} : memory' = [memory EXCEPT ![n] = v]
       /\ gate' = [gate EXCEPT ![n] = Nobody]
    /\ To(c, "idle")
    /\ UNCHANGED <<entry, cores, space, victim, seen, toolCalls>>

-----------------------------------------------------------------------------
Lookups(c) ==
    \/ Join(c) \/ Reserve(c) \/ ReserveEvicting(c) \/ TooManyStores(c)
    \/ CloseVictim(c) \/ UnlistVictim(c)
    \/ OpenNamespace(c) \/ OpenNamespaceFails(c) \/ UnlistFailed(c) \/ Obtain(c)
Operations(c) == LetGo(c) \/ TakeGate(c) \/ WriteMemory(c)

\* Some thread that can go on does; calls come when they like.
McpProgress == \E c \in Callers : Lookups(c) \/ Operations(c)
McpNext == McpProgress \/ (\E c \in Callers : Call(c))
McpFairness == WF_mcpVars(McpProgress)

McpSpec == McpInit /\ [][McpNext]_mcpVars
McpFairSpec == McpSpec /\ McpFairness

-----------------------------------------------------------------------------
\* store_with never opens a directory that this process still has open (it
\* would answer store_locked to itself), never closes the engine under a
\* caller that uses it, and never has more than max_stores engines open, the
\* one it is closing to make room included.
StoresBounded ==
    /\ \A n \in Namespaces : cores[n] <= 1
    /\ \A c \in Callers :
          /\ phase[c] = "opening" => cores[space[c]] = 0
          /\ phase[c] \in {"using", "gated"} => cores[space[c]] = 1
    /\ Cardinality({n \in Namespaces : cores[n] > 0}) <= MaxStores

\* Compare-and-set, create-only and prefix deletes are decided on what is
\* still stored when they write: between a writer's read under the gate and
\* its commit nobody else changes the memory, also when stores are closed
\* and reopened (each with a new gate) all the time.
DecidedOnCurrent ==
    \A c \in Callers : phase[c] = "gated" => memory[space[c]] = seen[c]

\* Every call returns: no waiter misses the opening, the failure or the
\* closing of the slot it waits for.
EveryToolCallReturns == []<>(\A c \in Callers : phase[c] = "idle")
=============================================================================
