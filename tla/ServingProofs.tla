---------------------------- MODULE ServingProofs ----------------------------
(***************************************************************************)
(* The theorems about what is opened to serve callers: the stores of the   *)
(* MCP server, whose tools decide under a gate of their own (McpStores),   *)
(* and the directory of a corpus under vector updates (VectorUpdates).     *)
(***************************************************************************)
EXTENDS McpStores, VectorUpdates, FiniteSetTheorems, SequenceTheorems, TLAPS

USE Zenon

-----------------------------------------------------------------------------
(***************************************************************************)
(* StoresBounded and DecidedOnCurrent of module McpStores for any callers, *)
(* namespaces and number of stores.                                        *)
(*                                                                         *)
(* The argument: the invariant says who answers for a slot.  A slot        *)
(* that is being opened, has failed or is being closed belongs to one      *)
(* caller, and a store in use is ready.  The stores open, and those whose  *)
(* caller has made room for them, are as many as the slots that count      *)
(* against max_stores.                                                     *)
(***************************************************************************)

Opening == {"evicting", "closed", "opening"}     \* callers with a slot to open
Owning == Opening \cup {"failing"}               \* ... or to remove
Closing == {"evicting", "closed"}                \* ... and one to close first

McpTypeOK ==
    /\ entry \in [Namespaces -> {"none", "opening", "ready", "closing", "failed"}]
    /\ cores \in [Namespaces -> {0, 1}]
    /\ phase \in [Callers -> Owning \cup {"idle", "lookup", "waiting", "using", "gated"}]
    /\ space \in [Callers -> Namespaces] /\ victim \in [Callers -> Namespaces]
    /\ gate \in [Namespaces -> Callers \cup {Nobody}]
    /\ memory \in [Namespaces -> Nat] /\ seen \in [Callers -> Nat]

\* Who owns which slot, and in which state the slot is then.
SlotsOwned ==
    /\ \A c \in Callers :
          /\ phase[c] \in Opening => entry[space[c]] = "opening"
          /\ phase[c] = "failing" => entry[space[c]] = "failed"
          /\ phase[c] \in Closing => entry[victim[c]] = "closing"
          /\ phase[c] \in {"using", "gated"} => entry[space[c]] = "ready"
    /\ \A c, d \in Callers :
          /\ phase[c] \in Owning /\ phase[d] \in Owning /\ space[c] = space[d] => c = d
          /\ phase[c] \in Closing /\ phase[d] \in Closing /\ victim[c] = victim[d] => c = d

\* An engine is open in a slot that is ready, and in one that a caller has
\* still to close.
CoresOwned ==
    \A n \in Namespaces :
        cores[n] = 1 <=> \/ entry[n] = "ready"
                         \/ \E c \in Callers : phase[c] = "evicting" /\ victim[c] = n

\* The gate of a store is held by the caller that reads and writes under it.
GatesOwned ==
    \A c \in Callers, n \in Namespaces :
        gate[n] = c <=> phase[c] = "gated" /\ space[c] = n

\* The engines open, and those that may be opened without closing another.
Claimed ==
    {n \in Namespaces : \/ cores[n] = 1
                        \/ \E c \in Callers : /\ phase[c] \in Owning \ {"evicting"}
                                              /\ space[c] = n}

MInv ==
    /\ McpTypeOK /\ SlotsOwned /\ CoresOwned /\ GatesOwned /\ DecidedOnCurrent
    /\ Cardinality(Claimed) = Cardinality(Occupied)
    /\ Cardinality(Occupied) <= MaxStores

-----------------------------------------------------------------------------
(* Slots are counted in finite sets.                                       *)
LEMMA CountsFinite ==
    /\ IsFiniteSet(Claimed) /\ Cardinality(Claimed) \in Nat
    /\ IsFiniteSet(Occupied) /\ Cardinality(Occupied) \in Nat
<1>1. Claimed \subseteq Namespaces /\ Occupied \subseteq Namespaces
  BY DEF Claimed, Occupied
<1>2. IsFiniteSet(Claimed) /\ IsFiniteSet(Occupied)
  BY <1>1, FS_Subset, McpStoresAssumption
<1> QED BY <1>2, FS_CardinalityType

(* How the size of a finite set changes with its elements.                 *)
LEMMA OneMore ==
    ASSUME NEW S, NEW x, IsFiniteSet(S), x \notin S
    PROVE  IsFiniteSet(S \cup {x}) /\ Cardinality(S \cup {x}) = Cardinality(S) + 1
  BY FS_AddElement

(* The same for an element taken out ...                                   *)
LEMMA OneLess ==
    ASSUME NEW S, NEW x, IsFiniteSet(S), x \in S
    PROVE  Cardinality(S \ {x}) = Cardinality(S) - 1
  BY FS_RemoveElement

(* ... and for one that takes another's place.                             *)
LEMMA OneForAnother ==
    ASSUME NEW S, NEW x, NEW y, IsFiniteSet(S), x \notin S, y \in S
    PROVE  Cardinality((S \cup {x}) \ {y}) = Cardinality(S)
<1>1. IsFiniteSet(S \cup {x}) /\ Cardinality(S \cup {x}) = Cardinality(S) + 1
  BY OneMore
<1>2. y \in S \cup {x}
  OBVIOUS
<1>3. Cardinality((S \cup {x}) \ {y}) = Cardinality(S \cup {x}) - 1
  BY <1>1, <1>2, OneLess
<1>4. Cardinality(S) \in Nat
  BY FS_CardinalityType
<1> QED BY SMT, <1>1, <1>3, <1>4

(* Before the first call no slot is taken.                                 *)
LEMMA McpInitial == McpInit => MInv
<1> SUFFICES ASSUME McpInit PROVE MInv
  OBVIOUS
<1>1. (CHOOSE n \in Namespaces : TRUE) \in Namespaces
  BY McpStoresAssumption
<1>2. McpTypeOK /\ SlotsOwned /\ CoresOwned /\ GatesOwned /\ DecidedOnCurrent
  BY SMT, <1>1, McpStoresAssumption
     DEF McpInit, DecidedOnCurrent, McpTypeOK, SlotsOwned, CoresOwned, GatesOwned, Owning,
         Opening, Closing
<1>3. Claimed = {} /\ Occupied = {}
  BY SMT DEF McpInit, Claimed, Occupied, Owning, Opening
<1> QED BY SMT, <1>2, <1>3, FS_EmptySet, McpStoresAssumption DEF MInv

(* Every step of store_with and of an operation keeps MInv.                *)
LEMMA McpStep == MInv /\ [McpNext]_mcpVars => MInv'
<1> SUFFICES ASSUME MInv, [McpNext]_mcpVars PROVE MInv'
  OBVIOUS
<1> USE McpStoresAssumption
<1>0. /\ McpTypeOK /\ SlotsOwned /\ CoresOwned /\ GatesOwned /\ DecidedOnCurrent
      /\ Cardinality(Claimed) = Cardinality(Occupied) /\ Cardinality(Occupied) <= MaxStores
  BY DEF MInv
<1>1. ASSUME NEW c \in Callers, Call(c) PROVE MInv'
  <2>1. (McpTypeOK /\ SlotsOwned /\ CoresOwned)'
    <3>1. McpTypeOK'
      BY SMT, <1>0, <1>1 DEF McpTypeOK, Owning, Opening, Closing, To, Call
    <3>2. SlotsOwned'
      BY SMT, <1>0, <1>1 DEF McpTypeOK, SlotsOwned, Owning, Opening, Closing, To, Call
    <3>3. CoresOwned'
      BY SMT, <1>0, <1>1
         DEF McpTypeOK, SlotsOwned, CoresOwned, Owning, Opening, Closing, To, Call
    <3> QED BY <3>1, <3>2, <3>3
  <2>2. (GatesOwned /\ DecidedOnCurrent)'
    BY SMT, <1>0, <1>1
       DEF McpTypeOK, SlotsOwned, GatesOwned, Owning, Opening, Closing, To,
           DecidedOnCurrent, Call
  <2>3. Claimed' = Claimed /\ Occupied' = Occupied
    <3>1. Claimed' = Claimed
      BY SMT, <1>0, <1>1
         DEF McpTypeOK, SlotsOwned, CoresOwned, Owning, Opening, Closing, To, Claimed,
             Call
    <3>2. Occupied' = Occupied
      BY SMT, <1>0, <1>1
         DEF McpTypeOK, SlotsOwned, CoresOwned, Owning, Opening, Closing, To, Occupied,
             Call
    <3> QED BY <3>1, <3>2
  <2> QED BY <1>0, <2>1, <2>2, <2>3 DEF MInv
<1>2. ASSUME NEW c \in Callers, Join(c) PROVE MInv'
  <2>1. (McpTypeOK /\ SlotsOwned /\ CoresOwned)'
    <3>1. McpTypeOK'
      BY SMT, <1>0, <1>2 DEF McpTypeOK, Owning, Opening, Closing, To, Join
    <3>2. SlotsOwned'
      BY SMT, <1>0, <1>2 DEF McpTypeOK, SlotsOwned, Owning, Opening, Closing, To, Join
    <3>3. CoresOwned'
      BY SMT, <1>0, <1>2
         DEF McpTypeOK, SlotsOwned, CoresOwned, Owning, Opening, Closing, To, Join
    <3> QED BY <3>1, <3>2, <3>3
  <2>2. (GatesOwned /\ DecidedOnCurrent)'
    BY SMT, <1>0, <1>2
       DEF McpTypeOK, SlotsOwned, GatesOwned, Owning, Opening, Closing, To,
           DecidedOnCurrent, Join
  <2>3. Claimed' = Claimed /\ Occupied' = Occupied
    <3>1. Claimed' = Claimed
      BY SMT, <1>0, <1>2
         DEF McpTypeOK, SlotsOwned, CoresOwned, Owning, Opening, Closing, To, Claimed,
             Join
    <3>2. Occupied' = Occupied
      BY SMT, <1>0, <1>2
         DEF McpTypeOK, SlotsOwned, CoresOwned, Owning, Opening, Closing, To, Occupied,
             Join
    <3> QED BY <3>1, <3>2
  <2> QED BY <1>0, <2>1, <2>2, <2>3 DEF MInv
<1>3. ASSUME NEW c \in Callers, Reserve(c) PROVE MInv'
  <2>1. (McpTypeOK /\ SlotsOwned /\ CoresOwned)'
    <3>1. McpTypeOK'
      BY SMT, <1>0, <1>3 DEF McpTypeOK, Owning, Opening, Closing, To, Reserve
    <3>2. SlotsOwned'
      BY SMT, <1>0, <1>3 DEF McpTypeOK, SlotsOwned, Owning, Opening, Closing, To, Reserve
    <3>3. CoresOwned'
      BY SMT, <1>0, <1>3
         DEF McpTypeOK, SlotsOwned, CoresOwned, Owning, Opening, Closing, To, Reserve
    <3> QED BY <3>1, <3>2, <3>3
  <2>2. (GatesOwned /\ DecidedOnCurrent)'
    BY SMT, <1>0, <1>3
       DEF McpTypeOK, SlotsOwned, GatesOwned, Owning, Opening, Closing, To,
           DecidedOnCurrent, Reserve
  <2>3. Cardinality(Claimed') = Cardinality(Occupied') /\ Cardinality(Occupied') <= MaxStores
    <3>1. Occupied' = Occupied \cup {space[c]} /\ space[c] \notin Occupied
      BY SMT, <1>0, <1>3
         DEF McpTypeOK, SlotsOwned, CoresOwned, Owning, Opening, Closing, To, Occupied,
             Reserve
    <3>2. Claimed' = Claimed \cup {space[c]} /\ space[c] \notin Claimed
      BY SMT, <1>0, <1>3
         DEF McpTypeOK, SlotsOwned, CoresOwned, Owning, Opening, Closing, To, Claimed,
             Reserve
    <3>3. Cardinality(Occupied) < MaxStores
      BY <1>3 DEF Reserve
    <3>4. /\ Cardinality(Occupied') = Cardinality(Occupied) + 1
          /\ Cardinality(Claimed') = Cardinality(Claimed) + 1
      BY <3>1, <3>2, CountsFinite, OneMore
    <3> QED BY SMT, <1>0, <3>3, <3>4, CountsFinite
  <2> QED BY <2>1, <2>2, <2>3 DEF MInv
<1>4. ASSUME NEW c \in Callers, ReserveEvicting(c) PROVE MInv'
  <2>1. (McpTypeOK /\ SlotsOwned /\ CoresOwned)'
    <3>1. McpTypeOK'
      BY SMT, <1>0, <1>4
         DEF McpTypeOK, Owning, Opening, Closing, To, ReserveEvicting, Idle, Users
    <3>2. SlotsOwned'
      BY SMT, <1>0, <1>4
         DEF McpTypeOK, SlotsOwned, Owning, Opening, Closing, To, ReserveEvicting, Idle,
             Users
    <3>3. CoresOwned'
      BY SMT, <1>0, <1>4
         DEF McpTypeOK, SlotsOwned, CoresOwned, Owning, Opening, Closing, To,
             ReserveEvicting, Idle, Users
    <3> QED BY <3>1, <3>2, <3>3
  <2>2. (GatesOwned /\ DecidedOnCurrent)'
    BY SMT, <1>0, <1>4
       DEF McpTypeOK, SlotsOwned, GatesOwned, Owning, Opening, Closing, To,
           DecidedOnCurrent, ReserveEvicting, Idle, Users
  <2>3. Cardinality(Claimed') = Cardinality(Occupied') /\ Cardinality(Occupied') <= MaxStores
    <3>1. PICK old \in Idle : entry' = [entry EXCEPT ![space[c]] = "opening", ![old] = "closing"]
      BY <1>4 DEF ReserveEvicting
    <3>2. /\ Occupied' = (Occupied \cup {space[c]}) \ {old}
          /\ space[c] \notin Occupied /\ old \in Occupied
      BY SMT, <1>0, <1>4, <3>1
         DEF McpTypeOK, SlotsOwned, CoresOwned, Owning, Opening, Closing, To, Occupied,
             Idle, ReserveEvicting
    <3>3. Claimed' = Claimed
      BY SMT, <1>0, <1>4
         DEF McpTypeOK, SlotsOwned, CoresOwned, Owning, Opening, Closing, To, Claimed,
             ReserveEvicting
    <3>4. Cardinality(Occupied') = Cardinality(Occupied)
      BY <3>2, CountsFinite, OneForAnother
    <3> QED BY <1>0, <3>3, <3>4
  <2> QED BY <2>1, <2>2, <2>3 DEF MInv
<1>5. ASSUME NEW c \in Callers, TooManyStores(c) PROVE MInv'
  <2>1. (McpTypeOK /\ SlotsOwned /\ CoresOwned)'
    <3>1. McpTypeOK'
      BY SMT, <1>0, <1>5 DEF McpTypeOK, Owning, Opening, Closing, To, TooManyStores
    <3>2. SlotsOwned'
      BY SMT, <1>0, <1>5
         DEF McpTypeOK, SlotsOwned, Owning, Opening, Closing, To, TooManyStores
    <3>3. CoresOwned'
      BY SMT, <1>0, <1>5
         DEF McpTypeOK, SlotsOwned, CoresOwned, Owning, Opening, Closing, To,
             TooManyStores
    <3> QED BY <3>1, <3>2, <3>3
  <2>2. (GatesOwned /\ DecidedOnCurrent)'
    BY SMT, <1>0, <1>5
       DEF McpTypeOK, SlotsOwned, GatesOwned, Owning, Opening, Closing, To,
           DecidedOnCurrent, TooManyStores
  <2>3. Claimed' = Claimed /\ Occupied' = Occupied
    <3>1. Claimed' = Claimed
      BY SMT, <1>0, <1>5
         DEF McpTypeOK, SlotsOwned, CoresOwned, Owning, Opening, Closing, To, Claimed,
             TooManyStores
    <3>2. Occupied' = Occupied
      BY SMT, <1>0, <1>5
         DEF McpTypeOK, SlotsOwned, CoresOwned, Owning, Opening, Closing, To, Occupied,
             TooManyStores
    <3> QED BY <3>1, <3>2
  <2> QED BY <1>0, <2>1, <2>2, <2>3 DEF MInv
<1>6. ASSUME NEW c \in Callers, CloseVictim(c) PROVE MInv'
  <2>1. (McpTypeOK /\ SlotsOwned /\ CoresOwned)'
    <3>1. McpTypeOK'
      BY SMT, <1>0, <1>6
         DEF McpTypeOK, SlotsOwned, CoresOwned, Owning, Opening, Closing, To, CloseVictim
    <3>2. SlotsOwned'
      BY SMT, <1>0, <1>6
         DEF McpTypeOK, SlotsOwned, Owning, Opening, Closing, To, CloseVictim
    <3>3. CoresOwned'
      BY SMT, <1>0, <1>6
         DEF McpTypeOK, SlotsOwned, CoresOwned, Owning, Opening, Closing, To, CloseVictim
    <3> QED BY <3>1, <3>2, <3>3
  <2>2. (GatesOwned /\ DecidedOnCurrent)'
    BY SMT, <1>0, <1>6
       DEF McpTypeOK, SlotsOwned, GatesOwned, Owning, Opening, Closing, To,
           DecidedOnCurrent, CloseVictim
  <2>3. Cardinality(Claimed') = Cardinality(Occupied') /\ Cardinality(Occupied') <= MaxStores
    <3>1. Occupied' = Occupied
      BY <1>0, <1>6
         DEF McpTypeOK, SlotsOwned, CoresOwned, Owning, Opening, Closing, To, Occupied,
             CloseVictim
    <3>2. /\ Claimed' = (Claimed \cup {space[c]}) \ {victim[c]}
          /\ space[c] \notin Claimed /\ victim[c] \in Claimed
      BY SMT, <1>0, <1>6
         DEF McpTypeOK, SlotsOwned, CoresOwned, Owning, Opening, Closing, To, Claimed,
             CloseVictim
    <3>3. Cardinality(Claimed') = Cardinality(Claimed)
      BY <3>2, CountsFinite, OneForAnother
    <3> QED BY <1>0, <3>1, <3>3
  <2> QED BY <2>1, <2>2, <2>3 DEF MInv
<1>7. ASSUME NEW c \in Callers, UnlistVictim(c) PROVE MInv'
  <2>1. (McpTypeOK /\ SlotsOwned /\ CoresOwned)'
    <3>1. McpTypeOK'
      BY SMT, <1>0, <1>7
         DEF McpTypeOK, Owning, Opening, Closing, To, UnlistVictim, Awaiting
    <3>2. SlotsOwned'
      BY SMT, <1>0, <1>7
         DEF McpTypeOK, SlotsOwned, Owning, Opening, Closing, To, UnlistVictim, Awaiting
    <3>3. CoresOwned'
      BY SMT, <1>0, <1>7
         DEF McpTypeOK, SlotsOwned, CoresOwned, Owning, Opening, Closing, To,
             UnlistVictim, Awaiting
    <3> QED BY <3>1, <3>2, <3>3
  <2>2. (GatesOwned /\ DecidedOnCurrent)'
    BY SMT, <1>0, <1>7
       DEF McpTypeOK, SlotsOwned, GatesOwned, Owning, Opening, Closing, To,
           DecidedOnCurrent, UnlistVictim, Awaiting
  <2>3. Claimed' = Claimed /\ Occupied' = Occupied
    <3>1. Claimed' = Claimed
      BY SMT, <1>0, <1>7
         DEF McpTypeOK, SlotsOwned, CoresOwned, Owning, Opening, Closing, To, Claimed,
             UnlistVictim, Awaiting
    <3>2. Occupied' = Occupied
      BY SMT, <1>0, <1>7
         DEF McpTypeOK, SlotsOwned, CoresOwned, Owning, Opening, Closing, To, Occupied,
             UnlistVictim, Awaiting
    <3> QED BY <3>1, <3>2
  <2> QED BY <1>0, <2>1, <2>2, <2>3 DEF MInv
<1>8. ASSUME NEW c \in Callers, OpenNamespace(c) PROVE MInv'
  <2>1. (McpTypeOK /\ SlotsOwned /\ CoresOwned)'
    <3>1. McpTypeOK'
      BY SMT, <1>0, <1>8
         DEF McpTypeOK, SlotsOwned, CoresOwned, Owning, Opening, Closing, To,
             OpenNamespace
    <3>2. SlotsOwned'
      BY SMT, <1>0, <1>8
         DEF McpTypeOK, SlotsOwned, Owning, Opening, Closing, To, OpenNamespace
    <3>3. CoresOwned'
      BY SMT, <1>0, <1>8
         DEF McpTypeOK, SlotsOwned, CoresOwned, Owning, Opening, Closing, To,
             OpenNamespace
    <3> QED BY <3>1, <3>2, <3>3
  <2>2. (GatesOwned /\ DecidedOnCurrent)'
    BY SMT, <1>0, <1>8
       DEF McpTypeOK, SlotsOwned, GatesOwned, Owning, Opening, Closing, To,
           DecidedOnCurrent, OpenNamespace
  <2>3. Claimed' = Claimed /\ Occupied' = Occupied
    <3>1. Claimed' = Claimed
      BY SMT, <1>0, <1>8
         DEF McpTypeOK, SlotsOwned, CoresOwned, Owning, Opening, Closing, To, Claimed,
             OpenNamespace
    <3>2. Occupied' = Occupied
      BY SMT, <1>0, <1>8
         DEF McpTypeOK, SlotsOwned, CoresOwned, Owning, Opening, Closing, To, Occupied,
             OpenNamespace
    <3> QED BY <3>1, <3>2
  <2> QED BY <1>0, <2>1, <2>2, <2>3 DEF MInv
<1>9. ASSUME NEW c \in Callers, OpenNamespaceFails(c) PROVE MInv'
  <2>1. (McpTypeOK /\ SlotsOwned /\ CoresOwned)'
    <3>1. McpTypeOK'
      BY SMT, <1>0, <1>9
         DEF McpTypeOK, Owning, Opening, Closing, To, OpenNamespaceFails, Awaiting
    <3>2. SlotsOwned'
      BY SMT, <1>0, <1>9
         DEF McpTypeOK, SlotsOwned, Owning, Opening, Closing, To, OpenNamespaceFails,
             Awaiting
    <3>3. CoresOwned'
      BY SMT, <1>0, <1>9
         DEF McpTypeOK, SlotsOwned, CoresOwned, Owning, Opening, Closing, To,
             OpenNamespaceFails, Awaiting
    <3> QED BY <3>1, <3>2, <3>3
  <2>2. (GatesOwned /\ DecidedOnCurrent)'
    BY SMT, <1>0, <1>9
       DEF McpTypeOK, SlotsOwned, GatesOwned, Owning, Opening, Closing, To,
           DecidedOnCurrent, OpenNamespaceFails, Awaiting
  <2>3. Claimed' = Claimed /\ Occupied' = Occupied
    <3>1. Claimed' = Claimed
      BY SMT, <1>0, <1>9
         DEF McpTypeOK, SlotsOwned, CoresOwned, Owning, Opening, Closing, To, Claimed,
             OpenNamespaceFails, Awaiting
    <3>2. Occupied' = Occupied
      BY SMT, <1>0, <1>9
         DEF McpTypeOK, SlotsOwned, CoresOwned, Owning, Opening, Closing, To, Occupied,
             OpenNamespaceFails, Awaiting
    <3> QED BY <3>1, <3>2
  <2> QED BY <1>0, <2>1, <2>2, <2>3 DEF MInv
<1>10. ASSUME NEW c \in Callers, UnlistFailed(c) PROVE MInv'
  <2>1. (McpTypeOK /\ SlotsOwned /\ CoresOwned)'
    <3>1. McpTypeOK'
      BY SMT, <1>0, <1>10 DEF McpTypeOK, Owning, Opening, Closing, To, UnlistFailed
    <3>2. SlotsOwned'
      BY SMT, <1>0, <1>10
         DEF McpTypeOK, SlotsOwned, Owning, Opening, Closing, To, UnlistFailed
    <3>3. CoresOwned'
      BY SMT, <1>0, <1>10
         DEF McpTypeOK, SlotsOwned, CoresOwned, Owning, Opening, Closing, To, UnlistFailed
    <3> QED BY <3>1, <3>2, <3>3
  <2>2. (GatesOwned /\ DecidedOnCurrent)'
    BY SMT, <1>0, <1>10
       DEF McpTypeOK, SlotsOwned, GatesOwned, Owning, Opening, Closing, To,
           DecidedOnCurrent, UnlistFailed
  <2>3. Cardinality(Claimed') = Cardinality(Occupied') /\ Cardinality(Occupied') <= MaxStores
    <3>1. Occupied' = Occupied \ {space[c]} /\ space[c] \in Occupied
      BY SMT, <1>0, <1>10
         DEF McpTypeOK, SlotsOwned, CoresOwned, Owning, Opening, Closing, To, Occupied,
             UnlistFailed
    <3>2. Claimed' = Claimed \ {space[c]} /\ space[c] \in Claimed
      BY SMT, <1>0, <1>10
         DEF McpTypeOK, SlotsOwned, CoresOwned, Owning, Opening, Closing, To, Claimed,
             UnlistFailed
    <3>3. /\ Cardinality(Occupied') = Cardinality(Occupied) - 1
          /\ Cardinality(Claimed') = Cardinality(Claimed) - 1
      BY <3>1, <3>2, CountsFinite, OneLess
    <3> QED BY SMT, <1>0, <3>3, CountsFinite
  <2> QED BY <2>1, <2>2, <2>3 DEF MInv
<1>11. ASSUME NEW c \in Callers, Obtain(c) PROVE MInv'
  <2>1. (McpTypeOK /\ SlotsOwned /\ CoresOwned)'
    <3>1. McpTypeOK'
      BY SMT, <1>0, <1>11 DEF McpTypeOK, Owning, Opening, Closing, To, Obtain
    <3>2. SlotsOwned'
      BY SMT, <1>0, <1>11 DEF McpTypeOK, SlotsOwned, Owning, Opening, Closing, To, Obtain
    <3>3. CoresOwned'
      BY SMT, <1>0, <1>11
         DEF McpTypeOK, SlotsOwned, CoresOwned, Owning, Opening, Closing, To, Obtain
    <3> QED BY <3>1, <3>2, <3>3
  <2>2. (GatesOwned /\ DecidedOnCurrent)'
    BY SMT, <1>0, <1>11
       DEF McpTypeOK, SlotsOwned, GatesOwned, Owning, Opening, Closing, To,
           DecidedOnCurrent, Obtain
  <2>3. Claimed' = Claimed /\ Occupied' = Occupied
    <3>1. Claimed' = Claimed
      BY SMT, <1>0, <1>11
         DEF McpTypeOK, SlotsOwned, CoresOwned, Owning, Opening, Closing, To, Claimed,
             Obtain
    <3>2. Occupied' = Occupied
      BY SMT, <1>0, <1>11
         DEF McpTypeOK, SlotsOwned, CoresOwned, Owning, Opening, Closing, To, Occupied,
             Obtain
    <3> QED BY <3>1, <3>2
  <2> QED BY <1>0, <2>1, <2>2, <2>3 DEF MInv
<1>12. ASSUME NEW c \in Callers, LetGo(c) PROVE MInv'
  <2>1. (McpTypeOK /\ SlotsOwned /\ CoresOwned)'
    <3>1. McpTypeOK'
      BY SMT, <1>0, <1>12 DEF McpTypeOK, Owning, Opening, Closing, To, LetGo
    <3>2. SlotsOwned'
      BY SMT, <1>0, <1>12 DEF McpTypeOK, SlotsOwned, Owning, Opening, Closing, To, LetGo
    <3>3. CoresOwned'
      BY SMT, <1>0, <1>12
         DEF McpTypeOK, SlotsOwned, CoresOwned, Owning, Opening, Closing, To, LetGo
    <3> QED BY <3>1, <3>2, <3>3
  <2>2. (GatesOwned /\ DecidedOnCurrent)'
    BY SMT, <1>0, <1>12
       DEF McpTypeOK, SlotsOwned, GatesOwned, Owning, Opening, Closing, To,
           DecidedOnCurrent, LetGo
  <2>3. Claimed' = Claimed /\ Occupied' = Occupied
    <3>1. Claimed' = Claimed
      BY SMT, <1>0, <1>12
         DEF McpTypeOK, SlotsOwned, CoresOwned, Owning, Opening, Closing, To, Claimed,
             LetGo
    <3>2. Occupied' = Occupied
      BY SMT, <1>0, <1>12
         DEF McpTypeOK, SlotsOwned, CoresOwned, Owning, Opening, Closing, To, Occupied,
             LetGo
    <3> QED BY <3>1, <3>2
  <2> QED BY <1>0, <2>1, <2>2, <2>3 DEF MInv
<1>13. ASSUME NEW c \in Callers, TakeGate(c) PROVE MInv'
  <2>1. (McpTypeOK /\ SlotsOwned /\ CoresOwned)'
    <3>1. McpTypeOK'
      BY SMT, <1>0, <1>13 DEF McpTypeOK, Owning, Opening, Closing, To, TakeGate
    <3>2. SlotsOwned'
      BY SMT, <1>0, <1>13
         DEF McpTypeOK, SlotsOwned, Owning, Opening, Closing, To, TakeGate
    <3>3. CoresOwned'
      BY SMT, <1>0, <1>13
         DEF McpTypeOK, SlotsOwned, CoresOwned, Owning, Opening, Closing, To, TakeGate
    <3> QED BY <3>1, <3>2, <3>3
  <2>2. (GatesOwned /\ DecidedOnCurrent)'
    BY SMT, <1>0, <1>13
       DEF McpTypeOK, SlotsOwned, GatesOwned, Owning, Opening, Closing, To,
           DecidedOnCurrent, TakeGate
  <2>3. Claimed' = Claimed /\ Occupied' = Occupied
    <3>1. Claimed' = Claimed
      BY SMT, <1>0, <1>13
         DEF McpTypeOK, SlotsOwned, CoresOwned, Owning, Opening, Closing, To, Claimed,
             TakeGate
    <3>2. Occupied' = Occupied
      BY SMT, <1>0, <1>13
         DEF McpTypeOK, SlotsOwned, CoresOwned, Owning, Opening, Closing, To, Occupied,
             TakeGate
    <3> QED BY <3>1, <3>2
  <2> QED BY <1>0, <2>1, <2>2, <2>3 DEF MInv
<1>14. ASSUME NEW c \in Callers, WriteMemory(c) PROVE MInv'
  <2>1. (McpTypeOK /\ SlotsOwned /\ CoresOwned)'
    <3>1. McpTypeOK'
      BY SMT, <1>0, <1>14 DEF McpTypeOK, Owning, Opening, Closing, To, WriteMemory, Another
    <3>2. SlotsOwned'
      BY SMT, <1>0, <1>14
         DEF McpTypeOK, SlotsOwned, Owning, Opening, Closing, To, WriteMemory, Another
    <3>3. CoresOwned'
      BY SMT, <1>0, <1>14
         DEF McpTypeOK, SlotsOwned, CoresOwned, Owning, Opening, Closing, To, WriteMemory,
             Another
    <3> QED BY <3>1, <3>2, <3>3
  <2>2. (GatesOwned /\ DecidedOnCurrent)'
    BY SMT, <1>0, <1>14
       DEF McpTypeOK, SlotsOwned, GatesOwned, Owning, Opening, Closing, To,
           DecidedOnCurrent, WriteMemory, Another
  <2>3. Claimed' = Claimed /\ Occupied' = Occupied
    <3>1. Claimed' = Claimed
      BY SMT, <1>0, <1>14
         DEF McpTypeOK, SlotsOwned, CoresOwned, Owning, Opening, Closing, To, Claimed,
             WriteMemory, Another
    <3>2. Occupied' = Occupied
      BY SMT, <1>0, <1>14
         DEF McpTypeOK, SlotsOwned, CoresOwned, Owning, Opening, Closing, To, Occupied,
             WriteMemory, Another
    <3> QED BY <3>1, <3>2
  <2> QED BY <1>0, <2>1, <2>2, <2>3 DEF MInv
<1>15. CASE UNCHANGED mcpVars
  <2>1. (McpTypeOK /\ SlotsOwned /\ CoresOwned)'
    <3>1. McpTypeOK'
      BY SMT, <1>0, <1>15 DEF McpTypeOK, Owning, Opening, Closing, To, mcpVars
    <3>2. SlotsOwned'
      BY SMT, <1>0, <1>15 DEF McpTypeOK, SlotsOwned, Owning, Opening, Closing, To, mcpVars
    <3>3. CoresOwned'
      BY SMT, <1>0, <1>15
         DEF McpTypeOK, SlotsOwned, CoresOwned, Owning, Opening, Closing, To, mcpVars
    <3> QED BY <3>1, <3>2, <3>3
  <2>2. (GatesOwned /\ DecidedOnCurrent)'
    BY SMT, <1>0, <1>15
       DEF McpTypeOK, SlotsOwned, GatesOwned, Owning, Opening, Closing, To,
           DecidedOnCurrent, mcpVars
  <2>3. Claimed' = Claimed /\ Occupied' = Occupied
    BY <1>15 DEF Claimed, Occupied, mcpVars
  <2> QED BY <1>0, <2>1, <2>2, <2>3 DEF MInv
<1> QED
  BY <1>1, <1>2, <1>3, <1>4, <1>5, <1>6, <1>7,
     <1>8, <1>9, <1>10, <1>11, <1>12, <1>13, <1>14, <1>15
     DEF McpNext, McpProgress, Lookups, Operations

-----------------------------------------------------------------------------
(* The invariant of the slots, the engines and the gates.                  *)
THEOREM McpInvariant == McpSpec => []MInv
  BY McpInitial, McpStep, PTL DEF McpSpec

(* store.rs, store_with: no directory is opened twice, no engine is closed *)
(* under its users, and at most max_stores are open.                       *)
THEOREM McpStoresBounded == McpSpec => []StoresBounded
<1>1. MInv => StoresBounded
  <2> SUFFICES ASSUME MInv PROVE StoresBounded
    OBVIOUS
  <2>1. /\ \A n \in Namespaces : cores[n] <= 1
        /\ \A c \in Callers :
              /\ phase[c] = "opening" => cores[space[c]] = 0
              /\ phase[c] \in {"using", "gated"} => cores[space[c]] = 1
    BY SMT DEF MInv, McpTypeOK, SlotsOwned, CoresOwned, Owning, Opening, Closing
  <2>2. {n \in Namespaces : cores[n] > 0} \subseteq Claimed
    BY SMT DEF MInv, McpTypeOK, Claimed
  <2>3. /\ IsFiniteSet({n \in Namespaces : cores[n] > 0})
        /\ Cardinality({n \in Namespaces : cores[n] > 0}) <= Cardinality(Claimed)
    BY <2>2, CountsFinite, FS_Subset
  <2>4. Cardinality({n \in Namespaces : cores[n] > 0}) \in Nat
    BY <2>3, FS_CardinalityType
  <2> QED BY SMT, <2>1, <2>3, <2>4, CountsFinite, McpStoresAssumption DEF MInv,
      StoresBounded
<1> QED BY <1>1, McpInvariant, PTL

(* store.rs, remember and forget: what a conditional write was decided on  *)
(* is still stored when it is written.                                     *)
THEOREM McpDecidedOnCurrent == McpSpec => []DecidedOnCurrent
<1>1. MInv => DecidedOnCurrent
  BY DEF MInv
<1> QED BY <1>1, McpInvariant, PTL

-----------------------------------------------------------------------------
(***************************************************************************)
(* Module VectorUpdates for any ids, threads and bounds: no power loss     *)
(* leaves CURRENT without the files it names, and no step touches the      *)
(* generation in use.                                                      *)
(***************************************************************************)

\* What a directory's base needs depends on CURRENT and on the files of that generation.
LEMMA BaseOpensCongruence ==
    ASSUME NEW d, NEW e, NEW s \in Number,
           d[Rows(s)] = e[Rows(s)], d[Vertex(s)] = e[Vertex(s)], BaseOpens(d, s)
    PROVE  BaseOpens(e, s)
BY DEF BaseOpens

\* The names of files are distinct.
LEMMA FileNames ==
    /\ Current # Log /\ Current \notin Generations /\ Log \notin Generations
    /\ \A s \in Number : Rows(s) \in Generations /\ Vertex(s) \in Generations
    /\ \A s \in Number : Rows(s)[2] = s /\ Vertex(s)[2] = s
    /\ \A s, r \in Number : Rows(s) # Vertex(r)
BY DEF Current, Log, Rows, Vertex, Generations

\* Rows are never taken for a missing file.
LEMMA ViewIsAFile == \A v \in View : v # NoFile
<1> SUFFICES ASSUME NEW v \in View, v = NoFile PROVE FALSE
  OBVIOUS
<1>1. PICK i \in Id : TRUE
  BY VectorUpdatesAssumption
<1>2. v[i] \in Val \cup {Absent} /\ v[i] = -1
  BY DEF View, NoFile
<1> QED BY SMT, <1>2, VectorUpdatesAssumption DEF Val, Absent, Original

\* A rename or unlink of a file of another generation than the one CURRENT names.
LEMMA RenameGeneration ==
    ASSUME FilesInv, NEW f \in Generations, NEW c, f[2] # disk[Current], Renamed(f, c)
    PROVE  /\ FilesInv' /\ disk'[Current] = disk[Current] /\ disk'[Log] = disk[Log]
           /\ disk'[f] = c /\ \A g \in File : g # f => disk'[g] = disk[g]
<1> DEFINE e == [disk EXCEPT ![f] = c]
<1>1. DirOK(disk) /\ disk' = e /\ survivors' = survivors \cup {e}
  BY DEF FilesInv, Renamed
<1>2. /\ e = [g \in File |-> e[g]]
      /\ \A g \in File : g # f => e[g] = disk[g]
      /\ e[f] = c
  BY <1>1 DEF DirOK, File
<1>3. e[Current] = disk[Current] /\ e[Log] = disk[Log] /\ disk[Current] \in Number
  BY <1>1, <1>2, FileNames DEF DirOK, File
<1>4. \A g \in Generations : g[2] = disk[Current] => e[g] = disk[g]
  BY <1>2 DEF File
<1>5. BaseOpens(e, e[Current])
  <2>1. /\ disk[Rows(disk[Current])] = e[Rows(disk[Current])]
        /\ disk[Vertex(disk[Current])] = e[Vertex(disk[Current])]
    BY <1>3, <1>4, FileNames
  <2>2. BaseOpens(disk, disk[Current])
    BY <1>1 DEF DirOK
  <2> HIDE DEF e
  <2>3. BaseOpens(e, disk[Current])
    BY <1>3, <2>1, <2>2, BaseOpensCongruence
  <2> QED BY <1>3, <2>3
<1>6. DirOK(e)
  BY <1>1, <1>2, <1>3, <1>5 DEF DirOK
<1>7. \A d \in survivors \cup {e} : e[Current] = d[Current] =>
          \A g \in Generations : g[2] = e[Current] => d[g] = e[g]
  BY <1>3, <1>4 DEF FilesInv, SameBase
<1>8. FilesInv'
  BY <1>1, <1>6, <1>7 DEF FilesInv, SameBase, DirOK
<1> QED BY <1>1, <1>2, <1>3, <1>8

\* sync_directory leaves one outcome.
LEMMA SyncKeepsFiles ==
    ASSUME FilesInv, DirectorySynced
    PROVE  FilesInv' /\ disk' = disk /\ survivors' = {disk}'
BY DEF FilesInv, DirectorySynced, DirOK, SameBase

\* Another content of the log.
LEMMA DirWithLog ==
    ASSUME NEW d, DirOK(d), NEW l \in LogRecord, l.origin + Len(l.frames) <= MaxCommits
    PROVE  /\ DirOK([d EXCEPT ![Log] = l])
           /\ [d EXCEPT ![Log] = l][Log] = l /\ [d EXCEPT ![Log] = l][Current] = d[Current]
           /\ \A f \in Generations : [d EXCEPT ![Log] = l][f] = d[f]
<1> DEFINE e == [d EXCEPT ![Log] = l]
<1>1. /\ e = [g \in File |-> e[g]]
      /\ \A g \in File : g # Log => e[g] = d[g]
      /\ e[Log] = l
  BY DEF DirOK, File
<1>2. e[Current] = d[Current] /\ d[Current] \in Number /\ \A f \in Generations : e[f] = d[f]
  BY <1>1, FileNames DEF DirOK, File
<1>3. BaseOpens(e, e[Current])
  <2>1. /\ d[Rows(d[Current])] = e[Rows(d[Current])]
        /\ d[Vertex(d[Current])] = e[Vertex(d[Current])]
    BY <1>2, FileNames
  <2>2. BaseOpens(d, d[Current])
    BY DEF DirOK
  <2> HIDE DEF e
  <2>3. BaseOpens(e, d[Current])
    BY <1>2, <2>1, <2>2, BaseOpensCongruence
  <2> QED BY <1>2, <2>3
<1>4. DirOK(e)
  BY <1>1, <1>2, <1>3 DEF DirOK
<1> QED BY <1>1, <1>2, <1>4

\* A write to the log file, in every directory that has this file.
LEMMA LogFileKeepsFiles ==
    ASSUME FilesInv, NEW l \in LogRecord, l.origin + Len(l.frames) <= MaxCommits, LogFile(l)
    PROVE  /\ FilesInv' /\ disk'[Log] = l /\ disk'[Current] = disk[Current]
           /\ \A f \in Generations : disk'[f] = disk[f]
<1> DEFINE with(d) == [d EXCEPT ![Log] = l]
           after(d) == IF d[Log] = disk[Log] THEN with(d) ELSE d
<1>1. disk' = with(disk) /\ survivors' = {after(d) : d \in survivors} /\ disk \in survivors
  BY DEF LogFile, FilesInv
<1>2. \A d \in survivors : /\ DirOK(with(d)) /\ with(d)[Log] = l /\ with(d)[Current] = d[Current]
                           /\ \A f \in Generations : with(d)[f] = d[f]
  BY DirWithLog DEF FilesInv
<1>3. /\ disk'[Log] = l /\ disk'[Current] = disk[Current]
      /\ \A f \in Generations : disk'[f] = disk[f]
  BY <1>1, <1>2
<1>4. \A d \in survivors : /\ DirOK(after(d)) /\ after(d)[Current] = d[Current]
                           /\ \A f \in Generations : after(d)[f] = d[f]
  <2> HIDE DEF with
  <2> QED BY <1>2 DEF FilesInv
<1> HIDE DEF with, after
<1>5. disk' \in survivors'
  BY <1>1 DEF after
<1>6. ASSUME NEW e \in survivors'
      PROVE  /\ DirOK(e)
             /\ e[Current] = disk'[Current] =>
                   \A f \in Generations : f[2] = disk'[Current] => e[f] = disk'[f]
  <2>1. PICK d \in survivors : e = after(d)
    BY <1>1, <1>6
  <2>2. SameBase(d)
    BY DEF FilesInv
  <2> QED BY <1>3, <1>4, <2>1, <2>2 DEF SameBase
<1>7. FilesInv'
  BY <1>5, <1>6 DEF FilesInv, DirOK, SameBase
<1> QED BY <1>3, <1>7

\* The first elements of a sequence.
LEMMA PrefixOfSeq ==
    ASSUME NEW S, NEW s \in Seq(S), NEW n \in Nat, n <= Len(s)
    PROVE  SubSeq(s, 1, n) \in Seq(S) /\ Len(SubSeq(s, 1, n)) = n
<1>1. \A i \in 1 .. n : s[i] \in S
  BY SMT
<1> QED BY SMT, <1>1, SubSeqProperties

\* The first frames of a log, as a write at log_end or a power loss keeps them.
LEMMA PrefixOfFrames ==
    ASSUME NEW s \in Frames, NEW n \in Nat, n <= Len(s)
    PROVE  SubSeq(s, 1, n) \in Frames /\ Len(SubSeq(s, 1, n)) = n
BY PrefixOfSeq DEF Frames

\* The empty batch.
LEMMA NoOpsIsABatch == NoOps \in Batch
<1>1. NoOps \in [{} -> Operation]
  BY SMT DEF NoOps
<1> QED BY <1>1 DEF Batch

\* create leaves one directory, with the base it was created from.
LEMMA VectorInit == Init => VectorInv
<1> SUFFICES ASSUME Init PROVE VectorInv
  OBVIOUS
<1>1. PICK v \in {[i \in Id |-> IF i \in c THEN Original ELSE Absent] : c \in Created} :
          /\ disk = [f \in {Current, Log} \cup Generations |->
                        IF f = Current THEN 0
                        ELSE IF f = Log THEN NewLog(0)
                        ELSE IF f = Rows(0) \/ (f = Vertex(0) /\ Live(v) # {}) THEN v ELSE NoFile]
          /\ state = Fresh(0, v)
  BY DEF Init
<1>2. v \in View /\ 0 \in Number /\ NoOps \in Batch /\ <<>> \in Frames
  <2>1. v \in View
    BY SMT, <1>1, VectorUpdatesAssumption DEF View, Val, Original, Absent
  <2> QED BY SMT, <2>1, NoOpsIsABatch, VectorUpdatesAssumption DEF Number, Frames
<1>3. /\ disk = [f \in File |-> disk[f]] /\ disk[Current] = 0 /\ disk[Log] = NewLog(0)
      /\ disk[Rows(0)] = v /\ (Live(v) # {} => disk[Vertex(0)] = v)
  BY <1>1, <1>2, FileNames DEF File
<1>4. BaseOpens(disk, 0)
  BY <1>2, <1>3, ViewIsAFile DEF BaseOpens
<1>5. DirOK(disk)
  BY SMT, <1>2, <1>3, <1>4, VectorUpdatesAssumption DEF DirOK, NewLog, LogRecord
<1>6. FilesInv
  BY <1>5 DEF FilesInv, Init, SameBase
<1>7. StateInv
  BY SMT, <1>1, <1>2 DEF StateInv, Fresh, Number
<1>8. PermitInv /\ \A t \in Thread : CallInv(pc[t])
  BY SMT DEF PermitInv, CallInv, Init, Publishing
<1>9. MemoryInv
  BY SMT, <1>1, <1>3 DEF MemoryInv, Fresh, NewLog
<1> QED BY <1>6, <1>7, <1>8, <1>9 DEF VectorInv

\* One thread at a time is within a call, and none when the permit is free.
LEMMA OneCall ==
    ASSUME PermitInv, NEW t \in Thread, pc[t] # "idle" \/ writer = 0
    PROVE  \A u \in Thread \ {t} : pc[u] = "idle"
BY SMT DEF PermitInv

\* A step of the thread that holds, takes or gives back the permit.
LEMMA MoveCall ==
    ASSUME PermitInv, NEW t \in Thread, status = "open", status' = "open",
           pc[t] # "idle" \/ writer = 0,
           NEW to \in {"idle", "append", "sync", "snapshot", "vertex", "written", "publish",
                       "published", "rotate", "rotated", "cleanup"},
           Goto(t, to), writer' \in 0 .. 2, to # "idle" => writer' = 1
    PROVE  /\ PermitInv' /\ pc'[t] = to /\ \A u \in Thread \ {t} : pc'[u] = "idle"
           /\ CallInv(to)' => \A u \in Thread : CallInv(pc[u])'
<1>1. pc'[t] = to /\ \A u \in Thread \ {t} : pc'[u] = "idle"
  BY OneCall DEF PermitInv, Goto
<1>2. PermitInv'
  BY <1>1 DEF PermitInv, Goto
<1>3. CallInv("idle")'
  BY DEF CallInv, Publishing
<1>4. CallInv(to)' => \A u \in Thread : CallInv(pc[u])'
  <2> SUFFICES ASSUME CallInv(to)', NEW u \in Thread PROVE CallInv(pc[u])'
    OBVIOUS
  <2>1. pc[u]' = to \/ pc[u]' = "idle"
    BY <1>1
  <2> QED BY <1>3, <2>1 DEF CallInv
<1> QED BY <1>1, <1>2, <1>4

\* stage, stage_all, insert_batch
LEMMA StageKeepsInv ==
    ASSUME VectorInv, NEW t \in Thread, NEW b \in Batches(state.seq + 1), Stage(t, b)
    PROVE  VectorInv'
<1>1. b \in Batch /\ DOMAIN b # {} /\ DOMAIN b \subseteq Id
  <2>1. state.seq \in Number
    BY DEF VectorInv, StateInv
  <2>2. state.seq + 1 \in Val
    BY SMT, <2>1, VectorUpdatesAssumption DEF Number, Val, Original
  <2>3. PICK S \in (SUBSET Id) \ {{}} :
            b \in [S -> {[tag |-> "insert", val |-> state.seq + 1],
                         [tag |-> "replace", val |-> state.seq + 1],
                         [tag |-> "delete", val |-> Absent]}]
    BY DEF Batches
  <2>4. b \in [S -> Operation]
    BY SMT, <2>2, <2>3 DEF Operation
  <2> QED BY <2>3, <2>4 DEF Batch
<1>2. Applied(state.view, b) \in View
  BY SMT, <1>1 DEF VectorInv, StateInv, Applied, View, Batch, Operation
<1>3. Joined(state.ops, b) \in Batch /\ Joined(state.ops, b) # NoOps
  <2> DEFINE S == DOMAIN state.ops \cup DOMAIN b
  <2>1. PICK T \in SUBSET Id : state.ops \in [T -> Operation]
    BY DEF VectorInv, StateInv, Batch
  <2>2. PICK U \in SUBSET Id : b \in [U -> Operation]
    BY <1>1 DEF Batch
  <2>3. Joined(state.ops, b) \in [S -> Operation] /\ S \in SUBSET Id
    BY <2>1, <2>2 DEF Joined
  <2>4. Joined(state.ops, b) \in Batch
    BY <2>3 DEF Batch
  <2>5. DOMAIN Joined(state.ops, b) # {} /\ DOMAIN NoOps = {}
    BY SMT, <1>1 DEF Joined, NoOps
  <2> QED BY <2>4, <2>5
<1>4. StateInv' /\ state'.base = state.base /\ state'.seq = state.seq /\ state'.end = state.end
  BY <1>2, <1>3 DEF VectorInv, StateInv, Stage
<1>5. FilesInv' /\ PermitInv'
  BY DEF VectorInv, FilesInv, DirOK, SameBase, PermitInv, Stage, files, calls
<1>6. \A u \in Thread : pc'[u] = "idle"
  BY SMT DEF VectorInv, PermitInv, Stage, calls
<1>7. MemoryInv'
  BY <1>4, <1>6 DEF VectorInv, PermitInv, MemoryInv, Stage, files, calls, Publishing
<1>8. \A u \in Thread : CallInv(pc[u])'
  BY <1>6 DEF CallInv, Publishing
<1> QED BY <1>4, <1>5, <1>7, <1>8 DEF VectorInv

\* Steps that change neither files nor state: taking the permit, or returning with or
\* without an error, before anything was published.
LEMMA CallOnlyKeepsInv ==
    ASSUME VectorInv, NEW t \in Thread, status = "open", status' = "open",
           pc[t] # "idle" \/ writer = 0,
           NEW to \in {"idle", "append", "snapshot"}, Goto(t, to),
           writer' \in 0 .. 2, to # "idle" => writer' = 1,
           UNCHANGED <<files, state>>,
           to = "append" => state.seq < MaxCommits, to = "snapshot" => state.ops = NoOps,
           writer' = 2 \/ pc[t] \notin Publishing
    PROVE  VectorInv'
<1>1. /\ PermitInv' /\ pc'[t] = to /\ \A u \in Thread \ {t} : pc'[u] = "idle"
      /\ CallInv(to)' => \A u \in Thread : CallInv(pc[u])'
  BY SMT, MoveCall DEF VectorInv
<1>2. CallInv(to)'
  BY DEF CallInv, Publishing
<1>3. FilesInv' /\ StateInv'
  BY DEF VectorInv, FilesInv, DirOK, SameBase, StateInv, files
<1>4. MemoryInv'
  <2>1. \A u \in Thread : pc[u] \in Publishing => u = t
    BY OneCall DEF VectorInv, Publishing
  <2>2. writer = 2 => FALSE
    BY SMT DEF VectorInv, PermitInv
  <2> QED BY <2>1, <2>2 DEF VectorInv, MemoryInv, files, Publishing
<1> QED BY <1>1, <1>2, <1>3, <1>4 DEF VectorInv

\* write_all of a frame at log_end
LEMMA WriteFrameKeepsInv ==
    ASSUME VectorInv, NEW t \in Thread, WriteFrame(t)
    PROVE  VectorInv'
<1> DEFINE l == disk[Log]
           g == Append(SubSeq(l.frames, 1, state.end), [seq |-> state.seq + 1, ops |-> state.ops])
<1>1. /\ pc[t] = "append" /\ status = "open" /\ status' = "open" /\ writer = 1 /\ writer' = 1
      /\ Goto(t, "sync") /\ state' = state /\ state.seq < MaxCommits
  BY DEF VectorInv, PermitInv, CallInv, WriteFrame, Running
<1>2. /\ PermitInv' /\ pc'[t] = "sync" /\ \A u \in Thread \ {t} : pc'[u] = "idle"
      /\ CallInv("sync")' => \A u \in Thread : CallInv(pc[u])'
  BY SMT, <1>1, MoveCall DEF VectorInv
<1>3. \A u \in Thread : pc[u] \notin Publishing
  BY <1>1, OneCall DEF VectorInv, Publishing
<1>4. /\ l.origin + state.end <= state.seq /\ state.end <= Len(l.frames)
      /\ disk[Current] = state.base
  BY SMT, <1>1, <1>3 DEF VectorInv, MemoryInv, Publishing
<1>5. /\ state.end \in Nat /\ state.seq \in Number /\ state.ops \in Batch
      /\ l \in LogRecord /\ l.frames \in Frames
  BY DEF VectorInv, StateInv, FilesInv, DirOK, LogRecord
<1>6. g \in Frames /\ Len(g) = state.end + 1
  <2>1. /\ SubSeq(l.frames, 1, state.end) \in Frames
        /\ Len(SubSeq(l.frames, 1, state.end)) = state.end
    BY <1>4, <1>5, PrefixOfFrames
  <2>2. [seq |-> state.seq + 1, ops |-> state.ops] \in [seq : Nat, ops : Batch]
    BY SMT, <1>5, VectorUpdatesAssumption DEF Number
  <2> QED BY SMT, <2>1, <2>2, AppendProperties DEF Frames
<1>7. PICK x \in {"none", "garbled"} : LogFile([l EXCEPT !.frames = g, !.tail = x])
  BY DEF WriteFrame
<1> DEFINE m == [l EXCEPT !.frames = g, !.tail = x]
<1>8. m \in LogRecord /\ m.frames = g /\ m.origin = l.origin /\ m.origin + Len(m.frames) <= MaxCommits
  <2> HIDE DEF g
  <2>1. l \in LogRecord => m \in LogRecord /\ m.frames = g /\ m.origin = l.origin
    BY <1>6 DEF LogRecord
  <2>2. l.origin \in Nat /\ state.seq \in Nat /\ MaxCommits \in Nat
    BY SMT, <1>5, VectorUpdatesAssumption DEF LogRecord, Number
  <2> QED BY SMT, <1>1, <1>4, <1>5, <1>6, <2>1, <2>2
<1>9. FilesInv' /\ disk'[Log] = m /\ disk'[Current] = disk[Current]
  <2> HIDE DEF m
  <2> QED BY <1>7, <1>8, LogFileKeepsFiles DEF VectorInv, m
<1>10. StateInv'
  BY <1>1 DEF VectorInv, StateInv
<1>11. MemoryInv'
  BY SMT, <1>1, <1>4, <1>5, <1>6, <1>8, <1>9 DEF MemoryInv
<1>12. CallInv("sync")'
  BY SMT, <1>1, <1>5, <1>6, <1>8, <1>9 DEF CallInv, Publishing
<1> QED BY <1>2, <1>9, <1>10, <1>11, <1>12 DEF VectorInv

\* the sync of the frame, and the batch cleared
LEMMA SyncFrameKeepsInv ==
    ASSUME VectorInv, NEW t \in Thread, SyncFrame(t)
    PROVE  VectorInv'
<1> DEFINE l == disk[Log]
           m == [l EXCEPT !.synced = Len(l.frames)]
<1>1. /\ pc[t] = "sync" /\ status = "open" /\ status' = "open" /\ writer = 1
      /\ state.seq < MaxCommits /\ state.end < Len(l.frames)
      /\ LogFile(m) /\ state' = [state EXCEPT !.seq = @ + 1, !.end = @ + 1, !.ops = NoOps]
  BY DEF VectorInv, PermitInv, CallInv, SyncFrame, Running
<1>2. PICK to \in {"idle", "snapshot"} :
          Goto(t, to) /\ writer' \in 0 .. 2 /\ (to # "idle" => writer' = 1)
  BY SMT, <1>1 DEF SyncFrame, Returned, Released
<1>3. /\ PermitInv' /\ pc'[t] = to /\ \A u \in Thread \ {t} : pc'[u] = "idle"
      /\ CallInv(to)' => \A u \in Thread : CallInv(pc[u])'
  BY SMT, <1>1, <1>2, MoveCall DEF VectorInv
<1>4. /\ l.origin + state.end <= state.seq /\ disk[Current] = state.base
  BY SMT, <1>1, OneCall DEF VectorInv, MemoryInv, Publishing
<1>5. l \in LogRecord /\ l.origin + Len(l.frames) <= MaxCommits /\ Len(l.frames) \in Nat
  BY LenProperties DEF VectorInv, FilesInv, DirOK, LogRecord, Frames
<1>6. m \in LogRecord /\ m.frames = l.frames /\ m.origin = l.origin
  BY <1>5 DEF LogRecord
<1>7. FilesInv' /\ disk'[Log] = m /\ disk'[Current] = disk[Current]
  <2> HIDE DEF m
  <2> QED BY <1>1, <1>5, <1>6, LogFileKeepsFiles DEF VectorInv
<1>8. /\ StateInv' /\ state'.seq = state.seq + 1 /\ state'.end = state.end + 1
      /\ state'.base = state.base /\ state'.ops = NoOps
  <2>1. /\ state \in [base : Number, view : View, ops : Batch, seq : Number, end : Nat, changed : BOOLEAN]
        /\ state.base <= state.seq
    BY DEF VectorInv, StateInv
  <2>2. state.seq + 1 \in Number /\ state.base < state.seq + 1 /\ state.end + 1 \in Nat
    BY SMT, <1>1, <2>1, VectorUpdatesAssumption DEF Number
  <2>3. /\ state' \in [base : Number, view : View, ops : Batch, seq : Number, end : Nat, changed : BOOLEAN]
        /\ state'.seq = state.seq + 1 /\ state'.end = state.end + 1
        /\ state'.base = state.base /\ state'.ops = NoOps
    BY <1>1, <2>1, <2>2, NoOpsIsABatch
  <2> QED BY SMT, <2>1, <2>2, <2>3, VectorUpdatesAssumption DEF StateInv, Number
<1>9. MemoryInv'
  <2>1. state.seq \in Nat /\ state.end \in Nat /\ l.origin \in Nat
    BY SMT, <1>5, VectorUpdatesAssumption DEF VectorInv, StateInv, Number, LogRecord
  <2> HIDE DEF m
  <2>2. disk'[Current] = state'.base
    BY <1>4, <1>7, <1>8
  <2>3. disk'[Log].origin = l.origin /\ disk'[Log].frames = l.frames
    BY <1>6, <1>7
  <2>4. l.origin + (state.end + 1) <= state.seq + 1 /\ state.end + 1 <= Len(l.frames)
    <3>1. /\ l.origin + state.end <= state.seq /\ state.end < Len(l.frames)
          /\ Len(l.frames) \in Nat
      BY <1>1, <1>4, <1>5
    <3> HIDE DEF l
    <3> QED BY SMT, <2>1, <3>1
  <2> QED BY <1>8, <2>2, <2>3, <2>4 DEF MemoryInv
<1>10. CallInv(to)'
  BY <1>2, <1>8 DEF CallInv, Publishing
<1> QED BY <1>3, <1>7, <1>8, <1>9, <1>10 DEF VectorInv

\* an append that fails leaves the permit uncertain
LEMMA AppendFailsKeepsInv ==
    ASSUME VectorInv, NEW t \in Thread, AppendFails(t)
    PROVE  VectorInv'
<1>1. /\ pc[t] \in {"append", "sync"} /\ status = "open" /\ status' = "open" /\ writer' = 2
      /\ Goto(t, "idle") /\ state' = state
  BY DEF AppendFails, Running
<1>2. PermitInv' /\ (CallInv("idle")' => \A u \in Thread : CallInv(pc[u])')
  BY SMT, <1>1, MoveCall DEF VectorInv
<1>3. FilesInv'
  <2>1. CASE UNCHANGED files
    BY <2>1 DEF VectorInv, FilesInv, DirOK, SameBase, files
  <2>2. CASE \E x \in {"none", "cut"} : LogFile([disk[Log] EXCEPT !.tail = x])
    <3>1. PICK x \in {"none", "cut"} : LogFile([disk[Log] EXCEPT !.tail = x])
      BY <2>2
    <3> DEFINE m == [disk[Log] EXCEPT !.tail = x]
    <3>2. disk[Log] \in LogRecord /\ disk[Log].origin + Len(disk[Log].frames) <= MaxCommits
      BY DEF VectorInv, FilesInv, DirOK
    <3>3. m \in LogRecord /\ m.frames = disk[Log].frames /\ m.origin = disk[Log].origin
      BY <3>2 DEF LogRecord
    <3> HIDE DEF m
    <3> QED BY <3>1, <3>2, <3>3, LogFileKeepsFiles DEF VectorInv, m
  <2> QED BY <2>1, <2>2 DEF AppendFails
<1>4. StateInv' /\ MemoryInv' /\ CallInv("idle")'
  BY <1>1 DEF VectorInv, StateInv, MemoryInv, CallInv, Publishing
<1> QED BY <1>2, <1>3, <1>4 DEF VectorInv

\* Until it publishes, a consolidation works beside the generation that CURRENT names.
LEMMA BeforePublication ==
    ASSUME VectorInv, NEW t \in Thread, pc[t] \in {"snapshot", "vertex", "written", "publish"}
    PROVE  /\ writer = 1 /\ status = "open" /\ state.ops = NoOps /\ disk[Current] = state.base
           /\ disk[Log].origin + state.end <= state.seq /\ state.end <= Len(disk[Log].frames)
           /\ state.seq \in Number
           /\ state.changed => state.seq # disk[Current]
<1>1. writer = 1 /\ status = "open" /\ \A u \in Thread : pc[u] \notin Publishing
  BY OneCall DEF VectorInv, PermitInv, Publishing
<1>2. CallInv(pc[t])
  BY DEF VectorInv
<1>3. state.ops = NoOps
  BY <1>2 DEF CallInv
<1>4. /\ disk[Current] = state.base
      /\ disk[Log].origin + state.end <= state.seq /\ state.end <= Len(disk[Log].frames)
  BY SMT, <1>1 DEF VectorInv, MemoryInv, Publishing
<1>5. state.seq \in Number /\ (state.changed => state.base # state.seq)
  BY SMT, <1>3, VectorUpdatesAssumption DEF VectorInv, StateInv, Number
<1> QED BY <1>1, <1>3, <1>4, <1>5

\* The steps that write the files of the new generation.
LEMMA BuildStep ==
    ASSUME VectorInv, NEW t \in Thread, status' = status, writer' = writer, state' = state,
           pc[t] \in {"snapshot", "vertex", "written"},
           NEW to \in {"vertex", "written", "publish"}, Goto(t, to),
           FilesInv', disk'[Current] = disk[Current], disk'[Log] = disk[Log], CallInv(to)'
    PROVE  VectorInv'
<1>1. /\ writer = 1 /\ status = "open" /\ disk[Current] = state.base
      /\ disk[Log].origin + state.end <= state.seq /\ state.end <= Len(disk[Log].frames)
  BY BeforePublication
<1>2. PermitInv' /\ (CallInv(to)' => \A u \in Thread : CallInv(pc[u])')
  BY SMT, <1>1, MoveCall DEF VectorInv
<1>3. MemoryInv' /\ StateInv'
  BY <1>1 DEF VectorInv, MemoryInv, StateInv
<1> QED BY <1>2, <1>3 DEF VectorInv

\* the rows
LEMMA WriteRowsKeepsInv ==
    ASSUME VectorInv, NEW t \in Thread, WriteRows(t)
    PROVE  VectorInv'
<1>1. /\ pc[t] = "snapshot" /\ state.changed /\ status' = status /\ writer' = writer
      /\ state' = state /\ Renamed(Rows(state.seq), state.view)
  BY DEF WriteRows, Running
<1>2. /\ state.ops = NoOps /\ state.seq \in Number /\ state.seq # disk[Current]
  BY <1>1, BeforePublication
<1>3. /\ FilesInv' /\ disk'[Current] = disk[Current] /\ disk'[Log] = disk[Log]
      /\ disk'[Rows(state.seq)] = state.view
  BY SMT, <1>1, <1>2, FileNames, RenameGeneration DEF VectorInv
<1>4. PICK to \in {"vertex", "written"} : Goto(t, to) /\ (to = "written" => Live(state.view) = {})
  BY DEF WriteRows
<1>5. CallInv(to)'
  BY <1>1, <1>2, <1>3, <1>4 DEF CallInv, Publishing
<1> QED BY <1>1, <1>3, <1>4, <1>5, BuildStep

\* the graph
LEMMA WriteVertexKeepsInv ==
    ASSUME VectorInv, NEW t \in Thread, WriteVertex(t)
    PROVE  VectorInv'
<1>1. /\ pc[t] = "vertex" /\ status' = status /\ writer' = writer
      /\ state' = state /\ Renamed(Vertex(state.seq), state.view) /\ Goto(t, "written")
  BY DEF WriteVertex, Running
<1>2. CallInv("vertex")
  BY <1>1 DEF VectorInv
<1>3. state.changed /\ disk[Rows(state.seq)] = state.view
  BY <1>2 DEF CallInv
<1>4. state.ops = NoOps /\ state.seq \in Number /\ state.seq # disk[Current]
  BY <1>1, <1>3, BeforePublication
<1>5. /\ FilesInv' /\ disk'[Current] = disk[Current] /\ disk'[Log] = disk[Log]
      /\ disk'[Vertex(state.seq)] = state.view
      /\ \A g \in File : g # Vertex(state.seq) => disk'[g] = disk[g]
  BY SMT, <1>1, <1>4, FileNames, RenameGeneration DEF VectorInv
<1>6. disk'[Rows(state.seq)] = state.view
  BY <1>3, <1>4, <1>5, FileNames DEF File
<1>7. CallInv("written")'
  BY <1>1, <1>3, <1>4, <1>5, <1>6 DEF CallInv, Publishing
<1> QED BY <1>1, <1>5, <1>7, BuildStep

\* the directory sync before the publication
LEMMA SyncGenerationKeepsInv ==
    ASSUME VectorInv, NEW t \in Thread, SyncGeneration(t)
    PROVE  VectorInv'
<1>1. /\ pc[t] = "written" /\ status' = status /\ writer' = writer
      /\ state' = state /\ DirectorySynced /\ Goto(t, "publish")
  BY DEF SyncGeneration, Running
<1>2. FilesInv' /\ disk' = disk /\ survivors' = {disk}'
  BY <1>1, SyncKeepsFiles DEF VectorInv
<1>3. CallInv("written")
  BY <1>1 DEF VectorInv
<1>4. CallInv("publish")'
  BY <1>1, <1>2, <1>3 DEF CallInv, Publishing
<1> QED BY <1>1, <1>2, <1>4, BuildStep

\* The publication: its base opens, whether the rename of CURRENT survives or not.
LEMMA PublishKeepsInv ==
    ASSUME VectorInv, NEW t \in Thread, Publish(t)
    PROVE  VectorInv'
<1> DEFINE e == [disk EXCEPT ![Current] = state.seq]
<1>1. /\ pc[t] = "publish" /\ status' = status /\ writer' = writer /\ state' = state
      /\ disk' = e /\ survivors' = survivors \cup {e} /\ Goto(t, "published")
  BY DEF Publish, Running, Renamed
<1>2. CallInv("publish")
  BY <1>1 DEF VectorInv
<1>3. /\ survivors = {disk} /\ state.changed /\ disk[Rows(state.seq)] = state.view
      /\ (Live(state.view) = {} \/ disk[Vertex(state.seq)] = state.view)
  BY <1>2 DEF CallInv
<1>4. /\ writer = 1 /\ status = "open" /\ state.ops = NoOps /\ disk[Current] = state.base
      /\ disk[Log].origin + state.end <= state.seq /\ state.end <= Len(disk[Log].frames)
      /\ state.seq \in Number /\ state.seq # disk[Current]
  BY <1>1, <1>3, BeforePublication
<1>5. DirOK(disk)
  BY DEF VectorInv, FilesInv
<1>6. /\ e = [g \in File |-> e[g]] /\ e[Current] = state.seq /\ e[Log] = disk[Log]
      /\ \A g \in Generations : e[g] = disk[g]
  BY <1>5, FileNames DEF DirOK, File
<1>7. e[Rows(state.seq)] = disk[Rows(state.seq)] /\ e[Vertex(state.seq)] = disk[Vertex(state.seq)]
  BY <1>4, <1>6, FileNames
<1> HIDE DEF e
<1>8. BaseOpens(e, state.seq)
  <2>1. state.view # NoFile
    BY ViewIsAFile DEF VectorInv, StateInv
  <2> QED BY <1>3, <1>7, <2>1 DEF BaseOpens
<1>9. DirOK(e)
  BY <1>4, <1>5, <1>6, <1>8 DEF DirOK
<1>10. FilesInv'
  BY <1>1, <1>3, <1>4, <1>5, <1>6, <1>9 DEF FilesInv, SameBase, DirOK
<1>11. /\ PermitInv' /\ pc'[t] = "published"
       /\ (CallInv("published")' => \A u \in Thread : CallInv(pc[u])')
  BY SMT, <1>1, <1>4, MoveCall DEF VectorInv
<1>12. StateInv' /\ MemoryInv'
  BY <1>1, <1>4, <1>6, <1>11 DEF VectorInv, StateInv, MemoryInv, Publishing
<1>13. CallInv("published")'
  BY <1>1, <1>3, <1>4, <1>6, <1>7 DEF CallInv, Publishing
<1> QED BY <1>10, <1>11, <1>12, <1>13 DEF VectorInv

\* What a call knows between the rename of CURRENT and the swap of its state.
LEMMA WhilePublishing ==
    ASSUME VectorInv, NEW t \in Thread, pc[t] \in Publishing
    PROVE  /\ writer = 1 /\ status = "open" /\ state.ops = NoOps /\ state.seq \in Number
           /\ disk[Current] = state.seq /\ disk[Rows(state.seq)] = state.view /\ state.changed
           /\ (Live(state.view) = {} \/ disk[Vertex(state.seq)] = state.view)
<1>1. CallInv(pc[t])
  BY DEF VectorInv
<1>2. /\ state.ops = NoOps /\ disk[Current] = state.seq /\ state.changed
      /\ disk[Rows(state.seq)] = state.view
      /\ (Live(state.view) = {} \/ disk[Vertex(state.seq)] = state.view)
  BY <1>1 DEF CallInv
<1>3. writer = 1 /\ status = "open" /\ state.seq \in Number
  BY DEF VectorInv, PermitInv, StateInv, Publishing
<1> QED BY <1>2, <1>3

\* the sync of CURRENT's directory
LEMMA SyncCurrentKeepsInv ==
    ASSUME VectorInv, NEW t \in Thread, SyncCurrent(t)
    PROVE  VectorInv'
<1>1. /\ pc[t] = "published" /\ status' = status /\ writer' = writer /\ state' = state
      /\ DirectorySynced /\ Goto(t, "rotate")
  BY DEF SyncCurrent, Running
<1>2. FilesInv' /\ disk' = disk
  BY <1>1, SyncKeepsFiles DEF VectorInv
<1>3. /\ writer = 1 /\ status = "open" /\ state.ops = NoOps /\ state.seq \in Number
      /\ disk[Current] = state.seq /\ disk[Rows(state.seq)] = state.view /\ state.changed
      /\ (Live(state.view) = {} \/ disk[Vertex(state.seq)] = state.view)
  BY <1>1, WhilePublishing DEF Publishing
<1>4. /\ PermitInv' /\ pc'[t] = "rotate"
      /\ (CallInv("rotate")' => \A u \in Thread : CallInv(pc[u])')
  BY SMT, <1>1, <1>3, MoveCall DEF VectorInv
<1>5. CallInv("rotate")'
  BY <1>1, <1>2, <1>3 DEF CallInv, Publishing
<1>6. \A u \in Thread : pc[u] # "rotated"
  BY <1>1, OneCall DEF VectorInv
<1>7. StateInv' /\ MemoryInv'
  BY <1>1, <1>2, <1>3, <1>4, <1>6 DEF VectorInv, StateInv, MemoryInv, Publishing
<1> QED BY <1>2, <1>4, <1>5, <1>7 DEF VectorInv

\* the new log
LEMMA RotateKeepsInv ==
    ASSUME VectorInv, NEW t \in Thread, Rotate(t)
    PROVE  VectorInv'
<1> DEFINE l == NewLog(state.seq)
           e == [disk EXCEPT ![Log] = l]
<1>1. /\ pc[t] = "rotate" /\ status' = status /\ writer' = writer /\ state' = state
      /\ disk' = e /\ survivors' = survivors \cup {e} /\ Goto(t, "rotated")
  BY DEF Rotate, Running, Renamed
<1>2. /\ writer = 1 /\ status = "open" /\ state.ops = NoOps /\ state.seq \in Number
      /\ disk[Current] = state.seq /\ disk[Rows(state.seq)] = state.view /\ state.changed
      /\ (Live(state.view) = {} \/ disk[Vertex(state.seq)] = state.view)
  BY <1>1, WhilePublishing DEF Publishing
<1>3. l \in LogRecord /\ l.origin + Len(l.frames) <= MaxCommits
  BY SMT, <1>2, VectorUpdatesAssumption DEF NewLog, LogRecord, Number, Frames
<1>4. DirOK(disk)
  BY DEF VectorInv, FilesInv
<1>5. /\ DirOK(e) /\ e[Log] = l /\ e[Current] = disk[Current]
      /\ \A f \in Generations : e[f] = disk[f]
  <2> HIDE DEF l
  <2> QED BY <1>3, <1>4, DirWithLog
<1> HIDE DEF e
<1>6. FilesInv'
  BY SMT, <1>1, <1>5 DEF VectorInv, FilesInv, SameBase, DirOK
<1>7. /\ PermitInv' /\ pc'[t] = "rotated"
      /\ (CallInv("rotated")' => \A u \in Thread : CallInv(pc[u])')
  BY SMT, <1>1, <1>2, MoveCall DEF VectorInv
<1>8. CallInv("rotated")'
  <2>1. /\ disk'[Rows(state.seq)] = state.view
        /\ disk'[Vertex(state.seq)] = disk[Vertex(state.seq)]
        /\ disk'[Log] = NewLog(state.seq) /\ disk'[Current] = state.seq
    BY <1>1, <1>2, <1>5, FileNames
  <2> QED BY <1>1, <1>2, <2>1 DEF CallInv, Publishing
<1>9. StateInv' /\ MemoryInv'
  BY <1>1, <1>2, <1>7 DEF VectorInv, StateInv, MemoryInv, Publishing
<1> QED BY <1>6, <1>7, <1>8, <1>9 DEF VectorInv

\* the new State over the new base
LEMMA SwapKeepsInv ==
    ASSUME VectorInv, NEW t \in Thread, Swap(t)
    PROVE  VectorInv'
<1>1. /\ pc[t] = "rotated" /\ status' = status /\ writer' = writer
      /\ state' = Fresh(state.seq, disk[Rows(state.seq)])
      /\ DirectorySynced /\ Goto(t, "cleanup")
  BY DEF Swap, Running
<1>2. FilesInv' /\ disk' = disk
  BY <1>1, SyncKeepsFiles DEF VectorInv
<1>3. /\ writer = 1 /\ status = "open" /\ state.seq \in Number
      /\ disk[Current] = state.seq /\ disk[Rows(state.seq)] = state.view
  BY <1>1, WhilePublishing DEF Publishing
<1>4. disk[Log] = NewLog(state.seq)
  <2>1. CallInv("rotated")
    BY <1>1 DEF VectorInv
  <2> QED BY <2>1 DEF CallInv
<1>5. /\ PermitInv' /\ (CallInv("cleanup")' => \A u \in Thread : CallInv(pc[u])')
  BY SMT, <1>1, <1>3, MoveCall DEF VectorInv
<1>6. CallInv("cleanup")'
  BY DEF CallInv, Publishing
<1>7. /\ state' = [base |-> state.seq, view |-> state.view, ops |-> NoOps, seq |-> state.seq,
                   end |-> 0, changed |-> FALSE]
      /\ state.view \in View
  BY <1>1, <1>3 DEF Fresh, VectorInv, StateInv
<1>8. StateInv'
  BY SMT, <1>3, <1>7, NoOpsIsABatch DEF StateInv, Number
<1>9. MemoryInv'
  <2>1. disk'[Current] = state'.base /\ state'.seq = state.seq /\ state'.end = 0
    BY <1>2, <1>3, <1>7
  <2>2. disk'[Log].origin = state.seq /\ Len(disk'[Log].frames) = 0
    BY SMT, <1>2, <1>4 DEF NewLog
  <2>3. state.seq + 0 <= state.seq
    BY SMT, <1>3, VectorUpdatesAssumption DEF Number
  <2> QED BY SMT, <2>1, <2>2, <2>3 DEF MemoryInv
<1> QED BY <1>2, <1>5, <1>6, <1>8, <1>9 DEF VectorInv

\* When no call is at work on the files, memory and CURRENT agree on the generation.
LEMMA StaleIsNotCurrent ==
    ASSUME VectorInv, NEW f \in Stale,
           status = "cleaning" \/ \E t \in Thread : Running(t, "cleanup")
    PROVE  f \in Generations /\ f[2] # disk[Current]
<1>1. writer # 2 /\ \A u \in Thread : pc[u] \notin Publishing
  <2>1. CASE status = "cleaning"
    BY SMT, <2>1 DEF VectorInv, PermitInv, Publishing
  <2>2. CASE \E t \in Thread : Running(t, "cleanup")
    BY SMT, <2>2, OneCall DEF VectorInv, PermitInv, Publishing, Running
  <2> QED BY <2>1, <2>2
<1>2. disk[Current] = state.base
  BY <1>1 DEF VectorInv, MemoryInv, Running
<1> QED BY <1>2 DEF Stale

\* cleanup_generations, in a consolidation or in open
LEMMA CleanupKeepsInv ==
    ASSUME VectorInv, NEW f \in Stale, Renamed(f, NoFile),
           status = "cleaning" \/ \E t \in Thread : Running(t, "cleanup"),
           UNCHANGED <<status, state, writer, calls>>
    PROVE  VectorInv'
<1>1. FilesInv' /\ disk'[Current] = disk[Current] /\ disk'[Log] = disk[Log]
  BY StaleIsNotCurrent, RenameGeneration DEF VectorInv
<1>2. \A u \in Thread : pc[u] = "idle" \/ pc[u] = "cleanup"
  BY OneCall DEF VectorInv, PermitInv, Running
<1>3. PermitInv' /\ StateInv' /\ MemoryInv'
  BY <1>1 DEF VectorInv, PermitInv, StateInv, MemoryInv, calls
<1>4. \A u \in Thread : CallInv(pc[u])'
  BY <1>2 DEF CallInv, Publishing, calls
<1> QED BY <1>1, <1>3, <1>4 DEF VectorInv

\* the directory sync that ends a consolidation
LEMMA ConsolidatedKeepsInv ==
    ASSUME VectorInv, NEW t \in Thread, Consolidated(t)
    PROVE  VectorInv'
<1>1. /\ pc[t] = "cleanup" /\ status = "open" /\ status' = status /\ state' = state
      /\ DirectorySynced /\ Goto(t, "idle") /\ writer = 1 /\ writer' = 0
  BY DEF Consolidated, Running, Returned, Released, VectorInv, PermitInv
<1>2. FilesInv' /\ disk' = disk
  BY <1>1, SyncKeepsFiles DEF VectorInv
<1>3. /\ PermitInv' /\ (CallInv("idle")' => \A u \in Thread : CallInv(pc[u])')
  BY SMT, <1>1, MoveCall DEF VectorInv
<1>4. CallInv("idle")'
  BY DEF CallInv, Publishing
<1>5. \A u \in Thread : pc[u] \notin Publishing
  BY <1>1, OneCall DEF VectorInv, Publishing
<1>6. StateInv' /\ MemoryInv'
  BY SMT, <1>1, <1>2, <1>5 DEF VectorInv, StateInv, MemoryInv, Publishing
<1> QED BY <1>2, <1>3, <1>4, <1>6 DEF VectorInv

\* The end of a process leaves nothing in memory to be wrong.
LEMMA DownKeepsInv ==
    ASSUME FilesInv', Down
    PROVE  VectorInv'
<1>1. [i \in Id |-> Absent] \in View
  BY DEF View
<1>2. StateInv'
  BY SMT, <1>1, NoOpsIsABatch, VectorUpdatesAssumption DEF Down, Gone, Fresh, StateInv, Number
<1>3. PermitInv' /\ MemoryInv'
  BY SMT DEF Down, PermitInv, MemoryInv
<1>4. \A t \in Thread : CallInv(pc[t])'
  BY DEF Down, CallInv, Publishing
<1> QED BY <1>2, <1>3, <1>4 DEF VectorInv

\* What recovery finds in a directory that it accepts.
LEMMA RecoveredState ==
    ASSUME NEW d, DirOK(d), Recovered(d).ok
    PROVE  /\ Recovered(d).view \in View /\ Recovered(d).seq \in Number
           /\ d[Current] <= Recovered(d).seq
           /\ d[Log].origin + Len(d[Log].frames) <= Recovered(d).seq
<1>1. Recovered(d).view \in View
  BY DEF Recovered
<1>2. /\ d[Current] \in Number /\ d[Log].origin \in Number /\ Len(d[Log].frames) \in Nat
      /\ d[Log].origin + Len(d[Log].frames) <= MaxCommits
  BY LenProperties DEF DirOK, LogRecord, Frames
<1> DEFINE last == d[Log].origin + Len(d[Log].frames)
<1>3. Recovered(d).seq = IF last > d[Current] THEN last ELSE d[Current]
  BY DEF Recovered
<1>4. last \in Number
  BY SMT, <1>2, VectorUpdatesAssumption DEF Number
<1> SUFFICES /\ Recovered(d).seq \in Number
             /\ d[Current] <= Recovered(d).seq /\ last <= Recovered(d).seq
  BY <1>1
<1> HIDE DEF last
<1> QED BY SMT, <1>2, <1>3, <1>4, VectorUpdatesAssumption DEF Number

\* open, up to the replay
LEMMA OpenKeepsInv ==
    ASSUME VectorInv, Open
    PROVE  VectorInv'
<1> DEFINE r == Recovered(disk)
<1>1. /\ status \in {"down", "refused"} /\ UNCHANGED <<files, writer, calls>>
      /\ \/ /\ r.ok /\ status' = "replayed"
            /\ state' = [Fresh(disk[Current], r.view) EXCEPT
                            !.seq = r.seq, !.end = Len(disk[Log].frames),
                            !.changed = r.seq > disk[Current]]
         \/ status' = "refused" /\ state' = state
  BY DEF Open
<1>2. FilesInv'
  BY <1>1 DEF VectorInv, FilesInv, DirOK, SameBase, files
<1>3. PermitInv' /\ \A t \in Thread : pc'[t] = "idle"
  BY <1>1 DEF VectorInv, PermitInv, calls
<1>4. \A t \in Thread : CallInv(pc[t])'
  BY <1>3 DEF CallInv, Publishing
<1>5. StateInv' /\ MemoryInv'
  <2>1. CASE status' = "refused" /\ state' = state
    BY <2>1 DEF VectorInv, StateInv, MemoryInv
  <2>2. CASE /\ r.ok /\ status' = "replayed"
             /\ state' = [Fresh(disk[Current], r.view) EXCEPT
                            !.seq = r.seq, !.end = Len(disk[Log].frames),
                            !.changed = r.seq > disk[Current]]
    <3>1. DirOK(disk)
      BY DEF VectorInv, FilesInv
    <3>2. /\ r.view \in View /\ r.seq \in Number /\ disk[Current] <= r.seq
          /\ disk[Log].origin + Len(disk[Log].frames) <= r.seq
      BY <2>2, <3>1, RecoveredState
    <3>3. disk[Current] \in Number /\ Len(disk[Log].frames) \in Nat
      BY <3>1, LenProperties DEF DirOK, LogRecord, Frames
    <3> HIDE DEF r
    <3>4. state' = [base |-> disk[Current], view |-> r.view, ops |-> NoOps, seq |-> r.seq,
                    end |-> Len(disk[Log].frames), changed |-> r.seq > disk[Current]]
      BY <2>2 DEF Fresh
    <3>5. (r.seq > disk[Current]) \in BOOLEAN /\ (r.seq > disk[Current] => disk[Current] < r.seq)
      BY SMT, <3>2, <3>3, VectorUpdatesAssumption DEF Number
    <3>6. StateInv'
      BY <3>2, <3>3, <3>4, <3>5, NoOpsIsABatch DEF StateInv
    <3>7. MemoryInv'
      BY SMT, <1>1, <3>2, <3>3, <3>4 DEF MemoryInv, files
    <3> QED BY <3>6, <3>7
  <2> QED BY <1>1, <2>1, <2>2
<1> QED BY <1>2, <1>3, <1>4, <1>5 DEF VectorInv

\* the cut of an incomplete last frame
LEMMA TruncateKeepsInv ==
    ASSUME VectorInv, Truncate
    PROVE  VectorInv'
<1> DEFINE l == disk[Log]
           m == [l EXCEPT !.tail = "none", !.synced = Len(l.frames)]
<1>1. /\ status = "replayed" /\ status' = "cleaning" /\ UNCHANGED <<state, writer, calls>>
      /\ UNCHANGED files \/ LogFile(m)
  BY DEF Truncate
<1>2. /\ FilesInv' /\ disk'[Current] = disk[Current]
      /\ disk'[Log].origin = l.origin /\ disk'[Log].frames = l.frames
  <2>1. CASE UNCHANGED files
    BY <2>1 DEF VectorInv, FilesInv, DirOK, SameBase, files
  <2>2. CASE LogFile(m)
    <3>1. l \in LogRecord /\ l.origin + Len(l.frames) <= MaxCommits /\ Len(l.frames) \in Nat
      BY LenProperties DEF VectorInv, FilesInv, DirOK, LogRecord, Frames
    <3>2. m \in LogRecord /\ m.frames = l.frames /\ m.origin = l.origin
      BY <3>1 DEF LogRecord
    <3> HIDE DEF m
    <3> QED BY <2>2, <3>1, <3>2, LogFileKeepsFiles DEF VectorInv
  <2> QED BY <1>1, <2>1, <2>2
<1>3. PermitInv' /\ StateInv' /\ \A t \in Thread : pc'[t] = "idle"
  BY <1>1 DEF VectorInv, PermitInv, StateInv, calls
<1>4. MemoryInv'
  BY <1>1, <1>2 DEF VectorInv, PermitInv, MemoryInv, Publishing, calls
<1>5. \A t \in Thread : CallInv(pc[t])'
  BY <1>3 DEF CallInv, Publishing
<1> QED BY <1>2, <1>3, <1>4, <1>5 DEF VectorInv

\* the directory sync that ends open
LEMMA OpenedKeepsInv ==
    ASSUME VectorInv, Opened
    PROVE  VectorInv'
<1>1. /\ status = "cleaning" /\ status' = "open" /\ UNCHANGED <<state, writer, calls>>
      /\ DirectorySynced
  BY DEF Opened
<1>2. FilesInv' /\ disk' = disk
  BY <1>1, SyncKeepsFiles DEF VectorInv
<1>3. PermitInv' /\ StateInv' /\ \A t \in Thread : pc'[t] = "idle"
  BY <1>1 DEF VectorInv, PermitInv, StateInv, calls
<1>4. MemoryInv'
  BY <1>1, <1>2 DEF VectorInv, PermitInv, MemoryInv, Publishing, calls
<1>5. \A t \in Thread : CallInv(pc[t])'
  BY <1>3 DEF CallInv, Publishing
<1> QED BY <1>2, <1>3, <1>4, <1>5 DEF VectorInv

\* What a power loss makes of a log is a log, and no longer.
LEMMA LogLossIsALog ==
    ASSUME NEW l \in LogRecord, l.origin + Len(l.frames) <= MaxCommits, NEW m \in LogLoss(l)
    PROVE  m \in LogRecord /\ m.origin + Len(m.frames) <= MaxCommits
<1>1. l.frames \in Frames /\ l.synced \in Nat /\ l.origin \in Nat /\ Len(l.frames) \in Nat
  BY SMT, LenProperties, VectorUpdatesAssumption DEF LogRecord, Frames, Number
<1> DEFINE least == IF l.synced > Len(l.frames) THEN Len(l.frames) ELSE l.synced
           left(n, x) == [l EXCEPT !.frames = SubSeq(@, 1, n), !.tail = x,
                                   !.synced = IF x = "none" THEN n ELSE n + 1]
<1>2. m \in UNION {{left(n, x) : x \in TailLoss(l, n)} : n \in least .. Len(l.frames)}
  BY DEF LogLoss
<1>3. PICK n \in least .. Len(l.frames) : m \in {left(n, x) : x \in TailLoss(l, n)}
  <2> HIDE DEF least, left
  <2> QED BY <1>2
<1>4. PICK x \in TailLoss(l, n) : m = left(n, x)
  <2> HIDE DEF least, left
  <2> QED BY <1>3
<1>5. n \in Nat /\ n <= Len(l.frames) /\ x \in {"none", "cut", "garbled"}
  <2>1. least \in Nat
    BY <1>1
  <2>2. n \in Nat /\ n <= Len(l.frames)
    <3> HIDE DEF least, left
    <3>1. n \in least .. Len(l.frames)
      BY <1>3
    <3> QED BY SMT, <1>1, <2>1, <3>1
  <2>3. l.tail \in {"none", "cut", "garbled"}
    BY DEF LogRecord
  <2>4. x \in {l.tail} \/ x \in {"none"} \/ x \in {"none", "cut", "garbled"}
    <3>1. x \in TailLoss(l, n)
      BY <1>4
    <3> QED BY <3>1 DEF TailLoss
  <2> QED BY <2>2, <2>3, <2>4
<1> DEFINE g == SubSeq(l.frames, 1, n)
           y == IF x = "none" THEN n ELSE n + 1
<1>6. g \in Frames /\ Len(g) = n /\ y \in Nat
  BY SMT, <1>1, <1>5, PrefixOfFrames
<1>7. m = [l EXCEPT !.frames = g, !.tail = x, !.synced = y]
  BY <1>4
<1> HIDE DEF g, y
<1>8. m \in LogRecord /\ m.frames = g /\ m.origin = l.origin
  BY <1>5, <1>6, <1>7 DEF LogRecord
<1> QED BY SMT, <1>1, <1>5, <1>6, <1>8, VectorUpdatesAssumption

\* a crash of the process or of the machine
LEMMA CrashKeepsInv ==
    ASSUME VectorInv, NEW power \in BOOLEAN, Crash(power)
    PROVE  VectorInv'
<1>1. FilesInv'
  <2>1. CASE UNCHANGED files
    BY <2>1 DEF VectorInv, FilesInv, DirOK, SameBase, files
  <2>2. CASE /\ \E d \in survivors : \E l \in LogLoss(d[Log]) : disk' = [d EXCEPT ![Log] = l]
             /\ survivors' = {disk'}
    <3>0. PICK d \in survivors : \E l \in LogLoss(d[Log]) : disk' = [d EXCEPT ![Log] = l]
      BY <2>2
    <3>1. PICK l \in LogLoss(d[Log]) : disk' = [d EXCEPT ![Log] = l]
      BY <3>0
    <3>2. DirOK(d)
      BY DEF VectorInv, FilesInv
    <3>3. l \in LogRecord /\ l.origin + Len(l.frames) <= MaxCommits
      BY <3>2, LogLossIsALog DEF DirOK
    <3>4. DirOK([d EXCEPT ![Log] = l])
      BY <3>2, <3>3, DirWithLog
    <3> QED BY <2>2, <3>1, <3>4 DEF FilesInv, DirOK, SameBase
  <2> QED BY <2>1, <2>2 DEF Crash
<1> QED BY <1>1, DownKeepsInv DEF Crash

\* Every step keeps the invariant.
LEMMA VectorStep == VectorInv /\ [Next]_vars => VectorInv'
<1> SUFFICES ASSUME VectorInv, [Next]_vars PROVE VectorInv'
  OBVIOUS
<1>1. CASE UNCHANGED vars
  <2>1. FilesInv'
    BY <1>1 DEF VectorInv, FilesInv, DirOK, SameBase, vars, files
  <2>2. StateInv' /\ PermitInv'
    BY <1>1 DEF VectorInv, StateInv, PermitInv, vars, calls
  <2>3. MemoryInv'
    BY <1>1 DEF VectorInv, MemoryInv, vars, files, calls
  <2>4. \A t \in Thread : CallInv(pc[t])'
    BY <1>1 DEF VectorInv, CallInv, vars, files, calls
  <2> QED BY <2>1, <2>2, <2>3, <2>4 DEF VectorInv
<1>2. ASSUME NEW t \in Thread, NEW c \in {"commit", "consolidate"}, Begin(t, c) PROVE VectorInv'
  <2>1. PICK to \in {"append", "snapshot"} :
            /\ Goto(t, to) /\ (to = "append" => state.seq < MaxCommits)
            /\ (to = "snapshot" => state.ops = NoOps)
    BY <1>2 DEF Begin
  <2>2. /\ status = "open" /\ status' = "open" /\ pc[t] = "idle" /\ writer = 0 /\ writer' = 1
        /\ UNCHANGED <<files, state>>
    BY <1>2 DEF Begin, Running
  <2>3. pc[t] \notin Publishing /\ writer' \in 0 .. 2
    BY SMT, <2>2 DEF Publishing
  <2> QED BY <2>1, <2>2, <2>3, CallOnlyKeepsInv
<1>3. ASSUME NEW t \in Thread, Commit(t) PROVE VectorInv'
  BY <1>3, WriteFrameKeepsInv, SyncFrameKeepsInv, AppendFailsKeepsInv DEF Commit
<1>4. ASSUME NEW t \in Thread, Unchanged(t) \/ BuildFails(t) \/ CleanupFails(t) PROVE VectorInv'
  <2>1. /\ pc[t] \in {"snapshot", "vertex", "written", "cleanup"} /\ status = "open"
        /\ status' = "open" /\ Goto(t, "idle") /\ writer' \in 0 .. 2
        /\ UNCHANGED <<files, state>>
    BY SMT, <1>4 DEF Unchanged, BuildFails, CleanupFails, Running, Returned, Released, VectorInv, PermitInv
  <2> QED BY <2>1, CallOnlyKeepsInv DEF Publishing
<1>5. ASSUME NEW t \in Thread, PublishFails(t) PROVE VectorInv'
  <2>1. /\ pc[t] # "idle" /\ status = "open" /\ status' = "open" /\ Goto(t, "idle")
        /\ writer' = 2 /\ UNCHANGED <<files, state>>
    BY <1>5 DEF PublishFails, Running
  <2> QED BY SMT, <2>1, CallOnlyKeepsInv
<1>6. ASSUME NEW t \in Thread, NEW f \in Generations, RemoveStale(t, f) PROVE VectorInv'
  BY <1>6, CleanupKeepsInv DEF RemoveStale
<1>7. ASSUME NEW t \in Thread, Consolidate(t) PROVE VectorInv'
  BY <1>4, <1>5, <1>6, <1>7, WriteRowsKeepsInv, WriteVertexKeepsInv, SyncGenerationKeepsInv,
     PublishKeepsInv, SyncCurrentKeepsInv, RotateKeepsInv, SwapKeepsInv, ConsolidatedKeepsInv
     DEF Consolidate
<1>8. ASSUME NEW f \in Generations, OpenRemoves(f) PROVE VectorInv'
  BY <1>8, CleanupKeepsInv DEF OpenRemoves
<1>9. ASSUME OpenFails \/ Close PROVE VectorInv'
  <2>1. UNCHANGED files /\ Down
    BY <1>9 DEF OpenFails, Close
  <2>2. FilesInv'
    BY <2>1 DEF VectorInv, FilesInv, DirOK, SameBase, files
  <2> QED BY <2>1, <2>2, DownKeepsInv
<1> QED
  BY <1>1, <1>2, <1>3, <1>7, <1>8, <1>9, StageKeepsInv, OpenKeepsInv, TruncateKeepsInv,
     OpenedKeepsInv, CrashKeepsInv
     DEF Next

\* In every state that is reached the files, the memory and the permit are consistent: the
\* inductive invariant of the durable vector index.
THEOREM VectorInvariant == Spec => []VectorInv
BY VectorInit, VectorStep, PTL DEF Spec

\* No power loss, at any step of a commit, a consolidation or an open, leaves a CURRENT
\* that names a generation whose rows or graph are missing.
THEOREM VectorCurrentHasBase == Spec => []CurrentHasBase
<1>1. VectorInv => CurrentHasBase
  BY DEF VectorInv, FilesInv, DirOK, CurrentHasBase
<1> QED BY <1>1, VectorInvariant, PTL

\* What ActiveGenerationKept says of a step.
KeepsActive ==
    \A f \in Generations :
        /\ (status = "open" /\ status' = "open" /\ f[2] = state.base /\ state'.base = state.base)
              => disk'[f] = disk[f]
        /\ (f[2] = disk[Current] /\ disk'[Current] = disk[Current]) => disk'[f] = disk[f]

\* A step that replaces one file touches no other.
LEMMA OtherFiles ==
    ASSUME VectorInv, NEW x, NEW c, disk' = [disk EXCEPT ![x] = c]
    PROVE  \A f \in Generations : f # x => disk'[f] = disk[f]
BY DEF VectorInv, FilesInv, DirOK, File

\* A step that replaces CURRENT, the log or a file of no active generation.
LEMMA KeepsActiveRename ==
    ASSUME VectorInv, NEW x, NEW c, disk' = [disk EXCEPT ![x] = c],
           x \notin Generations \/ (x[2] # state.base /\ x[2] # disk[Current])
    PROVE  KeepsActive
BY OtherFiles DEF KeepsActive

\* The files a consolidation writes are of a generation that is not in use.
LEMMA BuildsBeside ==
    ASSUME VectorInv, NEW t \in Thread, WriteRows(t) \/ WriteVertex(t)
    PROVE  state.seq \in Number /\ state.seq # state.base /\ state.seq # disk[Current]
<1>1. pc[t] \in {"snapshot", "vertex"} /\ CallInv(pc[t])
  BY DEF WriteRows, WriteVertex, Running, VectorInv
<1>2. state.changed
  BY <1>1 DEF WriteRows, CallInv, WriteVertex, Running
<1> QED BY <1>1, <1>2, BeforePublication

\* The steps, by what they do to the files.
LEMMA ActiveStep == VectorInv /\ [Next]_vars => KeepsActive
<1> SUFFICES ASSUME VectorInv, [Next]_vars PROVE KeepsActive
  OBVIOUS
<1>1. CASE UNCHANGED disk
  BY <1>1 DEF KeepsActive
<1>2. CASE \E l : LogFile(l)
  BY <1>2, KeepsActiveRename, FileNames DEF LogFile
<1>3. CASE \E t \in Thread : WriteRows(t) \/ WriteVertex(t)
  <2>1. PICK t \in Thread : WriteRows(t) \/ WriteVertex(t)
    BY <1>3
  <2>2. state.seq \in Number /\ state.seq # state.base /\ state.seq # disk[Current]
    BY <2>1, BuildsBeside
  <2>3. PICK x \in {Rows(state.seq), Vertex(state.seq)} : disk' = [disk EXCEPT ![x] = state.view]
    BY <2>1 DEF WriteRows, WriteVertex, Renamed
  <2>4. x[2] = state.seq
    BY <2>2, <2>3, FileNames
  <2> QED BY <2>2, <2>3, <2>4, KeepsActiveRename
<1>4. CASE \E t \in Thread : Publish(t) \/ Rotate(t)
  BY <1>4, KeepsActiveRename, FileNames DEF Publish, Rotate, Renamed
<1>5. CASE \E f \in Generations : OpenRemoves(f) \/ \E t \in Thread : RemoveStale(t, f)
  <2>1. PICK f \in Generations : OpenRemoves(f) \/ \E t \in Thread : RemoveStale(t, f)
    BY <1>5
  <2>2. /\ f \in Stale /\ disk' = [disk EXCEPT ![f] = NoFile]
        /\ status = "cleaning" \/ \E t \in Thread : Running(t, "cleanup")
    BY <2>1 DEF OpenRemoves, RemoveStale, Renamed
  <2>3. f[2] # state.base /\ f[2] # disk[Current]
    BY <2>2, StaleIsNotCurrent DEF Stale
  <2> QED BY <2>2, <2>3, KeepsActiveRename
<1>6. CASE \E d \in survivors : \E l \in LogLoss(d[Log]) :
              disk' = [d EXCEPT ![Log] = l] /\ status' = "down"
  <2>0. PICK d \in survivors : \E l \in LogLoss(d[Log]) :
              disk' = [d EXCEPT ![Log] = l] /\ status' = "down"
    BY <1>6
  <2>1. PICK l \in LogLoss(d[Log]) : disk' = [d EXCEPT ![Log] = l] /\ status' = "down"
    BY <2>0
  <2>2. DirOK(d) /\ SameBase(d)
    BY DEF VectorInv, FilesInv
  <2>3. disk'[Current] = d[Current] /\ \A f \in Generations : disk'[f] = d[f]
    BY <2>1, <2>2, FileNames DEF DirOK, File
  <2> QED BY <2>1, <2>2, <2>3 DEF SameBase, KeepsActive
<1>7. ASSUME NEW t \in Thread, Commit(t) PROVE UNCHANGED disk \/ \E l : LogFile(l)
  BY <1>7 DEF Commit, WriteFrame, SyncFrame, AppendFails, files
<1>8. ASSUME NEW t \in Thread, Consolidate(t)
      PROVE  \/ UNCHANGED disk \/ WriteRows(t) \/ WriteVertex(t) \/ Publish(t) \/ Rotate(t)
             \/ \E f \in Generations : RemoveStale(t, f)
  BY <1>8 DEF Consolidate, Unchanged, SyncGeneration, BuildFails, SyncCurrent, Swap, PublishFails,
              Consolidated, CleanupFails, DirectorySynced, files
<1>9. Open \/ Truncate \/ Opened \/ OpenFails \/ Close => UNCHANGED disk \/ \E l : LogFile(l)
  BY DEF Open, Truncate, Opened, OpenFails, Close, DirectorySynced, files
<1>10. ASSUME NEW power \in BOOLEAN, Crash(power)
       PROVE  \/ UNCHANGED disk
              \/ \E d \in survivors : \E l \in LogLoss(d[Log]) :
                    disk' = [d EXCEPT ![Log] = l] /\ status' = "down"
  BY <1>10 DEF Crash, Down, files
<1>11. ASSUME NEW t \in Thread, \/ \E b \in Batches(state.seq + 1) : Stage(t, b)
                                \/ \E c \in {"commit", "consolidate"} : Begin(t, c)
       PROVE  UNCHANGED disk
  BY <1>11 DEF Stage, Begin, files
<1>12. CASE UNCHANGED vars
  BY <1>1, <1>12 DEF vars, files
<1> QED BY <1>1, <1>2, <1>3, <1>4, <1>5, <1>6, <1>7, <1>8, <1>9, <1>10, <1>11, <1>12 DEF Next

\* No step of a commit, a consolidation, an open or a power loss replaces or removes a file
\* of the generation that searches have mapped, or of the one the next open will read.
THEOREM VectorActiveGenerationKept == Spec => ActiveGenerationKept
<1>1. VectorInv /\ [Next]_vars => [KeepsActive]_vars
  BY ActiveStep
<1> QED BY <1>1, VectorInvariant, PTL DEF Spec, ActiveGenerationKept, KeepsActive

=============================================================================
