-------------------------- MODULE PipelineProofs ---------------------------
(***************************************************************************)
(* The theorems about what the server keeps for its clients: the way of a  *)
(* request through it (Pipeline) and the sessions of its MCP transport     *)
(* (Sessions).                                                             *)
(***************************************************************************)
EXTENDS Pipeline, Sessions, FiniteSetTheorems, WellFoundedInduction, TLAPS

USE Zenon

-----------------------------------------------------------------------------
(***************************************************************************)
(* Theorems about module Pipeline, for any number of requests, keys, work  *)
(* slots and places in the queue: permits are neither lost nor made, the   *)
(* stores are flushed beside no work, the idempotency table implements     *)
(* OnceKeys, and its books are right.                                      *)
(*                                                                         *)
(* Two independent invariants.  Admission counts who holds what; it needs  *)
(* nothing of the line of waiters.  Ownership says that a request at work  *)
(* under a key owns the key's running record alone, that the completion    *)
(* queue lists each settled key once, and which keys can have taken        *)
(* effect.  The books add the converse: nothing settled is missing from    *)
(* the queue, nothing running is without its request, and the bytes of the *)
(* queue, a sum along it, are those the table counts.                      *)
(***************************************************************************)

InLine == {r \in Requests : stage[r] \in {"counted", "queued"}}

PermitCounts ==
    /\ stage \in [Requests -> Stages]
    /\ slots \in Nat /\ drained \in Nat /\ queued \in Nat
    /\ slots + Cardinality(Holders) + drained = Capacity
    /\ queued = Cardinality(Waiters)
    /\ Cardinality(InLine) <= MaxQueue

Closes ==
    /\ accepting \in BOOLEAN
    /\ shutdown \in {"serving", "stopped", "draining", "flushing", "down"}
    /\ shutdown # "serving" => ~accepting
    /\ shutdown = "flushing" => drained = Capacity

AdmissionInv == PermitCounts /\ Closes /\ NoWorkBesideFlush

RecordType == {NoRecord, Running, Unreplayable} \cup {Done(s) : s \in Sizes}

TableTyped ==
    /\ keyOf \in [Requests -> Keys \cup {NoKey}]
    /\ stage \in [Requests -> Stages]
    /\ outcome \in [Requests -> Outcomes]
    /\ records \in [Keys -> RecordType]
    /\ completed \in Seq(Keys)
    /\ applied \in SUBSET Keys

AtWork(r) == stage[r] \in {"working", "worked"} /\ keyOf[r] # NoKey

KeysOwned ==
    /\ \A r \in Requests : AtWork(r) => records[keyOf[r]] = Running
    /\ \A q, r \in Requests : AtWork(q) /\ AtWork(r) /\ keyOf[q] = keyOf[r] => q = r

QueueExact ==
    /\ \A i \in 1..Len(completed) : KeyOfSettled(records[completed[i]])
    /\ \A i, j \in 1..Len(completed) : completed[i] = completed[j] => i = j

EffectsKnown ==
    /\ \A k \in Keys : records[k] = NoRecord => k \notin applied
    /\ \A r \in Requests :
          /\ stage[r] = "working" => keyOf[r] \notin applied
          /\ stage[r] = "worked" /\ outcome[r] = "transient" => keyOf[r] \notin applied

TableInv == TableTyped /\ KeysOwned /\ QueueExact /\ EffectsKnown

-----------------------------------------------------------------------------
(* Permits and places in the queue.                                        *)

Is(x, X) == IF x \in X THEN 1 ELSE 0

In(f, X) == {q \in Requests : f[q] \in X}
Busy == {"reading", "working", "worked"}
Lined == {"counted", "queued"}

\* When one request changes its stage, the requests in the stages X are as
\* many as before, one more or one less.
LEMMA MoveCounts ==
    ASSUME NEW f \in [Requests -> Stages], NEW r \in Requests, NEW t \in Stages, NEW X
    PROVE  /\ Cardinality(In(f, X)) \in Nat
           /\ Cardinality(In([f EXCEPT ![r] = t], X))
              = Cardinality(In(f, X)) + Is(t, X) - Is(f[r], X)
<1> DEFINE S == In(f, X)
           T == In([f EXCEPT ![r] = t], X)
<1>1. IsFiniteSet(S) /\ Cardinality(S) \in Nat
  BY PipelineAssumption, FS_Subset, FS_CardinalityType DEF In
<1>2. CASE t \in X /\ f[r] \notin X
  <2>1. T = S \cup {r} /\ r \notin S
    BY <1>2 DEF In
  <2>2. Is(t, X) = 1 /\ Is(f[r], X) = 0
    BY <1>2 DEF Is
  <2> HIDE DEF S, T
  <2>3. Cardinality(T) = Cardinality(S) + 1
    BY <1>1, <2>1, FS_AddElement
  <2> QED BY SMT, <1>1, <2>2, <2>3 DEF S, T
<1>3. CASE t \notin X /\ f[r] \in X
  <2>1. T = S \ {r} /\ r \in S
    BY <1>3 DEF In
  <2>2. Is(t, X) = 0 /\ Is(f[r], X) = 1
    BY <1>3 DEF Is
  <2> HIDE DEF S, T
  <2>3. Cardinality(T) = Cardinality(S) - 1
    BY <1>1, <2>1, FS_RemoveElement
  <2> QED BY SMT, <1>1, <2>2, <2>3 DEF S, T
<1>4. CASE (t \in X) <=> (f[r] \in X)
  <2>1. T = S
    BY <1>4 DEF In
  <2>2. Is(t, X) = Is(f[r], X) /\ Is(t, X) \in Nat
    BY <1>4 DEF Is
  <2> HIDE DEF S, T
  <2> QED BY SMT, <1>1, <2>1, <2>2 DEF S, T
<1> QED BY <1>2, <1>3, <1>4

\* The three counts of Admission, when r moves to t.
LEMMA CountsMoved ==
    ASSUME AdmissionInv, NEW r \in Requests, NEW t \in Stages, Move(r, t)
    PROVE  /\ stage' \in [Requests -> Stages]
           /\ Cardinality(Holders) \in Nat /\ Cardinality(Waiters) \in Nat
           /\ Cardinality(InLine) \in Nat /\ Cardinality(InLine) <= Cardinality(Waiters)
           /\ Cardinality(Waiters') \in Nat
           /\ Cardinality(Holders') = Cardinality(Holders) + Is(t, Holding) - Is(stage[r], Holding)
           /\ Cardinality(Waiters') = Cardinality(Waiters) + Is(t, Counted) - Is(stage[r], Counted)
           /\ Cardinality(InLine') = Cardinality(InLine) + Is(t, Lined) - Is(stage[r], Lined)
           /\ (\A q \in Requests : stage[q] \notin Busy) /\ t \notin Busy
              => \A q \in Requests : stage'[q] \notin Busy
<1>0. stage \in [Requests -> Stages] /\ stage' = [stage EXCEPT ![r] = t]
  BY DEF AdmissionInv, PermitCounts, Move
<1>1. /\ Holders = In(stage, Holding) /\ Holders' = In([stage EXCEPT ![r] = t], Holding)
      /\ Waiters = In(stage, Counted) /\ Waiters' = In([stage EXCEPT ![r] = t], Counted)
      /\ InLine = In(stage, Lined) /\ InLine' = In([stage EXCEPT ![r] = t], Lined)
  BY <1>0 DEF Holders, Waiters, InLine, In, Lined
<1>2. \A X : /\ Cardinality(In(stage, X)) \in Nat
             /\ Cardinality(In([stage EXCEPT ![r] = t], X))
                = Cardinality(In(stage, X)) + Is(t, X) - Is(stage[r], X)
  BY <1>0, MoveCounts
<1>3. Cardinality(InLine) <= Cardinality(Waiters)
  <2>1. InLine \subseteq Waiters /\ IsFiniteSet(Waiters)
    BY PipelineAssumption, FS_Subset DEF InLine, Waiters, Counted
  <2> QED BY <2>1, FS_Subset
<1>4. stage' \in [Requests -> Stages] /\ Cardinality(Waiters') \in Nat
  BY <1>0, PipelineAssumption, FS_Subset, FS_CardinalityType DEF Waiters
<1>5. (\A q \in Requests : stage[q] \notin Busy) /\ t \notin Busy
      => \A q \in Requests : stage'[q] \notin Busy
  BY <1>0
<1> QED BY <1>1, <1>2, <1>3, <1>4, <1>5

\* At the start every permit is free.
LEMMA AdmissionInitial == PipelineInit => AdmissionInv
<1> SUFFICES ASSUME PipelineInit PROVE AdmissionInv
  OBVIOUS
<1>1. Holders = {} /\ Waiters = {} /\ InLine = {}
  BY DEF PipelineInit, Holders, Waiters, InLine, Holding, Counted
<1> QED
  BY SMT, <1>1, FS_EmptySet, PipelineAssumption
  DEF PipelineInit, AdmissionInv, PermitCounts, Closes, Stages, NoWorkBesideFlush

\* Every step keeps the counts.
LEMMA AdmissionStep == AdmissionInv /\ [PipelineNext]_pipelineVars => AdmissionInv'
<1> SUFFICES ASSUME AdmissionInv, [PipelineNext]_pipelineVars
             PROVE  AdmissionInv'
  OBVIOUS
<1> USE PipelineAssumption DEF AdmissionInv, admission, table, closing
<1>0. Cardinality(Holders) \in Nat /\ (Cardinality(Holders) = 0 => Holders = {})
  <2>1. IsFiniteSet(Holders)
    BY FS_Subset DEF Holders
  <2> QED BY <2>1, FS_CardinalityType, FS_EmptySet
<1>1. ASSUME NEW r \in Requests, Arrive(r) PROVE AdmissionInv'
  <2>1. CASE stage[r] = "idle" /\ Move(r, "checked")
    <3>1. /\ Cardinality(Holders') = Cardinality(Holders)
          /\ Cardinality(Waiters') = Cardinality(Waiters)
          /\ Cardinality(InLine') = Cardinality(InLine)
      BY SMT, <2>1, CountsMoved DEF Is, Stages, Holding, Counted, Lined
    <3>2. /\ stage' \in [Requests -> Stages] /\ Cardinality(Waiters') \in Nat
          /\ Cardinality(InLine) \in Nat /\ Cardinality(InLine) <= Cardinality(Waiters)
      BY <2>1, CountsMoved DEF Stages, Holding, Counted
    <3>3. NoWorkBesideFlush'
      BY SMT, <1>1, <2>1, CountsMoved DEF Arrive, NoWorkBesideFlush, Closes, Stages, Holding, Counted, Busy
    <3>4. slots' = slots /\ queued' = queued /\ drained' = drained
      BY <1>1, <2>1 DEF Arrive, Move, PermitCounts
    <3>5. PermitCounts'
      BY <1>0, <3>1, <3>2, <3>4 DEF PermitCounts
    <3> QED BY <1>1, <3>3, <3>5 DEF Arrive, Closes
  <2>2. CASE stage[r] = "idle" /\ Move(r, "answered")
    <3>1. /\ Cardinality(Holders') = Cardinality(Holders)
          /\ Cardinality(Waiters') = Cardinality(Waiters)
          /\ Cardinality(InLine') = Cardinality(InLine)
      BY SMT, <2>2, CountsMoved DEF Is, Stages, Holding, Counted, Lined
    <3>2. /\ stage' \in [Requests -> Stages] /\ Cardinality(Waiters') \in Nat
          /\ Cardinality(InLine) \in Nat /\ Cardinality(InLine) <= Cardinality(Waiters)
      BY <2>2, CountsMoved DEF Stages, Holding, Counted
    <3>3. NoWorkBesideFlush'
      BY SMT, <1>1, <2>2, CountsMoved DEF Arrive, NoWorkBesideFlush, Closes, Stages, Holding, Counted, Busy
    <3>4. slots' = slots /\ queued' = queued /\ drained' = drained
      BY <1>1, <2>2 DEF Arrive, Move, PermitCounts
    <3>5. PermitCounts'
      BY <1>0, <3>1, <3>2, <3>4 DEF PermitCounts
    <3> QED BY <1>1, <3>3, <3>5 DEF Arrive, Closes
  <2> QED BY <1>1, <2>1, <2>2 DEF Arrive
<1>2. ASSUME NEW r \in Requests, AdmitFails(r) PROVE AdmissionInv'
  <2>1. CASE stage[r] = "idle" /\ Move(r, "answered")
    <3>1. /\ Cardinality(Holders') = Cardinality(Holders)
          /\ Cardinality(Waiters') = Cardinality(Waiters)
          /\ Cardinality(InLine') = Cardinality(InLine)
      BY SMT, <2>1, CountsMoved DEF Is, Stages, Holding, Counted, Lined
    <3>2. /\ stage' \in [Requests -> Stages] /\ Cardinality(Waiters') \in Nat
          /\ Cardinality(InLine) \in Nat /\ Cardinality(InLine) <= Cardinality(Waiters)
      BY <2>1, CountsMoved DEF Stages, Holding, Counted
    <3>3. NoWorkBesideFlush'
      BY SMT, <1>2, <2>1, CountsMoved
         DEF AdmitFails, NoWorkBesideFlush, Closes, Stages, Holding, Counted, Busy
    <3>4. slots' = slots /\ queued' = queued /\ drained' = drained
      BY <1>2, <2>1 DEF AdmitFails, Move, PermitCounts
    <3>5. PermitCounts'
      BY <1>0, <3>1, <3>2, <3>4 DEF PermitCounts
    <3> QED BY <1>2, <3>3, <3>5 DEF AdmitFails, Closes
  <2> QED BY <1>2, <2>1 DEF AdmitFails
<1>3. ASSUME NEW r \in Requests, TryAcquire(r) PROVE AdmissionInv'
  <2>1. CASE stage[r] = "checked" /\ Move(r, "granted")
    <3>1. /\ Cardinality(Holders') = Cardinality(Holders) + 1
          /\ Cardinality(Waiters') = Cardinality(Waiters)
          /\ Cardinality(InLine') = Cardinality(InLine)
      BY SMT, <2>1, CountsMoved DEF Is, Stages, Holding, Counted, Lined
    <3>2. /\ stage' \in [Requests -> Stages] /\ Cardinality(Waiters') \in Nat
          /\ Cardinality(InLine) \in Nat /\ Cardinality(InLine) <= Cardinality(Waiters)
      BY <2>1, CountsMoved DEF Stages, Holding, Counted
    <3>3. NoWorkBesideFlush'
      BY SMT, <1>3, <2>1, CountsMoved
         DEF TryAcquire, NoWorkBesideFlush, Closes, Stages, Holding, Counted, Busy
    <3>4. slots > 0 /\ slots' = slots - 1 /\ queued' = queued /\ drained' = drained
      BY <1>3, <2>1 DEF TryAcquire, Move, PermitCounts
    <3>5. PermitCounts'
      BY SMT, <1>0, <3>1, <3>2, <3>4 DEF PermitCounts
    <3> QED BY <1>3, <3>3, <3>5 DEF TryAcquire, Closes
  <2>2. CASE stage[r] = "checked" /\ Move(r, "answered")
    <3>1. /\ Cardinality(Holders') = Cardinality(Holders)
          /\ Cardinality(Waiters') = Cardinality(Waiters)
          /\ Cardinality(InLine') = Cardinality(InLine)
      BY SMT, <2>2, CountsMoved DEF Is, Stages, Holding, Counted, Lined
    <3>2. /\ stage' \in [Requests -> Stages] /\ Cardinality(Waiters') \in Nat
          /\ Cardinality(InLine) \in Nat /\ Cardinality(InLine) <= Cardinality(Waiters)
      BY <2>2, CountsMoved DEF Stages, Holding, Counted
    <3>3. NoWorkBesideFlush'
      BY SMT, <1>3, <2>2, CountsMoved
         DEF TryAcquire, NoWorkBesideFlush, Closes, Stages, Holding, Counted, Busy
    <3>4. slots' = slots /\ queued' = queued /\ drained' = drained
      BY <1>3, <2>2 DEF TryAcquire, Move, PermitCounts
    <3>5. PermitCounts'
      BY <1>0, <3>1, <3>2, <3>4 DEF PermitCounts
    <3> QED BY <1>3, <3>3, <3>5 DEF TryAcquire, Closes
  <2>3. CASE stage[r] = "checked" /\ Move(r, "overflow")
    <3>1. /\ Cardinality(Holders') = Cardinality(Holders)
          /\ Cardinality(Waiters') = Cardinality(Waiters) + 1
          /\ Cardinality(InLine') = Cardinality(InLine)
      BY SMT, <2>3, CountsMoved DEF Is, Stages, Holding, Counted, Lined
    <3>2. /\ stage' \in [Requests -> Stages] /\ Cardinality(Waiters') \in Nat
          /\ Cardinality(InLine) \in Nat /\ Cardinality(InLine) <= Cardinality(Waiters)
      BY <2>3, CountsMoved DEF Stages, Holding, Counted
    <3>3. NoWorkBesideFlush'
      BY SMT, <1>3, <2>3, CountsMoved
         DEF TryAcquire, NoWorkBesideFlush, Closes, Stages, Holding, Counted, Busy
    <3>4. slots' = slots /\ queued' = queued + 1 /\ drained' = drained
      BY <1>3, <2>3 DEF TryAcquire, Move, PermitCounts
    <3>5. PermitCounts'
      BY <1>0, <3>1, <3>2, <3>4 DEF PermitCounts
    <3> QED BY <1>3, <3>3, <3>5 DEF TryAcquire, Closes
  <2>4. CASE stage[r] = "checked" /\ Move(r, "counted")
    <3>1. /\ Cardinality(Holders') = Cardinality(Holders)
          /\ Cardinality(Waiters') = Cardinality(Waiters) + 1
          /\ Cardinality(InLine') = Cardinality(InLine) + 1
      BY SMT, <2>4, CountsMoved DEF Is, Stages, Holding, Counted, Lined
    <3>2. /\ stage' \in [Requests -> Stages] /\ Cardinality(Waiters') \in Nat
          /\ Cardinality(InLine) \in Nat /\ Cardinality(InLine) <= Cardinality(Waiters)
      BY <2>4, CountsMoved DEF Stages, Holding, Counted
    <3>3. NoWorkBesideFlush'
      BY SMT, <1>3, <2>4, CountsMoved
         DEF TryAcquire, NoWorkBesideFlush, Closes, Stages, Holding, Counted, Busy
    <3>4. queued < MaxQueue /\ slots' = slots /\ queued' = queued + 1 /\ drained' = drained
      BY SMT, <1>3, <2>4 DEF TryAcquire, Move, PermitCounts
    <3>5. PermitCounts'
      BY SMT, <1>0, <3>1, <3>2, <3>4 DEF PermitCounts
    <3> QED BY <1>3, <3>3, <3>5 DEF TryAcquire, Closes
  <2> QED BY <1>3, <2>1, <2>2, <2>3, <2>4 DEF TryAcquire
<1>4. ASSUME NEW r \in Requests, Overflow(r) PROVE AdmissionInv'
  <2>1. CASE stage[r] = "overflow" /\ Move(r, "answered")
    <3>1. /\ Cardinality(Holders') = Cardinality(Holders)
          /\ Cardinality(Waiters') = Cardinality(Waiters) - 1
          /\ Cardinality(InLine') = Cardinality(InLine)
      BY SMT, <2>1, CountsMoved DEF Is, Stages, Holding, Counted, Lined
    <3>2. /\ stage' \in [Requests -> Stages] /\ Cardinality(Waiters') \in Nat
          /\ Cardinality(InLine) \in Nat /\ Cardinality(InLine) <= Cardinality(Waiters)
      BY <2>1, CountsMoved DEF Stages, Holding, Counted
    <3>3. NoWorkBesideFlush'
      BY SMT, <1>4, <2>1, CountsMoved
         DEF Overflow, NoWorkBesideFlush, Closes, Stages, Holding, Counted, Busy
    <3>4. slots' = slots /\ queued' = queued - 1 /\ drained' = drained
      BY <1>4, <2>1 DEF Overflow, Move, PermitCounts
    <3>5. PermitCounts'
      BY <1>0, <3>1, <3>2, <3>4 DEF PermitCounts
    <3> QED BY <1>4, <3>3, <3>5 DEF Overflow, Closes
  <2> QED BY <1>4, <2>1 DEF Overflow
<1>5. ASSUME NEW r \in Requests, JoinLine(r) PROVE AdmissionInv'
  <2>1. CASE stage[r] = "counted" /\ Move(r, "granted")
    <3>1. /\ Cardinality(Holders') = Cardinality(Holders) + 1
          /\ Cardinality(Waiters') = Cardinality(Waiters) - 1
          /\ Cardinality(InLine') = Cardinality(InLine) - 1
      BY SMT, <2>1, CountsMoved DEF Is, Stages, Holding, Counted, Lined
    <3>2. /\ stage' \in [Requests -> Stages] /\ Cardinality(Waiters') \in Nat
          /\ Cardinality(InLine) \in Nat /\ Cardinality(InLine) <= Cardinality(Waiters)
      BY <2>1, CountsMoved DEF Stages, Holding, Counted
    <3>3. NoWorkBesideFlush'
      BY SMT, <1>5, <2>1, CountsMoved
         DEF JoinLine, NoWorkBesideFlush, Closes, Stages, Holding, Counted, Busy
    <3>4. slots > 0 /\ slots' = slots - 1 /\ queued' = queued - 1 /\ drained' = drained
      BY <1>5, <2>1 DEF JoinLine, Move, PermitCounts
    <3>5. PermitCounts'
      BY SMT, <1>0, <3>1, <3>2, <3>4 DEF PermitCounts
    <3> QED BY <1>5, <3>3, <3>5 DEF JoinLine, Closes
  <2>2. CASE stage[r] = "counted" /\ Move(r, "queued")
    <3>1. /\ Cardinality(Holders') = Cardinality(Holders)
          /\ Cardinality(Waiters') = Cardinality(Waiters)
          /\ Cardinality(InLine') = Cardinality(InLine)
      BY SMT, <2>2, CountsMoved DEF Is, Stages, Holding, Counted, Lined
    <3>2. /\ stage' \in [Requests -> Stages] /\ Cardinality(Waiters') \in Nat
          /\ Cardinality(InLine) \in Nat /\ Cardinality(InLine) <= Cardinality(Waiters)
      BY <2>2, CountsMoved DEF Stages, Holding, Counted
    <3>3. NoWorkBesideFlush'
      BY SMT, <1>5, <2>2, CountsMoved
         DEF JoinLine, NoWorkBesideFlush, Closes, Stages, Holding, Counted, Busy
    <3>4. slots' = slots /\ queued' = queued /\ drained' = drained
      BY <1>5, <2>2 DEF JoinLine, Move, PermitCounts
    <3>5. PermitCounts'
      BY <1>0, <3>1, <3>2, <3>4 DEF PermitCounts
    <3> QED BY <1>5, <3>3, <3>5 DEF JoinLine, Closes
  <2> QED BY <1>5, <2>1, <2>2 DEF JoinLine
<1>6. ASSUME NEW r \in Requests, Granted(r) PROVE AdmissionInv'
  <2>1. CASE stage[r] = "queued" /\ Move(r, "granted")
    <3>1. /\ Cardinality(Holders') = Cardinality(Holders) + 1
          /\ Cardinality(Waiters') = Cardinality(Waiters) - 1
          /\ Cardinality(InLine') = Cardinality(InLine) - 1
      BY SMT, <2>1, CountsMoved DEF Is, Stages, Holding, Counted, Lined
    <3>2. /\ stage' \in [Requests -> Stages] /\ Cardinality(Waiters') \in Nat
          /\ Cardinality(InLine) \in Nat /\ Cardinality(InLine) <= Cardinality(Waiters)
      BY <2>1, CountsMoved DEF Stages, Holding, Counted
    <3>3. NoWorkBesideFlush'
      BY SMT, <1>6, <2>1, CountsMoved
         DEF Granted, NoWorkBesideFlush, Closes, Stages, Holding, Counted, Busy
    <3>4. slots > 0 /\ slots' = slots - 1 /\ queued' = queued - 1 /\ drained' = drained
      BY <1>6, <2>1 DEF Granted, Move, PermitCounts
    <3>5. PermitCounts'
      BY SMT, <1>0, <3>1, <3>2, <3>4 DEF PermitCounts
    <3> QED BY <1>6, <3>3, <3>5 DEF Granted, Closes
  <2> QED BY <1>6, <2>1 DEF Granted
<1>7. ASSUME NEW r \in Requests, QueueTimeout(r) PROVE AdmissionInv'
  <2>1. CASE stage[r] = "queued" /\ Move(r, "answered")
    <3>1. /\ Cardinality(Holders') = Cardinality(Holders)
          /\ Cardinality(Waiters') = Cardinality(Waiters) - 1
          /\ Cardinality(InLine') = Cardinality(InLine) - 1
      BY SMT, <2>1, CountsMoved DEF Is, Stages, Holding, Counted, Lined
    <3>2. /\ stage' \in [Requests -> Stages] /\ Cardinality(Waiters') \in Nat
          /\ Cardinality(InLine) \in Nat /\ Cardinality(InLine) <= Cardinality(Waiters)
      BY <2>1, CountsMoved DEF Stages, Holding, Counted
    <3>3. NoWorkBesideFlush'
      BY SMT, <1>7, <2>1, CountsMoved
         DEF QueueTimeout, LeaveLine, NoWorkBesideFlush, Closes, Stages, Holding, Counted,
             Busy
    <3>4. slots' = slots /\ queued' = queued - 1 /\ drained' = drained
      BY <1>7, <2>1 DEF QueueTimeout, LeaveLine, Move, PermitCounts
    <3>5. PermitCounts'
      BY SMT, <1>0, <3>1, <3>2, <3>4 DEF PermitCounts
    <3> QED BY <1>7, <3>3, <3>5 DEF QueueTimeout, LeaveLine, Closes
  <2> QED BY <1>7, <2>1 DEF QueueTimeout
<1>8. ASSUME NEW r \in Requests, Recheck(r) PROVE AdmissionInv'
  <2>1. CASE stage[r] = "granted" /\ Move(r, "reading")
    <3>1. /\ Cardinality(Holders') = Cardinality(Holders)
          /\ Cardinality(Waiters') = Cardinality(Waiters)
          /\ Cardinality(InLine') = Cardinality(InLine)
      BY SMT, <2>1, CountsMoved DEF Is, Stages, Holding, Counted, Lined
    <3>2. /\ stage' \in [Requests -> Stages] /\ Cardinality(Waiters') \in Nat
          /\ Cardinality(InLine) \in Nat /\ Cardinality(InLine) <= Cardinality(Waiters)
      BY <2>1, CountsMoved DEF Stages, Holding, Counted
    <3>3. NoWorkBesideFlush'
      BY SMT, <1>8, <2>1, CountsMoved
         DEF Recheck, NoWorkBesideFlush, Closes, Stages, Holding, Counted, Busy
    <3>4. slots' = slots /\ queued' = queued /\ drained' = drained
      BY <1>8, <2>1 DEF Recheck, Move, PermitCounts
    <3>5. PermitCounts'
      BY <1>0, <3>1, <3>2, <3>4 DEF PermitCounts
    <3> QED BY <1>8, <3>3, <3>5 DEF Recheck, Closes
  <2>2. CASE stage[r] = "granted" /\ Move(r, "answered")
    <3>1. /\ Cardinality(Holders') = Cardinality(Holders) - 1
          /\ Cardinality(Waiters') = Cardinality(Waiters)
          /\ Cardinality(InLine') = Cardinality(InLine)
      BY SMT, <2>2, CountsMoved DEF Is, Stages, Holding, Counted, Lined
    <3>2. /\ stage' \in [Requests -> Stages] /\ Cardinality(Waiters') \in Nat
          /\ Cardinality(InLine) \in Nat /\ Cardinality(InLine) <= Cardinality(Waiters)
      BY <2>2, CountsMoved DEF Stages, Holding, Counted
    <3>3. NoWorkBesideFlush'
      BY SMT, <1>8, <2>2, CountsMoved
         DEF Recheck, NoWorkBesideFlush, Closes, Stages, Holding, Counted, Busy
    <3>4. slots' = slots + 1 /\ queued' = queued /\ drained' = drained
      BY <1>8, <2>2 DEF Recheck, Move, PermitCounts
    <3>5. PermitCounts'
      BY SMT, <1>0, <3>1, <3>2, <3>4 DEF PermitCounts
    <3> QED BY <1>8, <3>3, <3>5 DEF Recheck, Closes
  <2> QED BY <1>8, <2>1, <2>2 DEF Recheck
<1>9. ASSUME NEW r \in Requests, BodyFails(r) PROVE AdmissionInv'
  <2>1. CASE stage[r] = "reading" /\ Move(r, "answered")
    <3>1. /\ Cardinality(Holders') = Cardinality(Holders) - 1
          /\ Cardinality(Waiters') = Cardinality(Waiters)
          /\ Cardinality(InLine') = Cardinality(InLine)
      BY SMT, <2>1, CountsMoved DEF Is, Stages, Holding, Counted, Lined
    <3>2. /\ stage' \in [Requests -> Stages] /\ Cardinality(Waiters') \in Nat
          /\ Cardinality(InLine) \in Nat /\ Cardinality(InLine) <= Cardinality(Waiters)
      BY <2>1, CountsMoved DEF Stages, Holding, Counted
    <3>3. NoWorkBesideFlush'
      BY <1>9, <2>1, CountsMoved
         DEF BodyFails, NoWorkBesideFlush, Closes, Stages, Holding, Counted, Busy
    <3>4. slots' = slots + 1 /\ queued' = queued /\ drained' = drained
      BY <1>9, <2>1 DEF BodyFails, Move, PermitCounts
    <3>5. PermitCounts'
      BY SMT, <1>0, <3>1, <3>2, <3>4 DEF PermitCounts
    <3> QED BY <1>9, <3>3, <3>5 DEF BodyFails, Closes
  <2> QED BY <1>9, <2>1 DEF BodyFails
<1>10. ASSUME NEW r \in Requests, Begin(r) PROVE AdmissionInv'
  <2>1. CASE stage[r] = "reading" /\ Move(r, "working")
    <3>1. /\ Cardinality(Holders') = Cardinality(Holders)
          /\ Cardinality(Waiters') = Cardinality(Waiters)
          /\ Cardinality(InLine') = Cardinality(InLine)
      BY SMT, <2>1, CountsMoved DEF Is, Stages, Holding, Counted, Lined
    <3>2. /\ stage' \in [Requests -> Stages] /\ Cardinality(Waiters') \in Nat
          /\ Cardinality(InLine) \in Nat /\ Cardinality(InLine) <= Cardinality(Waiters)
      BY <2>1, CountsMoved DEF Stages, Holding, Counted
    <3>3. NoWorkBesideFlush'
      BY <1>10, <2>1, CountsMoved DEF Begin, NoWorkBesideFlush, Closes, Stages, Holding, Counted, Busy
    <3>4. slots' = slots /\ queued' = queued /\ drained' = drained
      BY <1>10, <2>1 DEF Begin, Move, PermitCounts
    <3>5. PermitCounts'
      BY <1>0, <3>1, <3>2, <3>4 DEF PermitCounts
    <3> QED BY <1>10, <3>3, <3>5 DEF Begin, Closes
  <2>2. CASE stage[r] = "reading" /\ Move(r, "answered")
    <3>1. /\ Cardinality(Holders') = Cardinality(Holders) - 1
          /\ Cardinality(Waiters') = Cardinality(Waiters)
          /\ Cardinality(InLine') = Cardinality(InLine)
      BY SMT, <2>2, CountsMoved DEF Is, Stages, Holding, Counted, Lined
    <3>2. /\ stage' \in [Requests -> Stages] /\ Cardinality(Waiters') \in Nat
          /\ Cardinality(InLine) \in Nat /\ Cardinality(InLine) <= Cardinality(Waiters)
      BY <2>2, CountsMoved DEF Stages, Holding, Counted
    <3>3. NoWorkBesideFlush'
      BY <1>10, <2>2, CountsMoved DEF Begin, NoWorkBesideFlush, Closes, Stages, Holding, Counted, Busy
    <3>4. slots' = slots + 1 /\ queued' = queued /\ drained' = drained
      BY <1>10, <2>2 DEF Begin, Move, PermitCounts
    <3>5. PermitCounts'
      BY SMT, <1>0, <3>1, <3>2, <3>4 DEF PermitCounts
    <3> QED BY <1>10, <3>3, <3>5 DEF Begin, Closes
  <2> QED BY <1>10, <2>1, <2>2 DEF Begin
<1>11. ASSUME NEW r \in Requests, Work(r) PROVE AdmissionInv'
  <2>1. CASE stage[r] = "working" /\ Move(r, "worked")
    <3>1. /\ Cardinality(Holders') = Cardinality(Holders)
          /\ Cardinality(Waiters') = Cardinality(Waiters)
          /\ Cardinality(InLine') = Cardinality(InLine)
      BY SMT, <2>1, CountsMoved DEF Is, Stages, Holding, Counted, Lined
    <3>2. /\ stage' \in [Requests -> Stages] /\ Cardinality(Waiters') \in Nat
          /\ Cardinality(InLine) \in Nat /\ Cardinality(InLine) <= Cardinality(Waiters)
      BY <2>1, CountsMoved DEF Stages, Holding, Counted
    <3>3. NoWorkBesideFlush'
      BY <1>11, <2>1, CountsMoved DEF Work, NoWorkBesideFlush, Closes, Stages, Holding, Counted, Busy
    <3>4. slots' = slots /\ queued' = queued /\ drained' = drained
      BY <1>11, <2>1 DEF Work, Move, PermitCounts
    <3>5. PermitCounts'
      BY <1>0, <3>1, <3>2, <3>4 DEF PermitCounts
    <3> QED BY <1>11, <3>3, <3>5 DEF Work, Closes
  <2> QED BY <1>11, <2>1 DEF Work
<1>12. ASSUME NEW r \in Requests, Finish(r) PROVE AdmissionInv'
  <2>1. CASE stage[r] = "worked" /\ Move(r, "answered")
    <3>1. /\ Cardinality(Holders') = Cardinality(Holders) - 1
          /\ Cardinality(Waiters') = Cardinality(Waiters)
          /\ Cardinality(InLine') = Cardinality(InLine)
      BY SMT, <2>1, CountsMoved DEF Is, Stages, Holding, Counted, Lined
    <3>2. /\ stage' \in [Requests -> Stages] /\ Cardinality(Waiters') \in Nat
          /\ Cardinality(InLine) \in Nat /\ Cardinality(InLine) <= Cardinality(Waiters)
      BY <2>1, CountsMoved DEF Stages, Holding, Counted
    <3>3. NoWorkBesideFlush'
      BY <1>12, <2>1, CountsMoved
         DEF Finish, NoWorkBesideFlush, Closes, Stages, Holding, Counted, Busy
    <3>4. slots' = slots + 1 /\ queued' = queued /\ drained' = drained
      BY <1>12, <2>1 DEF Finish, Move, PermitCounts
    <3>5. PermitCounts'
      BY SMT, <1>0, <3>1, <3>2, <3>4 DEF PermitCounts
    <3> QED BY <1>12, <3>3, <3>5 DEF Finish, Closes
  <2> QED BY <1>12, <2>1 DEF Finish
<1>13. ASSUME NEW r \in Requests, Disconnect(r) PROVE AdmissionInv'
  <2>1. CASE stage[r] = "queued" /\ Move(r, "answered")
    <3>1. /\ Cardinality(Holders') = Cardinality(Holders)
          /\ Cardinality(Waiters') = Cardinality(Waiters) - 1
          /\ Cardinality(InLine') = Cardinality(InLine) - 1
      BY SMT, <2>1, CountsMoved DEF Is, Stages, Holding, Counted, Lined
    <3>2. /\ stage' \in [Requests -> Stages] /\ Cardinality(Waiters') \in Nat
          /\ Cardinality(InLine) \in Nat /\ Cardinality(InLine) <= Cardinality(Waiters)
      BY <2>1, CountsMoved DEF Stages, Holding, Counted
    <3>3. NoWorkBesideFlush'
      BY SMT, <1>13, <2>1, CountsMoved
         DEF Disconnect, LeaveLine, NoWorkBesideFlush, Closes, Stages, Holding, Counted,
             Busy
    <3>4. slots' = slots /\ queued' = queued - 1 /\ drained' = drained
      BY <1>13, <2>1 DEF Disconnect, LeaveLine, Move, PermitCounts
    <3>5. PermitCounts'
      BY SMT, <1>0, <3>1, <3>2, <3>4 DEF PermitCounts
    <3> QED BY <1>13, <3>3, <3>5 DEF Disconnect, LeaveLine, Closes
  <2>2. CASE stage[r] = "reading" /\ Move(r, "answered")
    <3>1. /\ Cardinality(Holders') = Cardinality(Holders) - 1
          /\ Cardinality(Waiters') = Cardinality(Waiters)
          /\ Cardinality(InLine') = Cardinality(InLine)
      BY SMT, <2>2, CountsMoved DEF Is, Stages, Holding, Counted, Lined
    <3>2. /\ stage' \in [Requests -> Stages] /\ Cardinality(Waiters') \in Nat
          /\ Cardinality(InLine) \in Nat /\ Cardinality(InLine) <= Cardinality(Waiters)
      BY <2>2, CountsMoved DEF Stages, Holding, Counted
    <3>3. NoWorkBesideFlush'
      BY <1>13, <2>2, CountsMoved
         DEF Disconnect, LeaveLine, NoWorkBesideFlush, Closes, Stages, Holding, Counted,
             Busy
    <3>4. slots' = slots + 1 /\ queued' = queued /\ drained' = drained
      BY <1>13, <2>2 DEF Disconnect, LeaveLine, Move, PermitCounts
    <3>5. PermitCounts'
      BY SMT, <1>0, <3>1, <3>2, <3>4 DEF PermitCounts
    <3> QED BY <1>13, <3>3, <3>5 DEF Disconnect, LeaveLine, Closes
  <2> QED BY <1>13, <2>1, <2>2 DEF Disconnect
<1>14. CASE Stop
  <2>1. Holders' = Holders /\ Waiters' = Waiters /\ InLine' = InLine
    BY <1>14 DEF Stop, Holders, Waiters, InLine
  <2>2. PermitCounts'
    BY <1>0, <1>14, <2>1 DEF Stop, PermitCounts
  <2>3. Closes'
    BY <1>0, <1>14 DEF Stop, Closes, PermitCounts
  <2>4. NoWorkBesideFlush'
    BY <1>14 DEF Stop, NoWorkBesideFlush, Closes
  <2> QED BY <2>2, <2>3, <2>4
<1>15. CASE BeginDrain
  <2>1. Holders' = Holders /\ Waiters' = Waiters /\ InLine' = InLine
    BY <1>15 DEF BeginDrain, Holders, Waiters, InLine
  <2>2. PermitCounts'
    BY <1>0, <1>15, <2>1 DEF BeginDrain, PermitCounts
  <2>3. Closes'
    BY <1>0, <1>15 DEF BeginDrain, Closes, PermitCounts
  <2>4. NoWorkBesideFlush'
    BY <1>15 DEF BeginDrain, NoWorkBesideFlush, Closes
  <2> QED BY <2>2, <2>3, <2>4
<1>16. CASE DrainTake
  <2>1. Holders' = Holders /\ Waiters' = Waiters /\ InLine' = InLine
    BY <1>16 DEF DrainTake, Holders, Waiters, InLine
  <2>2. PermitCounts'
    BY SMT, <1>0, <1>16, <2>1 DEF DrainTake, PermitCounts
  <2>3. Closes'
    <3>1. shutdown' = "flushing" => drained' = Capacity
      BY <1>16 DEF DrainTake, Closes
    <3>2. shutdown' \in {shutdown, "flushing"} /\ accepting' = accepting
      BY <1>16 DEF DrainTake
    <3>3. shutdown # "serving"
      BY <1>16 DEF DrainTake
    <3> QED BY <3>1, <3>2, <3>3 DEF Closes
  <2>4. shutdown' = "flushing" => shutdown = "flushing" \/ Holders = {}
    BY SMT, <1>0, <1>16 DEF DrainTake, PermitCounts
  <2>5. NoWorkBesideFlush'
    BY <1>16, <2>4 DEF DrainTake, NoWorkBesideFlush, Holders, Holding
  <2> QED BY <2>2, <2>3, <2>5
<1>17. CASE Flushed
  <2>1. Holders' = Holders /\ Waiters' = Waiters /\ InLine' = InLine
    BY <1>17 DEF Flushed, Holders, Waiters, InLine
  <2>2. PermitCounts'
    BY SMT, <1>0, <1>17, <2>1 DEF Flushed, PermitCounts
  <2>3. Closes'
    BY <1>0, <1>17 DEF Flushed, Closes, PermitCounts
  <2>4. NoWorkBesideFlush'
    BY <1>17 DEF Flushed, NoWorkBesideFlush, Closes
  <2> QED BY <2>2, <2>3, <2>4
<1>18. CASE UNCHANGED pipelineVars
  BY <1>18 DEF pipelineVars, PermitCounts, Closes, NoWorkBesideFlush, Holders, Waiters,
     InLine
<1> QED
  BY <1>1, <1>2, <1>3, <1>4, <1>5, <1>6, <1>7, <1>8, <1>9, <1>10, <1>11, <1>12, <1>13,
     <1>14, <1>15, <1>16, <1>17, <1>18
  DEF PipelineNext, Handle

\* The counts hold in every state.
THEOREM PipelineAdmission == PipelineSpec => []AdmissionInv
<1>1. PipelineInit => AdmissionInv
  BY AdmissionInitial
<1>2. AdmissionInv /\ [PipelineNext]_pipelineVars => AdmissionInv'
  BY AdmissionStep
<1> QED BY <1>1, <1>2, PTL DEF PipelineSpec

\* WorkLimit neither loses a permit nor hands one out twice, and its count of
\* waiters is exact, for any capacity, queue and number of requests.
THEOREM PipelinePermits == PipelineSpec => []PermitsConserved
<1>1. AdmissionInv => PermitsConserved
  <2> SUFFICES ASSUME AdmissionInv PROVE PermitsConserved
    OBVIOUS
  <2> DEFINE Q == {r \in Requests : stage[r] = "queued"}
  <2>1. IsFiniteSet(InLine) /\ Q \subseteq InLine
    BY PipelineAssumption, FS_Subset DEF InLine
  <2>2. Cardinality(Q) <= Cardinality(InLine)
        /\ Cardinality(Q) \in Nat /\ Cardinality(InLine) \in Nat
    BY <2>1, FS_Subset, FS_CardinalityType
  <2> HIDE DEF Q
  <2>3. Cardinality(Q) <= MaxQueue
    BY SMT, <2>2, PipelineAssumption DEF AdmissionInv, PermitCounts
  <2> QED BY <2>3 DEF PermitsConserved, AdmissionInv, PermitCounts, Q
<1> QED BY <1>1, PipelineAdmission, PTL

\* serve_main flushes beside no admitted work, for every number of slots and
\* requests: the drain holds all permits, and later ones are refused by the
\* second look at `accepting`.
THEOREM PipelineFlushAlone == PipelineSpec => []NoWorkBesideFlush
<1>1. AdmissionInv => NoWorkBesideFlush
  BY DEF AdmissionInv
<1> QED BY <1>1, PipelineAdmission, PTL

-----------------------------------------------------------------------------
(* The idempotency table.                                                  *)

\* The states of a record tell the records apart.
LEMMA RecordStates ==
    /\ NoRecord.state = "unknown" /\ Running.state = "running"
    /\ Unreplayable.state = "unreplayable" /\ \A s \in Sizes : Done(s).state = "done"
    /\ \A c \in RecordType :
          /\ c.state \in {"unknown", "running", "unreplayable", "done"}
          /\ c.state = "unknown" <=> c = NoRecord
          /\ c.state = "running" <=> c = Running
          /\ KeyOfSettled(c) <=> c.state \notin {"unknown", "running"}
BY SMT DEF NoRecord, Running, Unreplayable, Done, RecordType, KeyOfSettled

\* At the start no key is known.
LEMMA TableInitial == PipelineInit => TableInv
<1> SUFFICES ASSUME PipelineInit PROVE TableInv
  OBVIOUS
<1>1. TableTyped
  BY SMT, PipelineAssumption DEF PipelineInit, TableTyped, RecordType, Stages, Outcomes
<1>2. KeysOwned /\ EffectsKnown
  BY DEF PipelineInit, KeysOwned, EffectsKnown, AtWork
<1>3. QueueExact
  BY SMT DEF PipelineInit, QueueExact
<1> QED BY <1>1, <1>2, <1>3 DEF TableInv

\* The steps before begin() and the shutdown leave the table alone, put
\* nobody to work and take no owner of a key from its work.
Idles ==
    /\ UNCHANGED <<keyOf, outcome, records, completed, bodyBytes, applied>>
    /\ stage' \in [Requests -> Stages]
    /\ \A r \in Requests : AtWork(r) => stage'[r] = stage[r]
    /\ \A r \in Requests : stage'[r] \in {"working", "worked"} => stage'[r] = stage[r]

\* Such a step keeps the table's invariant.
LEMMA TableIdles == TableInv /\ Idles => TableInv'
BY SMT DEF TableInv, Idles, TableTyped, KeysOwned, QueueExact, EffectsKnown, AtWork

\* Admission, disconnects, late bodies and the shutdown idle in this sense.
LEMMA AdmissionIdles ==
    ASSUME TableInv, UNCHANGED keyOf,
           \/ \E r \in Requests :
                 \/ Arrive(r)
                 \/ AdmitFails(r)
                 \/ TryAcquire(r)
                 \/ Overflow(r)
                 \/ JoinLine(r)
                 \/ Granted(r)
                 \/ QueueTimeout(r)
                 \/ Recheck(r)
                 \/ BodyFails(r)
                 \/ Disconnect(r)
           \/ Stop \/ BeginDrain \/ DrainTake \/ Flushed
    PROVE  Idles
<1> USE DEF Idles, TableInv, TableTyped, AtWork, Move, Stages, Counted, Holding, admission,
        table, closing
<1>1. ASSUME NEW r \in Requests, Arrive(r) PROVE Idles
  BY <1>1 DEF Arrive
<1>2. ASSUME NEW r \in Requests, AdmitFails(r) PROVE Idles
  BY <1>2 DEF AdmitFails
<1>3. ASSUME NEW r \in Requests, TryAcquire(r) PROVE Idles
  BY <1>3 DEF TryAcquire
<1>4. ASSUME NEW r \in Requests, Overflow(r) PROVE Idles
  BY <1>4 DEF Overflow
<1>5. ASSUME NEW r \in Requests, JoinLine(r) PROVE Idles
  BY <1>5 DEF JoinLine
<1>6. ASSUME NEW r \in Requests, Granted(r) PROVE Idles
  BY <1>6 DEF Granted
<1>7. ASSUME NEW r \in Requests, QueueTimeout(r) PROVE Idles
  BY <1>7 DEF QueueTimeout
<1>8. ASSUME NEW r \in Requests, Recheck(r) PROVE Idles
  BY <1>8 DEF Recheck
<1>9. ASSUME NEW r \in Requests, BodyFails(r) PROVE Idles
  BY <1>9 DEF BodyFails
<1>10. ASSUME NEW r \in Requests, Disconnect(r) PROVE Idles
  BY <1>10 DEF Disconnect
<1>11. CASE Stop
  BY <1>11 DEF Stop
<1>12. CASE BeginDrain
  BY <1>12 DEF BeginDrain
<1>13. CASE DrainTake
  BY <1>13 DEF DrainTake
<1>14. CASE Flushed
  BY <1>14 DEF Flushed
<1> QED BY <1>1, <1>2, <1>3, <1>4, <1>5, <1>6, <1>7, <1>8, <1>9, <1>10, <1>11, <1>12, <1>13,
           <1>14

\* begin_at drops a prefix of the completion queue: settled keys, which no
\* request at work owns and which do not occur in the rest.
LEMMA PurgeKeeps ==
    ASSUME TableInv, NEW n \in 0..Len(completed), Purge(n)
    PROVE  /\ \A k \in Expired(n) : k \in Keys /\ KeyOfSettled(records[k])
           /\ Purged(n) \in [Keys -> RecordType]
           /\ \A k \in Keys : Purged(n)[k] = IF k \in Expired(n) THEN NoRecord ELSE records[k]
           /\ completed' \in Seq(Keys)
           /\ \A i \in 1..Len(completed') :
                 /\ completed'[i] \notin Expired(n)
                 /\ KeyOfSettled(records[completed'[i]])
           /\ \A i, j \in 1..Len(completed') : completed'[i] = completed'[j] => i = j
           /\ applied' = applied \ Expired(n)
<1> USE DEF TableInv, TableTyped
<1>1. \A k \in Expired(n) : k \in Keys /\ KeyOfSettled(records[k])
  BY SMT DEF Expired, QueueExact
<1>2. /\ completed' \in Seq(Keys) /\ Len(completed') = Len(completed) - n
      /\ \A i \in 1..Len(completed') : /\ i + n \in 1..Len(completed)
                                       /\ completed'[i] = completed[i + n]
  BY SMT DEF Purge
<1>3. \A i \in 1..Len(completed') : completed'[i] \notin Expired(n)
  <2> TAKE i \in 1..Len(completed')
  <2>1. \A j \in 1..n : j # i + n /\ j \in 1..Len(completed)
    BY SMT, <1>2
  <2> QED BY SMT, <1>2, <2>1 DEF Expired, QueueExact
<1>4. /\ \A i \in 1..Len(completed') : KeyOfSettled(records[completed'[i]])
      /\ \A i, j \in 1..Len(completed') : completed'[i] = completed'[j] => i = j
  <2>1. \A i \in 1..Len(completed') : KeyOfSettled(records[completed'[i]])
    BY <1>2 DEF QueueExact
  <2>2. ASSUME NEW i \in 1..Len(completed'), NEW j \in 1..Len(completed'),
               completed'[i] = completed'[j]
        PROVE  i = j
    <3>1. i + n = j + n
      BY <1>2, <2>2 DEF QueueExact
    <3> QED BY SMT, <3>1
  <2> QED BY <2>1, <2>2
<1>5. /\ Purged(n) \in [Keys -> RecordType]
      /\ \A k \in Keys : Purged(n)[k] = IF k \in Expired(n) THEN NoRecord ELSE records[k]
  BY DEF Purged, RecordType
<1>6. applied' = applied \ Expired(n)
  BY DEF Purge
<1> QED BY <1>1, <1>2, <1>3, <1>4, <1>5, <1>6

\* The ways begin() goes: without a key, to work under a new key, or to an
\* answer; the last two after a purge.
LEMMA BeginCases ==
    ASSUME TableInv, NEW r \in Requests, Begin(r), UNCHANGED keyOf
    PROVE  /\ stage[r] = "reading" /\ UNCHANGED <<outcome, keyOf>>
           /\ \/ /\ keyOf[r] = NoKey /\ Move(r, "working")
                 /\ UNCHANGED <<records, completed, bodyBytes, applied>>
              \/ \E n \in 0..Len(completed) :
                    /\ keyOf[r] \in Keys /\ Purge(n)
                    /\ \/ /\ Purged(n)[keyOf[r]] = NoRecord
                          /\ Cardinality(Known(Purged(n))) < MaxRecords
                          /\ records' = [Purged(n) EXCEPT ![keyOf[r]] = Running]
                          /\ Move(r, "working")
                       \/ /\ records' = Purged(n)
                          /\ Move(r, "answered")
BY DEF Begin, TableInv, TableTyped, MayStart, table, closing

\* begin() keeps the invariant: a key is started only when it is free.
LEMMA TableBegin ==
    ASSUME TableInv, NEW r \in Requests, Begin(r), UNCHANGED keyOf
    PROVE  TableInv'
<1>1. stage[r] = "reading" /\ UNCHANGED <<outcome, keyOf>>
  BY BeginCases
<1>2. CASE keyOf[r] = NoKey /\ Move(r, "working") /\ UNCHANGED <<records, completed, applied>>
  <2> USE <1>1, <1>2, PipelineAssumption DEF TableInv, TableTyped, Move
  <2>1. TableTyped'
    BY DEF Stages, Holding
  <2>2. KeysOwned' /\ EffectsKnown'
    BY SMT DEF KeysOwned, EffectsKnown, AtWork
  <2>3. QueueExact'
    BY DEF QueueExact
  <2> QED BY <2>1, <2>2, <2>3
<1>3. ASSUME NEW n \in 0..Len(completed), keyOf[r] \in Keys, Purge(n),
             Purged(n)[keyOf[r]] = NoRecord,
             records' = [Purged(n) EXCEPT ![keyOf[r]] = Running], Move(r, "working")
      PROVE  TableInv'
  <2> DEFINE k == keyOf[r]
  <2>1. /\ \A j \in Expired(n) : j \in Keys /\ KeyOfSettled(records[j])
        /\ Purged(n) \in [Keys -> RecordType]
        /\ \A j \in Keys : Purged(n)[j] = IF j \in Expired(n) THEN NoRecord ELSE records[j]
        /\ completed' \in Seq(Keys)
        /\ \A i \in 1..Len(completed') :
              /\ completed'[i] \notin Expired(n)
              /\ KeyOfSettled(records[completed'[i]])
        /\ \A i, j \in 1..Len(completed') : completed'[i] = completed'[j] => i = j
        /\ applied' = applied \ Expired(n)
    BY <1>3, PurgeKeeps
  <2>2. records' \in [Keys -> RecordType] /\ records'[k] = Running
        /\ \A j \in Keys \ {k} : records'[j] = Purged(n)[j]
    BY <1>3, <2>1 DEF RecordType
  <2>3. \A j \in Keys : KeyOfSettled(records[j]) => records[j] # Running /\ records[j] # NoRecord
    BY RecordStates DEF TableInv, TableTyped
  <2>4. k \in Expired(n) \/ records[k] = NoRecord
    BY <1>3, <2>1
  <2>5. k \notin applied'
    BY <1>3, <2>1, <2>4 DEF TableInv, EffectsKnown
  <2>6. /\ stage' \in [Requests -> Stages] /\ stage'[r] = "working"
        /\ \A q \in Requests \ {r} : stage'[q] = stage[q]
    BY <1>3 DEF TableInv, TableTyped, Move, Stages, Holding
  <2>7. \A q \in Requests \ {r} : AtWork(q)' => AtWork(q) /\ keyOf[q] # k /\ keyOf[q] \in Keys
                                               /\ keyOf[q] \notin Expired(n)
    <3> SUFFICES ASSUME NEW q \in Requests \ {r}, AtWork(q)'
                 PROVE  AtWork(q) /\ keyOf[q] # k /\ keyOf[q] \in Keys /\ keyOf[q] \notin Expired(n)
      OBVIOUS
    <3>1. AtWork(q) /\ keyOf[q] \in Keys
      BY <1>1, <2>6 DEF AtWork, TableInv, TableTyped
    <3>2. records[keyOf[q]] = Running
      BY <3>1 DEF TableInv, KeysOwned
    <3>3. Running # NoRecord
      BY RecordStates
    <3> QED BY <2>1, <2>3, <2>4, <3>1, <3>2, <3>3
  <2>8. TableTyped'
    BY <1>1, <2>1, <2>2, <2>6 DEF TableInv, TableTyped
  <2>9. KeysOwned'
    <3>1. \A q \in Requests \ {r} : AtWork(q)' => /\ records'[keyOf[q]] = Running
                                                 /\ AtWork(q) /\ keyOf[q] # k
      BY <2>1, <2>2, <2>7 DEF TableInv, KeysOwned
    <3>2. keyOf' = keyOf /\ records'[keyOf[r]] = Running
      BY <1>1, <2>2
    <3>3. \A q \in Requests : AtWork(q)' => records'[keyOf'[q]] = Running
      BY <3>1, <3>2
    <3>4. \A p, q \in Requests : AtWork(p)' /\ AtWork(q)' /\ keyOf'[p] = keyOf'[q] => p = q
      BY <3>1, <3>2 DEF TableInv, KeysOwned
    <3> QED BY <3>3, <3>4 DEF KeysOwned
  <2>10. QueueExact'
    <3>1. \A i \in 1..Len(completed') : completed'[i] \in Keys /\ completed'[i] # k
      BY SMT, <2>1, <2>3, <2>4
    <3> QED BY <2>1, <2>2, <3>1 DEF QueueExact
  <2>11. EffectsKnown'
    <3>1. \A j \in Keys : records'[j] = NoRecord => j \notin applied'
      BY <2>1, <2>2, <2>5 DEF TableInv, EffectsKnown
    <3> QED BY <1>1, <2>1, <2>5, <2>6, <3>1 DEF TableInv, EffectsKnown
  <2> QED BY <2>8, <2>9, <2>10, <2>11 DEF TableInv
<1>4. ASSUME NEW n \in 0..Len(completed), keyOf[r] \in Keys, Purge(n),
             records' = Purged(n), Move(r, "answered")
      PROVE  TableInv'
  <2>1. /\ \A j \in Expired(n) : j \in Keys /\ KeyOfSettled(records[j])
        /\ Purged(n) \in [Keys -> RecordType]
        /\ \A j \in Keys : Purged(n)[j] = IF j \in Expired(n) THEN NoRecord ELSE records[j]
        /\ completed' \in Seq(Keys)
        /\ \A i \in 1..Len(completed') :
              /\ completed'[i] \notin Expired(n)
              /\ KeyOfSettled(records[completed'[i]])
        /\ \A i, j \in 1..Len(completed') : completed'[i] = completed'[j] => i = j
        /\ applied' = applied \ Expired(n)
    BY <1>4, PurgeKeeps
  <2>2. \A j \in Keys : KeyOfSettled(records[j]) => records[j] # Running
    BY RecordStates DEF TableInv, TableTyped
  <2>3. /\ stage' \in [Requests -> Stages] /\ stage'[r] = "answered"
        /\ \A q \in Requests \ {r} : stage'[q] = stage[q]
    BY <1>4 DEF TableInv, TableTyped, Move, Stages
  <2>4. TableTyped'
    BY <1>1, <1>4, <2>1, <2>3 DEF TableInv, TableTyped
  <2>5. KeysOwned'
    <3>1. \A q \in Requests : AtWork(q)' => AtWork(q) /\ keyOf[q] \in Keys
      BY <1>1, <2>3 DEF AtWork, TableInv, TableTyped
    <3>2. \A q \in Requests : AtWork(q) => records[keyOf[q]] = Running
      BY DEF TableInv, KeysOwned
    <3>3. \A q \in Requests : AtWork(q)' => records'[keyOf[q]] = Running
      <4>1. \A j \in Keys : records[j] = Running => records'[j] = Running
        BY <1>4, <2>1, <2>2
      <4> QED BY <3>1, <3>2, <4>1
    <3> QED BY <1>1, <3>1, <3>3 DEF TableInv, KeysOwned
  <2>6. QueueExact'
    <3>0. completed' \in Seq(Keys)
      BY <2>1
    <3>1. \A i \in 1..Len(completed') : completed'[i] \in Keys
      BY SMT, <3>0
    <3> QED BY <1>4, <2>1, <3>1 DEF QueueExact
  <2>7. EffectsKnown'
    BY <1>1, <1>4, <2>1, <2>3 DEF TableInv, EffectsKnown
  <2> QED BY <2>4, <2>5, <2>6, <2>7 DEF TableInv
<1> QED BY <1>2, <1>3, <1>4, BeginCases

\* The work of a request marks its own key alone.
LEMMA TableWork ==
    ASSUME TableInv, NEW r \in Requests, Work(r), UNCHANGED keyOf
    PROVE  TableInv'
<1>1. PICK o \in Outcomes \ {"none"}, took \in BOOLEAN :
         /\ stage[r] = "working" /\ UNCHANGED <<records, completed>>
         /\ o \in {"refused", "transient"} => ~took
         /\ outcome' = [outcome EXCEPT ![r] = o]
         /\ applied' = IF took /\ keyOf[r] # NoKey THEN applied \cup {keyOf[r]} ELSE applied
         /\ stage' = [stage EXCEPT ![r] = "worked"]
  BY DEF Work, Move, table
<1>2. TableTyped'
  BY <1>1 DEF TableInv, TableTyped, Stages, Holding
<1>3. KeysOwned'
  BY SMT, <1>1 DEF TableInv, TableTyped, KeysOwned, AtWork
<1>4. QueueExact'
  BY <1>1 DEF TableInv, QueueExact
<1>5. Running # NoRecord
  BY RecordStates
<1>6. EffectsKnown'
  <2>1. \A k \in Keys : records'[k] = NoRecord => k \notin applied'
    BY <1>1, <1>5 DEF TableInv, TableTyped, EffectsKnown, KeysOwned, AtWork
  <2>2. ASSUME NEW q \in Requests
        PROVE  /\ stage'[q] = "working" => keyOf'[q] \notin applied'
               /\ stage'[q] = "worked" /\ outcome'[q] = "transient" => keyOf'[q] \notin applied'
    <3>1. CASE q = r
      BY <1>1, <3>1 DEF TableInv, TableTyped, EffectsKnown
    <3>2. CASE q # r
      <4>1. stage'[q] = stage[q] /\ outcome'[q] = outcome[q]
        BY <1>1, <3>2 DEF TableInv, TableTyped
      <4>2. stage[q] \in {"working", "worked"} /\ keyOf[q] # NoKey => keyOf[q] # keyOf[r]
        BY <1>1, <3>2 DEF TableInv, KeysOwned, AtWork
      <4> QED BY <1>1, <4>1, <4>2 DEF TableInv, EffectsKnown
    <3> QED BY <3>1, <3>2
  <2> QED BY <2>1, <2>2 DEF EffectsKnown
<1> QED BY <1>2, <1>3, <1>4, <1>6 DEF TableInv

\* The bytes of a settled record are added, if it has any.
Retains(c) ==
    \/ BytesOf(c) = 0 /\ bodyBytes' = bodyBytes
    \/ BytesOf(c) \in Sizes /\ BytesOf(c) <= MaxBytes - bodyBytes
       /\ bodyBytes' = bodyBytes + BytesOf(c)

\* complete() and the guard's Drop: the key is free again, or settled and at
\* the end of the completion queue.
LEMMA FinishCases ==
    ASSUME TableInv, NEW r \in Requests, Finish(r)
    PROVE  /\ stage[r] = "worked" /\ stage' = [stage EXCEPT ![r] = "answered"]
           /\ UNCHANGED <<outcome, applied>>
           /\ \/ keyOf[r] = NoKey /\ UNCHANGED <<records, completed, bodyBytes>>
              \/ /\ keyOf[r] \in Keys /\ outcome[r] = "transient"
                 /\ records' = [records EXCEPT ![keyOf[r]] = NoRecord]
                 /\ UNCHANGED <<completed, bodyBytes>>
              \/ /\ keyOf[r] \in Keys
                 /\ completed' = Append(completed, keyOf[r])
                 /\ \E c \in RecordType :
                       /\ KeyOfSettled(c) /\ records' = [records EXCEPT ![keyOf[r]] = c]
                       /\ Retains(c)
<1> USE DEF TableInv, TableTyped
<1>1. stage[r] = "worked" /\ stage' = [stage EXCEPT ![r] = "answered"]
      /\ UNCHANGED <<outcome, applied>>
  BY DEF Finish, Move
<1>2. CASE keyOf[r] = NoKey
  BY <1>1, <1>2 DEF Finish, table
<1>3. CASE keyOf[r] # NoKey
  <2>1. Settle(r) /\ keyOf[r] \in Keys
    BY <1>3 DEF Finish
  <2>2. Unreplayable \in RecordType /\ KeyOfSettled(Unreplayable) /\ BytesOf(Unreplayable) = 0
    BY RecordStates DEF RecordType, KeyOfSettled, BytesOf
  <2>3. \A s \in Sizes : Done(s) \in RecordType /\ KeyOfSettled(Done(s)) /\ BytesOf(Done(s)) = s
    <3>1. \A s \in Sizes : Done(s).size = s
      BY SMT DEF Done
    <3> QED BY <3>1, RecordStates DEF RecordType, KeyOfSettled, BytesOf
  <2> QED BY <1>1, <2>1, <2>2, <2>3 DEF Settle, Retryable, Retains
<1> QED BY <1>2, <1>3

\* Settling keeps the invariant.
LEMMA TableFinish ==
    ASSUME TableInv, NEW r \in Requests, Finish(r), UNCHANGED keyOf
    PROVE  TableInv'
<1> DEFINE k == keyOf[r]
<1>1. /\ stage[r] = "worked" /\ stage' = [stage EXCEPT ![r] = "answered"]
      /\ UNCHANGED <<outcome, applied, keyOf>>
  BY FinishCases
<1>2. /\ stage' \in [Requests -> Stages] /\ stage'[r] = "answered"
      /\ \A q \in Requests \ {r} : stage'[q] = stage[q]
  BY <1>1 DEF TableInv, TableTyped, Stages
<1>3. CASE k = NoKey /\ UNCHANGED <<records, completed, bodyBytes>>
  <2>1. Idles
    BY <1>1, <1>2, <1>3 DEF Idles, AtWork
  <2> QED BY <2>1, TableIdles
<1>4. ASSUME k \in Keys, NEW c \in RecordType, c # Running,
             c = NoRecord => k \notin applied, records' = [records EXCEPT ![k] = c]
      PROVE  KeysOwned' /\ EffectsKnown' /\ records' \in [Keys -> RecordType]
  <2>1. records' \in [Keys -> RecordType] /\ records'[k] = c
        /\ \A j \in Keys \ {k} : records'[j] = records[j]
    BY <1>4 DEF TableInv, TableTyped
  <2>2. \A q \in Requests : AtWork(q)' => AtWork(q) /\ keyOf[q] \in Keys \ {k}
    <3>1. AtWork(r)
      BY <1>1, <1>4, PipelineAssumption DEF AtWork
    <3>2. \A q \in Requests : AtWork(q)' => q # r /\ AtWork(q)
      BY <1>1, <1>2 DEF AtWork
    <3>3. \A q \in Requests : AtWork(q) => keyOf[q] \in Keys /\ (keyOf[q] = k => q = r)
      BY <3>1 DEF TableInv, TableTyped, KeysOwned, AtWork
    <3> QED BY <3>2, <3>3
  <2>3. KeysOwned'
    BY <1>1, <2>1, <2>2 DEF TableInv, KeysOwned
  <2>4. EffectsKnown'
    BY <1>1, <1>2, <1>4, <2>1 DEF TableInv, EffectsKnown
  <2> QED BY <2>1, <2>3, <2>4
<1>5. k \in Keys => records[k] = Running
  BY <1>1, PipelineAssumption DEF TableInv, KeysOwned, AtWork
<1>6. \A i \in 1..Len(completed) : k \in Keys => completed[i] # k
  BY <1>5, RecordStates DEF TableInv, TableTyped, QueueExact
<1>7. CASE /\ k \in Keys /\ outcome[r] = "transient"
           /\ records' = [records EXCEPT ![k] = NoRecord] /\ UNCHANGED completed
  <2>1. NoRecord \in RecordType /\ NoRecord # Running
    BY RecordStates DEF RecordType
  <2>2. k \notin applied
    BY <1>1, <1>7 DEF TableInv, EffectsKnown
  <2>3. KeysOwned' /\ EffectsKnown' /\ records' \in [Keys -> RecordType]
    BY <1>4, <1>7, <2>1, <2>2
  <2>4. QueueExact'
    BY SMT, <1>6, <1>7 DEF TableInv, TableTyped, QueueExact
  <2>5. TableTyped'
    BY <1>1, <1>2, <1>7, <2>3 DEF TableInv, TableTyped
  <2> QED BY <2>3, <2>4, <2>5 DEF TableInv
<1>8. ASSUME k \in Keys, completed' = Append(completed, k), NEW c \in RecordType,
             KeyOfSettled(c), records' = [records EXCEPT ![k] = c]
      PROVE  TableInv'
  <2>1. c # Running /\ c # NoRecord
    BY <1>8, RecordStates
  <2>2. KeysOwned' /\ EffectsKnown' /\ records' \in [Keys -> RecordType]
    BY <1>4, <1>8, <2>1
  <2>3. /\ completed' \in Seq(Keys) /\ Len(completed') = Len(completed) + 1
        /\ completed'[Len(completed) + 1] = k
        /\ \A i \in 1..Len(completed) : completed'[i] = completed[i]
    <3>1. completed \in Seq(Keys) /\ k \in Keys /\ completed' = Append(completed, k)
      BY <1>8 DEF TableInv, TableTyped
    <3> HIDE DEF k
    <3> QED BY SMT, <3>1
  <2>4. \A i \in 1..Len(completed') : i \in 1..Len(completed) \/ i = Len(completed) + 1
    BY SMT, <2>3 DEF TableInv, TableTyped
  <2>5. QueueExact'
    <3> HIDE DEF k
    <3>0. /\ records'[k] = c /\ KeyOfSettled(c) /\ k \in Keys
          /\ \A j \in Keys \ {k} : records'[j] = records[j]
      BY <1>8 DEF TableInv, TableTyped
    <3>a. \A i \in 1..Len(completed) :
             /\ completed[i] \in Keys \ {k} /\ KeyOfSettled(records[completed[i]])
             /\ \A j \in 1..Len(completed) : completed[i] = completed[j] => i = j
      <4>1. completed \in Seq(Keys) /\ QueueExact
        BY DEF TableInv, TableTyped
      <4>2. \A i \in 1..Len(completed) : completed[i] \in Keys
        BY SMT, <4>1
      <4> QED BY <1>6, <3>0, <4>1, <4>2 DEF QueueExact
    <3>1. \A i \in 1..Len(completed') : KeyOfSettled(records'[completed'[i]])
      BY <2>3, <2>4, <3>0, <3>a
    <3>2. \A i, j \in 1..Len(completed') : completed'[i] = completed'[j] => i = j
      BY <2>3, <2>4, <3>a
    <3> QED BY <3>1, <3>2 DEF QueueExact
  <2>6. TableTyped'
    BY <1>1, <1>2, <2>2, <2>3 DEF TableInv, TableTyped
  <2> QED BY <2>2, <2>5, <2>6 DEF TableInv
<1> QED BY <1>3, <1>7, <1>8, FinishCases

\* Every step keeps the table's invariant.
LEMMA TableStep == TableInv /\ [PipelineNext]_pipelineVars => TableInv'
<1> SUFFICES ASSUME TableInv, [PipelineNext]_pipelineVars
             PROVE  TableInv'
  OBVIOUS
<1>1. CASE UNCHANGED pipelineVars
  <2>1. Idles
    BY <1>1 DEF pipelineVars, table, TableInv, TableTyped, Idles
  <2> QED BY <2>1, TableIdles
<1>2. ASSUME NEW r \in Requests, Begin(r) \/ Work(r) \/ Finish(r), UNCHANGED keyOf
      PROVE  TableInv'
  BY <1>2, TableBegin, TableWork, TableFinish
<1>3. CASE PipelineNext /\ ~\E r \in Requests : Begin(r) \/ Work(r) \/ Finish(r)
  <2>1. Idles
    BY <1>3, AdmissionIdles DEF PipelineNext, Handle
  <2> QED BY <2>1, TableIdles
<1> QED BY <1>1, <1>2, <1>3 DEF PipelineNext

\* Who owns which key, and which keys can have taken effect, in every state.
THEOREM PipelineTable == PipelineSpec => []TableInv
<1>1. PipelineInit => TableInv
  BY TableInitial
<1>2. TableInv /\ [PipelineNext]_pipelineVars => TableInv'
  BY TableStep
<1> QED BY <1>1, <1>2, PTL DEF PipelineSpec

-----------------------------------------------------------------------------
(* The table implements OnceKeys.                                          *)

KeyStatus == [k \in Keys |-> CASE records[k] = NoRecord -> "free"
                               [] records[k].state = "running" -> "running"
                               [] OTHER -> "settled"]

\* The status of a key, read off its record.
LEMMA Statuses ==
    ASSUME TableInv, NEW k \in Keys
    PROVE  /\ KeyStatus[k] = "free" <=> records[k] = NoRecord
           /\ KeyStatus[k] = "running" <=> records[k] = Running
           /\ KeyStatus[k] = "settled" <=> KeyOfSettled(records[k])
BY RecordStates DEF TableInv, TableTyped, KeyStatus

\* Every step of the server is one of OnceKeys, or none.
LEMMA OnceStep ==
    TableInv /\ TableInv' /\ [PipelineNext]_pipelineVars => [Once!OnceNext]_(Once!onceVars)
<1> SUFFICES ASSUME TableInv, TableInv', [PipelineNext]_pipelineVars
             PROVE  Once!OnceNext \/ UNCHANGED <<KeyStatus, applied>>
  BY DEF Once!onceVars, KeyStatus
<1> USE DEF Once!Forget, Once!Forgotten, Once!Start, Once!TakeEffect,
        Once!Settle, Once!GiveBack
<1>1. ASSUME NEW r \in Requests, Begin(r), UNCHANGED keyOf
      PROVE  Once!OnceNext \/ UNCHANGED <<KeyStatus, applied>>
  <2>1. CASE UNCHANGED <<records, applied>>
    BY SMT, <2>1 DEF KeyStatus
  <2>2. ASSUME NEW n \in 0..Len(completed), keyOf[r] \in Keys, Purge(n),
               Purged(n)[keyOf[r]] = NoRecord,
               records' = [Purged(n) EXCEPT ![keyOf[r]] = Running]
        PROVE  \E F \in SUBSET Keys : Once!Start(keyOf[r], F)
    <3> DEFINE F == Expired(n)
    <3>1. /\ F \in SUBSET Keys /\ \A j \in F : KeyOfSettled(records[j])
          /\ \A j \in Keys : Purged(n)[j] = IF j \in F THEN NoRecord ELSE records[j]
          /\ Purged(n) \in [Keys -> RecordType]
          /\ applied' = applied \ F
      BY <2>2, PurgeKeeps
    <3>2. \A j \in F : KeyStatus[j] = "settled"
      BY <3>1, Statuses
    <3>3. KeyStatus[keyOf[r]] = "free" \/ keyOf[r] \in F
      BY <2>2, <3>1, Statuses
    <3>4. KeyStatus' = [j \in Keys |-> IF j = keyOf[r] THEN "running"
                                      ELSE IF j \in F THEN "free" ELSE KeyStatus[j]]
      <4>1. \A j \in Keys : records'[j] = IF j = keyOf[r] THEN Running
                                          ELSE IF j \in F THEN NoRecord ELSE records[j]
        BY <2>2, <3>1
      <4> HIDE DEF F
      <4> QED BY <4>1, RecordStates DEF KeyStatus
    <3> HIDE DEF F
    <3>5. Once!Start(keyOf[r], F)
      BY <3>1, <3>2, <3>3, <3>4 DEF KeyStatus
    <3> QED BY <3>1, <3>5
  <2>3. ASSUME NEW n \in 0..Len(completed), Purge(n), records' = Purged(n)
        PROVE  \E F \in SUBSET Keys : Once!Forget(F)
    <3> DEFINE F == Expired(n)
    <3>1. /\ F \in SUBSET Keys /\ \A j \in F : KeyOfSettled(records[j])
          /\ \A j \in Keys : Purged(n)[j] = IF j \in F THEN NoRecord ELSE records[j]
          /\ applied' = applied \ F
      BY <2>3, PurgeKeeps
    <3>2. \A j \in F : KeyStatus[j] = "settled"
      BY <3>1, Statuses
    <3>3. KeyStatus' = [j \in Keys |-> IF j \in F THEN "free" ELSE KeyStatus[j]]
      <4>1. \A j \in Keys : records'[j] = IF j \in F THEN NoRecord ELSE records[j]
        BY <2>3, <3>1
      <4> HIDE DEF F
      <4> QED BY <4>1, RecordStates DEF KeyStatus
    <3> HIDE DEF F
    <3>4. Once!Forget(F)
      BY <3>1, <3>2, <3>3 DEF KeyStatus
    <3> QED BY <3>1, <3>4
  <2>4. (\E F \in SUBSET Keys : Once!Forget(F)) => Once!OnceNext
    BY DEF Once!OnceNext
  <2>5. keyOf[r] \in Keys /\ (\E F \in SUBSET Keys : Once!Start(keyOf[r], F)) => Once!OnceNext
    BY DEF Once!OnceNext
  <2> QED BY <1>1, <2>1, <2>2, <2>3, <2>4, <2>5, BeginCases
<1>2. ASSUME NEW r \in Requests, Work(r), UNCHANGED keyOf
      PROVE  Once!OnceNext \/ UNCHANGED <<KeyStatus, applied>>
  <2>1. UNCHANGED KeyStatus /\ stage[r] = "working"
    BY SMT, <1>2 DEF Work, table, KeyStatus
  <2>2. CASE keyOf[r] \in Keys /\ applied' = applied \cup {keyOf[r]}
    <3>1. KeyStatus[keyOf[r]] = "running" /\ keyOf[r] \notin applied
      BY <2>1, <2>2, Statuses, PipelineAssumption DEF TableInv, KeysOwned, EffectsKnown, AtWork
    <3>2. Once!TakeEffect(keyOf[r])
      BY <2>1, <2>2, <3>1 DEF KeyStatus
    <3> QED BY <2>2, <3>2 DEF Once!OnceNext
  <2>3. CASE UNCHANGED applied
    BY <2>1, <2>3
  <2> QED BY <1>2, <2>2, <2>3 DEF Work, TableInv, TableTyped
<1>3. ASSUME NEW r \in Requests, Finish(r), UNCHANGED keyOf
      PROVE  Once!OnceNext \/ UNCHANGED <<KeyStatus, applied>>
  <2>1. stage[r] = "worked" /\ UNCHANGED applied
    BY <1>3, FinishCases
  <2>2. CASE UNCHANGED records
    BY SMT, <2>1, <2>2 DEF KeyStatus
  <2>3. keyOf[r] \in Keys => KeyStatus[keyOf[r]] = "running"
    BY <2>1, Statuses, PipelineAssumption DEF TableInv, KeysOwned, AtWork
  <2>4. ASSUME keyOf[r] \in Keys, NEW c \in RecordType, NEW s,
               records' = [records EXCEPT ![keyOf[r]] = c],
               \/ c = NoRecord /\ s = "free"
               \/ KeyOfSettled(c) /\ s = "settled"
        PROVE  KeyStatus' = [KeyStatus EXCEPT ![keyOf[r]] = s]
    <3>1. \A j \in Keys : records'[j] = IF j = keyOf[r] THEN c ELSE records[j]
      BY <2>4 DEF TableInv, TableTyped
    <3> QED BY <2>4, <3>1, RecordStates DEF KeyStatus
  <2>5. CASE /\ keyOf[r] \in Keys /\ outcome[r] = "transient"
             /\ records' = [records EXCEPT ![keyOf[r]] = NoRecord]
    <3>1. NoRecord \in RecordType
      BY DEF RecordType
    <3>2. KeyStatus' = [KeyStatus EXCEPT ![keyOf[r]] = "free"]
      BY <2>4, <2>5, <3>1
    <3>3. keyOf[r] \notin applied
      BY <2>1, <2>5 DEF TableInv, EffectsKnown
    <3>4. Once!GiveBack(keyOf[r])
      BY <2>1, <2>3, <2>5, <3>2, <3>3 DEF KeyStatus
    <3> QED BY <2>5, <3>4 DEF Once!OnceNext
  <2>6. ASSUME keyOf[r] \in Keys, NEW c \in RecordType, KeyOfSettled(c),
               records' = [records EXCEPT ![keyOf[r]] = c]
        PROVE  Once!OnceNext
    <3>1. KeyStatus' = [KeyStatus EXCEPT ![keyOf[r]] = "settled"]
      BY <2>4, <2>6
    <3>2. Once!Settle(keyOf[r])
      BY <2>1, <2>3, <2>6, <3>1 DEF KeyStatus
    <3> QED BY <2>6, <3>2 DEF Once!OnceNext
  <2> QED BY <1>3, <2>2, <2>5, <2>6, FinishCases
<1>4. CASE UNCHANGED pipelineVars
  BY SMT, <1>4 DEF pipelineVars, table, KeyStatus
<1>5. CASE PipelineNext /\ ~\E r \in Requests : Begin(r) \/ Work(r) \/ Finish(r)
  <2>1. Idles
    BY <1>5, AdmissionIdles DEF PipelineNext, Handle
  <2> QED BY SMT, <2>1 DEF Idles, KeyStatus
<1> QED BY <1>1, <1>2, <1>3, <1>4, <1>5 DEF PipelineNext

\* limits.rs, Idempotency: for any number of keys, requests and records, and
\* whatever outcomes, panics and expiries, work sent under a key takes effect
\* at most once while the key is remembered.
THEOREM PipelineAtMostOnce == PipelineSpec => AtMostOnce
<1>1. PipelineInit => Once!OnceInit
  <2> SUFFICES ASSUME PipelineInit PROVE Once!OnceInit
    OBVIOUS
  <2>1. \A k \in Keys : records[k] = NoRecord
    BY DEF PipelineInit
  <2> QED BY <2>1, RecordStates DEF PipelineInit, Once!OnceInit
<1>2. TableInv /\ TableInv' /\ [PipelineNext]_pipelineVars => [Once!OnceNext]_(Once!onceVars)
  BY OnceStep
<1> QED BY <1>1, <1>2, PipelineTable, PTL DEF PipelineSpec, AtMostOnce, Once!OnceSpec

-----------------------------------------------------------------------------
(* The books of the table.  The bytes are a sum along the completion queue, *)
(* defined by recursion: the library's induction theorems take an operator  *)
(* the provers cannot instantiate, so an induction is a proof about the     *)
(* least counterexample, which the theorem on minimal elements gives.       *)

\* Every non-empty set of naturals has a least element.
LEMMA LeastNatural ==
    ASSUME NEW T, T \subseteq Nat, T # {}
    PROVE  \E m \in T : \A n \in T : m <= n
<1> DEFINE R == OpToRel(<, Nat)
<1>1. IsWellFoundedOn(R, Nat)
  BY NatLessThanWellFounded
<1>2. \A m, n \in Nat : n < m => <<n, m>> \in R
  BY DEF OpToRel
<1> HIDE DEF R
<1>3. PICK m \in T : \A n \in T : ~(<<n, m>> \in R)
  BY <1>1, WFMin
<1>4. \A n \in T : m <= n
  <2> SUFFICES ASSUME NEW n \in T, n < m
               PROVE  FALSE
    BY SMT
  <2>1. m \in Nat /\ n \in Nat
    OBVIOUS
  <2> QED BY <1>2, <1>3, <2>1
<1> QED BY <1>4

\* Induction up to a bound, about the set G of the numbers that have the property.
LEMMA UpTo ==
    ASSUME NEW n \in Nat, NEW G, 0 \in G,
           \A i \in 0 .. n - 1 : i \in G => i + 1 \in G
    PROVE  \A i \in 0 .. n : i \in G
<1> DEFINE T == {i \in 0 .. n : i \notin G}
<1> SUFFICES ASSUME T # {}
             PROVE  FALSE
  OBVIOUS
<1>1. PICK m \in T : \A i \in T : m <= i
  <2>1. T \subseteq Nat
    BY SMT
  <2> HIDE DEF T
  <2> QED BY <2>1, LeastNatural
<1>2. m \in 1 .. n
  BY SMT, <1>1
<1>3. m - 1 \in 0 .. n - 1 /\ m - 1 \notin T
  BY SMT, <1>1, <1>2
<1>4. m - 1 \in G
  BY SMT, <1>3
<1>5. (m - 1) + 1 \in G
  BY <1>3, <1>4
<1> QED BY SMT, <1>1, <1>2, <1>5

\* f sums c up to k.
Sums(f, c, k) == f[0] = 0 /\ \A i \in 1 .. k : f[i] = f[i - 1] + c[i]

\* Whatever the summands are, they can be summed up to every k ...
LEMMA SumTo ==
    ASSUME NEW c, NEW n \in Nat
    PROVE  \E f : Sums(f, c, n)
<1> DEFINE G == {k \in Nat : \E f : Sums(f, c, k)}
<1>1. 0 \in G
  <2> DEFINE f == [i \in Nat |-> 0]
  <2>1. Sums(f, c, 0)
    BY SMT DEF Sums
  <2> QED BY <2>1
<1>2. ASSUME NEW k \in 0 .. n - 1, k \in G
      PROVE  k + 1 \in G
  <2>1. PICK f : Sums(f, c, k)
    BY <1>2
  <2> DEFINE y == f[k] + c[k + 1]
             h == [i \in Nat |-> IF i = k + 1 THEN y ELSE f[i]]
  <2>2. /\ k \in Nat /\ k + 1 \in Nat /\ 0 # k + 1 /\ 0 \in Nat /\ k # k + 1
        /\ \A i \in 1 .. k + 1 : /\ i = k + 1 => i - 1 = k
                                 /\ i # k + 1 => i \in 1 .. k /\ i - 1 # k + 1
                                 /\ i \in Nat /\ i - 1 \in Nat
    BY SMT
  <2>3. h[0] = 0
    BY <2>1, <2>2 DEF Sums
  <2>4. \A i \in 1 .. k + 1 : h[i] = h[i - 1] + c[i]
    BY <2>1, <2>2 DEF Sums
  <2> HIDE DEF h
  <2> QED BY <2>2, <2>3, <2>4 DEF Sums
<1> HIDE DEF G
<1>3. \A k \in 0 .. n : k \in G
  BY <1>1, <1>2, UpTo
<1>4. n \in 0 .. n
  BY SMT
<1> QED BY <1>3, <1>4 DEF G

\* ... in one way ...
LEMMA SumsAlike ==
    ASSUME NEW c, NEW n \in Nat, NEW f, NEW h, Sums(f, c, n), Sums(h, c, n)
    PROVE  f[n] = h[n]
<1> DEFINE G == {i \in Nat : f[i] = h[i]}
<1>1. 0 \in G
  BY DEF Sums
<1>2. ASSUME NEW i \in 0 .. n - 1, i \in G
      PROVE  i + 1 \in G
  <2>1. i + 1 \in 1 .. n /\ (i + 1) - 1 = i /\ i + 1 \in Nat
    BY SMT
  <2>2. f[i + 1] = f[i] + c[i + 1] /\ h[i + 1] = h[i] + c[i + 1]
    BY <2>1 DEF Sums
  <2> QED BY <1>2, <2>1, <2>2
<1> HIDE DEF G
<1>3. \A i \in 0 .. n : i \in G
  BY <1>1, <1>2, UpTo
<1>4. n \in 0 .. n
  BY SMT
<1> QED BY <1>3, <1>4 DEF G

\* ... so that the recursion along the naturals has a solution.
LEMMA SumsExist ==
    ASSUME NEW c
    PROVE  \E f : f = [n \in Nat |-> IF n = 0 THEN 0 ELSE f[n - 1] + c[n]]
<1> DEFINE to(n) == CHOOSE f : Sums(f, c, n)
           h == [n \in Nat |-> to(n)[n]]
<1>1. \A n \in Nat : Sums(to(n), c, n)
  BY SumTo
<1> HIDE DEF to
<1>2. h[0] = 0
  <2>1. 0 \in Nat
    OBVIOUS
  <2>2. to(0)[0] = 0
    BY <1>1, <2>1 DEF Sums
  <2> QED BY <2>1, <2>2
<1>3. ASSUME NEW n \in Nat, n # 0
      PROVE  h[n] = h[n - 1] + c[n]
  <2>1. n - 1 \in Nat /\ n \in 1 .. n /\ \A i \in 1 .. n - 1 : i \in 1 .. n
    BY SMT, <1>3
  <2>2. Sums(to(n), c, n - 1)
    BY <1>1, <2>1 DEF Sums
  <2>3. to(n)[n - 1] = to(n - 1)[n - 1]
    BY <1>1, <2>1, <2>2, SumsAlike
  <2>4. to(n)[n] = to(n)[n - 1] + c[n]
    BY <1>1, <2>1 DEF Sums
  <2> QED BY <2>1, <2>3, <2>4
<1>4. h = [n \in Nat |-> IF n = 0 THEN 0 ELSE h[n - 1] + c[n]]
  <2> DEFINE g == [n \in Nat |-> IF n = 0 THEN 0 ELSE h[n - 1] + c[n]]
  <2>1. \A n \in Nat : h[n] = g[n]
    BY <1>2, <1>3
  <2>2. h \in [Nat -> {h[n] : n \in Nat}] /\ g \in [Nat -> {g[n] : n \in Nat}]
    OBVIOUS
  <2> HIDE DEF g, h
  <2>3. h = g
    BY SMT, <2>1, <2>2
  <2> QED BY <2>3 DEF g
<1> HIDE DEF h
<1> QED BY <1>4

\* The bytes of a table and a completion queue, as BytesTo sums them.
Bytes(recs, done) ==
    CHOOSE f : f = [n \in Nat |-> IF n = 0 THEN 0 ELSE f[n - 1] + BytesOf(recs[done[n]])]

\* BytesTo is that sum, in this state and in the next.
LEMMA BytesToIs == BytesTo = Bytes(records, completed) /\ BytesTo' = Bytes(records', completed')
BY DEF BytesTo, Bytes

\* What the recursion says.
AddsUp(b, recs, done) ==
    b[0] = 0 /\ \A n \in Nat : b[n + 1] = b[n] + BytesOf(recs[done[n + 1]])

\* It holds of the sum.
LEMMA BytesIs ==
    ASSUME NEW recs, NEW done
    PROVE  AddsUp(Bytes(recs, done), recs, done)
<1> DEFINE b == Bytes(recs, done)
           c == [n \in Nat |-> BytesOf(recs[done[n]])]
<1>1. PICK f : f = [n \in Nat |-> IF n = 0 THEN 0 ELSE f[n - 1] + c[n]]
  <2> HIDE DEF c
  <2> QED BY SumsExist
<1>2. [n \in Nat |-> IF n = 0 THEN 0 ELSE f[n - 1] + c[n]]
      = [n \in Nat |-> IF n = 0 THEN 0 ELSE f[n - 1] + BytesOf(recs[done[n]])]
  OBVIOUS
<1>3. b = [n \in Nat |-> IF n = 0 THEN 0 ELSE b[n - 1] + BytesOf(recs[done[n]])]
  <2> HIDE DEF c
  <2>1. \E g : g = [n \in Nat |-> IF n = 0 THEN 0 ELSE g[n - 1] + BytesOf(recs[done[n]])]
    BY <1>1, <1>2
  <2> QED BY <2>1 DEF Bytes
<1> HIDE DEF b
<1>4. b[0] = 0
  <2>1. 0 \in Nat
    OBVIOUS
  <2> QED BY <1>3, <2>1
<1>5. ASSUME NEW n \in Nat
      PROVE  b[n + 1] = b[n] + BytesOf(recs[done[n + 1]])
  <2>1. n + 1 \in Nat /\ n + 1 # 0 /\ (n + 1) - 1 = n
    BY SMT
  <2>2. b[n + 1] = b[(n + 1) - 1] + BytesOf(recs[done[n + 1]])
    BY <1>3, <2>1
  <2> QED BY <2>1, <2>2
<1> QED BY <1>4, <1>5 DEF b, AddsUp

\* The bytes of a record are a size.
LEMMA BytesOfNat == \A c \in RecordType : BytesOf(c) \in Nat
<1>1. Sizes \subseteq Nat
  BY PipelineAssumption
<1>2. \A s \in Sizes : Done(s).size = s /\ Done(s).size \in Nat
  BY SMT, <1>1 DEF Done
<1> QED BY <1>2, RecordStates DEF RecordType, BytesOf

\* a after its n-th element and b from the start grow by the same summands.
InParallel(a, n, b, m, c) ==
    /\ a[n] \in Nat /\ b[0] = 0
    /\ \A i \in 0 .. m - 1 : /\ c[i] \in Nat
                             /\ a[(n + i) + 1] = a[n + i] + c[i]
                             /\ b[i + 1] = b[i] + c[i]

\* Then they differ by what the first n bring.
Ahead(a, n, b, m) == b[m] \in Nat /\ a[n + m] = a[n] + b[m]
\* By induction on the elements of b.
LEMMA Shifted ==
    ASSUME NEW a, NEW b, NEW c, NEW n \in Nat, NEW m \in Nat, InParallel(a, n, b, m, c)
    PROVE  Ahead(a, n, b, m)
<1> DEFINE G == {i \in Nat : b[i] \in Nat /\ a[n + i] = a[n] + b[i]}
<1>1. 0 \in G
  <2>1. a[n] \in Nat /\ b[0] = 0
    BY DEF InParallel
  <2>2. n + 0 = n /\ a[n] = a[n] + 0 /\ 0 \in Nat
    BY SMT, <2>1
  <2>3. a[n + 0] = a[n] + b[0] /\ b[0] \in Nat
    BY <2>1, <2>2
  <2> QED BY <2>2, <2>3
<1>2. ASSUME NEW i \in 0 .. m - 1, i \in G
      PROVE  i + 1 \in G
  <2>1. /\ c[i] \in Nat /\ a[(n + i) + 1] = a[n + i] + c[i] /\ b[i + 1] = b[i] + c[i]
        /\ b[i] \in Nat /\ a[n + i] = a[n] + b[i] /\ a[n] \in Nat
    BY <1>2 DEF InParallel
  <2>2. (n + i) + 1 = n + (i + 1) /\ i + 1 \in Nat
    BY SMT
  <2>3. a[n + (i + 1)] = a[n + i] + c[i]
    BY <2>1, <2>2
  <2>4. b[i + 1] \in Nat /\ a[n + (i + 1)] = a[n] + b[i + 1]
    BY SMT, <2>1, <2>3
  <2> QED BY <2>2, <2>4
<1> HIDE DEF G
<1>3. \A i \in 0 .. m : i \in G
  BY <1>1, <1>2, UpTo
<1>4. m \in 0 .. m
  BY SMT
<1> QED BY <1>3, <1>4 DEF G, Ahead

\* The first m completions of one table follow the first n of another.
Follows(recs, done, n, recs2, done2, m) ==
    /\ recs \in [Keys -> RecordType] /\ done \in Seq(Keys) /\ n + m <= Len(done)
    /\ \A i \in 1 .. m : recs2[done2[i]] = recs[done[n + i]]

\* Then their bytes are what the longer queue has more.
LEMMA BytesShift ==
    ASSUME NEW recs, NEW done, NEW recs2, NEW done2, NEW n \in Nat, NEW m \in Nat,
           Follows(recs, done, n, recs2, done2, m)
    PROVE  /\ Bytes(recs, done)[n] \in Nat
           /\ Ahead(Bytes(recs, done), n, Bytes(recs2, done2), m)
<1> USE DEF Follows
<1> DEFINE a == Bytes(recs, done)
           b == Bytes(recs2, done2)
           d == [i \in Nat |-> BytesOf(recs[done[i + 1]])]
           c == [i \in Nat |-> BytesOf(recs[done[(n + i) + 1]])]
<1>1. \A i \in 1 .. Len(done) : BytesOf(recs[done[i]]) \in Nat
  <2>1. \A i \in 1 .. Len(done) : done[i] \in Keys
    BY SMT
  <2> QED BY <2>1, BytesOfNat
<1>2. /\ a[0] = 0 /\ b[0] = 0
      /\ \A i \in Nat : a[i + 1] = a[i] + BytesOf(recs[done[i + 1]])
      /\ \A i \in Nat : b[i + 1] = b[i] + BytesOf(recs2[done2[i + 1]])
  <2>1. AddsUp(a, recs, done) /\ AddsUp(b, recs2, done2)
    BY BytesIs
  <2> HIDE DEF a, b
  <2> QED BY <2>1 DEF AddsUp
<1> HIDE DEF a, b
<1>3. a[n] \in Nat
  <2>1. ASSUME NEW i \in 0 .. n - 1
        PROVE  d[i] \in Nat /\ a[(0 + i) + 1] = a[0 + i] + d[i] /\ a[i + 1] = a[i] + d[i]
    <3>1. i \in Nat /\ 0 + i = i /\ i + 1 \in 1 .. Len(done)
      BY SMT
    <3> QED BY <1>1, <1>2, <3>1
  <2>2. 0 \in Nat
    OBVIOUS
  <2>3. a[0] \in Nat
    BY <1>2, <2>2
  <2> HIDE DEF d
  <2>4. InParallel(a, 0, a, n, d)
    BY <1>2, <2>1, <2>3 DEF InParallel
  <2>5. Ahead(a, 0, a, n)
    BY <2>2, <2>4, Shifted
  <2> QED BY <2>5 DEF Ahead
<1>4. ASSUME NEW i \in 0 .. m - 1
      PROVE  c[i] \in Nat /\ a[(n + i) + 1] = a[n + i] + c[i] /\ b[i + 1] = b[i] + c[i]
  <2>1. /\ i \in Nat /\ n + i \in Nat /\ (n + i) + 1 \in 1 .. Len(done) /\ i + 1 \in 1 .. m
        /\ (n + i) + 1 = n + (i + 1)
    BY SMT
  <2>2. recs2[done2[i + 1]] = recs[done[(n + i) + 1]]
    BY <2>1
  <2> QED BY <1>1, <1>2, <2>1, <2>2
<1> HIDE DEF c
<1>5. Ahead(a, n, b, m)
  <2>1. InParallel(a, n, b, m, c)
    BY <1>2, <1>3, <1>4 DEF InParallel
  <2>2. Ahead(a, n, b, m)
    BY <2>1, Shifted
  <2> QED BY <2>2
<1> QED BY <1>3, <1>5 DEF a, b

\* What TableAccounted adds to the ownership of keys: every settled key is in
\* the completion queue, every running one has its request, the bytes add up,
\* and the table keeps its bound.
QueueComplete ==
    \A k \in Keys : KeyOfSettled(records[k]) => \E i \in 1..Len(completed) : completed[i] = k
OwnersAtWork ==
    \A k \in Keys : records[k] = Running => \E r \in Requests : AtWork(r) /\ keyOf[r] = k
BytesRight == bodyBytes = Bytes(records, completed)[Len(completed)] /\ bodyBytes <= MaxBytes
TableBounded == IsFiniteSet(Known(records)) /\ Cardinality(Known(records)) <= MaxRecords

Books == QueueComplete /\ OwnersAtWork /\ BytesRight /\ TableBounded

\* The books of an empty table.
LEMMA BooksInitial == PipelineInit => Books
<1> SUFFICES ASSUME PipelineInit PROVE Books
  OBVIOUS
<1>1. /\ \A k \in Keys : records[k] = NoRecord
      /\ completed = <<>> /\ bodyBytes = 0
  BY DEF PipelineInit
<1>2. QueueComplete /\ OwnersAtWork
  <2>1. NoRecord \in RecordType /\ NoRecord # Running /\ ~KeyOfSettled(NoRecord)
    BY RecordStates DEF RecordType
  <2> QED BY <1>1, <2>1 DEF QueueComplete, OwnersAtWork
<1>3. BytesRight
  <2>1. Len(completed) = 0 /\ 0 <= MaxBytes
    BY SMT, <1>1, PipelineAssumption
  <2>2. AddsUp(Bytes(records, completed), records, completed)
    BY BytesIs
  <2> QED BY <1>1, <2>1, <2>2 DEF AddsUp, BytesRight
<1>4. TableBounded
  <2>1. Known(records) = {}
    BY <1>1 DEF Known
  <2>2. 0 <= MaxRecords
    BY SMT, PipelineAssumption
  <2> QED BY <2>1, <2>2, FS_EmptySet DEF TableBounded
<1> QED BY <1>2, <1>3, <1>4 DEF Books

\* Steps that leave the table and its owners alone keep the books.
LEMMA BooksKept ==
    ASSUME Books, UNCHANGED <<keyOf, records, completed, bodyBytes>>,
           \A r \in Requests : AtWork(r) => stage'[r] \in {"working", "worked"}
    PROVE  Books'
<1>1. QueueComplete'
  BY DEF Books, QueueComplete
<1>2. OwnersAtWork'
  BY DEF Books, OwnersAtWork, AtWork
<1>3. BytesRight'
  BY DEF Books, BytesRight
<1>4. TableBounded'
  BY DEF Books, TableBounded
<1> QED BY <1>1, <1>2, <1>3, <1>4 DEF Books

\* A key that leaves the known ones makes room, and one that enters under the
\* bound keeps it.
LEMMA KnownWithin ==
    ASSUME NEW S, IsFiniteSet(S), NEW T \in SUBSET S
    PROVE  /\ IsFiniteSet(T) /\ Cardinality(T) \in Nat /\ Cardinality(S) \in Nat
           /\ Cardinality(T) <= Cardinality(S)
BY FS_Subset, FS_CardinalityType

\* The bytes of the queue are a number of bytes.
LEMMA BytesAreNat ==
    ASSUME TableInv, Books
    PROVE  bodyBytes \in Nat
<1> DEFINE n == Len(completed)
           b == Bytes(records, completed)
<1>1. records \in [Keys -> RecordType] /\ completed \in Seq(Keys)
  BY DEF TableInv, TableTyped
<1>2. n \in Nat /\ 0 \in Nat /\ n + 0 <= n
  BY SMT, <1>1
<1>3. \A i \in 1 .. 0 : records[completed[i]] = records[completed[n + i]]
  BY SMT
<1> HIDE DEF n
<1>4. b[n] \in Nat
  <2>1. n + 0 <= Len(completed)
    BY <1>2 DEF n
  <2>2. Follows(records, completed, n, records, completed, 0)
    BY <1>1, <1>3, <2>1 DEF Follows
  <2> QED BY <1>2, <2>2, BytesShift
<1> QED BY <1>4 DEF Books, BytesRight, n

\* complete() and the guard's Drop: the key leaves its request, and with a
\* record worth keeping it enters the queue.
LEMMA BooksFinish ==
    ASSUME TableInv, Books, NEW r \in Requests, Finish(r), UNCHANGED keyOf
    PROVE  Books'
<1> DEFINE k == keyOf[r]
           n == Len(completed)
<1>1. /\ stage[r] = "worked" /\ stage' = [stage EXCEPT ![r] = "answered"] /\ UNCHANGED keyOf
      /\ records \in [Keys -> RecordType] /\ completed \in Seq(Keys)
      /\ \A q \in Requests \ {r} : stage'[q] = stage[q]
  BY FinishCases DEF TableInv, TableTyped
<1>2. CASE k = NoKey /\ UNCHANGED <<records, completed, bodyBytes>>
  <2>1. \A q \in Requests : AtWork(q) => stage'[q] \in {"working", "worked"}
    BY <1>1, <1>2 DEF AtWork
  <2> QED BY <1>1, <1>2, <2>1, BooksKept
<1>3. k \in Keys => /\ records[k] = Running
                    /\ \A i \in 1..n : completed[i] \in Keys \ {k}
  <2> SUFFICES ASSUME k \in Keys
               PROVE  records[k] = Running /\ \A i \in 1..n : completed[i] \in Keys \ {k}
    OBVIOUS
  <2>1. records[k] = Running
    BY <1>1, PipelineAssumption DEF TableInv, KeysOwned, AtWork
  <2>2. \A i \in 1..n : completed[i] \in Keys
    BY SMT, <1>1
  <2>3. \A i \in 1..n : KeyOfSettled(records[completed[i]])
    BY DEF TableInv, QueueExact
  <2>4. ~KeyOfSettled(Running)
    BY RecordStates DEF RecordType
  <2> QED BY <2>1, <2>2, <2>3, <2>4
<1>4. ASSUME k \in Keys, NEW c \in RecordType, c # Running, records' = [records EXCEPT ![k] = c]
      PROVE  /\ OwnersAtWork' /\ TableBounded'
             /\ records'[k] = c /\ \A j \in Keys \ {k} : records'[j] = records[j]
  <2>1. records'[k] = c /\ \A j \in Keys \ {k} : records'[j] = records[j]
    BY <1>1, <1>4
  <2>2. \A q \in Requests : AtWork(q) /\ keyOf[q] # k => AtWork(q)'
    BY <1>1 DEF AtWork
  <2>3. OwnersAtWork'
    BY <1>1, <1>4, <2>1, <2>2 DEF Books, OwnersAtWork
  <2>4. Known(records') \in SUBSET Known(records)
    <3>1. Running # NoRecord
      BY RecordStates
    <3> QED BY <1>3, <1>4, <2>1, <3>1 DEF Known
  <2>5. TableBounded'
    <3> DEFINE S == Known(records)
               T == Known(records')
    <3>1. IsFiniteSet(S) /\ Cardinality(S) <= MaxRecords
      BY DEF Books, TableBounded
    <3>2. T \in SUBSET S
      BY <2>4
    <3> HIDE DEF S, T
    <3>3. /\ IsFiniteSet(T) /\ Cardinality(T) \in Nat /\ Cardinality(S) \in Nat
          /\ Cardinality(T) <= Cardinality(S)
      BY <3>1, <3>2, KnownWithin
    <3>4. Cardinality(T) <= MaxRecords
      BY SMT, <3>1, <3>3, PipelineAssumption
    <3> QED BY <3>3, <3>4 DEF T, TableBounded
  <2> QED BY <2>1, <2>3, <2>5
<1>5. CASE /\ k \in Keys
           /\ records' = [records EXCEPT ![k] = NoRecord] /\ UNCHANGED <<completed, bodyBytes>>
  <2>1. NoRecord \in RecordType /\ NoRecord # Running /\ ~KeyOfSettled(NoRecord)
    BY RecordStates DEF RecordType
  <2>2. /\ OwnersAtWork' /\ TableBounded'
        /\ records'[k] = NoRecord /\ \A j \in Keys \ {k} : records'[j] = records[j]
    BY <1>4, <1>5, <2>1
  <2>3. QueueComplete'
    BY <1>5, <2>1, <2>2 DEF Books, QueueComplete
  <2>4. BytesRight'
    <3>1. \A i \in 1..n : records'[completed[i]] = records[completed[0 + i]]
      <4>1. \A i \in 1..n : 0 + i = i
        BY SMT
      <4> QED BY <1>3, <1>5, <2>2, <4>1
    <3>2. n \in Nat /\ 0 \in Nat /\ 0 + n <= Len(completed) /\ 0 + n = n
      BY SMT, <1>1
    <3> DEFINE b == Bytes(records, completed)
               d == Bytes(records', completed)
    <3>3. AddsUp(b, records, completed)
      BY BytesIs
    <3> HIDE DEF n, k
    <3>4. Ahead(b, 0, d, n)
      <4>1. Follows(records, completed, 0, records', completed, n)
        BY <1>1, <3>1, <3>2 DEF Follows
      <4> QED BY <3>2, <4>1, BytesShift
    <3> HIDE DEF b, d
    <3>5. d[n] \in Nat /\ b[n] = 0 + d[n]
      BY <3>2, <3>3, <3>4 DEF AddsUp, Ahead
    <3>6. b[n] = d[n]
      BY SMT, <3>5
    <3> QED BY <1>5, <3>6 DEF Books, BytesRight, n, b, d
  <2> QED BY <2>2, <2>3, <2>4 DEF Books
<1>6. ASSUME k \in Keys, completed' = Append(completed, k), NEW c \in RecordType,
             KeyOfSettled(c), records' = [records EXCEPT ![k] = c], Retains(c)
      PROVE  Books'
  <2>1. c # Running
    BY <1>6, RecordStates
  <2>2. /\ OwnersAtWork' /\ TableBounded'
        /\ records'[k] = c /\ \A j \in Keys \ {k} : records'[j] = records[j]
    BY <1>4, <1>6, <2>1
  <2>3. /\ Len(completed') = n + 1 /\ n \in Nat /\ completed'[n + 1] = k
        /\ \A i \in 1..n : completed'[i] = completed[i] /\ i \in 1..Len(completed')
        /\ n + 1 \in 1..Len(completed')
    <3>1. completed \in Seq(Keys) /\ k \in Keys /\ completed' = Append(completed, k)
      BY <1>1, <1>6
    <3> HIDE DEF k
    <3> QED BY SMT, <3>1
  <2>4. QueueComplete'
    <3> SUFFICES ASSUME NEW j \in Keys, KeyOfSettled(records'[j])
                 PROVE  \E i \in 1..Len(completed') : completed'[i] = j
      BY DEF QueueComplete
    <3>1. CASE j = k
      BY <2>3, <3>1
    <3>2. CASE j # k
      <4>1. PICK i \in 1..n : completed[i] = j
        BY <2>2, <3>2 DEF Books, QueueComplete
      <4> QED BY <2>3, <4>1
    <3> QED BY <3>1, <3>2
  <2>5. BytesRight'
    <3> DEFINE b == Bytes(records, completed)
               d == Bytes(records', completed')
    <3>1. \A i \in 1..n : records'[completed'[i]] = records[completed[0 + i]]
      <4>1. \A i \in 1..n : 0 + i = i
        BY SMT
      <4> QED BY <1>3, <1>6, <2>2, <2>3, <4>1
    <3>2. 0 \in Nat /\ 0 + n <= Len(completed) /\ 0 + n = n
      BY SMT, <1>1
    <3>3. d[n + 1] = d[n] + BytesOf(c) /\ b[0] = 0
      <4>1. AddsUp(b, records, completed) /\ AddsUp(d, records', completed')
        BY BytesIs
      <4> HIDE DEF b, d, k
      <4> QED BY <2>2, <2>3, <4>1 DEF AddsUp
    <3>4. d[n] \in Nat /\ b[0 + n] = b[0] + d[n]
      <4> HIDE DEF n, k
      <4>1. Follows(records, completed, 0, records', completed', n)
        BY <1>1, <3>1, <3>2 DEF Follows
      <4>2. Ahead(b, 0, d, n)
        BY <2>3, <3>2, <4>1, BytesShift
      <4> HIDE DEF b, d
      <4> QED BY <4>2 DEF Ahead
    <3>5. b[n] = 0 + d[n]
      <4> HIDE DEF b, d, n
      <4> QED BY <3>2, <3>3, <3>4
    <3>6. bodyBytes = b[n] /\ bodyBytes <= MaxBytes /\ MaxBytes \in Nat
      BY PipelineAssumption DEF Books, BytesRight
    <3> HIDE DEF b, d, n
    <3>7. d[n] = bodyBytes /\ bodyBytes \in Nat
      BY SMT, <3>4, <3>5, <3>6
    <3>8. bodyBytes' = d[n + 1] /\ bodyBytes' <= MaxBytes
      <4>1. CASE BytesOf(c) = 0 /\ bodyBytes' = bodyBytes
        BY SMT, <3>3, <3>6, <3>7, <4>1
      <4>2. CASE BytesOf(c) \in Sizes /\ BytesOf(c) <= MaxBytes - bodyBytes
                 /\ bodyBytes' = bodyBytes + BytesOf(c)
        <5>1. BytesOf(c) \in Nat
          BY <4>2, PipelineAssumption
        <5> QED BY SMT, <3>3, <3>6, <3>7, <4>2, <5>1
      <4> QED BY <1>6, <4>1, <4>2 DEF Retains
    <3> QED BY <2>3, <3>8 DEF BytesRight, d
  <2> QED BY <2>2, <2>4, <2>5 DEF Books
<1> QED BY <1>2, <1>5, <1>6, FinishCases

\* A purge drops the first n completions, their records and their bytes.
LEMMA BooksPurge ==
    ASSUME TableInv, Books, NEW n \in 0..Len(completed), Purge(n),
           \A i \in 1..Len(completed') : records'[completed'[i]] = Purged(n)[completed'[i]]
    PROVE  /\ BytesRight'
           /\ \A k \in Keys : KeyOfSettled(Purged(n)[k]) =>
                 \E i \in 1..Len(completed') : completed'[i] = k
           /\ Known(Purged(n)) \in SUBSET Known(records)
<1> DEFINE m == Len(completed) - n
           b == Bytes(records, completed)
           d == Bytes(records', completed')
<1>1. /\ records \in [Keys -> RecordType] /\ completed \in Seq(Keys)
      /\ \A k \in Keys : Purged(n)[k] = IF k \in Expired(n) THEN NoRecord ELSE records[k]
      /\ \A i \in 1..Len(completed') : completed'[i] \notin Expired(n)
  BY PurgeKeeps DEF TableInv, TableTyped
<1>2. /\ n \in Nat /\ m \in Nat /\ n + m = Len(completed) /\ Len(completed') = m
      /\ \A i \in 1..m : completed'[i] = completed[n + i] /\ n + i \in 1..Len(completed)
      /\ \A i \in 1..Len(completed) : i <= n \/ (i - n \in 1..m /\ n + (i - n) = i)
  <2>1. completed' = SubSeq(completed, n + 1, Len(completed))
    BY DEF Purge
  <2> QED BY SMT, <1>1, <2>1
<1>3. BytesRight'
  <2>1. \A i \in 1..m : records'[completed'[i]] = records[completed[n + i]]
    <3>1. \A i \in 1..Len(completed) : completed[i] \in Keys
      BY SMT, <1>1
    <3> HIDE DEF m
    <3> QED BY <1>1, <1>2, <3>1
  <2> HIDE DEF m
  <2>2. b[n] \in Nat /\ Ahead(b, n, d, m)
    <3>1. n + m <= Len(completed)
      BY SMT, <1>2
    <3>2. Follows(records, completed, n, records', completed', m)
      BY <1>1, <2>1, <3>1 DEF Follows
    <3> QED BY <1>2, <3>2, BytesShift
  <2>3. bodyBytes = b[n + m] /\ bodyBytes' = bodyBytes - b[n] /\ bodyBytes <= MaxBytes
    BY <1>2, BytesToIs DEF Books, BytesRight, Purge
  <2> HIDE DEF b, d
  <2>4. d[m] \in Nat /\ b[n + m] = b[n] + d[m]
    BY <2>2 DEF Ahead
  <2>5. bodyBytes' = d[m] /\ bodyBytes' <= MaxBytes
    BY SMT, <2>2, <2>3, <2>4, PipelineAssumption
  <2> QED BY <1>2, <2>5 DEF BytesRight, d
<1>4. ASSUME NEW k \in Keys, KeyOfSettled(Purged(n)[k])
      PROVE  \E i \in 1..Len(completed') : completed'[i] = k
  <2>1. ~KeyOfSettled(NoRecord)
    BY RecordStates DEF RecordType
  <2>2. k \notin Expired(n) /\ KeyOfSettled(records[k])
    BY <1>1, <1>4, <2>1
  <2>3. PICK i \in 1..Len(completed) : completed[i] = k
    BY <2>2 DEF Books, QueueComplete
  <2>4. ~(i <= n)
    <3>1. i <= n => i \in 1..n
      BY SMT
    <3> QED BY <2>2, <2>3, <3>1 DEF Expired
  <2> HIDE DEF m
  <2>5. i - n \in 1..Len(completed') /\ completed'[i - n] = k
    BY <1>2, <2>3, <2>4
  <2> QED BY <2>5
<1>5. Known(Purged(n)) \in SUBSET Known(records)
  BY <1>1 DEF Known
<1> QED BY <1>3, <1>4, <1>5

\* begin() keeps the books: it purges, and starts a key under the bound.
LEMMA BooksBegin ==
    ASSUME TableInv, Books, NEW r \in Requests, Begin(r), UNCHANGED keyOf
    PROVE  Books'
<1> DEFINE k == keyOf[r]
<1>1. /\ stage[r] = "reading" /\ UNCHANGED keyOf /\ stage \in [Requests -> Stages]
      /\ records \in [Keys -> RecordType] /\ completed \in Seq(Keys)
  BY BeginCases DEF TableInv, TableTyped
<1>2. ~AtWork(r)
  BY <1>1 DEF AtWork
<1>3. \A to \in Stages : Move(r, to) =>
         stage'[r] = to /\ \A q \in Requests \ {r} : stage'[q] = stage[q]
  BY <1>1 DEF Move
<1>4. CASE k = NoKey /\ Move(r, "working") /\ UNCHANGED <<records, completed, bodyBytes>>
  <2>1. "working" \in Stages
    BY DEF Stages, Holding
  <2>2. \A q \in Requests : AtWork(q) => stage'[q] \in {"working", "worked"}
    BY <1>2, <1>3, <1>4, <2>1 DEF AtWork
  <2> QED BY <1>1, <1>4, <2>2, BooksKept
<1>5. IsFiniteSet(Known(records)) /\ Cardinality(Known(records)) <= MaxRecords
  BY DEF Books, TableBounded
<1>6. ASSUME NEW n \in 0..Len(completed), k \in Keys, Purge(n), Purged(n)[k] = NoRecord,
             Cardinality(Known(Purged(n))) < MaxRecords,
             records' = [Purged(n) EXCEPT ![k] = Running], Move(r, "working")
      PROVE  Books'
  <2>1. /\ Purged(n) \in [Keys -> RecordType] /\ completed' \in Seq(Keys)
        /\ \A j \in Keys : Purged(n)[j] = IF j \in Expired(n) THEN NoRecord ELSE records[j]
        /\ \A i \in 1..Len(completed') : /\ completed'[i] \notin Expired(n)
                                         /\ KeyOfSettled(records[completed'[i]])
    BY <1>6, PurgeKeeps
  <2>2. records'[k] = Running /\ \A j \in Keys \ {k} : records'[j] = Purged(n)[j]
    BY <1>6, <2>1
  <2>3. ~KeyOfSettled(NoRecord) /\ ~KeyOfSettled(Running) /\ Running # NoRecord
    BY RecordStates DEF RecordType
  <2>4. \A i \in 1..Len(completed') : completed'[i] \in Keys
    <3>1. completed' \in Seq(Keys)
      BY <2>1
    <3> QED BY SMT, <3>1
  <2>5. \A i \in 1..Len(completed') : records'[completed'[i]] = Purged(n)[completed'[i]]
    BY <1>6, <2>1, <2>2, <2>3, <2>4
  <2>6. /\ BytesRight'
        /\ \A j \in Keys : KeyOfSettled(Purged(n)[j]) =>
              \E i \in 1..Len(completed') : completed'[i] = j
        /\ Known(Purged(n)) \in SUBSET Known(records)
    BY <1>6, <2>5, BooksPurge
  <2>7. QueueComplete'
    BY <2>2, <2>3, <2>6 DEF QueueComplete
  <2>8. OwnersAtWork'
    <3> SUFFICES ASSUME NEW j \in Keys, records'[j] = Running
                 PROVE  \E q \in Requests : AtWork(q)' /\ keyOf'[q] = j
      BY DEF OwnersAtWork
    <3>1. "working" \in Stages /\ k # NoKey
      BY <1>6, PipelineAssumption DEF Stages, Holding
    <3>2. CASE j = k
      BY <1>1, <1>3, <1>6, <3>1, <3>2 DEF AtWork
    <3>3. CASE j # k
      <4>1. records[j] = Running
        BY <2>1, <2>2, <2>3, <3>3
      <4>2. PICK q \in Requests : AtWork(q) /\ keyOf[q] = j
        BY <4>1 DEF Books, OwnersAtWork
      <4> QED BY <1>1, <1>2, <1>3, <1>6, <3>1, <4>2 DEF AtWork
    <3> QED BY <3>2, <3>3
  <2>9. TableBounded'
    <3> DEFINE S == Known(records)
               T == Known(Purged(n))
    <3>1. Known(records') = T \cup {k}
      BY <1>6, <2>2, <2>3 DEF Known
    <3>2. k \notin T
      BY <1>6 DEF Known
    <3> HIDE DEF S, T, k
    <3>3. IsFiniteSet(T) /\ Cardinality(T) \in Nat
      BY <1>5, <2>6, KnownWithin DEF S, T
    <3>4. IsFiniteSet(T \cup {k}) /\ Cardinality(T \cup {k}) = Cardinality(T) + 1
      BY <3>2, <3>3, FS_AddElement
    <3>5. Cardinality(T) < MaxRecords
      BY <1>6 DEF T
    <3>6. Cardinality(T) + 1 <= MaxRecords
      BY SMT, <3>3, <3>5, PipelineAssumption
    <3> QED BY <3>1, <3>4, <3>6 DEF TableBounded
  <2> QED BY <2>6, <2>7, <2>8, <2>9 DEF Books
<1>7. ASSUME NEW n \in 0..Len(completed), k \in Keys, Purge(n),
             records' = Purged(n), Move(r, "answered")
      PROVE  Books'
  <2>1. \A j \in Keys : Purged(n)[j] = IF j \in Expired(n) THEN NoRecord ELSE records[j]
    BY <1>7, PurgeKeeps
  <2>2. /\ BytesRight'
        /\ \A j \in Keys : KeyOfSettled(Purged(n)[j]) =>
              \E i \in 1..Len(completed') : completed'[i] = j
        /\ Known(Purged(n)) \in SUBSET Known(records)
    BY <1>7, BooksPurge
  <2>3. QueueComplete'
    BY <1>7, <2>2 DEF QueueComplete
  <2>4. OwnersAtWork'
    <3>1. "answered" \in Stages /\ Running # NoRecord
      BY RecordStates DEF Stages
    <3>2. \A j \in Keys : records'[j] = Running => records[j] = Running
      BY <1>7, <2>1, <3>1
    <3>3. \A q \in Requests : AtWork(q) => AtWork(q)'
      BY <1>1, <1>2, <1>3, <1>7, <3>1 DEF AtWork
    <3> QED BY <1>1, <3>2, <3>3 DEF Books, OwnersAtWork
  <2>5. TableBounded'
    <3> DEFINE S == Known(records)
               T == Known(records')
    <3>1. T \in SUBSET S /\ IsFiniteSet(S) /\ Cardinality(S) <= MaxRecords
      BY <1>5, <1>7, <2>2
    <3> HIDE DEF S, T
    <3>2. /\ IsFiniteSet(T) /\ Cardinality(T) \in Nat /\ Cardinality(S) \in Nat
          /\ Cardinality(T) <= Cardinality(S)
      BY <3>1, KnownWithin
    <3>3. Cardinality(T) <= MaxRecords
      BY SMT, <3>1, <3>2, PipelineAssumption
    <3> QED BY <3>2, <3>3 DEF TableBounded, T
  <2> QED BY <2>2, <2>3, <2>4, <2>5 DEF Books
<1> QED BY <1>4, <1>6, <1>7, BeginCases

\* Every step keeps the books.
LEMMA BooksStep == TableInv /\ Books /\ [PipelineNext]_pipelineVars => Books'
<1> SUFFICES ASSUME TableInv, Books, [PipelineNext]_pipelineVars
             PROVE  Books'
  OBVIOUS
<1>1. CASE UNCHANGED pipelineVars
  <2>1. UNCHANGED <<keyOf, records, completed, bodyBytes>> /\ stage' = stage
    BY <1>1 DEF pipelineVars, table
  <2> QED BY <2>1, BooksKept DEF AtWork
<1>2. ASSUME NEW r \in Requests, Work(r), UNCHANGED keyOf
      PROVE  Books'
  <2>1. /\ UNCHANGED <<keyOf, records, completed, bodyBytes>>
        /\ stage' = [stage EXCEPT ![r] = "worked"]
    BY <1>2 DEF Work, Move, table
  <2>2. \A q \in Requests : AtWork(q) => stage'[q] \in {"working", "worked"}
    BY <2>1 DEF AtWork, TableInv, TableTyped
  <2> QED BY <2>1, <2>2, BooksKept
<1>3. ASSUME NEW r \in Requests, Begin(r) \/ Finish(r), UNCHANGED keyOf
      PROVE  Books'
  BY <1>3, BooksBegin, BooksFinish
<1>4. CASE PipelineNext /\ ~\E r \in Requests : Begin(r) \/ Work(r) \/ Finish(r)
  <2>1. Idles
    BY <1>4, AdmissionIdles DEF PipelineNext, Handle
  <2>2. \A q \in Requests : AtWork(q) => stage'[q] \in {"working", "worked"}
    BY <2>1 DEF Idles, AtWork
  <2> QED BY <2>1, <2>2, BooksKept DEF Idles
<1> QED BY <1>1, <1>2, <1>3, <1>4 DEF PipelineNext

\* A set with exactly one element has one, and an empty one none.
LEMMA OneOrNone ==
    ASSUME NEW S, NEW P, P => \E x \in S : \A y \in S : y = x, ~P => S = {}
    PROVE  Cardinality(S) = IF P THEN 1 ELSE 0
<1>1. CASE P
  <2>1. PICK x \in S : \A y \in S : y = x
    BY <1>1
  <2>2. S = {x}
    BY <2>1
  <2> QED BY <1>1, <2>2, FS_Singleton
<1>2. CASE ~P
  BY <1>2, FS_EmptySet
<1> QED BY <1>1, <1>2

\* The counts of TableAccounted: one completion for a settled key, one
\* request at work for a running one.
LEMMA BooksAccount == TableInv /\ Books => TableAccounted
<1> SUFFICES ASSUME TableInv, Books
             PROVE  TableAccounted
  OBVIOUS
<1>1. /\ records \in [Keys -> RecordType] /\ completed \in Seq(Keys)
      /\ keyOf \in [Requests -> Keys \cup {NoKey}]
  BY DEF TableInv, TableTyped
<1>2. DOMAIN completed = 1..Len(completed)
  BY SMT, <1>1
<1>3. ASSUME NEW k \in Keys
      PROVE  Cardinality({i \in DOMAIN completed : completed[i] = k})
             = IF KeyOfSettled(records[k]) THEN 1 ELSE 0
  <2> DEFINE S == {i \in DOMAIN completed : completed[i] = k}
             P == KeyOfSettled(records[k])
  <2>2. P => \E x \in S : \A y \in S : y = x
    BY <1>2 DEF Books, QueueComplete, TableInv, QueueExact
  <2>3. ~P => S = {}
    BY <1>2 DEF TableInv, QueueExact
  <2> HIDE DEF S, P
  <2>4. Cardinality(S) = IF P THEN 1 ELSE 0
    BY <2>2, <2>3, OneOrNone
  <2> QED BY <2>4 DEF S, P
<1>4. ASSUME NEW k \in Keys
      PROVE  Cardinality({r \in Requests : keyOf[r] = k /\ stage[r] \in {"working", "worked"}})
             = IF records[k].state = "running" THEN 1 ELSE 0
  <2> DEFINE S == {r \in Requests : keyOf[r] = k /\ stage[r] \in {"working", "worked"}}
             P == records[k].state = "running"
  <2>2. P <=> records[k] = Running
    BY <1>1, RecordStates
  <2>3. \A r \in Requests : r \in S <=> AtWork(r) /\ keyOf[r] = k
    BY PipelineAssumption DEF AtWork
  <2>4. S \subseteq Requests
    OBVIOUS
  <2> HIDE DEF S, P
  <2>5. P => \E x \in S : \A y \in S : y = x
    <3> SUFFICES ASSUME P
                 PROVE  \E x \in S : \A y \in S : y = x
      OBVIOUS
    <3>1. PICK r \in Requests : AtWork(r) /\ keyOf[r] = k
      BY <2>2 DEF Books, OwnersAtWork
    <3>2. r \in S
      BY <2>3, <3>1
    <3>3. \A q \in S : q = r
      BY <2>3, <2>4, <3>1 DEF TableInv, KeysOwned
    <3> QED BY <3>2, <3>3
  <2>6. ~P => S = {}
    BY <2>2, <2>3, <2>4 DEF TableInv, KeysOwned
  <2>7. Cardinality(S) = IF P THEN 1 ELSE 0
    BY <2>5, <2>6, OneOrNone
  <2> QED BY <2>7 DEF S, P
<1>5. /\ bodyBytes = BytesTo[Len(completed)] /\ bodyBytes <= MaxBytes
      /\ Cardinality(Known(records)) <= MaxRecords
  BY BytesToIs DEF Books, BytesRight, TableBounded
<1> QED BY <1>3, <1>4, <1>5 DEF TableAccounted

\* For any capacity and any limit of retained bytes the table's books are
\* right: expiry takes no record from under its guard, no key is settled
\* twice or forgotten, and the retained bytes never exceed the limit.
THEOREM PipelineBooks == PipelineSpec => []TableAccounted
<1>1. PipelineInit => TableInv /\ Books
  BY TableInitial, BooksInitial
<1>2. (TableInv /\ Books) /\ [PipelineNext]_pipelineVars => (TableInv /\ Books)'
  BY TableStep, BooksStep
<1>3. TableInv /\ Books => TableAccounted
  BY BooksAccount
<1> QED BY <1>1, <1>2, <1>3, PTL DEF PipelineSpec

-----------------------------------------------------------------------------
(***************************************************************************)
(* TablesAgree for any number of sessions and requests.  The invariant     *)
(* adds to it where ids come from (an id is used once, so an id that is    *)
(* being created is in no other table), that a session is never listed and *)
(* cleaned up at once, that no more permits are held than there are, and   *)
(* what a server that closes has left.                                     *)
(***************************************************************************)

Tables ==
    /\ creating \subseteq used /\ entries \subseteq used /\ transports \subseteq used
    /\ cleaning \subseteq used /\ used \subseteq Ids
    /\ leases \in [Ids -> Int]
    /\ \A s \in Ids : leases[s] > 0 => s \in used
    /\ creating \cap (entries \cup cleaning) = {}
    /\ entries \cap cleaning = {}
    /\ handles = entries \cup cleaning
    /\ server \in {"closing", "stopped"} => creating = {} /\ entries \subseteq marked
    /\ server = "stopped" => marked = {} /\ cleaning = {}

SInv == Tables /\ Cardinality(Permits) <= MaxSessions

-----------------------------------------------------------------------------
(* There are finitely many permits.                                        *)
LEMMA PermitsFinite == Tables => IsFiniteSet(Permits)
<1> SUFFICES ASSUME Tables PROVE IsFiniteSet(Permits)
  OBVIOUS
<1>1. Permits \subseteq Ids
  BY DEF Tables, Permits
<1> QED BY <1>1, FS_Subset, SessionsAssumption

(* A step that takes no permit keeps within the limit.                     *)
LEMMA PermitsKept ==
    ASSUME SInv, Permits' \subseteq Permits
    PROVE  Cardinality(Permits') <= MaxSessions
<1>1. IsFiniteSet(Permits)
  BY PermitsFinite DEF SInv
<1>2. IsFiniteSet(Permits') /\ Cardinality(Permits') <= Cardinality(Permits)
  BY <1>1, FS_Subset
<1>3. Cardinality(Permits) \in Nat /\ Cardinality(Permits') \in Nat
  BY <1>1, <1>2, FS_CardinalityType
<1> QED BY SMT, <1>2, <1>3, SessionsAssumption DEF SInv

(* Before any session there is nothing in the tables.                      *)
LEMMA SessionsInitial == SessionsInit => SInv
<1> SUFFICES ASSUME SessionsInit PROVE SInv
  OBVIOUS
<1>1. Tables
  BY SMT DEF SessionsInit, Tables
<1>2. Permits = {}
  BY SMT DEF SessionsInit, Permits
<1> QED BY SMT, <1>1, <1>2, FS_EmptySet, SessionsAssumption DEF SInv

(* Every operation, reaping and the shutdown keep SInv.                    *)
LEMMA SessionsStep == SInv /\ [SessionsNext]_sessionVars => SInv'
<1> SUFFICES ASSUME SInv, [SessionsNext]_sessionVars PROVE SInv'
  OBVIOUS
<1>0. Tables /\ Cardinality(Permits) <= MaxSessions
  BY DEF SInv
<1>1. ASSUME NEW s \in Ids, TakePermit(s) PROVE SInv'
  <2>1. Tables'
    BY <1>0, <1>1 DEF Tables, TakePermit
  <2>2. Permits' = Permits \cup {s} /\ Cardinality(Permits) < MaxSessions
    BY <1>0, <1>1 DEF TakePermit, Permits
  <2>3. s \notin Permits
    BY <1>0, <1>1 DEF TakePermit, Tables, Permits
  <2>4. IsFiniteSet(Permits) /\ Cardinality(Permits) \in Nat
    BY <1>0, PermitsFinite, FS_CardinalityType
  <2>5. Cardinality(Permits') = Cardinality(Permits) + 1
    BY <2>2, <2>3, <2>4, FS_AddElement
  <2> QED BY SMT, <2>1, <2>2, <2>4, <2>5, SessionsAssumption DEF SInv
<1>2. ASSUME NEW s \in Ids, CreateFails(s) PROVE SInv'
  <2>1. Tables'
    BY <1>0, <1>2 DEF Tables, CreateFails
  <2>2. Permits' \subseteq Permits
    BY <1>0, <1>2 DEF Tables, Permits, CreateFails
  <2> QED BY <2>1, <2>2, PermitsKept DEF SInv
<1>3. ASSUME NEW s \in Ids, Enter(s) PROVE SInv'
  <2>1. Tables'
    BY <1>0, <1>3 DEF Tables, Enter
  <2>2. Permits' \subseteq Permits
    BY <1>0, <1>3 DEF Tables, Permits, Enter
  <2> QED BY <2>1, <2>2, PermitsKept DEF SInv
<1>4. ASSUME NEW s \in Ids, StartInitialize(s) PROVE SInv'
  <2>1. Tables'
    BY SMT, <1>0, <1>4 DEF Tables, StartInitialize, Acquire
  <2>2. Permits' \subseteq Permits
    BY <1>0, <1>4 DEF Tables, Permits, StartInitialize, Acquire
  <2> QED BY <2>1, <2>2, PermitsKept DEF SInv
<1>5. ASSUME NEW s \in Ids, Initialize(s) PROVE SInv'
  <2>1. Tables'
    BY SMT, <1>0, <1>5 DEF Tables, Initialize
  <2>2. Permits' \subseteq Permits
    BY SMT, <1>0, <1>5 DEF Tables, Permits, Initialize
  <2> QED BY <2>1, <2>2, PermitsKept DEF SInv
<1>6. ASSUME NEW s \in Ids, InitializeFails(s) PROVE SInv'
  <2>1. Tables'
    BY SMT, <1>0, <1>6 DEF Tables, InitializeFails, Retire
  <2>2. Permits' \subseteq Permits
    BY SMT, <1>0, <1>6 DEF Tables, Permits, InitializeFails, Retire
  <2> QED BY <2>1, <2>2, PermitsKept DEF SInv
<1>7. ASSUME NEW s \in Ids, Lease(s) PROVE SInv'
  <2>1. Tables'
    BY SMT, <1>0, <1>7 DEF Tables, Lease, Acquire
  <2>2. Permits' \subseteq Permits
    BY <1>0, <1>7 DEF Tables, Permits, Lease, Acquire
  <2> QED BY <2>1, <2>2, PermitsKept DEF SInv
<1>8. ASSUME NEW s \in Ids, EndLease(s) PROVE SInv'
  <2>1. Tables'
    BY SMT, <1>0, <1>8 DEF Tables, EndLease
  <2>2. Permits' \subseteq Permits
    BY SMT, <1>0, <1>8 DEF Tables, Permits, EndLease
  <2> QED BY <2>1, <2>2, PermitsKept DEF SInv
<1>9. ASSUME NEW s \in Ids, CloseSession(s) PROVE SInv'
  <2>1. Tables'
    BY <1>0, <1>9 DEF Tables, CloseSession, Retire
  <2>2. Permits' \subseteq Permits
    BY <1>0, <1>9 DEF Tables, Permits, CloseSession, Retire
  <2> QED BY <2>1, <2>2, PermitsKept DEF SInv
<1>10. ASSUME NEW s \in Ids, EndTransport(s) PROVE SInv'
  <2>1. Tables'
    BY <1>0, <1>10 DEF Tables, EndTransport, Retire
  <2>2. Permits' \subseteq Permits
    BY <1>0, <1>10 DEF Tables, Permits, EndTransport, Retire
  <2> QED BY <2>1, <2>2, PermitsKept DEF SInv
<1>11. ASSUME NEW s \in Ids, Cleanup(s) PROVE SInv'
  <2>1. Tables'
    BY <1>0, <1>11 DEF Tables, Cleanup
  <2>2. Permits' \subseteq Permits
    BY <1>0, <1>11 DEF Tables, Permits, Cleanup
  <2> QED BY <2>1, <2>2, PermitsKept DEF SInv
<1>12. CASE ReapSelect
  <2>1. Tables'
    BY <1>0, <1>12 DEF Tables, ReapSelect
  <2>2. Permits' \subseteq Permits
    BY <1>0, <1>12 DEF Tables, Permits, ReapSelect
  <2> QED BY <2>1, <2>2, PermitsKept DEF SInv
<1>13. CASE RetireMarked
  <2>1. Tables'
    BY <1>0, <1>13 DEF Tables, RetireMarked, Retire
  <2>2. Permits' \subseteq Permits
    BY <1>0, <1>13 DEF Tables, Permits, RetireMarked, Retire
  <2> QED BY <2>1, <2>2, PermitsKept DEF SInv
<1>14. CASE ServerSignal
  <2>1. Tables'
    BY <1>0, <1>14 DEF Tables, ServerSignal
  <2>2. Permits' \subseteq Permits
    BY <1>0, <1>14 DEF Tables, Permits, ServerSignal
  <2> QED BY <2>1, <2>2, PermitsKept DEF SInv
<1>15. CASE ShutdownSelect
  <2>1. Tables'
    BY <1>0, <1>15 DEF Tables, ShutdownSelect
  <2>2. Permits' \subseteq Permits
    BY <1>0, <1>15 DEF Tables, Permits, ShutdownSelect
  <2> QED BY <2>1, <2>2, PermitsKept DEF SInv
<1>16. CASE ServerStopped
  <2>1. Tables'
    BY <1>0, <1>16 DEF Tables, ServerStopped
  <2>2. Permits' \subseteq Permits
    BY <1>0, <1>16 DEF Tables, Permits, ServerStopped
  <2> QED BY <2>1, <2>2, PermitsKept DEF SInv
<1>17. CASE UNCHANGED sessionVars
  BY <1>0, <1>17 DEF SInv, Tables, Permits, sessionVars
<1> QED
  BY <1>1, <1>2, <1>3, <1>4, <1>5, <1>6, <1>7, <1>8,
     <1>9, <1>10, <1>11, <1>12, <1>13, <1>14, <1>15, <1>16, <1>17
     DEF SessionsNext, SessionsProgress, SessionsArrivals

-----------------------------------------------------------------------------
(* The invariant of the session tables.                                    *)
THEOREM SessionsInvariant == SessionsSpec => []SInv
  BY SessionsInitial, SessionsStep, PTL DEF SessionsSpec

(* session.rs: the entries map and the library's table agree but for the   *)
(* sessions being cleaned up, at most max_http_sessions are kept, and none *)
(* when the server has stopped.                                            *)
THEOREM SessionsTablesAgree == SessionsSpec => []TablesAgree
<1>1. SInv => TablesAgree
  <2> SUFFICES ASSUME SInv PROVE TablesAgree
    OBVIOUS
  <2>1. handles = entries \cup cleaning /\ (server = "stopped" => handles = {})
    BY DEF SInv, Tables
  <2>2. handles \subseteq Permits
    BY <2>1 DEF Permits
  <2>3. IsFiniteSet(Permits)
    BY PermitsFinite DEF SInv
  <2>4. IsFiniteSet(handles) /\ Cardinality(handles) <= Cardinality(Permits)
    BY <2>2, <2>3, FS_Subset
  <2>5. Cardinality(handles) \in Nat /\ Cardinality(Permits) \in Nat
    BY <2>3, <2>4, FS_CardinalityType
  <2> QED BY SMT, <2>1, <2>4, <2>5, SessionsAssumption DEF SInv, TablesAgree
<1> QED BY <1>1, SessionsInvariant, PTL
=============================================================================
