------------------------------ MODULE Pipeline ------------------------------
(***************************************************************************)
(* A request on its way through the HTTP server: admission to a bounded    *)
(* set of work slots with a bounded queue (limits.rs, WorkLimit), the      *)
(* idempotency table (limits.rs, Idempotency), the write handler that ties *)
(* them together (request.rs, json_write) and the drain at shutdown        *)
(* (main.rs, serve_main).                                                  *)
(*                                                                         *)
(* A client may leave at any await: before its work is handed to a         *)
(* blocking thread that drops the handler and whatever it holds, after     *)
(* that the work runs to its end.  The semaphore is tokio's: permits go to *)
(* waiters in order, and try_acquire does not pass a waiter; a waiter at   *)
(* the head of the line while a permit is free is one that was assigned    *)
(* its permit and has not run yet.                                         *)
(*                                                                         *)
(* Time is abstract: a queued request may time out whenever it has no      *)
(* permit, and any prefix of the completion queue may have outlived its    *)
(* retention when a request looks.  The work itself is a choice of         *)
(* outcomes; that an error without the committed mark had no effect is     *)
(* what Store's commit point establishes.                                  *)
(***************************************************************************)
EXTENDS Integers, Sequences, FiniteSets

CONSTANTS
    Requests,      \* requests sent over the life of the server
    Keys,          \* idempotency keys, each with its tenant
    NoKey,         \* the key of a request without the header
    Drain,         \* the shutdown task, as a waiter of the semaphore
    KeyChoices,    \* the ways the requests may carry keys
    Capacity,      \* max_concurrent_work
    MaxQueue,      \* max_queue
    MaxRecords,    \* capacity of the idempotency table
    MaxBytes,      \* bytes of responses it retains
    Sizes          \* allocated_bytes of the responses

ASSUME PipelineAssumption ==
    /\ IsFiniteSet(Requests) /\ Drain \notin Requests
    /\ NoKey \notin Keys
    /\ KeyChoices \subseteq [Requests -> Keys \cup {NoKey}]
    /\ Capacity \in Nat \ {0} /\ MaxQueue \in Nat
    /\ MaxRecords \in Nat /\ MaxBytes \in Nat /\ Sizes \subseteq Nat

VARIABLES
    keyOf,       \* the Idempotency-Key header of each request
    stage,       \* where each request stands
    outcome,     \* how the work of a request ended
    slots,       \* permits of WorkLimit.slots that nobody holds
    line,        \* its waiters
    queued,      \* WorkLimit.queued
    accepting,   \* WorkLimit.accepting
    records,     \* Inner.records, by key
    completed,   \* Inner.completed
    bodyBytes,   \* Inner.body_bytes
    shutdown,    \* progress of serve_main after the signal
    drained,     \* permits its acquire_many_owned was assigned
    applied      \* keys whose work took effect since they were last unknown

admission == <<slots, line, queued>>
table == <<records, completed, bodyBytes>>
closing == <<accepting, shutdown, drained>>
pipelineVars == <<keyOf, stage, outcome, admission, table, closing, applied>>

\* The stages between fetch_add and the drop of the Queued guard, and those
\* in which the request owns a permit.
Counted == {"counted", "overflow", "queued"}
Holding == {"granted", "reading", "working", "worked"}
Stages == {"idle", "checked", "answered"} \cup Counted \cup Holding

Outcomes == {"none", "ok", "refused", "transient", "committed", "panicked"}
NoRecord == [state |-> "unknown"]
Running == [state |-> "running"]
Unreplayable == [state |-> "unreplayable"]
Done(s) == [state |-> "done", size |-> s]

PipelineInit ==
    /\ keyOf \in KeyChoices
    /\ stage = [r \in Requests |-> "idle"]
    /\ outcome = [r \in Requests |-> "none"]
    /\ slots = Capacity /\ line = <<>> /\ queued = 0
    /\ records = [k \in Keys |-> NoRecord] /\ completed = <<>> /\ bodyBytes = 0
    /\ accepting = TRUE /\ shutdown = "serving" /\ drained = 0
    /\ applied = {}

Move(r, to) == stage' = [stage EXCEPT ![r] = to]

-----------------------------------------------------------------------------
(* Admission.                                                              *)

\* admit and idempotency_key refuse (scope, tenant, rate, header), or
\* acquire reads `accepting`.
Arrive(r) ==
    /\ stage[r] = "idle"
    /\ Move(r, IF accepting THEN "checked" ELSE "answered")
    /\ UNCHANGED <<outcome, admission, table, closing, applied>>

AdmitFails(r) ==
    /\ stage[r] = "idle"
    /\ Move(r, "answered")
    /\ UNCHANGED <<outcome, admission, table, closing, applied>>

\* Defect: a full queue is compared with > instead of >=.
BugTryAcquire(r) ==
    /\ stage[r] = "checked"
    /\ \/ /\ slots > 0 /\ line = <<>>
          /\ slots' = slots - 1
          /\ Move(r, "granted")
          /\ UNCHANGED queued
       \/ /\ ~(slots > 0 /\ line = <<>>)
          /\ queued' = queued + 1
          /\ Move(r, IF queued > MaxQueue THEN "overflow" ELSE "counted")
          /\ UNCHANGED slots
    /\ UNCHANGED <<outcome, line, table, closing, applied>>

\* try_acquire_owned; without a permit, the count of waiters goes up first
\* and decides.
TryAcquire(r) ==
    /\ stage[r] = "checked"
    /\ \/ /\ slots > 0 /\ line = <<>>
          /\ slots' = slots - 1
          /\ Move(r, "granted")
          /\ UNCHANGED queued
       \/ /\ ~(slots > 0 /\ line = <<>>)
          /\ queued' = IF MaxQueue = 0 THEN queued ELSE queued + 1
          /\ Move(r, IF MaxQueue = 0 THEN "answered"
                     ELSE IF queued >= MaxQueue THEN "overflow" ELSE "counted")
          /\ UNCHANGED slots
    /\ UNCHANGED <<outcome, line, table, closing, applied>>

\* The busy answer of a full queue, which drops the Queued guard.
Overflow(r) ==
    /\ stage[r] = "overflow"
    /\ queued' = queued - 1
    /\ Move(r, "answered")
    /\ UNCHANGED <<outcome, slots, line, table, closing, applied>>

\* The first poll of acquire_owned: a permit, or a place in the line.
JoinLine(r) ==
    /\ stage[r] = "counted"
    /\ \/ /\ slots > 0 /\ line = <<>>
          /\ slots' = slots - 1
          /\ queued' = queued - 1
          /\ Move(r, "granted")
          /\ UNCHANGED line
       \/ /\ ~(slots > 0 /\ line = <<>>)
          /\ line' = Append(line, r)
          /\ Move(r, "queued")
          /\ UNCHANGED <<slots, queued>>
    /\ UNCHANGED <<outcome, table, closing, applied>>

AtHead(w) == line # <<>> /\ Head(line) = w

\* The waiter finds its permit and drops the Queued guard.
Granted(r) ==
    /\ stage[r] = "queued"
    /\ AtHead(r) /\ slots > 0
    /\ slots' = slots - 1
    /\ line' = Tail(line)
    /\ queued' = queued - 1
    /\ Move(r, "granted")
    /\ UNCHANGED <<outcome, table, closing, applied>>

Without(w) == SelectSeq(line, LAMBDA x : x # w)

\* The acquire future is dropped: place and count are given up.
LeaveLine(r) ==
    /\ line' = Without(r)
    /\ queued' = queued - 1
    /\ UNCHANGED slots

\* timeout polls the semaphore before the clock, so an assigned permit wins.
QueueTimeout(r) ==
    /\ stage[r] = "queued"
    /\ ~(AtHead(r) /\ slots > 0)
    /\ LeaveLine(r)
    /\ Move(r, "answered")
    /\ UNCHANGED <<outcome, table, closing, applied>>

\* Defect: acquire trusts what it read before it waited.
BugRecheck(r) ==
    /\ stage[r] = "granted"
    /\ Move(r, "reading")
    /\ UNCHANGED <<outcome, admission, table, closing, applied>>

\* `accepting` is read again with the permit in hand.
Recheck(r) ==
    /\ stage[r] = "granted"
    /\ \/ /\ accepting
          /\ Move(r, "reading")
          /\ UNCHANGED slots
       \/ /\ ~accepting
          /\ Move(r, "answered")
          /\ slots' = slots + 1
    /\ UNCHANGED <<outcome, line, queued, table, closing, applied>>

\* The client goes away before its work was handed over, in one of the two
\* awaits: the queue and the body.
Disconnect(r) ==
    /\ \/ /\ stage[r] = "queued"
          /\ LeaveLine(r)
       \/ /\ stage[r] = "reading"
          /\ slots' = slots + 1
          /\ UNCHANGED <<line, queued>>
    /\ Move(r, "answered")
    /\ UNCHANGED <<outcome, table, closing, applied>>

\* read_body: the body is late, too long or broken.
BodyFails(r) ==
    /\ stage[r] = "reading"
    /\ Move(r, "answered")
    /\ slots' = slots + 1
    /\ UNCHANGED <<outcome, line, queued, table, closing, applied>>

-----------------------------------------------------------------------------
(* The idempotency table.                                                  *)

KeyOfSettled(c) == c.state \in {"done", "unreplayable"}
BytesOf(c) == IF c.state = "done" THEN c.size ELSE 0
\* The first n completions, and the bytes their responses hold.
Expired(n) == {completed[i] : i \in 1..n}
BytesTo[n \in Nat] ==
    IF n = 0 THEN 0
    ELSE BytesTo[n - 1] + BytesOf(records[completed[n]])

\* begin_at pops the n completions that outlived their retention.
Purged(n) == [k \in Keys |-> IF k \in Expired(n) THEN NoRecord ELSE records[k]]
Purge(n) ==
    /\ completed' = SubSeq(completed, n + 1, Len(completed))
    /\ bodyBytes' = bodyBytes - BytesTo[n]
    /\ applied' = applied \ Expired(n)

Known(recs) == {k \in Keys : recs[k] # NoRecord}

\* The key is new and the table has room; in every other case begin_at
\* answers: the key belongs to another fingerprint, its response is replayed,
\* it is in flight, its outcome must be reconciled, or the table is full.
MayStart(recs, r) ==
    /\ recs[keyOf[r]] = NoRecord
    /\ Cardinality(Known(recs)) < MaxRecords

\* The body is complete: begin, and either hand the work with permit and
\* guard to a blocking thread or answer and drop the permit.
Begin(r) ==
    /\ stage[r] = "reading"
    /\ \/ /\ keyOf[r] = NoKey
          /\ Move(r, "working")
          /\ UNCHANGED <<slots, table, applied>>
       \/ /\ keyOf[r] # NoKey
          /\ \E n \in 0..Len(completed) :
                /\ Purge(n)
                /\ IF MayStart(Purged(n), r)
                   THEN /\ records' = [Purged(n) EXCEPT ![keyOf[r]] = Running]
                        /\ Move(r, "working")
                        /\ UNCHANGED slots
                   ELSE /\ records' = Purged(n)
                        /\ Move(r, "answered")
                        /\ slots' = slots + 1
    /\ UNCHANGED <<outcome, line, queued, closing>>

\* The work ends: with its effect, without it, or in a panic on either side
\* of it.
Work(r) ==
    /\ stage[r] = "working"
    /\ \E o \in Outcomes \ {"none"}, took \in BOOLEAN :
          /\ o \in {"ok", "committed"} => took
          /\ o \in {"refused", "transient"} => ~took
          /\ outcome' = [outcome EXCEPT ![r] = o]
          /\ applied' = IF took /\ keyOf[r] # NoKey THEN applied \cup {keyOf[r]}
                        ELSE applied
    /\ Move(r, "worked")
    /\ UNCHANGED <<admission, table, closing>>

\* Defect: every server error releases the key, committed or not.
BugRetryable(o) == o \in {"transient", "committed"}

\* complete: a 5xx, 408 or 429 that is not marked committed.
Retryable(o) == o = "transient"

\* Defect: the completion of a released key stays in the queue.
BugSettle(r) ==
    LET k == keyOf[r] IN
    \/ /\ Retryable(outcome[r])
       /\ records' = [records EXCEPT ![k] = NoRecord]
       /\ completed' = Append(completed, k)
       /\ UNCHANGED bodyBytes
    \/ /\ ~Retryable(outcome[r])
       /\ records' = [records EXCEPT ![k] = Unreplayable]
       /\ completed' = Append(completed, k)
       /\ UNCHANGED bodyBytes

\* IdempotencyGuard::complete, and its Drop after a panic: release the key,
\* retain the response if it fits, or leave a reconciliation marker.
Settle(r) ==
    LET k == keyOf[r] IN
    \/ /\ Retryable(outcome[r])
       /\ records' = [records EXCEPT ![k] = NoRecord]
       /\ UNCHANGED <<completed, bodyBytes>>
    \/ /\ ~Retryable(outcome[r])
       /\ completed' = Append(completed, k)
       /\ \/ /\ outcome[r] # "panicked"
             /\ \E s \in Sizes :
                   /\ s <= MaxBytes - bodyBytes
                   /\ bodyBytes' = bodyBytes + s
                   /\ records' = [records EXCEPT ![k] = Done(s)]
          \/ /\ outcome[r] = "panicked" \/ \E s \in Sizes : s > MaxBytes - bodyBytes
             /\ records' = [records EXCEPT ![k] = Unreplayable]
             /\ UNCHANGED bodyBytes

\* The blocking closure settles the guard, then drops the permit.
Finish(r) ==
    /\ stage[r] = "worked"
    /\ IF keyOf[r] = NoKey THEN UNCHANGED table ELSE Settle(r)
    /\ Move(r, "answered")
    /\ slots' = slots + 1
    /\ UNCHANGED <<outcome, line, queued, closing, applied>>

-----------------------------------------------------------------------------
(* Shutdown.                                                               *)

\* work.stop(), after the signal and its delay.
Stop ==
    /\ shutdown = "serving"
    /\ accepting' = FALSE
    /\ shutdown' = "stopped"
    /\ UNCHANGED <<stage, outcome, admission, table, drained, applied>>

\* serve returned (connections closed, or their grace elapsed):
\* acquire_many_owned joins the line.
BeginDrain ==
    /\ shutdown = "stopped"
    /\ shutdown' = "draining"
    /\ line' = Append(line, Drain)
    /\ UNCHANGED <<stage, outcome, slots, queued, accepting, drained, table, applied>>

\* Defect: one permit too many is asked for.
BugDrainTake ==
    /\ shutdown = "draining"
    /\ AtHead(Drain) /\ slots > 0
    /\ drained' = drained + slots
    /\ slots' = 0
    /\ IF drained + slots > Capacity
       THEN shutdown' = "flushing" /\ line' = Tail(line)
       ELSE UNCHANGED <<shutdown, line>>
    /\ UNCHANGED <<stage, outcome, queued, accepting, table, applied>>

\* It is assigned permits as they come back, and flushes once it has all.
DrainTake ==
    /\ shutdown = "draining"
    /\ AtHead(Drain) /\ slots > 0
    /\ drained' = drained + slots
    /\ slots' = 0
    /\ IF drained + slots = Capacity
       THEN shutdown' = "flushing" /\ line' = Tail(line)
       ELSE UNCHANGED <<shutdown, line>>
    /\ UNCHANGED <<stage, outcome, queued, accepting, table, applied>>

\* flush_all returned; the closure drops the drained permits.
Flushed ==
    /\ shutdown = "flushing"
    /\ shutdown' = "down"
    /\ slots' = slots + drained
    /\ drained' = 0
    /\ UNCHANGED <<stage, outcome, line, queued, accepting, table, applied>>

-----------------------------------------------------------------------------
Handle(r) ==
    \/ TryAcquire(r) \/ Overflow(r) \/ JoinLine(r) \/ Granted(r) \/ QueueTimeout(r)
    \/ Recheck(r) \/ BodyFails(r) \/ Begin(r) \/ Work(r) \/ Finish(r)

PipelineNext ==
    /\ \/ \E r \in Requests : Arrive(r) \/ AdmitFails(r) \/ Handle(r) \/ Disconnect(r)
       \/ Stop \/ BeginDrain \/ DrainTake \/ Flushed
    /\ UNCHANGED keyOf

\* The executor polls every ready task, timers fire, blocking work returns;
\* clients, and the signal, come when they like.
PipelineProgress ==
    /\ (\E r \in Requests : Handle(r)) \/ BeginDrain \/ DrainTake \/ Flushed
    /\ UNCHANGED keyOf
PipelineFairness == WF_pipelineVars(PipelineProgress)

PipelineSpec == PipelineInit /\ [][PipelineNext]_pipelineVars
PipelineFairSpec == PipelineSpec /\ PipelineFairness

-----------------------------------------------------------------------------
Holders == {r \in Requests : stage[r] \in Holding}
Waiters == {r \in Requests : stage[r] \in Counted}

\* Every permit is free, with a request between its grant and its answer, or
\* with the drain, whatever timeouts, disconnects and panics happen on the
\* way; and the count of waiters is the number of requests that wait, so the
\* queue neither shrinks for ever nor admits more than its bound.
PermitsConserved ==
    /\ slots + Cardinality(Holders) + drained = Capacity
    /\ queued = Cardinality(Waiters)
    /\ Cardinality({r \in Requests : stage[r] = "queued"}) <= MaxQueue

\* serve_main flushes the stores only when no admitted work is left, and
\* nothing is admitted afterwards, also not a request that read `accepting`
\* before the stop and got its permit from the drain.
NoWorkBesideFlush ==
    shutdown \in {"flushing", "down"} =>
        \A r \in Requests : stage[r] \notin {"reading", "working", "worked"}

\* The table's books: a settled key is in the completion queue exactly once
\* and a running one never (so expiry cannot take the record from under its
\* guard, whose `expect` would panic), a request at work under a key owns its
\* running record alone, and the retained bytes are those of the stored
\* responses and within the limit.
TableAccounted ==
    /\ \A k \in Keys : Cardinality({i \in DOMAIN completed : completed[i] = k})
                       = IF KeyOfSettled(records[k]) THEN 1 ELSE 0
    /\ \A k \in Keys : Cardinality({r \in Requests : keyOf[r] = k
                                       /\ stage[r] \in {"working", "worked"}})
                       = IF records[k].state = "running" THEN 1 ELSE 0
    /\ bodyBytes = BytesTo[Len(completed)] /\ bodyBytes <= MaxBytes
    /\ Cardinality(Known(records)) <= MaxRecords

\* What a retrying client is promised, as a specification of its own: the
\* table implements OnceKeys.
Once == INSTANCE OnceKeys WITH
    Key <- Keys,
    status <- [k \in Keys |-> CASE records[k] = NoRecord -> "free"
                                [] records[k].state = "running" -> "running"
                                [] OTHER -> "settled"],
    effect <- applied

AtMostOnce == Once!OnceSpec

\* Every request that arrived is answered (or its client left), and a
\* shutdown that began reaches its flush and ends, under the scheduling the
\* runtime gives.
EveryRequestAnswered ==
    []<>(/\ \A r \in Requests : stage[r] \in {"idle", "answered"}
         /\ shutdown \in {"serving", "down"})
=============================================================================
