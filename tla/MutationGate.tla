---------------------------- MODULE MutationGate ----------------------------
(***************************************************************************)
(* The gate every persistent operation of the engine passes                *)
(* (engine/mutation_gate.rs).  Writers and maintenance take numbered       *)
(* tickets and are served strictly in ticket order; a writer that holds    *)
(* the lease publishes by also taking the readers' lock exclusively.       *)
(* Queries take that lock shared and never queue for a ticket.             *)
(*                                                                         *)
(* A thread sleeping on the condition variable is "asleep", one that was   *)
(* notified (or woke spuriously) and has not yet re-checked its ticket     *)
(* under the state mutex is "notified".  The std RwLock promises no order  *)
(* between readers and a waiting writer, so either may get it first.       *)
(***************************************************************************)
EXTENDS Naturals

CONSTANTS
    Thread,      \* threads of the process
    CounterMax   \* u64::MAX: the last value of the reservation counter

ASSUME CounterAssumption == CounterMax \in Nat

VARIABLES
    next,      \* WriterState.next: the next ticket to hand out
    serving,   \* WriterState.serving: the ticket being served
    pc,        \* where each thread stands
    ticket,    \* the ticket a thread drew in WriterQueue::acquire
    maint      \* TRUE: the lease came from maintenance(), FALSE: begin_write()

vars == <<next, serving, pc, ticket, maint>>

Waiting == {"asleep", "notified"}
\* The states in which a thread's WriterLease has held = TRUE.
Holding == {"leased", "publishing", "published", "unlocked"}
Step == {"idle", "released", "querying", "reading"} \cup Waiting \cup Holding

Init ==
    /\ next = 0
    /\ serving = 0
    /\ pc = [t \in Thread |-> "idle"]
    /\ ticket = [t \in Thread |-> 0]
    /\ maint = [t \in Thread |-> FALSE]

-----------------------------------------------------------------------------
\* Defect: the first test compares with the counter after the increment.
BugAcquire(t, m) ==
    /\ pc[t] = "idle"
    /\ next < CounterMax
    /\ next' = next + 1
    /\ ticket' = [ticket EXCEPT ![t] = next]
    /\ maint' = [maint EXCEPT ![t] = m]
    /\ pc' = [pc EXCEPT ![t] = IF serving <= next THEN "leased" ELSE "asleep"]
    /\ UNCHANGED serving

\* Drawing a ticket and the first test of `serving` happen under one hold of
\* the state mutex; a counter at its maximum panics and draws nothing.
Acquire(t, m) ==
    /\ pc[t] = "idle"
    /\ next < CounterMax
    /\ next' = next + 1
    /\ ticket' = [ticket EXCEPT ![t] = next]
    /\ maint' = [maint EXCEPT ![t] = m]
    /\ pc' = [pc EXCEPT ![t] = IF serving = next THEN "leased" ELSE "asleep"]
    /\ UNCHANGED serving

\* Defect: a woken waiter takes the lease without re-testing (`if` for `while`).
BugRecheck(t) ==
    /\ pc[t] = "notified"
    /\ pc' = [pc EXCEPT ![t] = "leased"]
    /\ UNCHANGED <<next, serving, ticket, maint>>

\* A woken waiter re-tests its ticket under the state mutex.
Recheck(t) ==
    /\ pc[t] = "notified"
    /\ pc' = [pc EXCEPT ![t] = IF serving = ticket[t] THEN "leased" ELSE "asleep"]
    /\ UNCHANGED <<next, serving, ticket, maint>>

SpuriousWake(t) ==
    /\ pc[t] = "asleep"
    /\ pc' = [pc EXCEPT ![t] = "notified"]
    /\ UNCHANGED <<next, serving, ticket, maint>>

-----------------------------------------------------------------------------
\* Defect: the lease is handed over without waking the sleepers.
BugNotifyNone(step, t, to) == [step EXCEPT ![t] = to]

\* notify_all: every sleeper is woken while t moves on to `to`.
NotifyAll(step, t, to) ==
    [u \in Thread |-> IF u = t THEN to
                      ELSE IF step[u] = "asleep" THEN "notified" ELSE step[u]]

\* WriterLease::release of a lease whose `held` is still set.
HandOver(t, to) ==
    /\ serving' = serving + 1
    /\ pc' = NotifyAll(pc, t, to)
    /\ UNCHANGED <<next, ticket, maint>>

\* A maintenance lease is released early and dropped later.
Release(t) ==
    /\ pc[t] = "leased" /\ maint[t]
    /\ HandOver(t, "released")

\* Dropping a lease that is still held: maintenance ends, or a transaction
\* fails before it publishes.
DropLease(t) ==
    /\ pc[t] = "leased"
    /\ HandOver(t, "idle")

\* Defect: the drop after an early release advances the queue once more.
BugDropAgain(t) ==
    /\ pc[t] = "released"
    /\ HandOver(t, "idle")

\* Dropping a released lease changes nothing (`held` is FALSE).
DropReleased(t) ==
    /\ pc[t] = "released"
    /\ pc' = [pc EXCEPT ![t] = "idle"]
    /\ UNCHANGED <<next, serving, ticket, maint>>

-----------------------------------------------------------------------------
\* TransactionGuard::publish waits for the readers' lock with the lease held.
BeginPublish(t) ==
    /\ pc[t] = "leased" /\ ~maint[t]
    /\ pc' = [pc EXCEPT ![t] = "publishing"]
    /\ UNCHANGED <<next, serving, ticket, maint>>

\* Defect: publication does not wait for the queries in progress.
BugPublished(t) ==
    /\ pc[t] = "publishing"
    /\ pc' = [pc EXCEPT ![t] = "published"]
    /\ UNCHANGED <<next, serving, ticket, maint>>

\* RwLock::write returns once nobody holds the lock.
Published(t) ==
    /\ pc[t] = "publishing"
    /\ \A u \in Thread : pc[u] \notin {"reading", "published"}
    /\ pc' = [pc EXCEPT ![t] = "published"]
    /\ UNCHANGED <<next, serving, ticket, maint>>

\* Dropping a WriteGuard: its fields go in order, the readers' lock first and
\* the lease after it.
DropReaders(t) ==
    /\ pc[t] = "published"
    /\ pc' = [pc EXCEPT ![t] = "unlocked"]
    /\ UNCHANGED <<next, serving, ticket, maint>>

DropWriter(t) ==
    /\ pc[t] = "unlocked"
    /\ HandOver(t, "idle")

-----------------------------------------------------------------------------
\* MutationGate::read.
BeginRead(t) ==
    /\ pc[t] = "idle"
    /\ pc' = [pc EXCEPT ![t] = "querying"]
    /\ UNCHANGED <<next, serving, ticket, maint>>

Read(t) ==
    /\ pc[t] = "querying"
    /\ \A u \in Thread : pc[u] # "published"
    /\ pc' = [pc EXCEPT ![t] = "reading"]
    /\ UNCHANGED <<next, serving, ticket, maint>>

EndRead(t) ==
    /\ pc[t] = "reading"
    /\ pc' = [pc EXCEPT ![t] = "idle"]
    /\ UNCHANGED <<next, serving, ticket, maint>>
-----------------------------------------------------------------------------
Lease(t) ==
    \/ \E m \in BOOLEAN : Acquire(t, m)
    \/ Recheck(t) \/ SpuriousWake(t)
    \/ Release(t) \/ DropLease(t) \/ DropReleased(t)

Publish(t) == BeginPublish(t) \/ Published(t) \/ DropReaders(t) \/ DropWriter(t)

Query(t) == BeginRead(t) \/ Read(t) \/ EndRead(t)

Next == \E t \in Thread : Lease(t) \/ Publish(t) \/ Query(t)

\* A thread that holds something runs on and drops it; the readers' lock does
\* not pass over a waiting writer for ever.
Fairness ==
    \A t \in Thread :
        /\ WF_vars(Recheck(t))
        /\ WF_vars(Release(t) \/ DropLease(t) \/ BeginPublish(t))
        /\ WF_vars(DropReleased(t))
        /\ SF_vars(Published(t))
        /\ WF_vars(DropReaders(t))
        /\ WF_vars(DropWriter(t))
        /\ WF_vars(EndRead(t))

Spec == Init /\ [][Next]_vars

FairSpec == Spec /\ Fairness

-----------------------------------------------------------------------------
\* Type correctness of the gate's counters and of each thread's position.
TypeOK ==
    /\ next \in 0 .. CounterMax
    /\ serving \in 0 .. CounterMax
    /\ pc \in [Thread -> Step]
    /\ ticket \in [Thread -> Nat]
    /\ maint \in [Thread -> BOOLEAN]

\* The writer lease is exclusive: whatever mix of transactions, early releases
\* and drops came before, two threads never hold a lease at once.
LeaseExclusive ==
    \A t, u \in Thread : pc[t] \in Holding /\ pc[u] \in Holding => t = u

\* While a transaction is published no query holds the readers' lock and no
\* other transaction is published (mutations exclude readers).
PublicationExcludesReaders ==
    \A t, u \in Thread :
        pc[t] = "published" /\ pc[u] \in {"reading", "published"} => t = u

InQueue(t) == pc[t] \in Waiting \cup Holding

\* The queue advances exactly once per lease: the tickets from `serving` up to
\* `next` are exactly the ones drawn by threads that wait or hold, one each.
\* A skipped ticket would leave every later writer waiting.
EveryTicketOwned ==
    /\ serving <= next
    /\ \A t \in Thread : InQueue(t) => serving <= ticket[t] /\ ticket[t] < next
    /\ \A n \in 0 .. CounterMax :
          serving <= n /\ n < next => \E t \in Thread : InQueue(t) /\ ticket[t] = n
    /\ \A t, u \in Thread : InQueue(t) /\ InQueue(u) /\ ticket[t] = ticket[u] => t = u

\* The lease holder is the thread whose ticket is being served.
HolderIsServed ==
    \A t \in Thread : pc[t] \in Holding => ticket[t] = serving

\* No wakeup is lost: a thread sleeping on the condition variable is never the
\* one being served.
NoLostWakeup ==
    \A t \in Thread : pc[t] = "asleep" => ticket[t] # serving

\* Reservations preserve queue order: a step that gives a thread the lease
\* gives it to the lowest ticket among the threads still in the queue.
GrantsInTicketOrder ==
    [][\A t, u \in Thread :
          /\ pc[t] \notin Holding /\ pc'[t] \in Holding
          /\ pc'[u] \in Waiting
          => ticket'[t] < ticket'[u]]_vars

\* Everyone who drew a ticket is eventually given the lease, through
\* publication waits, early releases and spurious wakeups.
EveryTicketServed ==
    \A t \in Thread : pc[t] \in Waiting ~> pc[t] \in Holding
=============================================================================
