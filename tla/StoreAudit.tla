----------------------------- MODULE StoreAudit -----------------------------
(***************************************************************************)
(* What the journals and the audit file of Store amount to: the audit      *)
(* trail a crash at any point would leave, and the ledger (docs, records   *)
(* owed, records delivered) that the engine implements.                    *)
(***************************************************************************)
EXTENDS Store

\* The audit trail once everything owed is delivered, after a crash now that keeps
\* generation g and n records of the stream.
Trail(g, n) ==
    LET done == RepairTail(SubSeq(stream, 1, n))
        owed == Replay(log[g]).queue
    IN  IF done # <<>> /\ owed # <<>> /\ Last(done) = Head(owed)
        THEN done \o Tail(owed) ELSE done \o owed

\* The records of audited writes among these records (the others are compactions')
OfWrites(records) ==
    LET upTo[n \in 0 .. Len(records)] ==
            IF n = 0 THEN <<>>
            ELSE IF records[n] \in 1 .. MaxTxns THEN Append(upTo[n - 1], records[n])
            ELSE upTo[n - 1]
    IN  upTo[Len(records)]

\* One record for each audited write committed, in commit order
Audited == OfWrites([i \in 1 .. Len(history) |-> history[i].pend])

\* Exactly-once, in-order audit: at every instant, and after any crash, the records
\* delivered and still owed are each there once, those of audited writes are the
\* writes committed, in commit order, and no more are owed than the backlog may hold.
AuditTrailExact ==
    ~orphan =>
        \A g \in {current.seen, current.kept}, n \in synced .. Len(stream) :
            LET t == Trail(g, n)
            IN  /\ Len(Replay(log[g]).queue) <= MaxPending
                /\ \A i, j \in 1 .. Len(t) : t[i] = t[j] => i = j
                /\ OfWrites(t) = Audited

-----------------------------------------------------------------------------
Delivered == OfWrites(SubSeq(stream, 1, synced))
Owed == LET q == OfWrites(Replay(log[current.seen]).queue)
        IN  IF q # <<>> /\ Delivered # <<>> /\ Last(Delivered) = Head(q) THEN Tail(q) ELSE q

L == INSTANCE Ledger WITH docs <- Replay(log[current.seen]).docs, owed <- Owed, trail <- Delivered

\* The engine implements the ledger: a commit's append is the one step that changes the
\* recovered state; staging, publication, cleanup, failed calls, crashes and opens are
\* invisible, and a record reaches the durable trail once, in commit order.
ImplementsLedger == L!Spec
=============================================================================
