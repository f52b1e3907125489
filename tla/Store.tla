------------------------------- MODULE Store --------------------------------
(***************************************************************************)
(* The engine's durable state: transactions committed through the writer   *)
(* lease (engine/mutation.rs), compaction into a staged generation while   *)
(* writers continue (engine/compaction.rs, storage.rs), the outbox of      *)
(* audit intents and its delivery (engine/audit_delivery.rs,               *)
(* audit_effects.rs), crashes, power loss, and the replay that opens the   *)
(* store again (engine/mod.rs).                                            *)
(*                                                                         *)
(* The lease is the one of MutationGate, here only its mutual exclusion.   *)
(* A journal is the sequence of its transactions: that an append is atomic *)
(* and durable when it returns is what Arena is about.  A vector, a        *)
(* document and its text are one value; a transaction writes or deletes    *)
(* one key, or acknowledges an audit record.  The name of a generation is  *)
(* its number; a value, and the (random) identity of an audit record, is   *)
(* the number of the transaction or compaction it belongs to.              *)
(***************************************************************************)
EXTENDS Integers, Sequences, FiniteSets, Functions

CONSTANTS
    Vector, Document,     \* keys: written by memorize / memorize_document
    Writer,               \* threads that write
    Compactor, Opener,    \* the maintenance thread, the thread in WarmCore::new
    MaxPending,           \* audit_effects::MAX_PENDING
    SyncCoversRename,     \* a commit's sync also makes an earlier rename durable
    Faults,               \* which calls may fail (see MayFail)
    MaxTxns, MaxCompactions, MaxCrashes, MaxFailures   \* bounds

FaultKind == {"append", "deliver", "sync", "publish", "dirsync", "remove", "scrub"}

ASSUME StoreAssumption ==
    /\ Vector \cap Document = {}
    /\ Compactor # Opener /\ {Compactor, Opener} \cap Writer = {}
    /\ Vector \cup Document # {} /\ "no key" \notin Vector \cup Document
    /\ "free" \notin Writer \cup {Compactor, Opener} /\ IsFiniteSet(Writer)
    /\ IsFiniteSet(Vector)
    /\ MaxPending \in Nat \ {0} /\ MaxTxns \in Nat /\ MaxCompactions \in Nat
    /\ SyncCoversRename \in BOOLEAN /\ Faults \subseteq FaultKind

VARIABLES
    log,         \* the journal of every generation directory
    made,        \* generations created so far
    removed,     \* generations whose directory was deleted
    current,     \* CURRENT: [seen |-> by this process, kept |-> after a power loss]
    arena,       \* the generation the live mapping appends to
    live,        \* in-memory state: [docs, queue], queue = audit_pending
    lease,       \* holder of the writer lease
    drainer,     \* holder of the audit delivery lease
    pc, frame, target,   \* per thread: step, transaction in hand, flush_audit's target
    comp,        \* compact_impl's locals: [cursor, docs, todo, rounds, effect, failed]
    stream,      \* audit.effects.bin, as records; Torn is a partial last record
    synced,      \* records of it that a power loss keeps
    status,      \* "open", "opening", "down", "refused" (open failed)
    history,     \* the transactions appended, in order (what callers were promised)
    orphan,      \* a compaction has failed after publication: its audit intent was
                 \* journaled, and not put in the live queue (see RemoveOld)
    written, crashes, failures

calls == <<pc, frame, target>>
audit == <<stream, synced>>
counters == <<written, crashes, failures>>
vars == <<log, made, removed, current, arena, live, lease, drainer, calls, comp,
          audit, status, history, orphan, counters>>

Key == Vector \cup Document
Thread == Writer \cup {Compactor, Opener}
Generation == 0 .. MaxCompactions
Effect == 1 .. MaxTxns + MaxCompactions
None == 0
Absent == 0
Torn == -1
Own == -2        \* the number the transaction will have
Free == "free"
NoKey == "no key"

Frame == [key : Key \cup {NoKey}, val : Effect \cup {Absent},
          pend : Effect \cup {None}, ack : Effect \cup {None}]
Put(k, v) == [key |-> k, val |-> v, pend |-> None, ack |-> None]
Pend(e) == [key |-> NoKey, val |-> Absent, pend |-> e, ack |-> None]
Ack(e) == [key |-> NoKey, val |-> Absent, pend |-> None, ack |-> e]
NoFrame == Put(NoKey, Absent)
Last(s) == s[Len(s)]
Latest(positions) == CHOOSE i \in positions : \A j \in positions : j <= i
NoComp == [cursor |-> 0, docs |-> <<>>, todo |-> {}, rounds |-> 0,
           effect |-> None, failed |-> FALSE]

-----------------------------------------------------------------------------
(* The journal and what it replays to.                                     *)

\* validate_audit_transitions, against the queue q
AuditTransitionOK(q, f) ==
    /\ f.pend # None => Len(q) < MaxPending /\ f.pend \notin Range(q)
    /\ f.ack # None => q # <<>> /\ Head(q) = f.ack

\* apply_mutations: install one transaction in the live state
Apply(s, f) ==
    [docs  |-> IF f.key = NoKey THEN s.docs ELSE [s.docs EXCEPT ![f.key] = f.val],
     queue |-> LET q == IF f.ack # None THEN Tail(s.queue) ELSE s.queue
               IN  IF f.pend # None THEN Append(q, f.pend) ELSE q]

Fresh == [docs |-> [k \in Key |-> Absent], queue |-> <<>>]
Refused == [docs |-> <<>>, queue |-> <<>>]

\* load_from_log: replay the frames in order; a transition that does not fit fails it
\* (s ranges over a singleton so that TLC evaluates upTo[n - 1] once)
Replay(frames) ==
    LET step(s, f) == IF s = Refused \/ ~AuditTransitionOK(s.queue, f)
                      THEN Refused ELSE Apply(s, f)
        upTo[n \in 0 .. Len(frames)] ==
            IF n = 0 THEN Fresh
            ELSE CHOOSE r \in {step(s, frames[n]) : s \in {upTo[n - 1]}} : TRUE
    IN  upTo[Len(frames)]

Init ==
    /\ log = [g \in Generation |-> <<>>] /\ made = 0 /\ removed = {}
    /\ current = [seen |-> 0, kept |-> 0] /\ arena = 0 /\ live = Fresh
    /\ lease = Free /\ drainer = Free
    /\ pc = [t \in Thread |-> "idle"] /\ frame = [t \in Thread |-> NoFrame]
    /\ target = [t \in Thread |-> None]
    /\ comp = NoComp /\ stream = <<>> /\ synced = 0
    /\ status = "open" /\ history = <<>> /\ orphan = FALSE
    /\ written = 0 /\ crashes = 0 /\ failures = 0

-----------------------------------------------------------------------------
Running == status \in {"open", "opening"}
At(t, step) == Running /\ pc[t] = step
Goto(t, step) == pc' = [pc EXCEPT ![t] = step]

MayFail(kind) ==
    /\ kind \in Faults /\ failures < MaxFailures
    /\ failures' = failures + 1 /\ UNCHANGED <<written, crashes>>

\* A mutation of Return: the delivery lease is not given back.
BugReturn(t, ok) ==
    /\ pc' = [pc EXCEPT ![t] = "idle"]
    /\ frame' = [frame EXCEPT ![t] = NoFrame] /\ target' = [target EXCEPT ![t] = None]
    /\ UNCHANGED drainer
    /\ status' = IF t = Opener THEN (IF ok THEN "open" ELSE "down") ELSE status

\* A call returns; WarmCore::new hands out the engine, or drops it on an error.
Return(t, ok) ==
    /\ pc' = [pc EXCEPT ![t] = "idle"]
    /\ frame' = [frame EXCEPT ![t] = NoFrame] /\ target' = [target EXCEPT ![t] = None]
    /\ drainer' = IF drainer = t THEN Free ELSE drainer
    /\ status' = IF t = Opener THEN (IF ok THEN "open" ELSE "down") ELSE status

-----------------------------------------------------------------------------
(* Transactions.                                                           *)

\* memorize, delete (audited) and memorize_document, delete_document (not):
\* the transaction is built before the lease is taken.
Begin(t, k, deletes) ==
    /\ status = "open" /\ pc[t] = "idle"
    /\ Cardinality({u \in Thread : frame[u].key # NoKey}) + written < MaxTxns
    /\ frame' = [frame EXCEPT ![t] =
           [key |-> k, val |-> IF deletes THEN Absent ELSE Own,
            pend |-> IF k \in Vector THEN Own ELSE None, ack |-> None]]
    /\ Goto(t, "commit")
    /\ UNCHANGED <<log, made, removed, current, arena, live, lease, drainer, target,
                   comp, audit, status, history, orphan, counters>>

\* The transaction with the number it commits under
Numbered(f) == LET n(x) == IF x = Own THEN written + 1 ELSE x
               IN  [f EXCEPT !.val = n(f.val), !.pend = n(f.pend)]

\* commit_payload_at_revision up to the durable append
AppendFrame(t) ==
    /\ At(t, "commit") /\ lease = Free
    /\ AuditTransitionOK(live.queue, frame[t])
    /\ lease' = t
    /\ log' = [log EXCEPT ![arena] = Append(@, Numbered(frame[t]))]
    /\ history' = Append(history, Numbered(frame[t]))
    /\ frame' = [frame EXCEPT ![t] = Numbered(frame[t])]
    /\ written' = IF frame[t].key # NoKey THEN written + 1 ELSE written
    /\ current' = IF SyncCoversRename THEN [current EXCEPT !.kept = current.seen]
                  ELSE current
    /\ Goto(t, "apply")
    /\ UNCHANGED <<made, removed, arena, live, drainer, target, comp, audit,
                   status, orphan, crashes, failures>>

\* The audit backlog is full, or the append failed and was rolled back.
CommitFails(t) ==
    /\ At(t, "commit") /\ lease = Free
    /\ \/ ~AuditTransitionOK(live.queue, frame[t]) /\ UNCHANGED counters
       \/ MayFail("append")
    /\ Return(t, FALSE)
    /\ UNCHANGED <<log, made, removed, current, arena, live, lease, comp, audit, history, orphan>>

\* publish, apply_mutations and the end of the lease; the audited calls go on to
\* finish_audit, and a drainer to its next record.
ApplyFrame(t) ==
    /\ At(t, "apply")
    /\ live' = Apply(live, frame[t]) /\ lease' = Free
    /\ \/ /\ frame[t].ack # None /\ frame[t].ack # target[t]
          /\ Goto(t, "deliver") /\ UNCHANGED <<target, drainer, status>>
          /\ frame' = [frame EXCEPT ![t] = NoFrame]
       \/ /\ frame[t].pend # None
          /\ Goto(t, "drain") /\ UNCHANGED <<target, drainer, status>>
          /\ frame' = [frame EXCEPT ![t] = NoFrame]
       \/ /\ frame[t].pend = None /\ frame[t].ack = target[t]
          /\ Return(t, TRUE)
    /\ UNCHANGED <<log, made, removed, current, arena, comp, audit, history, orphan, counters>>

-----------------------------------------------------------------------------
(* Audit delivery (flush_audit).                                           *)

Flush(t) ==
    /\ status = "open" /\ pc[t] = "idle" /\ Goto(t, "drain")
    /\ UNCHANGED <<log, made, removed, current, arena, live, lease, drainer, frame,
                   target, comp, audit, status, history, orphan, counters>>

DrainNothing(t) ==
    /\ At(t, "drain") /\ drainer = Free /\ live.queue = <<>>
    /\ Return(t, TRUE)
    /\ UNCHANGED <<log, made, removed, current, arena, live, lease, comp, audit,
                   history, orphan, counters>>

StartDrain(t) ==
    /\ At(t, "drain") /\ drainer = Free /\ live.queue # <<>>
    /\ drainer' = t /\ target' = [target EXCEPT ![t] = Last(live.queue)]
    /\ Goto(t, "deliver")
    /\ UNCHANGED <<log, made, removed, current, arena, live, lease, frame, comp, audit,
                   status, history, orphan, counters>>

\* repair_tail: cut a partial last record
RepairTail(s) == IF s # <<>> /\ Last(s) = Torn THEN SubSeq(s, 1, Len(s) - 1) ELSE s

\* A mutation of WriteRecord: no check for a record that is already there.
BugWriteRecord(s, e) == Append(s, e)

\* deliver's write: nothing when the last record is already this intent's
WriteRecord(s, e) == IF s # <<>> /\ Last(s) = e THEN s ELSE Append(s, e)

Deliver(t) ==
    /\ At(t, "deliver")
    /\ stream' = WriteRecord(RepairTail(stream), Head(live.queue))
    /\ frame' = [frame EXCEPT ![t] = Ack(Head(live.queue))]
    /\ Goto(t, "sync")
    /\ UNCHANGED <<log, made, removed, current, arena, live, lease, drainer, target,
                   comp, synced, status, history, orphan, counters>>

\* deliver's sync; the acknowledgement is then committed like any transaction
SyncRecord(t) ==
    /\ At(t, "sync")
    /\ synced' = Len(stream) /\ Goto(t, "commit")
    /\ UNCHANGED <<log, made, removed, current, arena, live, lease, drainer, frame,
                   target, comp, stream, status, history, orphan, counters>>

\* The write leaves at most a partial record, or the record is not synced.
DeliverFails(t) ==
    /\ \/ /\ At(t, "deliver") /\ MayFail("deliver")
          /\ stream' \in {RepairTail(stream), Append(RepairTail(stream), Torn)}
       \/ /\ At(t, "sync") /\ MayFail("sync") /\ UNCHANGED stream
    /\ Return(t, FALSE)
    /\ UNCHANGED <<log, made, removed, current, arena, live, lease, comp, synced, history, orphan>>

-----------------------------------------------------------------------------
(* Compaction (compact_impl).  The staged generation is number `made`.     *)

\* One frame per key, in some order
PutFrames(docs, keys) ==
    LET order == CHOOSE f \in Bijection(1 .. Cardinality(keys), keys) : TRUE
    IN  [i \in 1 .. Cardinality(keys) |-> Put(order[i], docs[order[i]])]
PendFrames(q) == [i \in 1 .. Len(q) |-> Pend(q[i])]

\* new_generation_dir, compaction_snapshot (under a lease that ends with it) and the
\* frames of everything but the documents, which are written from the snapshot alone
Snapshot(t) ==
    /\ status = "open" /\ pc[t] = "idle" /\ lease = Free /\ made < MaxCompactions
    /\ made' = made + 1
    /\ log' = [log EXCEPT ![made + 1] =
           PutFrames(live.docs, {k \in Vector : live.docs[k] # Absent}) \o PendFrames(live.queue)]
    /\ comp' = [cursor |-> Len(log[arena]), docs |-> live.docs,
                todo |-> {k \in Document : live.docs[k] # Absent},
                rounds |-> 0, effect |-> MaxTxns + made + 1, failed |-> FALSE]
    /\ Goto(t, "carry")
    /\ UNCHANGED <<removed, current, arena, live, lease, drainer, frame, target, audit,
                   status, history, orphan, counters>>

\* is_deleted: the document is gone, or its text was zeroed by a delete or a replacement
IsDeleted(d) == live.docs[d] # comp.docs[d]

\* Each document of the snapshot is written with no lease held.
CarryDocument(t, d) ==
    /\ At(t, "carry") /\ d \in comp.todo
    /\ comp' = [comp EXCEPT !.todo = @ \ {d}]
    /\ log' = IF IsDeleted(d) THEN log
              ELSE [log EXCEPT ![made] = Append(@, Put(d, comp.docs[d]))]
    /\ UNCHANGED <<made, removed, current, arena, live, lease, drainer, calls, audit,
                   status, history, orphan, counters>>

\* A mutation of Tailed: the replay starts one frame late.
BugTailed(from) == log[made] \o SubSeq(log[arena], from + 2, Len(log[arena]))

\* compaction_end and replay_compaction_tail: what was appended since the cursor
Tailed(from) == log[made] \o SubSeq(log[arena], from + 1, Len(log[arena]))

\* The two rounds that catch up; the lease only covers reading the end.
CatchUp(t) ==
    /\ At(t, "carry") /\ comp.todo = {} /\ comp.rounds < 2 /\ lease = Free
    /\ log' = [log EXCEPT ![made] = Tailed(comp.cursor)]
    /\ comp' = [comp EXCEPT !.cursor = Len(log[arena]), !.rounds = @ + 1]
    /\ UNCHANGED <<made, removed, current, arena, live, lease, drainer, calls, audit,
                   status, history, orphan, counters>>

\* A mutation of FinalRound: what was appended since the second round is not replayed.
BugFinalRound(t) ==
    /\ At(t, "carry") /\ comp.todo = {} /\ comp.rounds = 2 /\ lease = Free
    /\ AuditTransitionOK(live.queue, Pend(comp.effect))
    /\ lease' = t
    /\ log' = [log EXCEPT ![made] = Append(@, Pend(comp.effect))]
    /\ Goto(t, "publish")
    /\ UNCHANGED <<made, removed, current, arena, live, drainer, frame, target, comp,
                   audit, status, history, orphan, counters>>

\* The last round keeps the lease, and adds the compaction's own audit intent.
FinalRound(t) ==
    /\ At(t, "carry") /\ comp.todo = {} /\ comp.rounds = 2 /\ lease = Free
    /\ AuditTransitionOK(live.queue, Pend(comp.effect))
    /\ lease' = t
    /\ log' = [log EXCEPT ![made] = Append(Tailed(comp.cursor), Pend(comp.effect))]
    /\ Goto(t, "publish")
    /\ UNCHANGED <<made, removed, current, arena, live, drainer, frame, target, comp,
                   audit, status, history, orphan, counters>>

\* A compaction that stops before publication: its StagingDir is removed when it had
\* not been disarmed, else the directory stays as garbage.
CompactFails(t) ==
    /\ \/ /\ At(t, "carry") /\ comp.todo = {} /\ comp.rounds = 2 /\ lease = Free
          /\ ~AuditTransitionOK(live.queue, Pend(comp.effect))
          /\ removed' = removed \cup {made} /\ UNCHANGED <<lease, counters>>
       \/ /\ At(t, "publish") /\ MayFail("publish")
          /\ lease' = Free /\ UNCHANGED removed
    /\ Return(t, FALSE) /\ comp' = NoComp
    /\ UNCHANGED <<log, made, current, arena, live, audit, history, orphan>>

\* atomic_write(CURRENT): the rename ...
RenamePointer(t) ==
    /\ At(t, "publish")
    /\ current' = [current EXCEPT !.seen = made] /\ Goto(t, "dirsync")
    /\ UNCHANGED <<log, made, removed, arena, live, lease, drainer, frame, target, comp,
                   audit, status, history, orphan, counters>>

\* ... and the sync of its directory.  When that fails the pointer reads back as the new
\* generation, so replace_with_compacted goes on with it and reports the error afterwards.
SyncPointer(t) ==
    /\ At(t, "dirsync")
    /\ \/ /\ current' = [current EXCEPT !.kept = made] /\ UNCHANGED <<comp, counters>>
       \/ /\ MayFail("dirsync")
          /\ comp' = [comp EXCEPT !.failed = TRUE] /\ UNCHANGED current
    /\ Goto(t, "swap")
    /\ UNCHANGED <<log, made, removed, arena, live, lease, drainer, frame, target, audit,
                   status, history, orphan>>

\* The mappings are exchanged.
SwapArena(t) ==
    /\ At(t, "swap") /\ arena' = made
    /\ IF comp.failed
       THEN Return(t, FALSE) /\ lease' = Free /\ comp' = NoComp /\ orphan' = TRUE
       ELSE /\ Goto(t, "cleanup") /\ comp' = [comp EXCEPT !.cursor = arena]
            /\ UNCHANGED <<frame, target, drainer, status, lease, orphan>>
    /\ UNCHANGED <<log, made, removed, current, live, audit, history, counters>>

\* The replaced generation (now in comp.cursor) is removed.  A failed removal is logged;
\* a failed scrub makes replace_with_compacted, and so compact_impl, return its error.
RemoveOld(t) ==
    /\ At(t, "cleanup")
    /\ \/ /\ removed' = removed \cup {comp.cursor} /\ UNCHANGED counters /\ Goto(t, "finish")
          /\ UNCHANGED <<frame, target, drainer, status, lease, comp, orphan>>
       \/ /\ MayFail("remove") /\ UNCHANGED removed /\ Goto(t, "finish")
          /\ UNCHANGED <<frame, target, drainer, status, lease, comp, orphan>>
       \/ /\ MayFail("scrub") /\ removed' = removed \cup {comp.cursor}
          /\ Return(t, FALSE) /\ lease' = Free /\ comp' = NoComp /\ orphan' = TRUE
    /\ UNCHANGED <<log, made, current, arena, live, audit, history>>

\* A mutation of FinishCompaction: the intent is journaled but not queued.
BugFinishCompaction(t) ==
    /\ At(t, "finish")
    /\ lease' = Free /\ comp' = NoComp /\ Goto(t, "drain")
    /\ UNCHANGED <<log, made, removed, current, arena, live, drainer, frame, target, audit,
                   status, history, orphan, counters>>

\* The intent joins the live queue, the lease ends, finish_audit follows.
FinishCompaction(t) ==
    /\ At(t, "finish")
    /\ live' = Apply(live, Pend(comp.effect)) /\ lease' = Free
    /\ comp' = NoComp /\ Goto(t, "drain")
    /\ UNCHANGED <<log, made, removed, current, arena, drainer, frame, target, audit,
                   status, history, orphan, counters>>

-----------------------------------------------------------------------------
(* Stopping and opening again.                                             *)

\* The process ends at any point; in a power loss what was not synced may go, too.
Crash(power) ==
    /\ Running /\ crashes < MaxCrashes
    /\ crashes' = crashes + 1 /\ UNCHANGED <<written, failures>>
    /\ IF power
       THEN /\ \E g \in {current.seen, current.kept} : current' = [seen |-> g, kept |-> g]
            /\ \E n \in synced .. Len(stream) :
                 stream' \in {SubSeq(stream, 1, n)}
                             \cup (IF n < Len(stream) THEN {Append(SubSeq(stream, 1, n), Torn)} ELSE {})
            /\ synced' = Len(RepairTail(stream'))
       ELSE UNCHANGED <<current, audit>>
    /\ status' = "down" /\ live' = Fresh /\ lease' = Free /\ drainer' = Free
    /\ pc' = [t \in Thread |-> "idle"] /\ frame' = [t \in Thread |-> NoFrame]
    /\ target' = [t \in Thread |-> None] /\ comp' = NoComp
    /\ UNCHANGED <<log, made, removed, arena, history, orphan>>

\* A mutation of Open: pending audit records are left to the next flush.
BugOpen ==
    /\ status = "down" /\ Replay(log[current.seen]) # Refused
    /\ status' = "open" /\ arena' = current.seen /\ live' = Replay(log[current.seen])
    /\ stream' = RepairTail(stream) /\ synced' = IF stream' = stream THEN synced ELSE Len(stream')
    /\ UNCHANGED <<log, made, removed, current, lease, drainer, calls, comp, history, orphan, counters>>

\* WarmCore::new: read CURRENT, replay, repair the audit file, then flush_audit
Open ==
    /\ status \in {"down", "refused"}
    /\ LET g == current.seen
           s == Replay(log[g])
       IN  IF g \in removed \/ s = Refused
           THEN status' = "refused" /\ UNCHANGED <<arena, live, audit, pc>>
           ELSE /\ status' = "opening" /\ arena' = g /\ live' = s
                /\ stream' = RepairTail(stream)
                /\ synced' = IF stream' = stream THEN synced ELSE Len(stream')
                /\ Goto(Opener, "drain")
    /\ UNCHANGED <<log, made, removed, current, lease, drainer, frame, target, comp,
                   history, orphan, counters>>

Commit(t) == AppendFrame(t) \/ CommitFails(t) \/ ApplyFrame(t)
Drain(t) == DrainNothing(t) \/ StartDrain(t) \/ Deliver(t) \/ SyncRecord(t) \/ DeliverFails(t)
Compact(t) ==
    \/ \E d \in Document : CarryDocument(t, d)
    \/ CatchUp(t) \/ FinalRound(t) \/ CompactFails(t) \/ RenamePointer(t) \/ SyncPointer(t)
    \/ SwapArena(t) \/ RemoveOld(t) \/ FinishCompaction(t)

Step(t) == Commit(t) \/ Drain(t)

Next ==
    \/ \E t \in Writer, k \in Key, deletes \in BOOLEAN : Begin(t, k, deletes)
    \/ Flush(Compactor) \/ Snapshot(Compactor)
    \/ \E t \in Thread : Step(t)
    \/ Compact(Compactor)
    \/ \E power \in BOOLEAN : Crash(power)
    \/ Open

Spec == Init /\ [][Next]_vars

\* A thread inside a call keeps running, and the ticket queue serves every waiter of a
\* lease (EveryTicketServed of MutationGate), hence strong fairness; a stopped store is
\* opened again.  Nothing makes a caller write, flush or compact.
Fairness ==
    /\ WF_vars(Open)
    /\ \A t \in Writer \cup {Opener} : SF_vars(Step(t))
    /\ SF_vars(Step(Compactor) \/ Compact(Compactor))

FairSpec == Spec /\ Fairness

-----------------------------------------------------------------------------
(* Properties.                                                             *)

\* The state callers were promised: every transaction whose append returned.
Promised ==
    [k \in Key |->
        LET writes == {i \in 1 .. Len(history) : history[i].key = k}
        IN  IF writes = {} THEN Absent ELSE history[Latest(writes)].val]

\* Whichever generation CURRENT names after a crash or power loss at this point, it is
\* there and replays to exactly the committed writes: append is the commit point, and
\* compaction neither loses nor revives a write, wherever it stops.  (StoreOpens is about
\* the one way a journal comes to be refused.)
CommittedSurvives ==
    \A g \in {current.seen, current.kept} :
        LET r == Replay(log[g])
        IN  g \notin removed /\ (r.docs = Promised \/ (orphan /\ r = Refused))

\* When no writer or maintenance holds the lease, the live state is the one a reopen
\* would build from the journal being appended to: documents and audit queue alike,
\* except for the intent that a compaction failing after publication does not queue.
LiveMatchesJournal ==
    Running /\ lease = Free =>
        LET r == Replay(log[arena])
        IN  live = r \/ (orphan /\ (live.docs = r.docs \/ r = Refused))

\* No sequence of commits, compactions, failures and crashes leaves a store that a
\* later open refuses.
StoreOpens == status # "refused"

\* Every call returns: the writer lease, the delivery lease and the compaction's own
\* lease never wait for each other in a circle, and flush_audit's loop ends.
EveryCallReturns == \A t \in Thread : pc[t] # "idle" ~> pc[t] = "idle"

\* The record of every committed audited write is eventually delivered and synced, by
\* its own call or, after a crash, by the open that follows.
AuditDelivered ==
    \A e \in 1 .. MaxTxns :
        (\E i \in 1 .. Len(history) : history[i].pend = e)
            ~> (e \in Range(SubSeq(stream, 1, synced)))
=============================================================================
