--------------------------- MODULE StoreInvariant ---------------------------
(*****************************************************************************)
(* The invariant of Store that its theorems rest on, and the laws of its     *)
(* operators that the proof of the invariant uses.                           *)
(*****************************************************************************)
EXTENDS Store

-----------------------------------------------------------------------------
(* Replaying a journal.                                                    *)

\* One step of load_from_log.
Replays(s, f) ==
    IF s = Refused \/ ~AuditTransitionOK(s.queue, f) THEN Refused ELSE Apply(s, f)

Value == Effect \cup {Absent}
State == [docs : [Key -> Value], queue : Seq(Effect)]

\* The audit queue never holds more than the backlog may, nor a record twice.
QueueOK(q) ==
    /\ q \in Seq(Effect) /\ Len(q) <= MaxPending
    /\ \A i, j \in 1 .. Len(q) : q[i] = q[j] => i = j

Writes(fs, k) == \E i \in 1 .. Len(fs) : fs[i].key = k

\* The elements of s after the first n
After(s, n) == SubSeq(s, n + 1, Len(s))

-----------------------------------------------------------------------------
(* The inductive invariant.                                                *)

\* A transaction before it has its number
InHand == [key : Key \cup {NoKey}, val : Value \cup {Own},
           pend : Effect \cup {None, Own}, ack : Effect \cup {None}]

CompState == [cursor : Nat, docs : [Key -> Value] \cup {<<>>}, todo : SUBSET Document,
              rounds : 0 .. 2, effect : Effect \cup {None}, failed : BOOLEAN]
Steps == {"idle", "commit", "apply", "drain", "deliver", "sync", "carry", "publish",
          "dirsync", "swap", "cleanup", "finish"}
TypeOK ==
    /\ log \in [Generation -> Seq(Frame)] /\ made \in Generation /\ removed \subseteq 0 .. made
    /\ current \in [seen : Generation, kept : Generation] /\ arena \in Generation
    /\ live \in State /\ lease \in Thread \cup {Free}
    /\ pc \in [Thread -> Steps] /\ frame \in [Thread -> InHand]
    /\ comp \in CompState /\ history \in Seq(Frame) /\ written \in 0 .. MaxTxns
    /\ status \in {"open", "opening", "down", "refused"}
    /\ target \in [Thread -> Effect \cup {None}]

\* Who holds the lease, and that nothing runs in a store that is not open.
Staged == {"publish", "dirsync", "swap"}
Swapped == {"cleanup", "finish"}
LeaseOK ==
    /\ \A t \in Thread :
          /\ pc[t] = "apply" => lease = t
          /\ pc[t] \in Staged \cup Swapped => t = Compactor /\ lease = t
          /\ pc[t] = "carry" => t = Compactor
    /\ lease # Free => pc[lease] \in {"apply"} \cup Staged \cup Swapped
    /\ status = "open" => pc[Opener] = "idle"
    /\ status # "open" => \A t \in Thread \ {Opener} : pc[t] = "idle"
    /\ ~Running => pc[Opener] = "idle"

\* The transaction a thread has in hand; a drainer has a record left to deliver.
Draining(t) == pc[t] \in {"deliver", "sync"} \/ (pc[t] \in {"commit", "apply"} /\ frame[t].ack # None)
Hand(t) ==
    /\ pc[t] = "commit" =>
         \/ /\ frame[t].key \in Key /\ frame[t].val \in {Absent, Own}
            /\ frame[t].pend \in {None, Own} /\ frame[t].ack = None
         \/ \E e \in Effect : frame[t] = Ack(e)
    /\ pc[t] = "apply" =>
         /\ frame[t] \in Frame /\ AuditTransitionOK(live.queue, frame[t])
         /\ log[arena] # <<>> /\ Last(log[arena]) = frame[t]
    /\ pc[t] = "sync" => \E e \in Effect : frame[t] = Ack(e)
    /\ Draining(t) => drainer = t /\ target[t] \in Range(live.queue)

HandOK == \A t \in Thread : Hand(t)

\* Every transaction begun has a number left to commit under.
Unnumbered == {t \in Thread : pc[t] = "commit" /\ frame[t].key # NoKey}
NumbersLeft == Cardinality(Unnumbered) + written <= MaxTxns

\* Numbers in use: of committed transactions, and of compactions.
Known(e) == e <= written \/ e > MaxTxns
NumbersOK ==
    /\ QueueOK(live.queue) /\ \A e \in Range(live.queue) : Known(e)
    /\ \A g \in Generation : \A i \in 1 .. Len(log[g]) : Known(log[g][i].pend)
    /\ pc[Compactor] \in {"carry"} \cup Staged \cup Swapped =>
          comp.effect \in Effect /\ comp.effect > MaxTxns
    /\ pc[Compactor] \in Staged \cup Swapped => AuditTransitionOK(live.queue, Pend(comp.effect))

\* Which generations CURRENT may name, and that they are there.
GenerationsOK ==
    /\ current.seen <= made /\ current.kept <= made /\ arena <= made
    /\ current.seen \notin removed /\ current.kept \notin removed
    /\ Running /\ pc[Compactor] \notin {"dirsync", "swap"} => arena = current.seen
    /\ pc[Compactor] \in {"carry", "publish"} =>
          arena < made /\ current.kept < made /\ made \notin removed
    /\ pc[Compactor] \in {"dirsync", "swap"} =>
          current.seen = made /\ arena < made /\ made \notin removed
    /\ pc[Compactor] = "swap" => comp.failed \/ current.kept = made
    /\ pc[Compactor] = "cleanup" => comp.cursor < made /\ arena = made /\ current.kept = made

\* The live state as it will be when the holder of the lease is done
View ==
    IF lease = Free THEN live
    ELSE IF pc[lease] = "apply" THEN Apply(live, frame[lease])
    ELSE IF pc[lease] \in Swapped THEN Apply(live, Pend(comp.effect))
    ELSE live

JournalOK(g) ==
    LET r == Replay(log[g]) IN r.docs = Promised \/ (orphan /\ r = Refused)
LiveOK ==
    /\ Running => View.docs = Promised /\ (orphan \/ View = Replay(log[arena]))
    /\ pc[Compactor] \in Staged => Replay(log[made]) = Apply(live, Pend(comp.effect))

\* What the staged generation lacks: the transactions since the cursor, and the
\* documents still to be carried.
Missing == After(log[arena], comp.cursor)

CarryOK ==
    pc[Compactor] = "carry" =>
        LET q == Replay(log[made] \o Missing)
        IN  /\ comp.cursor <= Len(log[arena]) /\ comp.docs \in [Key -> Value]
            /\ lease # Free => comp.cursor < Len(log[arena])
            /\ q # Refused /\ q.queue = View.queue
            /\ \A k \in Key : k \notin comp.todo \/ Writes(Missing, k) => q.docs[k] = Promised[k]
            /\ comp.rounds = 0 =>
                 \A k \in Key : ~Writes(Missing, k) => comp.docs[k] = Promised[k]
            /\ comp.todo # {} => comp.rounds = 0

StoreInv ==
    /\ TypeOK /\ LeaseOK /\ HandOK /\ NumbersLeft /\ NumbersOK /\ GenerationsOK
    /\ JournalOK(current.seen) /\ JournalOK(current.kept) /\ LiveOK /\ CarryOK

-----------------------------------------------------------------------------
(* Laws.                                                                   *)

\* What the steps of the engine need of the replay, of counting threads and of numbers:
\* facts proved in StoreProofs, by induction on the length of a journal or with the
\* theorems on finite sets.

\* An empty journal replays to the fresh state, and one more transaction is one more step.
ReplayStepLaw ==
    /\ Replay(<<>>) = Fresh
    /\ \A fs \in Seq(Frame), f \in Frame : Replay(Append(fs, f)) = Replays(Replay(fs), f)

\* A replay is refused for good, or gives a well-formed state whose queue keeps its
\* bounds and holds intents of the journal only.
ReplayOKLaw ==
    \A fs \in Seq(Frame) : Replay(fs) # Refused =>
        /\ Replay(fs) \in State /\ QueueOK(Replay(fs).queue)
        /\ \A e \in Range(Replay(fs).queue) : \E i \in 1 .. Len(fs) : fs[i].pend = e
RefusedLaw == \A a, t \in Seq(Frame) : Replay(a) = Refused => Replay(a \o t) = Refused

\* Two journals that replay to the same queue stay so under the same further
\* transactions; these decide the keys they write and leave the others as they were.
SameTailLaw ==
    \A a, b, t \in Seq(Frame) :
        Replay(b) # Refused /\ Replay(a).queue = Replay(b).queue /\ Replay(a \o t) # Refused =>
            /\ Replay(b \o t) # Refused /\ Replay(a \o t).queue = Replay(b \o t).queue
            /\ \A k \in Key :
                  IF Writes(t, k) THEN Replay(a \o t).docs[k] = Replay(b \o t).docs[k]
                  ELSE /\ Replay(a \o t).docs[k] = Replay(a).docs[k]
                       /\ Replay(b \o t).docs[k] = Replay(b).docs[k]

\* The frames compaction starts a generation with replay to the vectors and the queue.
StartOf(s) == PutFrames(s.docs, {k \in Vector : s.docs[k] # Absent}) \o PendFrames(s.queue)
SnapshotLaw ==
    \A s \in State : QueueOK(s.queue) =>
        /\ StartOf(s) \in Seq(Frame)
        /\ Replay(StartOf(s)) = [docs |-> [k \in Key |-> IF k \in Vector THEN s.docs[k] ELSE Absent],
                                 queue |-> s.queue]
        /\ \A i \in 1 .. Len(StartOf(s)) :
              StartOf(s)[i].pend = None \/ StartOf(s)[i].pend \in Range(s.queue)

\* Threads can be counted, and a non-empty set of positions has a last one.
CountLaw ==
    /\ Cardinality({}) = 0
    /\ \A S \in SUBSET Thread :
          /\ Cardinality(S) \in Nat /\ (S # {} => Cardinality(S) >= 1)
          /\ \A R \in SUBSET S : Cardinality(R) <= Cardinality(S)
          /\ \A t \in Thread : Cardinality(S \cup {t}) <= Cardinality(S) + 1
          /\ \A t \in S : Cardinality(S \ {t}) = Cardinality(S) - 1
LastLaw ==
    \A n \in Nat : \A S \in SUBSET (0 .. n) : S # {} => \E m \in S : \A i \in S : i <= m

Laws == ReplayStepLaw /\ ReplayOKLaw /\ RefusedLaw /\ SameTailLaw /\ SnapshotLaw /\ CountLaw /\ LastLaw
=============================================================================
