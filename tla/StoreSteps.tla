----------------------------- MODULE StoreSteps -----------------------------
(*****************************************************************************)
(* The invariant of Store holds at the start and every step keeps it.  The   *)
(* proofs rest on the laws of replay and counting that StoreProofs proves.   *)
(*****************************************************************************)
EXTENDS StoreInvariant, TLAPS

USE Zenon

-----------------------------------------------------------------------------
(* The laws, and the sequences of the model.                               *)

\* Replay, as the laws have it.
LEMMA ReplayStep ==
    ASSUME Laws
    PROVE  /\ Replay(<<>>) = Fresh
           /\ \A fs \in Seq(Frame), f \in Frame : Replay(Append(fs, f)) = Replays(Replay(fs), f)
  BY DEF Laws, ReplayStepLaw

\* The state a journal that is not refused replays to.
LEMMA ReplayOK ==
    ASSUME Laws, NEW fs \in Seq(Frame), Replay(fs) # Refused
    PROVE  /\ Replay(fs) \in State /\ QueueOK(Replay(fs).queue)
           /\ \A e \in Range(Replay(fs).queue) : \E i \in 1 .. Len(fs) : fs[i].pend = e
  BY DEF Laws, ReplayOKLaw

\* Counting threads.
LEMMA Counted ==
    ASSUME Laws, NEW S \in SUBSET Thread
    PROVE  /\ Cardinality(S) \in Nat /\ (S # {} => Cardinality(S) >= 1)
           /\ \A R \in SUBSET S : Cardinality(R) <= Cardinality(S)
           /\ \A t \in Thread : Cardinality(S \cup {t}) <= Cardinality(S) + 1
           /\ \A t \in S : Cardinality(S \ {t}) = Cardinality(S) - 1
  BY DEF Laws, CountLaw

\* The range of a sequence is the set of its elements.
LEMMA InRange ==
    ASSUME NEW S, NEW s \in Seq(S), NEW x
    PROVE  x \in Range(s) <=> \E i \in 1 .. Len(s) : s[i] = x
  BY SMT DEF Range

\* Concatenation and prefixes, one element at a time.
LEMMA ConcatStep ==
    ASSUME NEW S, NEW s \in Seq(S), NEW t \in Seq(S), NEW e \in S
    PROVE  s \o Append(t, e) = Append(s \o t, e)
  BY SMT

\* The empty prefix and the whole sequence.
LEMMA PrefixEnds ==
    ASSUME NEW S, NEW s \in Seq(S)
    PROVE  SubSeq(s, 1, 0) = <<>> /\ SubSeq(s, 1, Len(s)) = s /\ s \o <<>> = s
  BY SMT

\* What comes after the first n elements, when none is added.
LEMMA SuffixOf ==
    ASSUME NEW S, NEW s \in Seq(S), NEW n \in 0 .. Len(s)
    PROVE  /\ After(s, n) \in Seq(S) /\ Len(After(s, n)) = Len(s) - n
           /\ \A i \in 1 .. Len(s) - n : After(s, n)[i] = s[n + i] /\ n + i \in 1 .. Len(s)
           /\ n = Len(s) => After(s, n) = <<>>
  BY SMT DEF After

\* A sequence with one more element.
LEMMA Appended ==
    ASSUME NEW S, NEW s \in Seq(S), NEW e \in S
    PROVE  /\ Append(s, e) \in Seq(S) /\ Len(Append(s, e)) = Len(s) + 1 /\ Len(s) \in Nat
           /\ Append(s, e)[Len(s) + 1] = e /\ \A i \in 1 .. Len(s) : Append(s, e)[i] = s[i]
  BY SMT

\* What follows the first n elements grows with the sequence.
LEMMA SuffixStep ==
    ASSUME NEW S, NEW s \in Seq(S), NEW n \in 0 .. Len(s), NEW e \in S
    PROVE  /\ After(s, n) \in Seq(S) /\ Len(After(s, n)) = Len(s) - n
           /\ \A i \in 1 .. Len(s) - n : After(s, n)[i] = s[n + i]
           /\ After(Append(s, e), n) = Append(After(s, n), e)
<1> DEFINE u == Append(s, e)
           v == After(u, n)
           t == After(s, n)
           w == Append(t, e)
<1>1. /\ t \in Seq(S) /\ Len(t) = Len(s) - n
      /\ \A i \in 1 .. Len(s) - n : t[i] = s[n + i] /\ n + i \in 1 .. Len(s)
  BY SuffixOf
<1>2. /\ u \in Seq(S) /\ Len(u) = Len(s) + 1 /\ Len(s) \in Nat
      /\ u[Len(s) + 1] = e /\ \A i \in 1 .. Len(s) : u[i] = s[i]
  BY SMT, Appended
<1>3. n \in 0 .. Len(u)
  BY SMT, <1>2
<1>4. /\ v \in Seq(S) /\ Len(v) = Len(u) - n
      /\ \A i \in 1 .. Len(u) - n : v[i] = u[n + i]
  BY <1>2, <1>3, SuffixOf
<1>5. /\ w \in Seq(S) /\ Len(w) = Len(t) + 1 /\ w[Len(t) + 1] = e
      /\ \A i \in 1 .. Len(t) : w[i] = t[i]
  BY SMT, <1>1, Appended
<1> HIDE DEF u, v, t, w
<1>6. Len(v) = Len(w) /\ \A i \in 1 .. Len(w) : v[i] = w[i]
  <2>1. Len(v) = Len(w) /\ Len(v) = Len(s) + 1 - n /\ Len(t) = Len(s) - n
    BY SMT, <1>1, <1>2, <1>4, <1>5
  <2>2. ASSUME NEW i \in 1 .. Len(w)
        PROVE  v[i] = w[i]
    <3>1. v[i] = u[n + i]
      BY <1>2, <1>4, <2>1
    <3>2. CASE i = Len(s) + 1 - n
      <4>1. n + i = Len(s) + 1 /\ i = Len(t) + 1
        BY SMT, <1>2, <2>1, <3>2
      <4> QED
        BY <1>2, <1>5, <3>1, <4>1
    <3>3. CASE i # Len(s) + 1 - n
      <4>1. i \in 1 .. Len(t) /\ i \in 1 .. Len(s) - n /\ n + i \in 1 .. Len(s)
        BY SMT, <1>2, <2>1, <3>3
      <4> QED
        BY <1>1, <1>2, <1>5, <3>1, <4>1
    <3> QED
      BY <3>2, <3>3
  <2> QED
    BY <2>1, <2>2
<1>7. v = w
  BY SMT, <1>4, <1>5, <1>6
<1> QED
  BY <1>1, <1>7 DEF u, v, t, w

-----------------------------------------------------------------------------
(* Constants and types.                                                    *)

\* The constants and the states a replay starts from and ends in.
LEMMA Constants ==
    /\ Key # {} /\ NoKey \notin Key /\ MaxPending \in Nat /\ MaxPending >= 1
    /\ Effect \subseteq Nat /\ None \notin Effect /\ Absent \notin Effect
    /\ Fresh \in State /\ Refused \notin State /\ Fresh # Refused
    /\ Fresh.queue = <<>> /\ QueueOK(<<>>) /\ MaxTxns \in Nat /\ MaxCompactions \in Nat
<1>1. Key # {} /\ NoKey \notin Key /\ MaxPending \in Nat /\ MaxPending >= 1
  <2>1. Vector \cup Document # {} /\ "no key" \notin Vector \cup Document
    BY StoreAssumption
  <2>2. MaxPending \in Nat \ {0}
    BY StoreAssumption
  <2>3. MaxPending \in Nat /\ MaxPending >= 1
    BY SMT, <2>2
  <2> QED
    BY <2>1, <2>3 DEF Key, NoKey
<1>2. Effect \subseteq Nat /\ None \notin Effect /\ Absent \notin Effect
      /\ MaxTxns \in Nat /\ MaxCompactions \in Nat
  <2>1. MaxTxns \in Nat /\ MaxCompactions \in Nat
    BY StoreAssumption
  <2> QED
    BY SMT, <2>1 DEF Effect, None, Absent
<1>3. Fresh \in State /\ Fresh.queue = <<>>
  <2>1. [k \in Key |-> Absent] \in [Key -> Value]
    BY DEF Value
  <2>2. <<>> \in Seq(Effect)
    BY SMT
  <2> QED
    BY <2>1, <2>2 DEF Fresh, State
<1>4. Refused \notin State
  <2> SUFFICES ASSUME Refused \in State
               PROVE  FALSE
    OBVIOUS
  <2>1. Refused.docs \in [Key -> Value]
    BY DEF State
  <2>2. Refused.docs = <<>>
    BY DEF Refused
  <2>3. DOMAIN <<>> = {}
    BY SMT
  <2> QED
    BY <1>1, <2>1, <2>2, <2>3
<1>5. QueueOK(<<>>)
  BY SMT, <1>1 DEF QueueOK
<1> QED
  BY <1>1, <1>2, <1>3, <1>4, <1>5

\* The fields of a transaction.
LEMMA FrameFields ==
    ASSUME NEW f \in Frame
    PROVE  /\ f.key \in Key \cup {NoKey} /\ f.val \in Value
           /\ f.pend \in Effect \cup {None} /\ f.ack \in Effect \cup {None}
  BY DEF Frame, Value

\* A transaction that fits leaves a queue within its bounds, and a well-formed state.
LEMMA ApplyType ==
    ASSUME NEW s \in State, NEW f \in Frame, AuditTransitionOK(s.queue, f), QueueOK(s.queue)
    PROVE  /\ Apply(s, f) \in State /\ QueueOK(Apply(s, f).queue)
           /\ \A e \in Range(Apply(s, f).queue) : e \in Range(s.queue) \/ e = f.pend
<1> DEFINE q == IF f.ack # None THEN Tail(s.queue) ELSE s.queue
           p == Apply(s, f).queue
<1>1. s.docs \in [Key -> Value] /\ s.queue \in Seq(Effect)
  BY DEF State
<1>2. q \in Seq(Effect) /\ QueueOK(q) /\ Range(q) \subseteq Range(s.queue)
      /\ (f.pend # None => Len(q) < MaxPending)
  <2>1. CASE f.ack = None
    BY <1>1, <2>1 DEF AuditTransitionOK
  <2>2. CASE f.ack # None
    <3>1. s.queue # <<>>
      BY <2>2 DEF AuditTransitionOK
    <3>2. q = Tail(s.queue) /\ q \in Seq(Effect) /\ Len(q) = Len(s.queue) - 1
          /\ \A i \in 1 .. Len(q) : q[i] = s.queue[i + 1]
      BY SMT, <1>1, <2>2, <3>1
    <3>3. QueueOK(q)
      BY SMT, <1>1, <3>2, Constants DEF QueueOK
    <3>4. Range(q) \subseteq Range(s.queue)
      BY SMT, <1>1, <3>2 DEF Range
    <3>5. f.pend # None => Len(q) < MaxPending
      BY SMT, <1>1, <3>2, Constants DEF AuditTransitionOK
    <3> QED
      BY <3>2, <3>3, <3>4, <3>5
  <2> QED
    BY <2>1, <2>2
<1>3. p = IF f.pend # None THEN Append(q, f.pend) ELSE q
  BY DEF Apply
<1> HIDE DEF q, p
<1>4. f.pend # None => f.pend \notin Range(q)
  BY <1>2 DEF AuditTransitionOK
<1>5. QueueOK(p) /\ \A e \in Range(p) : e \in Range(s.queue) \/ e = f.pend
  <2>1. CASE f.pend = None
    BY <1>2, <1>3, <2>1
  <2>2. CASE f.pend # None
    <3>1. f.pend \in Effect
      BY <2>2, FrameFields
    <3>2. p \in Seq(Effect) /\ Len(p) = Len(q) + 1 /\ p[Len(q) + 1] = f.pend
          /\ \A i \in 1 .. Len(q) : p[i] = q[i]
      BY SMT, <1>2, <1>3, <2>2, <3>1
    <3>3. \A i \in 1 .. Len(q) : q[i] # f.pend
      BY SMT, <1>2, <1>4, <2>2 DEF Range
    <3>4. QueueOK(p)
      BY SMT, <1>2, <2>2, <3>2, <3>3, Constants DEF QueueOK
    <3>5. ASSUME NEW e \in Range(p), e # f.pend
          PROVE  e \in Range(q)
      <4>1. PICK i \in 1 .. Len(p) : e = p[i]
        BY SMT, <3>2 DEF Range
      <4>2. i \in 1 .. Len(q)
        BY SMT, <1>2, <3>2, <3>5, <4>1
      <4> QED
        BY SMT, <1>2, <3>2, <4>1, <4>2 DEF Range
    <3> QED
      BY <1>2, <3>4, <3>5
  <2> QED
    BY <2>1, <2>2
<1>6. Apply(s, f) \in State
  <2>1. p \in Seq(Effect)
    BY <1>5 DEF QueueOK
  <2>2. (IF f.key = NoKey THEN s.docs ELSE [s.docs EXCEPT ![f.key] = f.val]) \in [Key -> Value]
    BY <1>1, FrameFields
  <2> QED
    BY <2>1, <2>2 DEF State, Apply, p
<1> QED
  BY <1>5, <1>6 DEF p

\* The threads are distinct, and none is called free.
LEMMA Threads ==
    /\ Compactor \in Thread /\ Opener \in Thread /\ Compactor # Opener /\ Free \notin Thread
    /\ Writer \subseteq Thread /\ Compactor \notin Writer /\ Opener \notin Writer
<1>1. Compactor # Opener /\ {Compactor, Opener} \cap Writer = {}
  BY StoreAssumption
<1>2. Free \notin Thread
  BY StoreAssumption DEF Free, Thread
<1> QED
  BY <1>1, <1>2 DEF Thread

\* No compaction is under way.
LEMMA NoCompType == NoComp \in CompState
  BY SMT DEF NoComp, CompState, None

\* The transaction that journals an audit intent.
LEMMA PendFrame ==
    ASSUME NEW e \in Effect
    PROVE  /\ Pend(e) \in Frame /\ Pend(e).key = NoKey /\ Pend(e).pend = e /\ Pend(e).ack = None
           /\ \A s \in State : Apply(s, Pend(e)) = [docs |-> s.docs, queue |-> Append(s.queue, e)]
<1>1. Pend(e) \in Frame /\ Pend(e).key = NoKey /\ Pend(e).pend = e /\ Pend(e).ack = None
  BY DEF Pend, Frame
<1>2. e # None
  BY Constants
<1> QED
  BY <1>1, <1>2 DEF Apply

-----------------------------------------------------------------------------
(* Facts the steps share.                                                  *)

\* The parts of the invariant.
LEMMA InvParts ==
    ASSUME StoreInv
    PROVE  /\ TypeOK /\ LeaseOK /\ HandOK /\ NumbersLeft /\ NumbersOK /\ GenerationsOK
           /\ JournalOK(current.seen) /\ JournalOK(current.kept) /\ LiveOK /\ CarryOK
  BY DEF StoreInv

\* Fewer transactions without a number leave as many numbers.
LEMMA FewerUnnumbered ==
    ASSUME Laws, TypeOK, NumbersLeft, Unnumbered' \subseteq Unnumbered, written' = written
    PROVE  NumbersLeft'
<1>1. Unnumbered \in SUBSET Thread /\ Unnumbered' \in SUBSET Thread /\ Unnumbered' \in SUBSET Unnumbered
  BY DEF Unnumbered
<1>2. Cardinality(Unnumbered') <= Cardinality(Unnumbered) /\ Cardinality(Unnumbered) \in Nat
      /\ Cardinality(Unnumbered') \in Nat
  BY <1>1, Counted
<1>3. MaxTxns \in Nat /\ written \in Nat
  BY SMT, Constants DEF TypeOK
<1> QED
  BY SMT, <1>2, <1>3 DEF NumbersLeft

\* The numbers stay known when each journal holds intents known before.
LEMMA StillKnown ==
    ASSUME NumbersOK, written' = written,
           \A g \in Generation : \A i \in 1 .. Len(log'[g]) : Known(log'[g][i].pend),
           QueueOK(live'.queue), \A e \in Range(live'.queue) : Known(e),
           pc'[Compactor] \in {"carry"} \cup Staged \cup Swapped =>
              comp'.effect \in Effect /\ comp'.effect > MaxTxns,
           pc'[Compactor] \in Staged \cup Swapped => AuditTransitionOK(live'.queue, Pend(comp'.effect))
    PROVE  NumbersOK'
  BY DEF NumbersOK, Known

-----------------------------------------------------------------------------
(* Starting, stopping and opening again.                                   *)

\* An empty store.
LEMMA InitStep ==
    ASSUME Laws, Init
    PROVE  StoreInv
<1>1. /\ log = [g \in Generation |-> <<>>] /\ made = 0 /\ removed = {} /\ current = [seen |-> 0, kept |-> 0]
      /\ arena = 0 /\ live = Fresh /\ lease = Free /\ pc = [t \in Thread |-> "idle"]
      /\ frame = [t \in Thread |-> NoFrame] /\ target = [t \in Thread |-> None] /\ comp = NoComp
      /\ status = "open" /\ history = <<>> /\ orphan = FALSE /\ written = 0
  BY DEF Init
<1>2. 0 \in Generation /\ Generation \subseteq Nat
  BY SMT, Constants DEF Generation
<1>3. \A g \in Generation : log[g] = <<>>
  BY <1>1
<1>4. TypeOK
  <2>1. NoFrame \in InHand
    BY DEF NoFrame, InHand, Put, Value
  <2>2. log \in [Generation -> Seq(Frame)] /\ history \in Seq(Frame)
    BY SMT, <1>1
  <2>3. written \in 0 .. MaxTxns
    BY SMT, <1>1, Constants
  <2>4. pc \in [Thread -> Steps] /\ frame \in [Thread -> InHand] /\ target \in [Thread -> Effect \cup {None}]
    BY <1>1, <2>1 DEF Steps
  <2>5. live \in State /\ comp \in CompState
    BY <1>1, Constants, NoCompType
  <2> QED
    BY <1>1, <1>2, <2>2, <2>3, <2>4, <2>5 DEF TypeOK
<1>5. LeaseOK
  BY <1>1, Threads DEF LeaseOK, Staged, Swapped, Running
<1>6. HandOK
  <2> SUFFICES ASSUME NEW u \in Thread
               PROVE  Hand(u)
    BY DEF HandOK
  <2>1. pc[u] = "idle"
    BY <1>1
  <2> QED
    BY <2>1 DEF Hand, Draining
<1>7. NumbersLeft
  <2>1. Unnumbered = {}
    BY <1>1 DEF Unnumbered
  <2>2. Cardinality({}) = 0
    BY DEF Laws, CountLaw
  <2> QED
    BY SMT, <1>1, <2>1, <2>2, Constants DEF NumbersLeft
<1>8. pc[Compactor] = "idle"
  BY <1>1, Threads
<1>9. NumbersOK
  <2>1. QueueOK(live.queue) /\ Range(live.queue) = {}
    BY SMT, <1>1, Constants DEF Range
  <2>2. \A h \in Generation : Len(log[h]) = 0
    BY SMT, <1>3
  <2> QED
    BY SMT, <1>8, <2>1, <2>2 DEF NumbersOK, Staged, Swapped
<1>10. GenerationsOK
  BY SMT, <1>1, <1>8 DEF GenerationsOK
<1>11. Promised = Fresh.docs
  <2>1. \A k \in Key : {i \in 1 .. Len(history) : history[i].key = k} = {}
    BY SMT, <1>1
  <2> QED
    BY <2>1 DEF Promised, Fresh
<1>12. Replay(log[0]) = Fresh
  BY <1>2, <1>3, ReplayStep
<1>13. JournalOK(current.seen) /\ JournalOK(current.kept)
  BY <1>1, <1>11, <1>12 DEF JournalOK
<1>14. View = Fresh
  BY <1>1 DEF View
<1>15. LiveOK /\ CarryOK
  BY <1>1, <1>8, <1>11, <1>12, <1>14 DEF LiveOK, CarryOK, Staged
<1> QED
  BY <1>4, <1>5, <1>6, <1>7, <1>9, <1>10, <1>13, <1>15 DEF StoreInv

\* The process stops; a power loss may bring back the pointer that was durable.
LEMMA CrashStep ==
    ASSUME Laws, StoreInv, NEW power \in BOOLEAN, Crash(power)
    PROVE  StoreInv'
<1>1. TypeOK /\ NumbersLeft /\ NumbersOK /\ GenerationsOK /\ JournalOK(current.seen) /\ JournalOK(current.kept)
  BY InvParts
<1>2. /\ log' = log /\ made' = made /\ removed' = removed /\ arena' = arena
      /\ history' = history /\ orphan' = orphan /\ written' = written
      /\ status' = "down" /\ live' = Fresh /\ lease' = Free
      /\ pc' = [t \in Thread |-> "idle"] /\ frame' = [t \in Thread |-> NoFrame]
      /\ target' = [t \in Thread |-> None] /\ comp' = NoComp
      /\ current' = current \/ \E g \in {current.seen, current.kept} : current' = [seen |-> g, kept |-> g]
  BY DEF Crash
<1>3. current' \in [seen : Generation, kept : Generation]
      /\ current'.seen \in {current.seen, current.kept} /\ current'.kept \in {current.seen, current.kept}
  BY SMT, <1>1, <1>2 DEF TypeOK
<1>4. NoFrame \in InHand
  BY DEF NoFrame, InHand, Put, Value
<1>5. TypeOK'
  <2>1. pc' \in [Thread -> Steps] /\ frame' \in [Thread -> InHand] /\ target' \in [Thread -> Effect \cup {None}]
    BY <1>2, <1>4 DEF Steps
  <2>2. live' \in State /\ comp' \in CompState
    BY <1>2, Constants, NoCompType
  <2> QED
    BY <1>1, <1>2, <1>3, <2>1, <2>2 DEF TypeOK
<1>6. LeaseOK'
  BY <1>2, Threads DEF LeaseOK, Running, Staged, Swapped
<1>7. HandOK'
  <2> SUFFICES ASSUME NEW u \in Thread
               PROVE  Hand(u)'
    BY DEF HandOK
  <2>1. pc'[u] = "idle"
    BY <1>2
  <2> QED
    BY <2>1 DEF Hand, Draining
<1>8. NumbersLeft'
  <2>1. Unnumbered' \subseteq Unnumbered
    BY <1>2 DEF Unnumbered
  <2> QED
    BY <1>1, <1>2, <2>1, FewerUnnumbered
<1>9. pc'[Compactor] = "idle"
  BY <1>2, Threads
<1>10. NumbersOK'
  <2>1. QueueOK(live'.queue) /\ Range(live'.queue) = {}
    BY SMT, <1>2, Constants DEF Range
  <2>2. \A h \in Generation : \A i \in 1 .. Len(log[h]) : Known(log[h][i].pend)
    BY <1>1 DEF NumbersOK
  <2> QED
    BY <1>1, <1>2, <1>9, <2>1, <2>2, StillKnown DEF Staged, Swapped
<1>11. GenerationsOK'
  BY <1>1, <1>2, <1>3, <1>9 DEF GenerationsOK, Running
<1>12. Promised' = Promised
  BY <1>2 DEF Promised
<1>13. JournalOK(current.seen)' /\ JournalOK(current.kept)'
  BY <1>1, <1>2, <1>3, <1>12 DEF JournalOK
<1>14. LiveOK' /\ CarryOK'
  BY <1>2, <1>9 DEF LiveOK, CarryOK, Running, Staged
<1> QED
  BY <1>5, <1>6, <1>7, <1>8, <1>10, <1>11, <1>13, <1>14 DEF StoreInv

\* WarmCore::new replays the journal that CURRENT names, or refuses it.
LEMMA OpenStep ==
    ASSUME Laws, StoreInv, Open
    PROVE  StoreInv'
<1> DEFINE g == current.seen
           s == Replay(log[g])
<1>1. TypeOK /\ LeaseOK /\ HandOK /\ NumbersLeft /\ NumbersOK /\ GenerationsOK
      /\ JournalOK(current.seen) /\ JournalOK(current.kept)
  BY InvParts
<1>2. /\ status \in {"down", "refused"} /\ log' = log /\ made' = made /\ removed' = removed
      /\ current' = current /\ lease' = lease /\ frame' = frame /\ target' = target /\ comp' = comp
      /\ drainer' = drainer /\ history' = history /\ orphan' = orphan /\ written' = written
      /\ \/ status' = "refused" /\ arena' = arena /\ live' = live /\ pc' = pc
         \/ /\ s # Refused /\ status' = "opening" /\ arena' = g /\ live' = s
            /\ pc' = [pc EXCEPT ![Opener] = "drain"]
  BY DEF Open, counters, Goto
<1>3. \A u \in Thread : pc[u] = "idle"
  BY <1>1, <1>2 DEF LeaseOK, Running
<1>4. lease = Free
  BY <1>1, <1>3, Threads DEF LeaseOK, TypeOK, Staged, Swapped
<1>5. \A u \in Thread : pc'[u] \in {"idle", "drain"}
  BY <1>1, <1>2, <1>3 DEF TypeOK
<1>6. g \in Generation /\ log[g] \in Seq(Frame)
  BY <1>1 DEF TypeOK
<1>7. live' \in State /\ QueueOK(live'.queue) /\ \A e \in Range(live'.queue) : Known(e)
  <2>1. CASE live' = live
    BY <1>1, <2>1 DEF TypeOK, NumbersOK
  <2>2. CASE s # Refused /\ live' = s
    <3>1. /\ s \in State /\ QueueOK(s.queue)
          /\ \A e \in Range(s.queue) : \E i \in 1 .. Len(log[g]) : log[g][i].pend = e
      BY <1>6, <2>2, ReplayOK
    <3>2. \A i \in 1 .. Len(log[g]) : Known(log[g][i].pend)
      BY <1>1, <1>6 DEF NumbersOK
    <3> HIDE DEF s, g
    <3> QED
      BY <2>2, <3>1, <3>2
  <2> QED
    BY <1>2, <2>1, <2>2
<1>8. TypeOK'
  <2>1. pc' \in [Thread -> Steps] /\ arena' \in Generation /\ status' \in {"open", "opening", "down", "refused"}
    BY <1>1, <1>2, <1>6 DEF TypeOK, Steps
  <2> QED
    BY <1>1, <1>2, <1>7, <2>1 DEF TypeOK
<1>9. LeaseOK'
  <2>1. \A u \in Thread \ {Opener} : pc'[u] = "idle"
    BY <1>1, <1>2, <1>3 DEF TypeOK
  <2>2. status' = "refused" => pc'[Opener] = "idle"
    BY <1>2, <1>3, Threads
  <2>3. status' \in {"refused", "opening"}
    BY <1>2
  <2> QED
    BY <1>2, <1>4, <1>5, <2>1, <2>2, <2>3 DEF LeaseOK, Running, Staged, Swapped
<1>10. HandOK'
  <2> SUFFICES ASSUME NEW u \in Thread
               PROVE  Hand(u)'
    BY DEF HandOK
  <2> QED
    BY <1>5 DEF Hand, Draining
<1>11. NumbersLeft'
  <2>1. Unnumbered' \subseteq Unnumbered
    BY <1>5 DEF Unnumbered
  <2> QED
    BY <1>1, <1>2, <2>1, FewerUnnumbered
<1>12. pc'[Compactor] = "idle" /\ pc[Compactor] = "idle"
  BY <1>1, <1>2, <1>3, Threads DEF TypeOK
<1>13. NumbersOK'
  <2>1. \A h \in Generation : \A i \in 1 .. Len(log[h]) : Known(log[h][i].pend)
    BY <1>1 DEF NumbersOK
  <2> QED
    BY <1>1, <1>2, <1>7, <1>12, <2>1, StillKnown DEF Staged, Swapped
<1>14. GenerationsOK'
  <2>1. Running' => arena' = current.seen
    BY <1>2 DEF Running
  <2>2. arena' <= made
    BY <1>1, <1>2 DEF GenerationsOK
  <2> QED
    BY <1>1, <1>2, <1>12, <2>1, <2>2 DEF GenerationsOK
<1>15. Promised' = Promised
  BY <1>2 DEF Promised
<1>16. JournalOK(current.seen)' /\ JournalOK(current.kept)'
  BY <1>1, <1>2, <1>15 DEF JournalOK
<1>17. LiveOK' /\ CarryOK'
  <2>1. View' = live'
    BY <1>2, <1>4 DEF View
  <2>2. Running' => live' = s /\ s # Refused /\ arena' = g
    BY <1>2 DEF Running
  <2>3. s # Refused => s.docs = Promised
    BY <1>1 DEF JournalOK
  <2>4. Running' => View'.docs = Promised' /\ View' = Replay(log[arena])'
    BY <1>2, <1>15, <2>1, <2>2, <2>3
  <2> QED
    BY <1>12, <2>4 DEF LiveOK, CarryOK, Staged
<1> QED
  BY <1>8, <1>9, <1>10, <1>11, <1>13, <1>14, <1>16, <1>17 DEF StoreInv

-----------------------------------------------------------------------------
(* Steps of a call that leave the journals, the lease and the live state.  *)

Calm == {"idle", "commit", "drain", "deliver", "sync"}
Untouched ==
    /\ log' = log /\ made' = made /\ removed' = removed /\ current' = current
    /\ arena' = arena /\ live' = live /\ lease' = lease /\ comp' = comp
    /\ history' = history /\ orphan' = orphan /\ written' = written

CallStep(t) ==
    /\ pc[t] \in Calm
    /\ \E s \in Calm : pc' = [pc EXCEPT ![t] = s]
    /\ \E f \in InHand : frame' = [frame EXCEPT ![t] = f]

\* Such a step leaves all that is about journals and live state.
LEMMA QuietStep ==
    ASSUME Laws, StoreInv, NEW t \in Thread, Untouched, CallStep(t), Running' => Running
    PROVE  /\ NumbersOK' /\ GenerationsOK' /\ JournalOK(current.seen)' /\ JournalOK(current.kept)'
           /\ LiveOK' /\ CarryOK'
<1>QuietView. ASSUME TypeOK, LeaseOK
              PROVE  /\ \A x \in Steps \ Calm : \A u \in Thread : pc'[u] = x <=> pc[u] = x
                     /\ View' = View /\ Promised' = Promised
  <2> USE <1>QuietView
  <2>1. \A x \in Steps \ Calm : \A u \in Thread : pc'[u] = x <=> pc[u] = x
    BY DEF TypeOK, CallStep
  <2>2. lease # Free => /\ lease \in Thread /\ lease # t
                        /\ pc'[lease] = pc[lease] /\ frame'[lease] = frame[lease]
    BY DEF TypeOK, LeaseOK, CallStep, Calm, Staged, Swapped
  <2>3. View' = View
    BY <2>2 DEF View, Untouched
  <2>4. Promised' = Promised
    BY DEF Promised, Untouched
  <2> QED
    BY <2>1, <2>3, <2>4
<1>1. TypeOK /\ LeaseOK
  BY InvParts
<1>2. /\ \A x \in Steps \ Calm : pc'[Compactor] = x <=> pc[Compactor] = x
      /\ View' = View /\ Promised' = Promised
  BY <1>1, <1>QuietView, Threads
<1>3. \A x \in {"carry", "publish", "dirsync", "swap", "cleanup", "finish"} :
          pc'[Compactor] = x <=> pc[Compactor] = x
  BY <1>2 DEF Steps, Calm
<1>4. NumbersOK'
  <2>1. NumbersOK
    BY InvParts
  <2>2. \A e : Known(e)' <=> Known(e)
    BY DEF Known, Untouched
  <2> QED
    BY <1>3, <2>1, <2>2 DEF NumbersOK, Untouched, Staged, Swapped
<1>5. GenerationsOK'
  <2>1. GenerationsOK
    BY InvParts
  <2> QED
    BY <1>3, <2>1 DEF GenerationsOK, Untouched
<1>6. JournalOK(current.seen)' /\ JournalOK(current.kept)'
  <2>1. JournalOK(current.seen) /\ JournalOK(current.kept)
    BY InvParts
  <2> QED
    BY <1>2, <2>1 DEF JournalOK, Untouched
<1>7. LiveOK'
  <2>1. LiveOK
    BY InvParts
  <2> QED
    BY <1>2, <1>3, <2>1 DEF LiveOK, Untouched, Staged
<1>8. CarryOK'
  <2>1. CarryOK
    BY InvParts
  <2>2. Missing' = Missing
    BY DEF Missing, Untouched
  <2>3. \A k \in Key : Writes(Missing, k)' <=> Writes(Missing, k)
    BY <2>2 DEF Writes
  <2> QED
    BY <1>2, <1>3, <2>1, <2>2, <2>3 DEF CarryOK, Untouched
<1> QED
  BY <1>4, <1>5, <1>6, <1>7, <1>8

\* ... and keeps the types and who holds what.
LEMMA QuietTypes ==
    ASSUME TypeOK, LeaseOK, NEW t \in Thread, Untouched, CallStep(t),
           target' \in [Thread -> Effect \cup {None}],
           \/ status' = status /\ (pc[t] # "idle" \/ (status = "open" /\ t # Opener))
           \/ t = Opener /\ pc[t] # "idle" /\ pc'[t] = "idle" /\ status' \in {"open", "down"}
    PROVE  TypeOK' /\ LeaseOK' /\ (Running' => Running)
<1>1. pc' \in [Thread -> Steps] /\ frame' \in [Thread -> InHand]
  BY SMT DEF TypeOK, CallStep, Calm, Steps
<1>2. TypeOK'
  BY <1>1 DEF TypeOK, Untouched
<1>3. \A u \in Thread \ {t} : pc'[u] = pc[u]
  BY DEF TypeOK, CallStep
<1>4. pc'[t] \in Calm /\ pc[t] \in Calm
  BY DEF TypeOK, CallStep
<1>5. \A u \in Thread :
          /\ pc'[u] = "apply" => lease' = u
          /\ pc'[u] \in Staged \cup Swapped => u = Compactor /\ lease' = u
          /\ pc'[u] = "carry" => u = Compactor
  BY <1>3, <1>4 DEF LeaseOK, Untouched, Calm, Staged, Swapped
<1>6. lease' # Free => pc'[lease'] \in {"apply"} \cup Staged \cup Swapped
  BY <1>3, <1>4 DEF TypeOK, LeaseOK, Untouched, Calm, Staged, Swapped
<1>7. CASE status' = status /\ (pc[t] # "idle" \/ (status = "open" /\ t # Opener))
  <2>1. status = "open" => t # Opener
    BY <1>7 DEF LeaseOK
  <2>2. status # "open" => t = Opener /\ Running
    BY <1>7 DEF LeaseOK
  <2> QED
    BY <1>2, <1>3, <1>5, <1>6, <1>7, <2>1, <2>2, Threads DEF LeaseOK, Running
<1>8. CASE t = Opener /\ pc[t] # "idle" /\ pc'[t] = "idle" /\ status' \in {"open", "down"}
  <2>1. status # "open" /\ Running
    BY <1>8 DEF LeaseOK
  <2> QED
    BY <1>2, <1>3, <1>5, <1>6, <1>8, <2>1, Threads DEF LeaseOK, Running
<1> QED
  BY <1>7, <1>8

\* ... and the transactions other threads have in hand.
LEMMA OtherHands ==
    ASSUME TypeOK, HandOK, NEW t \in Thread, Untouched, CallStep(t),
           \A u \in Thread \ {t} : target'[u] = target[u],
           drainer' = drainer \/ drainer \in {t, Free}
    PROVE  \A u \in Thread \ {t} : Hand(u)'
<1> SUFFICES ASSUME NEW u \in Thread \ {t}
             PROVE  Hand(u)'
  OBVIOUS
<1>1. pc'[u] = pc[u] /\ frame'[u] = frame[u] /\ target'[u] = target[u] /\ Hand(u)
  BY DEF TypeOK, CallStep, HandOK
<1>2. Draining(u) => drainer' = u
  BY <1>1, Threads DEF Hand
<1>3. Draining(u)' <=> Draining(u)
  BY <1>1 DEF Draining
<1> QED
  BY <1>1, <1>2, <1>3 DEF Hand, Untouched

\* A writer begins a transaction.
LEMMA BeginStep ==
    ASSUME Laws, StoreInv, NEW t \in Writer, NEW k \in Key, NEW deletes \in BOOLEAN, Begin(t, k, deletes)
    PROVE  StoreInv'
<1> DEFINE f == [key |-> k, val |-> IF deletes THEN Absent ELSE Own,
                 pend |-> IF k \in Vector THEN Own ELSE None, ack |-> None]
<1>1. TypeOK /\ LeaseOK /\ HandOK /\ NumbersLeft
  BY InvParts
<1>2. Untouched /\ target' = target /\ drainer' = drainer /\ status' = status /\ status = "open"
  BY DEF Begin, Untouched, counters, audit
<1>3. t \in Thread /\ t # Opener /\ pc[t] = "idle"
  BY Threads DEF Begin
<1>4. pc' = [pc EXCEPT ![t] = "commit"] /\ frame' = [frame EXCEPT ![t] = f]
  BY DEF Begin, Goto
<1>5. f \in InHand /\ f.key = k /\ f.ack = None /\ f.val \in {Absent, Own} /\ f.pend \in {None, Own}
  BY DEF InHand, Value
<1> HIDE DEF f
<1>6. CallStep(t)
  BY <1>3, <1>4, <1>5 DEF CallStep, Calm
<1>7. target' \in [Thread -> Effect \cup {None}]
  BY <1>1, <1>2 DEF TypeOK
<1>8. TypeOK' /\ LeaseOK' /\ (Running' => Running)
  BY <1>1, <1>2, <1>3, <1>6, <1>7, QuietTypes
<1>9. HandOK'
  <2>1. \A u \in Thread \ {t} : Hand(u)'
    BY <1>1, <1>2, <1>3, <1>6, OtherHands
  <2>2. pc'[t] = "commit" /\ frame'[t] = f
    BY <1>1, <1>3, <1>4 DEF TypeOK
  <2>3. Hand(t)'
    BY <1>5, <2>2 DEF Hand, Draining
  <2> QED
    BY <2>1, <2>3 DEF HandOK
<1>10. NumbersLeft'
  <2> DEFINE big == {u \in Thread : frame[u].key # NoKey}
  <2>1. big \in SUBSET Thread /\ big \cup {t} \in SUBSET Thread /\ t \in Thread
    BY <1>3
  <2>2. Unnumbered' \in SUBSET (big \cup {t})
    BY <1>1, <1>3, <1>4 DEF Unnumbered, TypeOK
  <2>3. Unnumbered' \in SUBSET Thread
    BY DEF Unnumbered
  <2> HIDE DEF big
  <2>4. /\ Cardinality(big \cup {t}) <= Cardinality(big) + 1 /\ Cardinality(big) \in Nat
        /\ Cardinality(Unnumbered') <= Cardinality(big \cup {t})
        /\ Cardinality(Unnumbered') \in Nat /\ Cardinality(big \cup {t}) \in Nat
    BY <2>1, <2>2, <2>3, Counted
  <2>5. Cardinality(big) + written < MaxTxns
    BY DEF Begin, big
  <2>6. written \in Nat /\ MaxTxns \in Nat /\ written' = written
    BY SMT, <1>1, <1>2, Constants DEF TypeOK, Untouched
  <2> QED
    BY SMT, <2>4, <2>5, <2>6 DEF NumbersLeft
<1>11. /\ NumbersOK' /\ GenerationsOK' /\ JournalOK(current.seen)' /\ JournalOK(current.kept)'
       /\ LiveOK' /\ CarryOK'
  BY <1>2, <1>3, <1>6, <1>8, QuietStep
<1> QED
  BY <1>8, <1>9, <1>10, <1>11 DEF StoreInv

\* The calls that return without having changed anything but the audit file.
LEMMA FailSteps ==
    ASSUME Laws, StoreInv, NEW t \in Thread, CommitFails(t) \/ DrainNothing(t) \/ DeliverFails(t)
    PROVE  StoreInv'
\* A call returns.
<1>ReturnFacts. ASSUME TypeOK, NEW ok \in BOOLEAN, Return(t, ok), pc[t] \in Calm
                PROVE  /\ CallStep(t) /\ pc'[t] = "idle" /\ target' \in [Thread -> Effect \cup {None}]
                       /\ \A u \in Thread \ {t} : target'[u] = target[u] /\ pc'[u] = pc[u] /\ frame'[u] = frame[u]
                       /\ drainer' = drainer \/ drainer \in {t, Free}
                       /\ status' = status \/ (t = Opener /\ status' \in {"open", "down"})
  <2> USE <1>ReturnFacts
  <2>1. NoFrame \in InHand
    BY DEF NoFrame, InHand, Put, Value
  <2> QED
    BY <2>1 DEF Return, CallStep, TypeOK, Calm
<1>ReturnSteps. ASSUME NEW ok \in BOOLEAN, Return(t, ok), pc[t] \in Calm \ {"idle"},
                       Untouched
                PROVE  StoreInv'
  <2> USE <1>ReturnSteps
  <2>1. TypeOK /\ LeaseOK /\ HandOK /\ NumbersLeft
    BY InvParts
  <2>2. /\ CallStep(t) /\ pc'[t] = "idle" /\ target' \in [Thread -> Effect \cup {None}]
        /\ \A u \in Thread \ {t} : target'[u] = target[u] /\ pc'[u] = pc[u] /\ frame'[u] = frame[u]
        /\ drainer' = drainer \/ drainer \in {t, Free}
        /\ status' = status \/ (t = Opener /\ status' \in {"open", "down"})
    BY <2>1, <1>ReturnFacts
  <2>3. TypeOK' /\ LeaseOK' /\ (Running' => Running)
    BY <2>1, <2>2, QuietTypes
  <2>4. HandOK'
    <3>1. \A u \in Thread \ {t} : Hand(u)'
      BY <2>1, <2>2, OtherHands
    <3>2. Hand(t)'
      BY <2>2 DEF Hand, Draining
    <3> QED
      BY <3>1, <3>2 DEF HandOK
  <2>5. NumbersLeft'
    <3>1. Unnumbered' \subseteq Unnumbered
      BY <2>2 DEF Unnumbered
    <3> QED
      BY <2>1, <3>1, FewerUnnumbered DEF Untouched
  <2>6. /\ NumbersOK' /\ GenerationsOK' /\ JournalOK(current.seen)' /\ JournalOK(current.kept)'
        /\ LiveOK' /\ CarryOK'
    BY <2>2, <2>3, QuietStep
  <2> QED
    BY <2>3, <2>4, <2>5, <2>6 DEF StoreInv
<1>1. CASE CommitFails(t)
  <2>1. Untouched
    BY <1>1 DEF CommitFails, Untouched, MayFail, counters
  <2> QED
    BY <1>1, <2>1, <1>ReturnSteps DEF CommitFails, At, Calm
<1>2. CASE DrainNothing(t)
  <2>1. Untouched
    BY <1>2 DEF DrainNothing, Untouched, counters
  <2> QED
    BY <1>2, <2>1, <1>ReturnSteps DEF DrainNothing, At, Calm
<1>3. CASE DeliverFails(t)
  <2>1. Untouched
    BY <1>3 DEF DeliverFails, Untouched, MayFail, counters
  <2> QED
    BY <1>3, <2>1, <1>ReturnSteps DEF DeliverFails, At, Calm
<1> QED
  BY <1>1, <1>2, <1>3

\* One step of a drainer, or the start of a flush.
DrainStep(t) ==
    \/ t = Compactor /\ Flush(t)
    \/ StartDrain(t) \/ Deliver(t) \/ SyncRecord(t)

\* They leave all but the calls and the audit file.
LEMMA DrainSteps ==
    ASSUME Laws, StoreInv, NEW t \in Thread, DrainStep(t)
    PROVE  StoreInv'
<1>1. TypeOK /\ LeaseOK /\ HandOK /\ NumbersLeft
  BY InvParts
<1>2. Untouched /\ status' = status
  BY DEF DrainStep, Flush, StartDrain, Deliver, SyncRecord, Untouched, counters
<1>3. pc[t] # "idle" \/ (status = "open" /\ t # Opener)
  BY Threads DEF DrainStep, Flush, StartDrain, Deliver, SyncRecord, At
<1>4. live.queue \in Seq(Effect) /\ \A x : x \in Range(live.queue) => x \in Effect /\ live.queue # <<>>
  BY SMT, <1>1 DEF TypeOK, State, Range
<1>5. /\ CallStep(t) /\ target' \in [Thread -> Effect \cup {None}] /\ Hand(t)'
      /\ \A u \in Thread \ {t} : target'[u] = target[u]
      /\ drainer' = drainer \/ drainer \in {t, Free}
      /\ Unnumbered' \subseteq Unnumbered
  <2>1. CASE Flush(t)
    <3>1. pc' = [pc EXCEPT ![t] = "drain"] /\ pc[t] = "idle" /\ frame' = frame /\ target' = target
          /\ drainer' = drainer
      BY <2>1 DEF Flush, Goto
    <3>2. frame' = [frame EXCEPT ![t] = frame[t]] /\ frame[t] \in InHand
      BY <1>1, <3>1 DEF TypeOK
    <3>3. pc'[t] = "drain"
      BY <1>1, <3>1 DEF TypeOK
    <3>4. CallStep(t)
      BY <3>1, <3>2 DEF CallStep, Calm
    <3>5. Unnumbered' \subseteq Unnumbered
      BY <1>1, <3>1, <3>3 DEF Unnumbered, TypeOK
    <3> QED
      BY <1>1, <3>1, <3>3, <3>4, <3>5 DEF Hand, Draining, TypeOK
  <2>2. CASE StartDrain(t)
    <3>1. pc' = [pc EXCEPT ![t] = "deliver"] /\ pc[t] = "drain" /\ frame' = frame
          /\ target' = [target EXCEPT ![t] = Last(live.queue)]
          /\ drainer' = t /\ drainer = Free /\ live.queue # <<>> /\ live' = live
      BY <2>2 DEF StartDrain, Goto, At
    <3>2. frame' = [frame EXCEPT ![t] = frame[t]] /\ frame[t] \in InHand
      BY <1>1, <3>1 DEF TypeOK
    <3>3. pc'[t] = "deliver"
      BY <1>1, <3>1 DEF TypeOK
    <3>4. CallStep(t)
      BY <3>1, <3>2 DEF CallStep, Calm
    <3>5. Unnumbered' \subseteq Unnumbered
      BY <1>1, <3>1, <3>3 DEF Unnumbered, TypeOK
    <3>6. Last(live.queue) \in Range(live.queue)
      BY SMT, <1>4, <3>1 DEF Last, Range
    <3>7. target' \in [Thread -> Effect \cup {None}] /\ target'[t] \in Range(live.queue)
          /\ \A u \in Thread \ {t} : target'[u] = target[u]
      BY <1>1, <1>4, <3>1, <3>6 DEF TypeOK
    <3>8. Hand(t)'
      BY <3>1, <3>3, <3>7 DEF Hand
    <3> QED
      BY <3>1, <3>4, <3>5, <3>7, <3>8
  <2>3. CASE Deliver(t)
    <3>1. pc' = [pc EXCEPT ![t] = "sync"] /\ pc[t] = "deliver" /\ target' = target
          /\ frame' = [frame EXCEPT ![t] = Ack(Head(live.queue))]
          /\ drainer' = drainer /\ live' = live
      BY <2>3 DEF Deliver, Goto, At
    <3>2. drainer = t /\ target[t] \in Range(live.queue)
      BY <1>1, <3>1 DEF HandOK, Hand, Draining
    <3>3. Head(live.queue) \in Effect
      BY SMT, <1>4, <3>2
    <3>4. Ack(Head(live.queue)) \in InHand
      BY <3>3 DEF Ack, InHand, Value
    <3>5. pc'[t] = "sync"
      BY <1>1, <3>1 DEF TypeOK
    <3>6. CallStep(t)
      BY <3>1, <3>4 DEF CallStep, Calm
    <3>7. Unnumbered' \subseteq Unnumbered
      BY <1>1, <3>1, <3>5 DEF Unnumbered, TypeOK
    <3>8. frame'[t] = Ack(Head(live.queue))
      BY <1>1, <3>1 DEF TypeOK
    <3>9. Hand(t)'
      BY <3>1, <3>2, <3>3, <3>5, <3>8 DEF Hand
    <3> QED
      BY <1>1, <3>1, <3>6, <3>7, <3>9 DEF TypeOK
  <2>4. CASE SyncRecord(t)
    <3>1. pc' = [pc EXCEPT ![t] = "commit"] /\ pc[t] = "sync" /\ target' = target
          /\ frame' = frame /\ drainer' = drainer /\ live' = live
      BY <2>4 DEF SyncRecord, Goto, At
    <3>2. drainer = t /\ target[t] \in Range(live.queue) /\ \E e \in Effect : frame[t] = Ack(e)
      BY <1>1, <3>1 DEF HandOK, Hand, Draining
    <3>3. frame' = [frame EXCEPT ![t] = frame[t]] /\ frame[t] \in InHand
      BY <1>1, <3>1 DEF TypeOK
    <3>4. pc'[t] = "commit"
      BY <1>1, <3>1 DEF TypeOK
    <3>5. CallStep(t)
      BY <3>1, <3>3 DEF CallStep, Calm
    <3>6. frame[t].key = NoKey
      BY SMT, <3>2 DEF Ack
    <3>7. Unnumbered' \subseteq Unnumbered
      BY <1>1, <3>1, <3>6 DEF Unnumbered, TypeOK
    <3>8. Hand(t)'
      BY <3>1, <3>2, <3>4 DEF Hand
    <3> QED
      BY <1>1, <3>1, <3>5, <3>7, <3>8 DEF TypeOK
  <2> QED
    BY <2>1, <2>2, <2>3, <2>4 DEF DrainStep
<1>6. TypeOK' /\ LeaseOK' /\ (Running' => Running)
  BY <1>1, <1>2, <1>3, <1>5, QuietTypes
<1>7. HandOK'
  BY <1>1, <1>2, <1>5, OtherHands DEF HandOK
<1>8. NumbersLeft'
  BY <1>1, <1>2, <1>5, FewerUnnumbered DEF Untouched
<1>9. /\ NumbersOK' /\ GenerationsOK' /\ JournalOK(current.seen)' /\ JournalOK(current.kept)'
      /\ LiveOK' /\ CarryOK'
  BY <1>2, <1>5, <1>6, QuietStep
<1> QED
  BY <1>6, <1>7, <1>8, <1>9 DEF StoreInv


-----------------------------------------------------------------------------
(* The steps of the maintenance thread.                                    *)

\* A step of the maintenance thread that takes it to s, as far as calls go
Moves(s) ==
    /\ \A u \in Thread \ {Compactor} :
          /\ pc'[u] = pc[u] /\ frame'[u] = frame[u] /\ target'[u] = target[u]
          /\ drainer = u => drainer' = u
    /\ pc' \in [Thread -> Steps] /\ pc'[Compactor] = s /\ frame' \in [Thread -> InHand]
    /\ target' \in [Thread -> Effect \cup {None}] /\ status' = status

\* The two ways such a step is written in the model.
LEMMA CompactorMoves ==
    ASSUME TypeOK
    PROVE  /\ \A s \in Steps : Goto(Compactor, s) /\ UNCHANGED <<frame, target, drainer, status>> => Moves(s)
           /\ Return(Compactor, FALSE) => Moves("idle")
<1>1. NoFrame \in InHand
  BY DEF NoFrame, InHand, Put, Value
<1>2. ASSUME NEW s \in Steps, Goto(Compactor, s), UNCHANGED <<frame, target, drainer, status>>
      PROVE  Moves(s)
  BY <1>2, Threads DEF TypeOK, Goto, Moves
<1>3. ASSUME Return(Compactor, FALSE)
      PROVE  Moves("idle")
  BY <1>1, <1>3, Threads DEF TypeOK, Return, Moves, Steps
<1> QED
  BY <1>2, <1>3

\* What compaction does to the calls of the other threads: nothing.
LEMMA CompactorCalls ==
    ASSUME Laws, StoreInv, NEW s \in Steps \ {"commit", "apply", "deliver", "sync"}, Moves(s),
           status = "open", written' = written,
           lease \in {Free, Compactor}, pc[Compactor] # "apply",
           lease' = IF s \in Staged \cup Swapped THEN Compactor ELSE Free,
           \A x \in Range(live.queue) : x \in Range(live'.queue)
    PROVE  LeaseOK' /\ HandOK' /\ NumbersLeft' /\ Running /\ Running'
<1>1. TypeOK /\ LeaseOK /\ HandOK /\ NumbersLeft
  BY InvParts
<1>2. \A u \in Thread : pc[u] # "apply" /\ pc'[u] # "apply"
  BY <1>1, Threads DEF Moves, LeaseOK
<1>3. Running /\ Running'
  BY DEF Running, Moves
<1>4. LeaseOK'
  <2>1. \A u \in Thread :
            /\ pc'[u] \in Staged \cup Swapped => u = Compactor /\ lease' = u
            /\ pc'[u] = "carry" => u = Compactor
    BY <1>1 DEF Moves, LeaseOK
  <2>2. lease' # Free => pc'[lease'] \in {"apply"} \cup Staged \cup Swapped
    BY DEF Moves
  <2>3. pc'[Opener] = "idle" /\ status' = "open"
    BY <1>1, Threads DEF Moves, LeaseOK
  <2> QED
    BY <1>2, <1>3, <2>1, <2>2, <2>3 DEF LeaseOK
<1>5. HandOK'
  <2>1. ASSUME NEW u \in Thread \ {Compactor}
        PROVE  Hand(u)'
    <3>1. Hand(u) /\ (Draining(u)' <=> Draining(u))
      BY <1>1 DEF HandOK, Draining, Moves
    <3>2. Draining(u) => drainer' = u /\ target'[u] \in Range(live'.queue)
      BY <3>1 DEF Hand, Moves
    <3> QED
      BY <1>2, <3>1, <3>2 DEF Hand, Moves
  <2>2. Hand(Compactor)'
    BY DEF Hand, Draining, Moves
  <2> QED
    BY <2>1, <2>2 DEF HandOK
<1>6. NumbersLeft'
  <2>1. Unnumbered' \subseteq Unnumbered
    BY DEF Unnumbered, Moves
  <2> QED
    BY <1>1, <2>1, FewerUnnumbered
<1> QED
  BY <1>3, <1>4, <1>5, <1>6

-----------------------------------------------------------------------------
(* The beginning of a compaction: the snapshot, and catching up with the journal. *)

\* The snapshot that starts a generation.
LEMMA SnapshotStep ==
    ASSUME Laws, StoreInv, Snapshot(Compactor)
    PROVE  StoreInv'
<1> DEFINE g == made + 1
           fs == StartOf(live)
<1>1. TypeOK /\ LeaseOK /\ HandOK /\ NumbersLeft /\ NumbersOK /\ GenerationsOK
      /\ JournalOK(current.seen) /\ JournalOK(current.kept) /\ LiveOK
  BY InvParts
<1>2. /\ status = "open" /\ pc[Compactor] = "idle" /\ lease = Free /\ made < MaxCompactions
      /\ made' = g /\ log' = [log EXCEPT ![g] = fs]
      /\ comp' = [cursor |-> Len(log[arena]), docs |-> live.docs,
                  todo |-> {k \in Document : live.docs[k] # Absent},
                  rounds |-> 0, effect |-> MaxTxns + made + 1, failed |-> FALSE]
      /\ removed' = removed /\ current' = current /\ arena' = arena /\ live' = live /\ lease' = lease
      /\ history' = history /\ orphan' = orphan /\ written' = written
  BY DEF Snapshot, counters, StartOf
<1>3. Moves("carry")
  BY <1>1, CompactorMoves DEF Snapshot, Steps
<1>4. live \in State /\ QueueOK(live.queue) /\ live.docs \in [Key -> Value]
  BY <1>1 DEF TypeOK, NumbersOK, State
<1>5. /\ fs \in Seq(Frame)
      /\ Replay(fs) = [docs |-> [k \in Key |-> IF k \in Vector THEN live.docs[k] ELSE Absent],
                       queue |-> live.queue]
      /\ \A i \in 1 .. Len(fs) : fs[i].pend = None \/ fs[i].pend \in Range(live.queue)
  BY <1>4 DEF Laws, SnapshotLaw
<1> HIDE DEF fs
<1>6. /\ made \in Nat /\ g \in Generation /\ g > made /\ MaxTxns \in Nat /\ written \in Nat
      /\ arena \in Generation /\ log[arena] \in Seq(Frame) /\ Generation \subseteq Nat
      /\ MaxTxns + made + 1 \in Effect /\ MaxTxns + made + 1 > MaxTxns
  <2>1. made \in Generation /\ written \in 0 .. MaxTxns /\ arena \in Generation
        /\ log[arena] \in Seq(Frame)
    BY <1>1 DEF TypeOK
  <2>2. made < MaxCompactions /\ MaxTxns \in Nat /\ MaxCompactions \in Nat
    BY <1>2, Constants
  <2> QED
    BY SMT, <2>1, <2>2 DEF Generation, Effect
<1>7. log' \in [Generation -> Seq(Frame)] /\ log'[g] = fs /\ \A h \in Generation \ {g} : log'[h] = log[h]
  BY <1>1, <1>2, <1>5, <1>6 DEF TypeOK
<1>8. arena # g /\ current.seen # g /\ current.kept # g /\ g \notin removed
      /\ current.seen \in Generation /\ current.kept \in Generation
  BY SMT, <1>1, <1>6 DEF GenerationsOK, TypeOK
<1>9. comp'.cursor = Len(log[arena]) /\ comp'.docs = live.docs /\ comp'.rounds = 0
      /\ comp'.todo = {k \in Document : live.docs[k] # Absent}
      /\ comp'.effect = MaxTxns + made + 1 /\ comp' \in CompState
  BY SMT, <1>2, <1>4, <1>6 DEF CompState
<1>10. TypeOK'
  <2>1. removed' \subseteq 0 .. made'
    BY SMT, <1>1, <1>2, <1>6 DEF TypeOK
  <2> QED
    BY <1>1, <1>2, <1>3, <1>6, <1>7, <1>9, <2>1 DEF TypeOK, Moves
<1>11. LeaseOK' /\ HandOK' /\ NumbersLeft' /\ Running /\ Running'
  BY <1>2, <1>3, CompactorCalls DEF Steps, Staged, Swapped
<1>12. NumbersOK'
  <2>1. ASSUME NEW h \in Generation, NEW i \in 1 .. Len(log'[h])
        PROVE  Known(log'[h][i].pend)
    <3>1. CASE h = g
      <4>1. Known(None)
        BY SMT, <1>6 DEF Known, None
      <4> QED
        BY <1>1, <1>5, <1>7, <3>1, <4>1 DEF NumbersOK
    <3>2. CASE h # g
      BY <1>1, <1>7, <3>2 DEF NumbersOK
    <3> QED
      BY <3>1, <3>2
  <2>2. pc'[Compactor] \notin Staged \cup Swapped
    BY <1>3 DEF Moves, Staged, Swapped
  <2>3. QueueOK(live'.queue) /\ \A e \in Range(live'.queue) : Known(e)
    BY <1>1, <1>2 DEF NumbersOK
  <2> QED
    BY <1>1, <1>2, <1>6, <1>9, <2>1, <2>2, <2>3, StillKnown
<1>13. GenerationsOK'
  <2>1. arena = current.seen
    BY <1>1, <1>2, <1>11 DEF GenerationsOK
  <2>2. current.seen < g /\ current.kept < g
    <3>1. current.seen \in Nat /\ current.kept \in Nat /\ current.seen <= made /\ current.kept <= made
      BY <1>1, <1>6, <1>8 DEF GenerationsOK
    <3> QED
      BY SMT, <1>6, <3>1
  <2> QED
    BY SMT, <1>1, <1>2, <1>3, <1>6, <1>8, <2>1, <2>2 DEF GenerationsOK, Moves
<1>14. View = live /\ View' = live /\ Promised' = Promised /\ live.docs = Promised
  <2>1. View = live /\ View' = live /\ Promised' = Promised
    BY <1>2 DEF View, Promised
  <2> QED
    BY <1>1, <1>11, <2>1 DEF LiveOK
<1>15. JournalOK(current.seen)' /\ JournalOK(current.kept)'
  BY <1>1, <1>2, <1>7, <1>8, <1>14 DEF JournalOK
<1>16. LiveOK'
  <2>1. pc'[Compactor] \notin Staged
    BY <1>3 DEF Moves, Staged
  <2> QED
    BY <1>1, <1>2, <1>6, <1>7, <1>8, <1>11, <1>14, <2>1 DEF LiveOK
<1>17. CarryOK'
  <2> DEFINE q == Replay(log[made] \o Missing)'
  <2>1. Missing' = <<>>
    <3>1. Len(log[arena]) \in 0 .. Len(log[arena])
      BY SMT, <1>6
    <3>2. Missing' = After(log[arena], Len(log[arena]))
      BY <1>2, <1>6, <1>7, <1>8, <1>9 DEF Missing
    <3> QED
      BY SMT, <1>6, <3>1, <3>2, SuffixOf
  <2>2. q = Replay(fs)
    <3>1. fs \o <<>> = fs
      BY <1>5, PrefixEnds
    <3> QED
      BY <1>2, <1>7, <2>1, <3>1
  <2> HIDE DEF q
  <2>3. q.queue = live.queue /\ q.docs = [k \in Key |-> IF k \in Vector THEN live.docs[k] ELSE Absent]
    BY SMT, <1>5, <2>2
  <2>4. q # Refused
    <3>1. [k \in Key |-> IF k \in Vector THEN live.docs[k] ELSE Absent] \in [Key -> Value]
      BY <1>4 DEF Value
    <3>2. q \in State
      BY SMT, <1>4, <1>5, <2>2, <3>1 DEF State
    <3> QED
      BY <3>2, Constants
  <2>5. \A k \in Key : ~(Writes(Missing, k)')
    BY SMT, <2>1 DEF Writes
  <2>6. \A k \in Key : k \notin comp'.todo => q.docs[k] = Promised[k]
    BY <1>4, <1>9, <1>14, <2>3 DEF Key
  <2>7. comp'.cursor <= Len(log'[arena']) /\ comp'.docs \in [Key -> Value] /\ lease' = Free
    BY SMT, <1>2, <1>4, <1>6, <1>7, <1>8, <1>9
  <2> QED
    BY <1>9, <1>14, <2>3, <2>4, <2>5, <2>6, <2>7 DEF CarryOK, q
<1> QED
  BY <1>10, <1>11, <1>12, <1>13, <1>15, <1>16, <1>17 DEF StoreInv

\* What holds while documents are carried and the journal is caught up with.
LEMMA CarryFacts ==
    ASSUME Laws, StoreInv, pc[Compactor] = "carry"
    PROVE  LET q == Replay(log[made] \o Missing)
           IN  /\ status = "open" /\ Running /\ arena \in Generation /\ made \in Generation
               /\ arena # made /\ current.seen # made /\ current.kept # made
               /\ current.seen \in Generation /\ current.kept \in Generation
               /\ log[arena] \in Seq(Frame) /\ log[made] \in Seq(Frame) /\ comp \in CompState
               /\ comp.cursor \in 0 .. Len(log[arena]) /\ comp.docs \in [Key -> Value]
               /\ Missing \in Seq(Frame) /\ log[made] \o Missing \in Seq(Frame)
               /\ q \in State /\ q # Refused /\ q.queue = View.queue
               /\ View.docs = Promised /\ Promised \in [Key -> Value]
               /\ (lease # Free => lease \in Thread /\ pc[lease] = "apply")
               /\ live \in State /\ QueueOK(live.queue)
<1>1. TypeOK /\ LeaseOK /\ HandOK /\ NumbersOK /\ GenerationsOK /\ LiveOK /\ CarryOK
  BY InvParts
<1>2. status = "open" /\ Running
  BY <1>1, Threads DEF LeaseOK, Running
<1>3. /\ arena \in Generation /\ made \in Generation /\ comp \in CompState
      /\ current.seen \in Generation /\ current.kept \in Generation
      /\ log[arena] \in Seq(Frame) /\ log[made] \in Seq(Frame)
      /\ live \in State /\ QueueOK(live.queue)
  BY <1>1 DEF TypeOK, NumbersOK
<1>4. arena = current.seen /\ arena < made /\ current.kept < made
  BY <1>1, <1>2 DEF GenerationsOK
<1>5. arena # made /\ current.seen # made /\ current.kept # made
  <2>1. Generation \subseteq Nat
    BY SMT, Constants DEF Generation
  <2> QED
    BY SMT, <1>3, <1>4, <2>1
<1>6. comp.cursor \in 0 .. Len(log[arena]) /\ comp.docs \in [Key -> Value]
  <2>1. comp.cursor \in Nat
    BY <1>3 DEF CompState
  <2> QED
    BY SMT, <1>1, <1>3, <2>1 DEF CarryOK
<1>7. Missing \in Seq(Frame)
  BY <1>3, <1>6, SuffixOf DEF Missing
<1>8. log[made] \o Missing \in Seq(Frame)
  BY SMT, <1>3, <1>7
<1>9. Replay(log[made] \o Missing) # Refused /\ Replay(log[made] \o Missing).queue = View.queue
  BY <1>1 DEF CarryOK
<1>10. Replay(log[made] \o Missing) \in State
  BY <1>8, <1>9, ReplayOK
<1>11. lease # Free => lease \in Thread /\ pc[lease] = "apply"
  BY <1>1, Threads DEF LeaseOK, TypeOK, Staged, Swapped
<1>12. View.docs = Promised
  BY <1>1, <1>2 DEF LiveOK
<1>13. View \in State
  <2>1. CASE lease = Free
    BY <1>3, <2>1 DEF View
  <2>2. CASE lease # Free
    <3>1. View = Apply(live, frame[lease])
      BY <1>11, <2>2 DEF View
    <3>2. frame[lease] \in Frame /\ AuditTransitionOK(live.queue, frame[lease])
      BY <1>1, <1>11, <2>2 DEF HandOK, Hand
    <3> QED
      BY <1>3, <3>1, <3>2, ApplyType
  <2> QED
    BY <2>1, <2>2
<1>14. Promised \in [Key -> Value]
  BY <1>12, <1>13 DEF State
<1> QED
  BY <1>2, <1>3, <1>5, <1>6, <1>7, <1>8, <1>9, <1>10, <1>11, <1>12, <1>14

\* A step that only writes to the staged journal disturbs nothing but what CarryOK says.
LEMMA CarryingStep ==
    ASSUME Laws, StoreInv, pc[Compactor] = "carry", CarryOK', UNCHANGED <<made, removed, current, arena,
             live, lease, drainer, pc, frame, target, status, history, orphan, written>>,
           NEW fs \in Seq(Frame), log' = [log EXCEPT ![made] = fs],
           \A i \in 1 .. Len(fs) : Known(fs[i].pend),
           comp' \in CompState, comp'.effect = comp.effect
    PROVE  StoreInv'
<1>1. TypeOK /\ LeaseOK /\ HandOK /\ NumbersLeft /\ NumbersOK /\ GenerationsOK
      /\ JournalOK(current.seen) /\ JournalOK(current.kept) /\ LiveOK
  BY InvParts
<1>2. /\ made \in Generation /\ arena \in Generation /\ arena # made /\ current.seen # made
      /\ current.kept # made /\ current.seen \in Generation /\ current.kept \in Generation
  BY CarryFacts
<1>3. log' \in [Generation -> Seq(Frame)] /\ log'[made] = fs /\ \A h \in Generation \ {made} : log'[h] = log[h]
  BY <1>1, <1>2 DEF TypeOK
<1>4. log'[arena] = log[arena] /\ log'[current.seen] = log[current.seen]
      /\ log'[current.kept] = log[current.kept]
  BY <1>2, <1>3
<1>5. TypeOK'
  BY <1>1, <1>3 DEF TypeOK
<1>6. LeaseOK'
  BY <1>1 DEF LeaseOK, Running
<1>7. HandOK'
  <2> SUFFICES ASSUME NEW u \in Thread
               PROVE  Hand(u)'
    BY DEF HandOK
  <2>1. Hand(u) /\ (Draining(u)' <=> Draining(u))
    BY <1>1 DEF HandOK, Draining
  <2> QED
    BY <1>4, <2>1 DEF Hand
<1>8. NumbersLeft'
  <2>1. Unnumbered' = Unnumbered
    BY DEF Unnumbered
  <2> QED
    BY <1>1, <2>1 DEF NumbersLeft
<1>9. NumbersOK'
  <2>1. \A h \in Generation : \A i \in 1 .. Len(log'[h]) : Known(log'[h][i].pend)
    BY <1>1, <1>3 DEF NumbersOK
  <2>2. QueueOK(live.queue) /\ \A e \in Range(live.queue) : Known(e)
    BY <1>1 DEF NumbersOK
  <2>3. comp.effect \in Effect /\ comp.effect > MaxTxns
    BY <1>1 DEF NumbersOK
  <2>4. pc'[Compactor] \notin Staged \cup Swapped
    BY DEF Staged, Swapped
  <2> QED
    BY <1>1, <2>1, <2>2, <2>3, <2>4, StillKnown
<1>10. GenerationsOK'
  BY <1>1 DEF GenerationsOK, Running
<1>11. View' = View /\ Promised' = Promised
  BY DEF View, Promised
<1>12. JournalOK(current.seen)' /\ JournalOK(current.kept)'
  BY <1>1, <1>4, <1>11 DEF JournalOK
<1>13. LiveOK'
  <2>1. pc'[Compactor] \notin Staged
    BY DEF Staged
  <2> QED
    BY <1>1, <1>4, <1>11, <2>1 DEF LiveOK, Running
<1> QED
  BY <1>5, <1>6, <1>7, <1>8, <1>9, <1>10, <1>12, <1>13 DEF StoreInv

\* An element of a \o After(b, n) is one of a's or one of b's.
LEMMA JoinedElement ==
    ASSUME NEW S, NEW a \in Seq(S), NEW b \in Seq(S), NEW n \in 0 .. Len(b),
           NEW i \in 1 .. Len(a \o After(b, n))
    PROVE  \/ i \in 1 .. Len(a) /\ (a \o After(b, n))[i] = a[i]
           \/ \E j \in 1 .. Len(b) : (a \o After(b, n))[i] = b[j]
<1> DEFINE t == After(b, n)
<1>1. t \in Seq(S) /\ Len(t) = Len(b) - n
      /\ \A j \in 1 .. Len(b) - n : t[j] = b[n + j] /\ n + j \in 1 .. Len(b)
  BY SMT, SuffixOf
<1> HIDE DEF t
<1>2. CASE i \in 1 .. Len(a)
  BY SMT, <1>1, <1>2 DEF t
<1>3. CASE i \notin 1 .. Len(a)
  <2> DEFINE j == i - Len(a)
  <2>0. t \in Seq(S) /\ Len(t) \in Nat
    BY SMT, <1>1
  <2>1. Len(a) \in Nat /\ Len(b) \in Nat /\ Len(a \o t) = Len(a) + Len(t)
        /\ \A m \in 1 .. Len(t) : (a \o t)[Len(a) + m] = t[m]
    BY SMT, <2>0
  <2>2. i \in 1 .. Len(a \o t)
    BY DEF t
  <2>3. j \in 1 .. Len(t) /\ i = Len(a) + j
    BY SMT, <1>1, <1>3, <2>1, <2>2
  <2>4. (a \o t)[i] = t[j]
    BY <2>1, <2>3
  <2>5. t[j] = b[n + j] /\ n + j \in 1 .. Len(b)
    BY <1>1, <2>3
  <2> QED
    BY <2>4, <2>5 DEF t
<1> QED
  BY <1>2, <1>3

\* The frames the staged journal has after it caught up are frames it or the live
\* journal had.
LEMMA TailedFacts ==
    ASSUME Laws, StoreInv, pc[Compactor] = "carry"
    PROVE  /\ Tailed(comp.cursor) = log[made] \o Missing
           /\ \A i \in 1 .. Len(Tailed(comp.cursor)) : Known(Tailed(comp.cursor)[i].pend)
<1>1. NumbersOK /\ made \in Generation /\ arena \in Generation /\ log[arena] \in Seq(Frame)
      /\ log[made] \in Seq(Frame) /\ comp.cursor \in 0 .. Len(log[arena])
  BY InvParts, CarryFacts
<1>2. Tailed(comp.cursor) = log[made] \o After(log[arena], comp.cursor)
  BY DEF Tailed, After
<1>3. ASSUME NEW i \in 1 .. Len(log[made] \o After(log[arena], comp.cursor))
      PROVE  Known((log[made] \o After(log[arena], comp.cursor))[i].pend)
  <2> DEFINE a == log[made]
             b == log[arena]
             n == comp.cursor
  <2>1. a \in Seq(Frame) /\ b \in Seq(Frame) /\ n \in 0 .. Len(b) /\ i \in 1 .. Len(a \o After(b, n))
    BY <1>1, <1>3
  <2>2. (\A j \in 1 .. Len(a) : Known(a[j].pend)) /\ (\A j \in 1 .. Len(b) : Known(b[j].pend))
    BY <1>1 DEF NumbersOK
  <2> HIDE DEF a, b, n
  <2>3. \/ i \in 1 .. Len(a) /\ (a \o After(b, n))[i] = a[i]
        \/ \E j \in 1 .. Len(b) : (a \o After(b, n))[i] = b[j]
    BY SMT, <2>1, JoinedElement
  <2>4. Known((a \o After(b, n))[i].pend)
    BY <2>2, <2>3
  <2> QED
    BY <2>4 DEF a, b, n
<1> QED
  BY <1>2, <1>3 DEF Missing

\* A round of catching up with the live journal.
LEMMA CatchUpStep ==
    ASSUME Laws, StoreInv, CatchUp(Compactor)
    PROVE  StoreInv'
<1> DEFINE fs == log[made] \o Missing
<1>1. /\ pc[Compactor] = "carry" /\ comp.todo = {} /\ comp.rounds < 2 /\ lease = Free
      /\ log' = [log EXCEPT ![made] = Tailed(comp.cursor)]
      /\ comp' = [comp EXCEPT !.cursor = Len(log[arena]), !.rounds = comp.rounds + 1]
      /\ UNCHANGED <<made, removed, current, arena, live, lease, drainer, pc, frame, target,
                     status, history, orphan, written>>
  BY DEF CatchUp, At, calls, counters
<1>2. /\ TypeOK /\ CarryOK /\ made \in Generation /\ arena \in Generation /\ arena # made
      /\ fs \in Seq(Frame) /\ comp \in CompState /\ log[arena] \in Seq(Frame)
      /\ Replay(fs) # Refused /\ Replay(fs).queue = View.queue
      /\ comp.docs \in [Key -> Value]
  BY <1>1, CarryFacts, InvParts
<1>3. Tailed(comp.cursor) = fs /\ \A i \in 1 .. Len(fs) : Known(fs[i].pend)
  BY <1>1, TailedFacts
<1>4. \A k \in Key : Replay(fs).docs[k] = Promised[k]
  BY <1>1, <1>2 DEF CarryOK
<1> HIDE DEF fs
<1>5. log' = [log EXCEPT ![made] = fs] /\ log'[made] = fs /\ log'[arena] = log[arena]
  BY <1>1, <1>2, <1>3 DEF TypeOK
<1>6. /\ comp' \in CompState /\ comp'.effect = comp.effect /\ comp'.cursor = Len(log[arena])
      /\ comp'.docs = comp.docs /\ comp'.rounds # 0 /\ comp'.todo = {}
  <2>1. Len(log[arena]) \in Nat /\ comp.rounds + 1 \in 1 .. 2
    BY SMT, <1>1, <1>2 DEF CompState
  <2>2. comp.rounds + 1 \in 0 .. 2 /\ comp.rounds + 1 # 0
    BY SMT, <2>1
  <2>3. comp' = [cursor |-> Len(log[arena]), docs |-> comp.docs, todo |-> comp.todo,
                 rounds |-> comp.rounds + 1, effect |-> comp.effect, failed |-> comp.failed]
    BY <1>1, <1>2 DEF CompState
  <2>4. /\ comp.docs \in [Key -> Value] \cup {<<>>} /\ comp.todo \in SUBSET Document
        /\ comp.effect \in Effect \cup {None} /\ comp.failed \in BOOLEAN
    BY <1>2 DEF CompState
  <2> QED
    BY <1>1, <2>1, <2>2, <2>3, <2>4 DEF CompState
<1>7. View' = View /\ Promised' = Promised
  BY <1>1 DEF View, Promised
<1>8. Missing' = <<>>
  <2>1. Len(log[arena]) \in 0 .. Len(log[arena])
    BY SMT, <1>2
  <2>2. Missing' = After(log[arena], Len(log[arena]))
    BY <1>1, <1>5, <1>6 DEF Missing
  <2> QED
    BY SMT, <1>2, <2>1, <2>2, SuffixOf
<1>9. CarryOK'
  <2>1. Replay(log[made] \o Missing)' = Replay(fs)
    <3>1. fs \o <<>> = fs
      BY <1>2, PrefixEnds
    <3> QED
      BY <1>1, <1>5, <1>8, <3>1
  <2>2. comp'.cursor <= Len(log'[arena'])
    BY SMT, <1>1, <1>2, <1>5, <1>6
  <2> QED
    BY <1>1, <1>2, <1>4, <1>6, <1>7, <2>1, <2>2 DEF CarryOK
<1> QED
  BY <1>1, <1>2, <1>3, <1>5, <1>6, <1>9, CarryingStep

\* After the last round the staged journal is the live state plus the compaction's intent.
LEMMA FinalRoundStep ==
    ASSUME Laws, StoreInv, FinalRound(Compactor)
    PROVE  StoreInv'
<1> DEFINE fs == log[made] \o Missing
           p == Pend(comp.effect)
           ft == Append(fs, p)
<1>1. TypeOK /\ NumbersOK /\ GenerationsOK /\ JournalOK(current.seen) /\ JournalOK(current.kept)
      /\ LiveOK /\ CarryOK
  BY InvParts
<1>2. /\ pc[Compactor] = "carry" /\ comp.todo = {} /\ lease = Free /\ lease' = Compactor
      /\ AuditTransitionOK(live.queue, p)
      /\ log' = [log EXCEPT ![made] = Append(Tailed(comp.cursor), p)]
      /\ UNCHANGED <<made, removed, current, arena, live, comp, history, orphan, written>>
      /\ Goto(Compactor, "publish") /\ UNCHANGED <<frame, target, drainer, status>>
  BY DEF FinalRound, At, counters
<1>3. /\ status = "open" /\ made \in Generation /\ arena \in Generation /\ arena # made
      /\ current.seen # made /\ current.kept # made
      /\ current.seen \in Generation /\ current.kept \in Generation
      /\ fs \in Seq(Frame) /\ Replay(fs) # Refused /\ Replay(fs) \in State
      /\ Replay(fs).queue = View.queue /\ View.docs = Promised /\ Promised \in [Key -> Value]
      /\ live \in State
  BY <1>2, CarryFacts
<1>4. comp.effect \in Effect /\ comp.effect > MaxTxns
  BY <1>1, <1>2 DEF NumbersOK
<1>5. p \in Frame /\ p.pend = comp.effect
  BY <1>4, PendFrame
<1>6. Tailed(comp.cursor) = fs /\ \A i \in 1 .. Len(fs) : Known(fs[i].pend)
  BY <1>2, TailedFacts
<1>7. View = live
  BY <1>2 DEF View
<1>8. \A k \in Key : Replay(fs).docs[k] = Promised[k]
  BY <1>1, <1>2 DEF CarryOK
<1> HIDE DEF fs
<1>9. Replay(fs) = live
  <2>1. Replay(fs).docs \in [Key -> Value] /\ live.docs = Promised /\ Replay(fs).queue = live.queue
    BY <1>3, <1>7 DEF State
  <2>2. Replay(fs).docs = live.docs
    BY SMT, <1>3, <1>8, <2>1
  <2> QED
    BY SMT, <1>3, <2>1, <2>2 DEF State
<1> HIDE DEF p
<1>10. ft \in Seq(Frame) /\ Replay(ft) = Apply(live, p)
  <2>1. Replay(ft) = Replays(Replay(fs), p)
    BY <1>3, <1>5, ReplayStep
  <2> QED
    BY SMT, <1>2, <1>3, <1>5, <1>9, <2>1 DEF Replays
<1>11. \A i \in 1 .. Len(ft) : Known(ft[i].pend)
  <2>1. Known(p.pend)
    BY <1>4, <1>5 DEF Known
  <2> QED
    BY SMT, <1>3, <1>5, <1>6, <2>1
<1>12. log' = [log EXCEPT ![made] = ft]
  BY <1>2, <1>6
<1> HIDE DEF ft
<1>13. log' \in [Generation -> Seq(Frame)] /\ log'[made] = ft /\ log'[arena] = log[arena]
       /\ log'[current.seen] = log[current.seen] /\ log'[current.kept] = log[current.kept]
       /\ \A h \in Generation \ {made} : log'[h] = log[h]
  BY <1>1, <1>3, <1>10, <1>12 DEF TypeOK
<1>14. Moves("publish")
  BY <1>1, <1>2, CompactorMoves DEF Steps
<1>15. LeaseOK' /\ HandOK' /\ NumbersLeft' /\ Running /\ Running'
  BY <1>2, <1>3, <1>14, CompactorCalls DEF Steps, Staged, Swapped
<1>16. TypeOK'
  BY <1>1, <1>2, <1>13, <1>14, Threads DEF TypeOK, Moves
<1>17. NumbersOK'
  <2>1. \A h \in Generation : \A i \in 1 .. Len(log'[h]) : Known(log'[h][i].pend)
    BY <1>1, <1>11, <1>13 DEF NumbersOK
  <2>2. QueueOK(live.queue) /\ \A e \in Range(live.queue) : Known(e)
    BY <1>1 DEF NumbersOK
  <2> QED
    BY <1>1, <1>2, <1>4, <2>1, <2>2, StillKnown DEF p
<1>18. GenerationsOK'
  BY <1>1, <1>2, <1>14 DEF GenerationsOK, Moves, Running
<1>19. View' = live /\ Promised' = Promised
  BY SMT, <1>2, <1>14, Threads DEF View, Promised, Moves, Swapped
<1>20. JournalOK(current.seen)' /\ JournalOK(current.kept)'
  BY <1>1, <1>2, <1>13, <1>19 DEF JournalOK
<1>21. LiveOK'
  <2>1. View.docs = Promised /\ (orphan \/ View = Replay(log[arena]))
    BY <1>1, <1>15 DEF LiveOK
  <2>2. Replay(log'[made']) = Apply(live', Pend(comp'.effect))
    BY <1>2, <1>10, <1>13 DEF p
  <2> QED
    BY <1>2, <1>7, <1>13, <1>19, <2>1, <2>2 DEF LiveOK
<1>22. CarryOK'
  BY <1>14 DEF CarryOK, Moves
<1> QED
  BY <1>15, <1>16, <1>17, <1>18, <1>20, <1>21, <1>22 DEF StoreInv

\* A document is carried over, unless it was deleted since the snapshot.
LEMMA CarryStep ==
    ASSUME Laws, StoreInv, NEW d \in Document, CarryDocument(Compactor, d)
    PROVE  StoreInv'
\* A document found deleted or replaced since the snapshot is one the tail writes.
<1>DeletedIsWritten. ASSUME pc[Compactor] = "carry", IsDeleted(d),
                            comp.docs[d] = Promised[d]
                     PROVE  Writes(Missing, d)
  <2> USE <1>DeletedIsWritten
  <2>1. HandOK /\ CarryOK /\ View.docs = Promised /\ live \in State /\ d \in Key
        /\ log[arena] \in Seq(Frame) /\ comp.cursor \in 0 .. Len(log[arena])
        /\ (lease # Free => lease \in Thread /\ pc[lease] = "apply")
    BY InvParts, CarryFacts DEF Key
  <2>2. live.docs[d] # View.docs[d]
    BY <2>1 DEF IsDeleted
  <2>3. lease # Free
    BY <2>2 DEF View
  <2> DEFINE f == frame[lease]
             n == Len(log[arena])
  <2>4. View = Apply(live, f) /\ f \in Frame /\ log[arena] # <<>> /\ Last(log[arena]) = f
    BY <2>1, <2>3 DEF View, HandOK, Hand
  <2>5. f.key = d
    <3> HIDE DEF f
    <3>1. live.docs \in [Key -> Value] /\ f.key \in Key \cup {NoKey}
      BY <2>1, <2>4, FrameFields DEF State
    <3>2. View.docs = IF f.key = NoKey THEN live.docs ELSE [live.docs EXCEPT ![f.key] = f.val]
      BY <2>4 DEF Apply
    <3> QED
      BY <2>1, <2>2, <3>1, <3>2
  <2>6. comp.cursor < n
    BY <2>1, <2>3 DEF CarryOK
  <2> HIDE DEF f
  <2>7. Missing \in Seq(Frame) /\ Len(Missing) = n - comp.cursor
        /\ \A i \in 1 .. n - comp.cursor : Missing[i] = log[arena][comp.cursor + i]
    BY <2>1, SuffixOf DEF Missing
  <2> DEFINE i == n - comp.cursor
  <2>8. i \in 1 .. Len(Missing) /\ comp.cursor + i = n
    BY SMT, <2>1, <2>6, <2>7
  <2>9. Missing[i] = log[arena][comp.cursor + i]
    BY <2>7, <2>8
  <2>10. Missing[i] = f
    BY <2>4, <2>8, <2>9 DEF Last
  <2> QED
    BY <2>5, <2>8, <2>10 DEF Writes
\* The staged journal plus what it lacks, after one more document was carried.
<1>CarriedReplay. ASSUME NEW a \in Seq(Frame), NEW t \in Seq(Frame), Replay(a \o t) # Refused,
                         NEW kd \in Key, NEW v \in Value
                  PROVE  LET b == Append(a, Put(kd, v))
                         IN  /\ b \in Seq(Frame) /\ Replay(b \o t) # Refused
                             /\ Replay(b \o t).queue = Replay(a \o t).queue
                             /\ \A k \in Key : Writes(t, k) \/ k # kd => Replay(b \o t).docs[k] = Replay(a \o t).docs[k]
                             /\ ~Writes(t, kd) => Replay(b \o t).docs[kd] = v
  <2> USE <1>CarriedReplay
  <2> DEFINE f == Put(kd, v)
             b == Append(a, f)
  <2>1. f \in Frame /\ f.key = kd /\ f.val = v /\ f.pend = None /\ f.ack = None /\ kd # NoKey
    BY Constants DEF Put, Frame, Value
  <2> HIDE DEF f
  <2>2. b \in Seq(Frame) /\ Replay(b) = Replays(Replay(a), f)
    BY SMT, <2>1, ReplayStep
  <2>3. Replay(a) # Refused
    BY DEF Laws, RefusedLaw
  <2>4. Replay(a) \in State
    BY <2>3, ReplayOK
  <2>5. AuditTransitionOK(Replay(a).queue, f)
    BY <2>1 DEF AuditTransitionOK
  <2>6. Replay(b) = Apply(Replay(a), f)
    BY <2>2, <2>3, <2>5 DEF Replays
  <2>7. Replay(b).queue = Replay(a).queue /\ Replay(b).docs = [Replay(a).docs EXCEPT ![kd] = v]
    BY SMT, <2>1, <2>6 DEF Apply
  <2>8. Replay(a).docs \in [Key -> Value]
    BY <2>4 DEF State
  <2>9. Replay(b) # Refused
    <3>1. QueueOK(Replay(a).queue)
      BY <2>3, ReplayOK
    <3>2. Apply(Replay(a), f) \in State
      BY <2>1, <2>4, <2>5, <3>1, ApplyType
    <3> QED
      BY <2>6, <3>2, Constants
  <2> HIDE DEF b
  <2>10. /\ Replay(b \o t) # Refused /\ Replay(a \o t).queue = Replay(b \o t).queue
         /\ \A k \in Key :
               IF Writes(t, k) THEN Replay(a \o t).docs[k] = Replay(b \o t).docs[k]
               ELSE /\ Replay(a \o t).docs[k] = Replay(a).docs[k]
                    /\ Replay(b \o t).docs[k] = Replay(b).docs[k]
    <3>1. b \in Seq(Frame) /\ Replay(b) # Refused /\ Replay(a).queue = Replay(b).queue
      BY <2>2, <2>7, <2>9
    <3> QED
      BY <3>1 DEF Laws, SameTailLaw
  <2>11. \A k \in Key : Writes(t, k) \/ k # kd => Replay(b \o t).docs[k] = Replay(a \o t).docs[k]
    BY <2>7, <2>8, <2>10
  <2>12. ~Writes(t, kd) => Replay(b \o t).docs[kd] = v
    BY <2>7, <2>8, <2>10
  <2> QED
    BY <2>2, <2>10, <2>11, <2>12 DEF b, f
<1> DEFINE a == log[made]
           t == Missing
           v == comp.docs[d]
<1>1. pc[Compactor] = "carry" /\ d \in comp.todo
      /\ comp' = [comp EXCEPT !.todo = comp.todo \ {d}]
      /\ log' = (IF IsDeleted(d) THEN log ELSE [log EXCEPT ![made] = Append(a, Put(d, v))])
      /\ UNCHANGED <<made, removed, current, arena, live, lease, drainer, pc, frame, target,
                     status, history, orphan, written>>
  BY DEF CarryDocument, At, calls, counters
<1>2. /\ TypeOK /\ CarryOK /\ NumbersOK /\ made \in Generation /\ arena \in Generation /\ arena # made
      /\ a \in Seq(Frame) /\ t \in Seq(Frame) /\ comp \in CompState /\ comp.docs \in [Key -> Value]
      /\ Replay(a \o t) # Refused /\ d \in Key /\ v \in Value /\ log[arena] \in Seq(Frame)
  BY <1>1, CarryFacts, InvParts DEF Key
<1>3. /\ comp' \in CompState /\ comp'.effect = comp.effect /\ comp'.cursor = comp.cursor
      /\ comp'.docs = comp.docs /\ comp'.rounds = comp.rounds /\ comp'.todo = comp.todo \ {d}
  BY <1>1, <1>2 DEF CompState
<1>4. /\ comp.rounds = 0 /\ comp.cursor <= Len(log[arena])
      /\ lease # Free => comp.cursor < Len(log[arena])
      /\ Replay(a \o t).queue = View.queue
      /\ \A k \in Key : k \notin comp.todo \/ Writes(t, k) => Replay(a \o t).docs[k] = Promised[k]
      /\ \A k \in Key : ~Writes(t, k) => comp.docs[k] = Promised[k]
  BY <1>1, <1>2 DEF CarryOK
<1>5. View' = View /\ Promised' = Promised
  BY SMT, <1>1, <1>3 DEF View, Promised
<1> DEFINE b == IF IsDeleted(d) THEN a ELSE Append(a, Put(d, v))
<1>6. b \in Seq(Frame) /\ log' = [log EXCEPT ![made] = b] /\ log'[made] = b /\ log'[arena] = log[arena]
  <2>1. Put(d, v) \in Frame
    BY <1>2 DEF Put, Frame, Value
  <2>2. log \in [Generation -> Seq(Frame)]
    BY <1>2 DEF TypeOK
  <2>3. [log EXCEPT ![made] = a] = log
    BY <1>2, <2>2
  <2> HIDE DEF a, v
  <2>4. b \in Seq(Frame)
    BY SMT, <1>2, <2>1
  <2>5. log' = [log EXCEPT ![made] = b]
    BY <1>1, <2>3
  <2> QED
    BY <1>2, <2>2, <2>4, <2>5
<1>7. Missing' = t
  BY <1>1, <1>3, <1>6 DEF Missing
<1>8. /\ Replay(b \o t) # Refused /\ Replay(b \o t).queue = View.queue
      /\ \A k \in Key : k \notin comp.todo \ {d} \/ Writes(t, k) => Replay(b \o t).docs[k] = Promised[k]
  <2>1. CASE IsDeleted(d)
    <3>1. Writes(t, d)
      BY <1>1, <1>2, <1>4, <2>1, <1>DeletedIsWritten
    <3> QED
      BY <1>2, <1>4, <2>1, <3>1
  <2>2. CASE ~IsDeleted(d)
    <3> HIDE DEF a, t, v
    <3>1. b = Append(a, Put(d, v))
      BY <2>2
    <3> HIDE DEF b
    <3>2. /\ Replay(b \o t) # Refused /\ Replay(b \o t).queue = Replay(a \o t).queue
          /\ \A k \in Key : Writes(t, k) \/ k # d => Replay(b \o t).docs[k] = Replay(a \o t).docs[k]
          /\ ~Writes(t, d) => Replay(b \o t).docs[d] = v
      BY SMT, <1>2, <3>1, <1>CarriedReplay
    <3>3. ~Writes(t, d) => v = Promised[d]
      BY <1>2, <1>4 DEF v
    <3> QED
      BY <1>2, <1>4, <3>2, <3>3
  <2> QED
    BY <2>1, <2>2
<1> HIDE DEF b
<1>9. CarryOK'
  <2>1. \A k \in Key : Writes(Missing, k)' <=> Writes(t, k)
    BY <1>7 DEF Writes
  <2>2. Replay(log[made] \o Missing)' = Replay(b \o t)
    BY <1>1, <1>6, <1>7
  <2> HIDE DEF t, a, v
  <2> QED
    BY SMT, <1>1, <1>2, <1>3, <1>4, <1>5, <1>6, <1>8, <2>1, <2>2 DEF CarryOK
<1>10. \A i \in 1 .. Len(b) : Known(b[i].pend)
  <2>1. \A i \in 1 .. Len(a) : Known(a[i].pend)
    BY <1>2 DEF NumbersOK
  <2>2. Known(None) /\ Put(d, v).pend = None
    BY SMT, <1>2 DEF Known, None, TypeOK, Put
  <2>3. Put(d, v) \in Frame
    BY <1>2 DEF Put, Frame, Value
  <2> HIDE DEF a, v
  <2>4. \A i \in 1 .. Len(Append(a, Put(d, v))) : Known(Append(a, Put(d, v))[i].pend)
    BY SMT, <1>2, <2>1, <2>2, <2>3
  <2> QED
    BY <2>1, <2>4 DEF b
<1> QED
  BY <1>1, <1>3, <1>6, <1>9, <1>10, CarryingStep

-----------------------------------------------------------------------------
(* The end of a compaction: publication, the exchange of the arenas.       *)

\* The live state and the staged journal from the last round to the end of the lease
LEMMA StagedFacts ==
    ASSUME Laws, StoreInv, pc[Compactor] \in Staged \cup Swapped
    PROVE  LET p == Pend(comp.effect)
           IN  /\ status = "open" /\ Running /\ lease = Compactor
               /\ live \in State /\ live.docs = Promised /\ QueueOK(live.queue)
               /\ comp.effect \in Effect /\ comp.effect > MaxTxns /\ p \in Frame
               /\ p.pend = comp.effect /\ p.ack = None /\ AuditTransitionOK(live.queue, p)
               /\ Apply(live, p) \in State /\ Apply(live, p).docs = Promised
               /\ Apply(live, p) # Refused
               /\ made \in Generation /\ arena \in Generation /\ Generation \subseteq Nat
               /\ current \in [seen : Generation, kept : Generation]
<1>1. TypeOK /\ LeaseOK /\ NumbersOK /\ LiveOK
  BY InvParts
<1>2. status = "open" /\ Running /\ lease = Compactor
  BY <1>1, Threads DEF LeaseOK, Running, Staged, Swapped
<1>3. live \in State /\ QueueOK(live.queue)
  BY <1>1 DEF TypeOK, NumbersOK
<1>4. comp.effect \in Effect /\ comp.effect > MaxTxns /\ AuditTransitionOK(live.queue, Pend(comp.effect))
  BY <1>1 DEF NumbersOK
<1>5. Pend(comp.effect) \in Frame /\ Pend(comp.effect).pend = comp.effect /\ Pend(comp.effect).ack = None
      /\ Apply(live, Pend(comp.effect)).docs = live.docs
  BY SMT, <1>3, <1>4, PendFrame
<1>6. Apply(live, Pend(comp.effect)) \in State
  BY <1>3, <1>4, <1>5, ApplyType
<1>7. live.docs = Promised
  <2>1. View = live \/ View = Apply(live, Pend(comp.effect))
    BY <1>2, Threads DEF View, Staged, Swapped
  <2> QED
    BY <1>1, <1>2, <1>5, <2>1 DEF LiveOK
<1>8. made \in Generation /\ arena \in Generation /\ current \in [seen : Generation, kept : Generation]
  BY <1>1 DEF TypeOK
<1>9. Generation \subseteq Nat
  BY SMT, Constants DEF Generation
<1> QED
  BY <1>2, <1>3, <1>4, <1>5, <1>6, <1>7, <1>8, <1>9, Constants

\* A step of the publication, or the end of a failed compaction: no journal changes.
LEMMA PublicationStep ==
    ASSUME Laws, StoreInv, pc[Compactor] \in {"carry"} \cup Staged \cup Swapped,
           NEW s \in {"idle"} \cup Staged \cup Swapped, Moves(s),
           log' = log, made' = made, history' = history, live' = live, written' = written,
           removed' \subseteq 0 .. made, arena' \in Generation, comp' \in CompState,
           current' \in [seen : Generation, kept : Generation],
           lease \in {Free, Compactor},
           lease' = IF s \in Staged \cup Swapped THEN Compactor ELSE Free,
           s \in Staged \cup Swapped =>
              comp'.effect = comp.effect /\ pc[Compactor] \in Staged \cup Swapped
    PROVE  /\ TypeOK' /\ LeaseOK' /\ HandOK' /\ NumbersLeft' /\ NumbersOK' /\ CarryOK'
           /\ Running' /\ Promised' = Promised /\ pc'[Compactor] = s
<1>1. TypeOK /\ LeaseOK /\ NumbersOK
  BY InvParts
<1>2. status = "open" /\ pc[Compactor] # "apply" /\ pc'[Compactor] = s
  BY SMT, <1>1, Threads DEF LeaseOK, Staged, Swapped, Moves
<1>3. s \in Steps \ {"commit", "apply", "deliver", "sync"} /\ s # "carry"
  BY DEF Steps, Staged, Swapped
<1>4. LeaseOK' /\ HandOK' /\ NumbersLeft' /\ Running'
  BY <1>2, <1>3, CompactorCalls
<1>5. TypeOK'
  <2>1. lease' \in Thread \cup {Free}
    BY Threads
  <2> QED
    BY <1>1, <2>1 DEF TypeOK, Moves
<1>6. NumbersOK'
  <2>1. /\ \A h \in Generation : \A i \in 1 .. Len(log[h]) : Known(log[h][i].pend)
        /\ QueueOK(live.queue) /\ \A e \in Range(live.queue) : Known(e)
    BY <1>1 DEF NumbersOK
  <2>2. pc[Compactor] \in Staged \cup Swapped =>
           /\ comp.effect \in Effect /\ comp.effect > MaxTxns
           /\ AuditTransitionOK(live.queue, Pend(comp.effect))
    BY <1>1 DEF NumbersOK
  <2>3. s \in Staged \cup Swapped =>
           /\ comp'.effect \in Effect /\ comp'.effect > MaxTxns
           /\ AuditTransitionOK(live'.queue, Pend(comp'.effect))
    BY <2>2
  <2>4. s \in {"carry"} \cup Staged \cup Swapped => s \in Staged \cup Swapped
    BY <1>3
  <2> QED
    BY <1>1, <1>2, <2>1, <2>3, <2>4, StillKnown
<1>7. Promised' = Promised /\ CarryOK'
  BY <1>2, <1>3 DEF Promised, CarryOK
<1> QED
  BY <1>2, <1>4, <1>5, <1>6, <1>7

\* A compaction that fails before publication leaves the store as it was.
LEMMA CompactFailsStep ==
    ASSUME Laws, StoreInv, CompactFails(Compactor)
    PROVE  StoreInv'
<1>1. TypeOK /\ LeaseOK /\ GenerationsOK /\ JournalOK(current.seen) /\ JournalOK(current.kept) /\ LiveOK
  BY InvParts
<1>2. /\ log' = log /\ made' = made /\ current' = current /\ arena' = arena /\ live' = live
      /\ history' = history /\ orphan' = orphan /\ comp' = NoComp /\ Return(Compactor, FALSE)
      /\ written' = written /\ Running /\ lease' = Free
      /\ \/ pc[Compactor] = "carry" /\ lease = Free /\ removed' = removed \cup {made}
         \/ pc[Compactor] = "publish" /\ removed' = removed
  BY DEF CompactFails, At, MayFail, counters
<1>3. Moves("idle")
  BY <1>1, <1>2, CompactorMoves
<1>4. made \in Generation /\ Generation \subseteq Nat /\ arena < made /\ current.kept < made
      /\ arena = current.seen /\ current.kept \in Generation /\ current.seen \in Generation
      /\ current.seen \notin removed /\ current.kept \notin removed /\ lease \in {Free, Compactor}
      /\ current.kept <= made
  BY SMT, <1>1, <1>2, Constants, Threads DEF TypeOK, Generation, GenerationsOK, LeaseOK, Staged
<1>5. removed' \subseteq 0 .. made /\ current.seen \notin removed' /\ current.kept \notin removed'
  BY SMT, <1>1, <1>2, <1>4 DEF TypeOK
<1>6. /\ TypeOK' /\ LeaseOK' /\ HandOK' /\ NumbersLeft' /\ NumbersOK' /\ CarryOK'
      /\ Running' /\ Promised' = Promised /\ pc'[Compactor] = "idle"
  <2>1. pc[Compactor] \in {"carry"} \cup Staged \cup Swapped /\ "idle" \notin Staged \cup Swapped
    BY <1>2 DEF Staged, Swapped
  <2>2. comp' \in CompState /\ arena' \in Generation /\ current' \in [seen : Generation, kept : Generation]
    BY <1>1, <1>2, NoCompType DEF TypeOK
  <2> QED
    BY <1>2, <1>3, <1>4, <1>5, <2>1, <2>2, PublicationStep
<1>7. GenerationsOK'
  BY <1>1, <1>2, <1>4, <1>5, <1>6 DEF GenerationsOK
<1>8. View = live /\ View' = live
  BY <1>1, <1>2, <1>4 DEF View, Swapped
<1>9. LiveOK'
  BY <1>1, <1>2, <1>6, <1>8 DEF LiveOK, Staged
<1>10. JournalOK(current.seen)' /\ JournalOK(current.kept)'
  BY <1>1, <1>2, <1>6 DEF JournalOK
<1> QED
  BY <1>6, <1>7, <1>9, <1>10 DEF StoreInv

\* The staged journal may be named by CURRENT: it replays to what was promised.
LEMMA RenameStep ==
    ASSUME Laws, StoreInv, RenamePointer(Compactor)
    PROVE  StoreInv'
<1>1. TypeOK /\ GenerationsOK /\ JournalOK(current.kept) /\ LiveOK
  BY InvParts
<1>2. /\ log' = log /\ made' = made /\ removed' = removed /\ arena' = arena /\ live' = live
      /\ lease' = lease /\ history' = history /\ orphan' = orphan /\ comp' = comp /\ written' = written
      /\ current' = [current EXCEPT !.seen = made] /\ pc[Compactor] = "publish"
      /\ Goto(Compactor, "dirsync") /\ UNCHANGED <<frame, target, drainer, status>>
  BY DEF RenamePointer, At, counters
<1>3. /\ Running /\ lease = Compactor /\ Apply(live, Pend(comp.effect)).docs = Promised
      /\ made \in Generation /\ arena \in Generation /\ current \in [seen : Generation, kept : Generation]
      /\ Generation \subseteq Nat
  BY <1>2, StagedFacts DEF Staged
<1>4. Moves("dirsync")
  BY <1>1, <1>2, CompactorMoves DEF Steps
<1>5. current' \in [seen : Generation, kept : Generation] /\ current'.seen = made
      /\ current'.kept = current.kept
  BY <1>2, <1>3
<1>6. /\ TypeOK' /\ LeaseOK' /\ HandOK' /\ NumbersLeft' /\ NumbersOK' /\ CarryOK'
      /\ Running' /\ Promised' = Promised /\ pc'[Compactor] = "dirsync"
  <2>1. comp' \in CompState /\ arena' \in Generation /\ removed' \subseteq 0 .. made
    BY <1>1, <1>2 DEF TypeOK
  <2>2. "dirsync" \in Staged /\ "publish" \in Staged
    BY DEF Staged
  <2> QED
    BY <1>2, <1>3, <1>4, <1>5, <2>1, <2>2, PublicationStep
<1>7. GenerationsOK'
  BY SMT, <1>1, <1>2, <1>3, <1>5, <1>6 DEF GenerationsOK
<1>8. View = live /\ View' = live
  BY <1>2, <1>3, <1>6, Threads DEF View, Swapped
<1>9. LiveOK'
  <2>1. Replay(log[made]) = Apply(live, Pend(comp.effect))
    BY <1>1, <1>2 DEF LiveOK, Staged
  <2> QED
    BY <1>1, <1>2, <1>3, <1>6, <1>8, <2>1 DEF LiveOK
<1>10. JournalOK(current.seen)' /\ JournalOK(current.kept)'
  <2>1. Replay(log[made]).docs = Promised
    BY <1>1, <1>2, <1>3 DEF LiveOK, Staged
  <2> QED
    BY <1>1, <1>2, <1>5, <1>6, <2>1 DEF JournalOK
<1> QED
  BY <1>6, <1>7, <1>9, <1>10 DEF StoreInv

\* The directory is synced, or its sync fails and the compaction ends.
LEMMA SyncPointerStep ==
    ASSUME Laws, StoreInv, SyncPointer(Compactor)
    PROVE  StoreInv'
<1>1. TypeOK /\ GenerationsOK /\ JournalOK(current.seen) /\ JournalOK(current.kept) /\ LiveOK
  BY InvParts
<1>2. /\ log' = log /\ made' = made /\ removed' = removed /\ arena' = arena /\ live' = live
      /\ lease' = lease /\ history' = history /\ orphan' = orphan /\ written' = written
      /\ \/ current' = [current EXCEPT !.kept = made] /\ comp' = comp
         \/ current' = current /\ comp' = [comp EXCEPT !.failed = TRUE]
      /\ pc[Compactor] = "dirsync"
      /\ Goto(Compactor, "swap") /\ UNCHANGED <<frame, target, drainer, status>>
  BY DEF SyncPointer, At, counters, MayFail
<1>3. /\ Running /\ lease = Compactor /\ Apply(live, Pend(comp.effect)).docs = Promised
      /\ made \in Generation /\ arena \in Generation /\ current \in [seen : Generation, kept : Generation]
      /\ Generation \subseteq Nat
  BY <1>2, StagedFacts DEF Staged
<1>4. Moves("swap")
  BY <1>1, <1>2, CompactorMoves DEF Steps
<1>5. /\ current' \in [seen : Generation, kept : Generation] /\ current'.seen = current.seen
      /\ current.seen = made /\ current'.kept \in {current.kept, made}
      /\ comp' \in CompState /\ comp'.effect = comp.effect
      /\ comp'.failed \/ current'.kept = made
  BY <1>1, <1>2, <1>3 DEF TypeOK, CompState, GenerationsOK
<1>6. /\ TypeOK' /\ LeaseOK' /\ HandOK' /\ NumbersLeft' /\ NumbersOK' /\ CarryOK'
      /\ Running' /\ Promised' = Promised /\ pc'[Compactor] = "swap"
  <2>1. arena' \in Generation /\ removed' \subseteq 0 .. made
    BY <1>1, <1>2 DEF TypeOK
  <2>2. "dirsync" \in Staged /\ "swap" \in Staged
    BY DEF Staged
  <2> QED
    BY <1>2, <1>3, <1>4, <1>5, <2>1, <2>2, PublicationStep
<1>7. GenerationsOK'
  BY <1>1, <1>2, <1>3, <1>5, <1>6 DEF GenerationsOK
<1>8. View = live /\ View' = live
  BY <1>2, <1>3, <1>6, Threads DEF View, Swapped
<1>9. LiveOK'
  <2>1. Replay(log[made]) = Apply(live, Pend(comp.effect))
    BY <1>1, <1>2 DEF LiveOK, Staged
  <2> QED
    BY <1>1, <1>2, <1>3, <1>5, <1>6, <1>8, <2>1 DEF LiveOK
<1>10. JournalOK(current.seen)' /\ JournalOK(current.kept)'
  BY <1>1, <1>2, <1>5, <1>6 DEF JournalOK
<1> QED
  BY <1>6, <1>7, <1>9, <1>10 DEF StoreInv

\* The live mapping is exchanged for the new generation.
LEMMA SwapStep ==
    ASSUME Laws, StoreInv, SwapArena(Compactor)
    PROVE  StoreInv'
<1> DEFINE s == IF comp.failed THEN "idle" ELSE "cleanup"
<1>1. TypeOK /\ GenerationsOK /\ JournalOK(current.seen) /\ JournalOK(current.kept) /\ LiveOK
  BY InvParts
<1>2. /\ log' = log /\ made' = made /\ removed' = removed /\ arena' = made /\ live' = live
      /\ current' = current /\ history' = history /\ written' = written /\ pc[Compactor] = "swap"
      /\ IF comp.failed
         THEN Return(Compactor, FALSE) /\ lease' = Free /\ comp' = NoComp /\ orphan' = TRUE
         ELSE /\ Goto(Compactor, "cleanup") /\ comp' = [comp EXCEPT !.cursor = arena]
              /\ UNCHANGED <<frame, target, drainer, status>> /\ lease' = lease /\ orphan' = orphan
  BY DEF SwapArena, At, counters
<1>3. /\ Running /\ lease = Compactor /\ Apply(live, Pend(comp.effect)).docs = Promised
      /\ live.docs = Promised
      /\ made \in Generation /\ arena \in Generation /\ current \in [seen : Generation, kept : Generation]
      /\ Generation \subseteq Nat
  BY <1>2, StagedFacts DEF Staged
<1>4. Moves(s)
  BY <1>1, <1>2, CompactorMoves DEF Steps
<1>5. comp' \in CompState /\ (~comp.failed => comp'.effect = comp.effect /\ comp'.cursor = arena)
  <2>1. CASE comp.failed
    BY <1>2, <2>1, NoCompType
  <2>2. CASE ~comp.failed
    <3>1. comp \in CompState /\ arena \in Nat
      BY <1>1, <1>3 DEF TypeOK
    <3>2. comp' = [comp EXCEPT !.cursor = arena]
      BY <1>2, <2>2
    <3> QED
      BY <3>1, <3>2 DEF CompState
  <2> QED
    BY <2>1, <2>2
<1>6. /\ TypeOK' /\ LeaseOK' /\ HandOK' /\ NumbersLeft' /\ NumbersOK' /\ CarryOK'
      /\ Running' /\ Promised' = Promised /\ pc'[Compactor] = s
  <2>1. removed' \subseteq 0 .. made
    BY <1>1, <1>2 DEF TypeOK
  <2>2. "idle" \notin Staged \cup Swapped /\ "swap" \in Staged /\ "cleanup" \in Swapped
    BY DEF Staged, Swapped
  <2>3. s \in {"idle"} \cup Staged \cup Swapped /\ lease' = IF s \in Staged \cup Swapped THEN Compactor ELSE Free
    BY <1>2, <1>3, <2>2
  <2>4. s \in Staged \cup Swapped => comp'.effect = comp.effect
    BY <1>5, <2>2
  <2> HIDE DEF s
  <2> QED
    BY <1>2, <1>3, <1>4, <1>5, <2>1, <2>2, <2>3, <2>4, PublicationStep
<1>7. current.seen = made /\ arena < made /\ (comp.failed \/ current.kept = made)
      /\ made \notin removed
  BY <1>1, <1>2 DEF GenerationsOK
<1>8. GenerationsOK'
  BY <1>1, <1>2, <1>3, <1>5, <1>6, <1>7 DEF GenerationsOK
<1>9. Replay(log[made]) = Apply(live, Pend(comp.effect))
  BY <1>1, <1>2 DEF LiveOK, Staged
<1>10. LiveOK'
  <2>1. CASE comp.failed
    <3>1. View' = live
      BY <1>2, <2>1 DEF View
    <3> QED
      BY <1>2, <1>3, <1>6, <2>1, <3>1 DEF LiveOK, Staged
  <2>2. CASE ~comp.failed
    <3>1. View' = Apply(live, Pend(comp.effect))
      BY <1>2, <1>3, <1>5, <1>6, <2>2, Threads DEF View, Swapped
    <3> QED
      BY <1>2, <1>3, <1>6, <1>9, <2>2, <3>1 DEF LiveOK, Staged
  <2> QED
    BY <2>1, <2>2
<1>11. JournalOK(current.seen)' /\ JournalOK(current.kept)'
  <2>1. log' = log /\ current' = current /\ (orphan' = TRUE \/ orphan' = orphan)
    BY <1>2
  <2>2. orphan => orphan'
    BY <2>1
  <2> QED
    BY <1>1, <1>6, <2>1, <2>2 DEF JournalOK
<1> QED
  BY <1>6, <1>8, <1>10, <1>11 DEF StoreInv

\* The old generation is removed, or that fails.
LEMMA RemoveStep ==
    ASSUME Laws, StoreInv, RemoveOld(Compactor)
    PROVE  StoreInv'
<1>1. TypeOK /\ GenerationsOK /\ JournalOK(current.seen) /\ JournalOK(current.kept) /\ LiveOK
  BY InvParts
<1>2. PICK s \in {"idle", "finish"} :
      /\ log' = log /\ made' = made /\ arena' = arena /\ live' = live
      /\ current' = current /\ history' = history /\ written' = written /\ pc[Compactor] = "cleanup"
      /\ removed' \in {removed, removed \cup {comp.cursor}}
      /\ \/ /\ s = "idle" /\ Return(Compactor, FALSE) /\ lease' = Free /\ comp' = NoComp /\ orphan' = TRUE
         \/ /\ s = "finish" /\ Goto(Compactor, "finish") /\ UNCHANGED <<frame, target, drainer, status>>
            /\ lease' = lease /\ comp' = comp /\ orphan' = orphan
  BY DEF RemoveOld, At, counters, MayFail
<1>3. /\ Running /\ lease = Compactor /\ Apply(live, Pend(comp.effect)).docs = Promised
      /\ live.docs = Promised
      /\ made \in Generation /\ arena \in Generation /\ current \in [seen : Generation, kept : Generation]
      /\ Generation \subseteq Nat
  BY <1>2, StagedFacts DEF Swapped
<1>4. Moves(s)
  BY <1>1, <1>2, CompactorMoves DEF Steps
<1>5. comp.cursor < made /\ arena = made /\ current.kept = made /\ current.seen = made
  BY <1>1, <1>2, <1>3 DEF GenerationsOK
<1>6. removed' \subseteq 0 .. made /\ made \notin removed'
  <2>1. comp.cursor \in Nat /\ made \in Nat /\ removed \subseteq 0 .. made /\ made \notin removed
    BY <1>1, <1>3, <1>5 DEF TypeOK, CompState, GenerationsOK
  <2> QED
    BY SMT, <1>2, <1>5, <2>1
<1>7. comp' \in CompState
  BY <1>1, <1>2, NoCompType DEF TypeOK
<1>8. /\ TypeOK' /\ LeaseOK' /\ HandOK' /\ NumbersLeft' /\ NumbersOK' /\ CarryOK'
      /\ Running' /\ Promised' = Promised /\ pc'[Compactor] = s
  <2>1. "idle" \notin Staged \cup Swapped /\ "cleanup" \in Swapped /\ "finish" \in Swapped
    BY DEF Staged, Swapped
  <2>2. s \in {"idle"} \cup Staged \cup Swapped /\ lease' = IF s \in Staged \cup Swapped THEN Compactor ELSE Free
    BY <1>2, <1>3, <2>1
  <2>3. s \in Staged \cup Swapped => comp'.effect = comp.effect
    BY <1>2, <2>1
  <2> QED
    BY <1>2, <1>3, <1>4, <1>6, <1>7, <2>1, <2>2, <2>3, PublicationStep
<1>9. GenerationsOK'
  BY <1>1, <1>2, <1>3, <1>5, <1>6, <1>8 DEF GenerationsOK
<1>10. LiveOK'
  <2>1. CASE s = "idle"
    <3>1. View' = live
      BY <1>2, <2>1 DEF View
    <3> QED
      BY <1>2, <1>3, <1>8, <2>1, <3>1 DEF LiveOK, Staged
  <2>2. CASE s = "finish"
    <3>1. View = Apply(live, Pend(comp.effect)) /\ View' = Apply(live, Pend(comp.effect))
      BY <1>2, <1>3, <1>8, <2>2, Threads DEF View, Swapped
    <3> QED
      BY SMT, <1>1, <1>2, <1>3, <1>8, <2>2, <3>1 DEF LiveOK, Staged
  <2> QED
    BY <2>1, <2>2
<1>11. JournalOK(current.seen)' /\ JournalOK(current.kept)'
  <2>1. log' = log /\ current' = current /\ (orphan' = TRUE \/ orphan' = orphan)
    BY <1>2
  <2>2. orphan => orphan'
    BY <2>1
  <2> QED
    BY <1>1, <1>8, <2>1, <2>2 DEF JournalOK
<1> QED
  BY <1>8, <1>9, <1>10, <1>11 DEF StoreInv

\* Applying a transaction takes nothing but the acknowledged record from the queue.
LEMMA StaysQueued ==
    ASSUME NEW s \in State, NEW f \in Frame, AuditTransitionOK(s.queue, f),
           NEW x \in Range(s.queue), x # f.ack
    PROVE  x \in Range(Apply(s, f).queue)
<1> DEFINE q == IF f.ack # None THEN Tail(s.queue) ELSE s.queue
           p == Apply(s, f).queue
<1>1. s.queue \in Seq(Effect)
  BY DEF State
<1>2. q \in Seq(Effect) /\ x \in Range(q)
  <2>1. CASE f.ack = None
    BY <1>1, <2>1
  <2>2. CASE f.ack # None
    <3>1. s.queue # <<>> /\ Head(s.queue) = f.ack
      BY <2>2 DEF AuditTransitionOK
    <3>2. q = Tail(s.queue) /\ q \in Seq(Effect) /\ Len(q) = Len(s.queue) - 1
          /\ \A i \in 1 .. Len(q) : q[i] = s.queue[i + 1]
      BY SMT, <1>1, <2>2, <3>1
    <3>3. PICK i \in 1 .. Len(s.queue) : x = s.queue[i]
      BY SMT, <1>1 DEF Range
    <3>4. i # 1
      BY SMT, <1>1, <3>1, <3>3
    <3> HIDE DEF q
    <3>5. i - 1 \in 1 .. Len(q) /\ q[i - 1] = x
      BY SMT, <1>1, <3>2, <3>3, <3>4
    <3>6. \E j \in 1 .. Len(q) : q[j] = x
      BY <3>5
    <3> QED
      BY <3>2, <3>6, InRange
  <2> QED
    BY <2>1, <2>2
<1>3. p = IF f.pend # None THEN Append(q, f.pend) ELSE q
  BY DEF Apply
<1> HIDE DEF q, p
<1>4. f.pend \in Effect \cup {None}
  BY FrameFields
<1>5. Len(p) >= Len(q) /\ p \in Seq(Effect) /\ \A i \in 1 .. Len(q) : p[i] = q[i]
  BY SMT, <1>2, <1>3, <1>4
<1>6. PICK i \in 1 .. Len(q) : x = q[i]
  BY SMT, <1>2 DEF Range
<1>7. i \in 1 .. Len(p) /\ p[i] = x
  BY SMT, <1>2, <1>5, <1>6
<1> QED
  BY SMT, <1>5, <1>7 DEF Range, p

\* The compaction queues its own intent and returns.
LEMMA FinishStep ==
    ASSUME Laws, StoreInv, FinishCompaction(Compactor)
    PROVE  StoreInv'
<1> DEFINE p == Pend(comp.effect)
<1>1. TypeOK /\ NumbersOK /\ GenerationsOK /\ JournalOK(current.seen) /\ JournalOK(current.kept) /\ LiveOK
  BY InvParts
<1>2. /\ log' = log /\ made' = made /\ removed' = removed /\ arena' = arena /\ live' = Apply(live, p)
      /\ lease' = Free /\ comp' = NoComp
      /\ current' = current /\ history' = history /\ orphan' = orphan /\ written' = written
      /\ pc[Compactor] = "finish"
      /\ Goto(Compactor, "drain") /\ UNCHANGED <<frame, target, drainer, status>>
  BY DEF FinishCompaction, At, counters
<1>3. /\ status = "open" /\ Running /\ lease = Compactor /\ live \in State /\ QueueOK(live.queue)
      /\ Apply(live, p) \in State
      /\ p \in Frame /\ p.pend = comp.effect /\ p.ack = None /\ comp.effect > MaxTxns
      /\ AuditTransitionOK(live.queue, p) /\ Apply(live, p).docs = Promised
      /\ Generation \subseteq Nat
  BY <1>2, StagedFacts DEF Swapped
<1> HIDE DEF p
<1>4. Moves("drain")
  BY <1>1, <1>2, CompactorMoves DEF Steps
<1>5. QueueOK(live'.queue) /\ \A e \in Range(live'.queue) : e \in Range(live.queue) \/ e = p.pend
  BY <1>2, <1>3, ApplyType
<1>6. \A x \in Range(live.queue) : x \in Range(live'.queue)
  <2>1. \A x \in Range(live.queue) : x # None
    BY SMT, <1>3, Constants DEF State, Range
  <2> QED
    BY <1>2, <1>3, <2>1, StaysQueued
<1>7. LeaseOK' /\ HandOK' /\ NumbersLeft' /\ Running'
  <2>1. "drain" \in Steps \ {"commit", "apply", "deliver", "sync"} /\ "drain" \notin Staged \cup Swapped
    BY DEF Steps, Staged, Swapped
  <2> QED
    BY <1>2, <1>3, <1>4, <1>6, <2>1, CompactorCalls
<1>8. TypeOK'
  BY <1>1, <1>2, <1>3, <1>4, NoCompType DEF TypeOK, Moves
<1>9. NumbersOK'
  <2>1. \A e \in Range(live'.queue) : Known(e)
    BY <1>1, <1>3, <1>5 DEF NumbersOK, Known
  <2>2. pc'[Compactor] \notin {"carry"} \cup Staged \cup Swapped
    BY <1>4 DEF Moves, Staged, Swapped
  <2>3. \A h \in Generation : \A i \in 1 .. Len(log[h]) : Known(log[h][i].pend)
    BY <1>1 DEF NumbersOK
  <2> QED
    BY <1>1, <1>2, <1>5, <2>1, <2>2, <2>3, StillKnown
<1>10. GenerationsOK'
  BY <1>1, <1>2, <1>3, <1>4 DEF GenerationsOK, Moves
<1>11. View = Apply(live, p) /\ View' = Apply(live, p) /\ Promised' = Promised
  <2>1. Promised' = Promised
    BY <1>2 DEF Promised
  <2>2. View = Apply(live, p)
    BY <1>2, <1>3, Threads DEF View, Swapped, p
  <2>3. View' = Apply(live, p)
    BY <1>2 DEF View
  <2> QED
    BY <2>1, <2>2, <2>3
<1>12. LiveOK' /\ CarryOK'
  BY <1>1, <1>2, <1>3, <1>4, <1>11 DEF LiveOK, CarryOK, Moves, Staged
<1>13. JournalOK(current.seen)' /\ JournalOK(current.kept)'
  BY <1>1, <1>2, <1>11 DEF JournalOK
<1> QED
  BY <1>7, <1>8, <1>9, <1>10, <1>12, <1>13 DEF StoreInv


-----------------------------------------------------------------------------
(* The commit: a transaction is appended, then applied.                    *)

\* What was promised after one more transaction.
LEMMA PromisedStep ==
    ASSUME Laws, history \in Seq(Frame), NEW f \in Frame, history' = Append(history, f)
    PROVE  /\ Promised' \in [Key -> Value]
           /\ \A k \in Key : Promised'[k] = IF f.key = k THEN f.val ELSE Promised[k]
<1>LatestIs. ASSUME NEW S, S \subseteq Nat, NEW m \in S, \A j \in S : j <= m
             PROVE  Latest(S) = m
  <2> USE <1>LatestIs
  <2>1. \A i \in S : (\A j \in S : j <= i) => i = m
    BY SMT
  <2>2. Latest(S) \in S /\ \A j \in S : j <= Latest(S)
    BY DEF Latest
  <2> QED
    BY <2>1, <2>2
<1> DEFINE n == Len(history)
           W(k) == {i \in 1 .. n : history[i].key = k}
           W1(k) == {i \in 1 .. n + 1 : history'[i].key = k}
<1>1. n \in Nat /\ Len(history') = n + 1 /\ history'[n + 1] = f
      /\ history' \in Seq(Frame) /\ \A i \in 1 .. n : history'[i] = history[i]
  BY SMT
<1> HIDE DEF n
<1>2. Promised = [k \in Key |-> IF W(k) = {} THEN Absent ELSE history[Latest(W(k))].val]
  BY DEF Promised, n
<1>3. Promised' = [k \in Key |-> IF W1(k) = {} THEN Absent ELSE history'[Latest(W1(k))].val]
  BY <1>1 DEF Promised
<1>4. ASSUME NEW k \in Key
      PROVE  Promised'[k] = IF f.key = k THEN f.val ELSE Promised[k]
  <2>1. CASE f.key = k
    <3>1. n + 1 \in W1(k) /\ W1(k) \subseteq Nat /\ \A j \in W1(k) : j <= n + 1
      BY SMT, <1>1, <2>1
    <3>2. Latest(W1(k)) = n + 1
      <4> HIDE DEF W1
      <4> QED
        BY <3>1, <1>LatestIs
    <3> QED
      BY <1>1, <1>3, <2>1, <3>1, <3>2
  <2>2. CASE f.key # k
    <3>1. W1(k) = W(k)
      BY SMT, <1>1, <2>2
    <3>2. ASSUME W(k) # {}
          PROVE  Latest(W(k)) \in 1 .. n
      <4>1. W(k) \subseteq 0 .. n /\ W(k) \subseteq Nat /\ W(k) \subseteq 1 .. n
        BY SMT, <1>1
      <4> HIDE DEF W
      <4>2. PICK m \in W(k) : \A j \in W(k) : j <= m
        BY <1>1, <3>2, <4>1 DEF Laws, LastLaw
      <4>3. Latest(W(k)) = m
        BY <4>1, <4>2, <1>LatestIs
      <4> QED
        BY <4>1, <4>2, <4>3
    <3> HIDE DEF W, W1
    <3> QED
      BY <1>1, <1>2, <1>3, <2>2, <3>1, <3>2
  <2> QED
    BY <2>1, <2>2
<1>5. Promised' \in [Key -> Value]
  <2> SUFFICES ASSUME NEW k \in Key
               PROVE  Promised'[k] \in Value
    BY <1>3
  <2>1. CASE W1(k) = {}
    BY <1>3, <2>1 DEF Value
  <2>2. CASE W1(k) # {}
    <3>1. W1(k) \subseteq 0 .. n + 1 /\ W1(k) \subseteq Nat /\ W1(k) \subseteq 1 .. n + 1 /\ n + 1 \in Nat
      BY SMT, <1>1
    <3> HIDE DEF W1
    <3>2. PICK m \in W1(k) : \A j \in W1(k) : j <= m
      BY <2>2, <3>1 DEF Laws, LastLaw
    <3>3. Latest(W1(k)) = m
      BY <3>1, <3>2, <1>LatestIs
    <3>4. history'[m] \in Frame
      BY SMT, <1>1, <3>1, <3>2
    <3> QED
      BY <1>3, <2>2, <3>3, <3>4, FrameFields
  <2> QED
    BY <2>1, <2>2
<1> QED
  BY <1>4, <1>5

LEMMA EffectNat == \A e \in Effect \cup {None} : e \in Nat
  BY SMT, Constants DEF None

\* The transaction gets a number nothing else has, so what validate_audit_transitions
\* accepted is what is journaled.
LEMMA AppendFacts ==
    ASSUME Laws, StoreInv, NEW t \in Thread, AppendFrame(t), NEW f, f = Numbered(frame[t])
    PROVE  /\ f \in Frame /\ AuditTransitionOK(live.queue, f)
           /\ f.key = frame[t].key /\ f.ack = frame[t].ack
           /\ written' \in 0 .. MaxTxns /\ written' >= written /\ f.pend <= written'
           /\ f.key # NoKey => written' = written + 1
           /\ f.key = NoKey => written' = written
           /\ Running /\ lease = Free /\ arena = current.seen /\ pc[t] = "commit"
           /\ \A u \in Thread : pc[u] \notin {"apply"} \cup Staged \cup Swapped
<1>1. TypeOK /\ LeaseOK /\ HandOK /\ NumbersLeft /\ NumbersOK /\ GenerationsOK
  BY InvParts
<1>2. Running /\ lease = Free /\ pc[t] = "commit" /\ AuditTransitionOK(live.queue, frame[t])
      /\ written' = IF frame[t].key # NoKey THEN written + 1 ELSE written
  BY DEF AppendFrame, At
<1>3. \A u \in Thread : pc[u] \notin {"apply"} \cup Staged \cup Swapped
  BY <1>1, <1>2, Threads DEF LeaseOK
<1>4. arena = current.seen
  BY <1>1, <1>2, <1>3, Threads DEF GenerationsOK, Staged
<1>5. written \in Nat /\ MaxTxns \in Nat /\ written <= MaxTxns
  BY SMT, <1>1, Constants DEF TypeOK
<1>6. Hand(t)
  BY <1>1 DEF HandOK
<1>7. CASE \E e \in Effect : frame[t] = Ack(e)
  <2>1. PICK e \in Effect : frame[t] = Ack(e)
    BY <1>7
  <2>2. frame[t] \in Frame /\ frame[t].key = NoKey /\ frame[t].pend = None /\ frame[t].val = Absent
    BY SMT, <2>1 DEF Ack, Frame
  <2>3. None # Own /\ Absent # Own
    BY SMT DEF None, Own, Absent
  <2>4. f = [frame[t] EXCEPT !.val = frame[t].val, !.pend = frame[t].pend]
    BY <2>2, <2>3 DEF Numbered
  <2>5. f = frame[t]
    BY <2>2, <2>4 DEF Frame
  <2>6. f.pend <= written'
    <3>1. f.pend = None /\ written' = written
      BY <1>2, <2>2, <2>5
    <3> QED
      BY SMT, <1>5, <3>1 DEF None
  <2> QED
    BY SMT, <1>2, <1>3, <1>4, <1>5, <2>2, <2>5, <2>6
<1>8. CASE /\ frame[t].key \in Key /\ frame[t].val \in {Absent, Own}
           /\ frame[t].pend \in {None, Own} /\ frame[t].ack = None
  <2>1. frame[t].key # NoKey
    BY <1>8, Constants
  <2>2. written + 1 <= MaxTxns
    <3>1. t \in Unnumbered
      BY <1>2, <2>1 DEF Unnumbered
    <3>2. Unnumbered \in SUBSET Thread
      BY DEF Unnumbered
    <3>3. Cardinality(Unnumbered) \in Nat /\ Cardinality(Unnumbered) >= 1
      BY <3>1, <3>2, Counted
    <3> QED
      BY SMT, <1>1, <1>5, <3>3 DEF NumbersLeft
  <2>3. written + 1 \in Effect
    BY SMT, <1>5, <2>2, Constants DEF Effect
  <2>4. frame[t] \in InHand
    BY <1>1 DEF TypeOK
  <2>5. /\ f.key = frame[t].key /\ f.ack = None
        /\ f.val = (IF frame[t].val = Own THEN written + 1 ELSE frame[t].val)
        /\ f.pend = (IF frame[t].pend = Own THEN written + 1 ELSE frame[t].pend)
    BY <1>8, <2>4 DEF Numbered, InHand
  <2>6. f = [key |-> f.key, val |-> f.val, pend |-> f.pend, ack |-> f.ack]
    BY <2>4 DEF Numbered, InHand
  <2>7. f.val \in Effect \cup {Absent} /\ f.pend \in {None, written + 1}
    BY <1>8, <2>3, <2>5
  <2>8. f \in Frame
    BY <1>8, <2>3, <2>5, <2>6, <2>7 DEF Frame
  <2>9. written + 1 \notin Range(live.queue)
    <3>1. \A e \in Range(live.queue) : Known(e)
      BY <1>1 DEF NumbersOK
    <3>2. ~Known(written + 1)
      BY SMT, <1>5, <2>2 DEF Known
    <3> QED
      BY <3>1, <3>2
  <2>10. f.pend # None => frame[t].pend # None
    BY SMT, <1>8, <2>5 DEF None, Own
  <2>11. AuditTransitionOK(live.queue, f)
    BY <1>2, <2>5, <2>7, <2>9, <2>10 DEF AuditTransitionOK
  <2>12. f.pend <= written + 1
    BY SMT, <1>5, <2>7 DEF None
  <2> QED
    BY SMT, <1>2, <1>3, <1>4, <1>5, <1>8, <2>1, <2>2, <2>5, <2>8, <2>11, <2>12
<1> QED
  BY <1>2, <1>6, <1>7, <1>8 DEF Hand

\* The journal after the append
LEMMA AppendJournal ==
    ASSUME Laws, StoreInv, NEW t \in Thread, AppendFrame(t), NEW f, f = Numbered(frame[t])
    PROVE  /\ log' = [log EXCEPT ![arena] = Append(log[arena], f)] /\ log' \in [Generation -> Seq(Frame)]
           /\ log'[arena] = Append(log[arena], f) /\ log'[arena] # <<>> /\ Last(log'[arena]) = f
           /\ Replay(log'[arena]) = Replays(Replay(log[arena]), f)
           /\ history' \in Seq(Frame) /\ Promised' \in [Key -> Value]
           /\ live.docs = Promised /\ Apply(live, f) \in State
           /\ Apply(live, f).docs = Promised'
           /\ \A s \in State : s.docs = Promised => Apply(s, f).docs = Promised'
<1>1. TypeOK /\ LeaseOK /\ NumbersOK /\ LiveOK
  BY InvParts
<1>2. f \in Frame /\ AuditTransitionOK(live.queue, f) /\ Running /\ lease = Free
  BY AppendFacts
<1>3. log' = [log EXCEPT ![arena] = Append(log[arena], f)] /\ history' = Append(history, f)
  BY DEF AppendFrame
<1>4. log[arena] \in Seq(Frame) /\ arena \in Generation /\ history \in Seq(Frame)
  BY <1>1 DEF TypeOK
<1>5. log'[arena] = Append(log[arena], f) /\ log' \in [Generation -> Seq(Frame)]
  BY SMT, <1>1, <1>2, <1>3, <1>4 DEF TypeOK
<1>6. log'[arena] # <<>> /\ Last(log'[arena]) = f /\ history' \in Seq(Frame)
  BY SMT, <1>2, <1>3, <1>4, <1>5 DEF Last
<1>7. Replay(log'[arena]) = Replays(Replay(log[arena]), f)
  BY <1>2, <1>4, <1>5, ReplayStep
<1>8. /\ Promised' \in [Key -> Value]
      /\ \A k \in Key : Promised'[k] = IF f.key = k THEN f.val ELSE Promised[k]
  BY <1>2, <1>3, <1>4, PromisedStep
<1>9. View = live
  BY <1>2 DEF View
<1>10. live.docs = Promised
  BY <1>1, <1>2, <1>9 DEF LiveOK
<1>11. live \in State /\ QueueOK(live.queue)
  BY <1>1 DEF TypeOK, NumbersOK
<1>12. ASSUME NEW s \in State, s.docs = Promised
       PROVE  Apply(s, f).docs = Promised'
  <2>1. s.docs \in [Key -> Value]
    BY DEF State
  <2>2. Apply(s, f).docs = IF f.key = NoKey THEN s.docs ELSE [s.docs EXCEPT ![f.key] = f.val]
    BY DEF Apply
  <2>3. f.key \in Key \cup {NoKey}
    BY <1>2, FrameFields
  <2>4. \A k \in Key : Apply(s, f).docs[k] = Promised'[k]
    BY SMT, <1>8, <1>12, <2>1, <2>2, <2>3, Constants
  <2>5. Apply(s, f).docs \in [Key -> Value]
    BY <1>2, <2>1, <2>2, FrameFields
  <2> QED
    BY SMT, <1>8, <2>4, <2>5
<1>13. Apply(live, f) \in State
  BY <1>2, <1>11, ApplyType
<1> QED
  BY <1>3, <1>5, <1>6, <1>7, <1>8, <1>10, <1>11, <1>12, <1>13

\* The append, the commit point of a transaction.
LEMMA AppendStep ==
    ASSUME SyncCoversRename, Laws, StoreInv, NEW t \in Thread, AppendFrame(t)
    PROVE  StoreInv'
<1> DEFINE f == Numbered(frame[t])
<1>1. TypeOK /\ LeaseOK /\ HandOK /\ NumbersLeft /\ NumbersOK /\ GenerationsOK
      /\ JournalOK(current.seen) /\ LiveOK /\ CarryOK
  BY InvParts
<1>2. /\ f \in Frame /\ AuditTransitionOK(live.queue, f)
      /\ f.key = frame[t].key /\ f.ack = frame[t].ack
      /\ written' \in 0 .. MaxTxns /\ written' >= written /\ f.pend <= written'
      /\ f.key # NoKey => written' = written + 1
      /\ f.key = NoKey => written' = written
      /\ Running /\ lease = Free /\ arena = current.seen /\ pc[t] = "commit"
      /\ \A u \in Thread : pc[u] \notin {"apply"} \cup Staged \cup Swapped
  BY AppendFacts
<1>3. /\ log' = [log EXCEPT ![arena] = Append(log[arena], f)] /\ log' \in [Generation -> Seq(Frame)]
      /\ log'[arena] = Append(log[arena], f) /\ log'[arena] # <<>> /\ Last(log'[arena]) = f
      /\ Replay(log'[arena]) = Replays(Replay(log[arena]), f)
      /\ history' \in Seq(Frame) /\ Promised' \in [Key -> Value]
      /\ live.docs = Promised /\ Apply(live, f) \in State
      /\ Apply(live, f).docs = Promised'
      /\ \A s \in State : s.docs = Promised => Apply(s, f).docs = Promised'
  BY AppendJournal
<1>4. /\ lease' = t /\ frame' = [frame EXCEPT ![t] = f] /\ pc' = [pc EXCEPT ![t] = "apply"]
      /\ current' = [current EXCEPT !.kept = current.seen]
      /\ made' = made /\ removed' = removed /\ arena' = arena /\ live' = live /\ drainer' = drainer
      /\ target' = target /\ comp' = comp /\ status' = status /\ orphan' = orphan
  BY DEF AppendFrame, Goto
<1> HIDE DEF f
<1>5. f \in InHand
  BY <1>2 DEF Frame, InHand, Value
<1>6. /\ pc'[t] = "apply" /\ frame'[t] = f
      /\ \A u \in Thread \ {t} : pc'[u] = pc[u] /\ frame'[u] = frame[u]
      /\ current'.seen = arena /\ current'.kept = arena /\ current' \in [seen : Generation, kept : Generation]
  BY <1>1, <1>2, <1>4 DEF TypeOK
<1>7. TypeOK'
  <2>1. pc' \in [Thread -> Steps] /\ frame' \in [Thread -> InHand]
    BY <1>1, <1>4, <1>5 DEF TypeOK, Steps
  <2> QED
    BY <1>1, <1>2, <1>3, <1>4, <1>6, <2>1 DEF TypeOK
<1>8. LeaseOK'
  <2>1. status = "open" => t # Opener
    BY <1>1, <1>2 DEF LeaseOK
  <2>2. status # "open" => t = Opener
    BY <1>1, <1>2 DEF LeaseOK
  <2>3. \A u \in Thread :
            /\ pc'[u] = "apply" => lease' = u
            /\ pc'[u] \in Staged \cup Swapped => u = Compactor /\ lease' = u
            /\ pc'[u] = "carry" => u = Compactor
    BY SMT, <1>1, <1>2, <1>4, <1>6 DEF LeaseOK, Staged, Swapped
  <2> QED
    BY <1>1, <1>2, <1>4, <1>6, <2>1, <2>2, <2>3, Threads DEF LeaseOK, Running
<1>9. HandOK'
  <2>1. ASSUME NEW u \in Thread \ {t}
        PROVE  Hand(u)'
    <3>1. Hand(u) /\ pc[u] # "apply" /\ (Draining(u)' <=> Draining(u))
      BY <1>1, <1>2, <1>6 DEF HandOK, Draining
    <3> QED
      BY <1>4, <1>6, <3>1 DEF Hand
  <2>2. Draining(t)' => Draining(t)
    BY <1>2, <1>6 DEF Draining
  <2>3. Hand(t)'
    BY <1>1, <1>2, <1>3, <1>4, <1>6, <2>2 DEF HandOK, Hand
  <2> QED
    BY <2>1, <2>3 DEF HandOK
<1>10. NumbersLeft'
  <2>1. Unnumbered' = Unnumbered \ {t}
    BY <1>2, <1>6 DEF Unnumbered
  <2>2. Unnumbered \in SUBSET Thread /\ Unnumbered' \in SUBSET Thread
    BY DEF Unnumbered
  <2>3. Cardinality(Unnumbered) \in Nat /\ Cardinality(Unnumbered') \in Nat
        /\ Cardinality(Unnumbered') = IF t \in Unnumbered THEN Cardinality(Unnumbered) - 1
                                      ELSE Cardinality(Unnumbered)
    <3>1. t \notin Unnumbered => Unnumbered' = Unnumbered
      BY <2>1
    <3> QED
      BY <2>1, <2>2, <3>1, Counted
  <2>4. t \in Unnumbered <=> f.key # NoKey
    BY <1>2 DEF Unnumbered
  <2>5. written \in Nat /\ MaxTxns \in Nat
    BY SMT, <1>1, Constants DEF TypeOK
  <2> QED
    BY SMT, <1>1, <1>2, <2>3, <2>4, <2>5 DEF NumbersLeft
<1>11. NumbersOK'
  <2>1. written \in Nat /\ written' \in Nat /\ MaxTxns \in Nat
    BY SMT, <1>1, <1>2, Constants DEF TypeOK
  <2>2. \A e \in Nat : Known(e) => Known(e)'
    BY SMT, <1>2, <2>1 DEF Known
  <2>3. \A e \in Range(live.queue) : Known(e)' /\ QueueOK(live.queue)
    <3>1. live.queue \in Seq(Effect)
      BY <1>1 DEF TypeOK, State
    <3>2. \A e \in Range(live.queue) : e \in Nat
      BY SMT, <3>1, EffectNat DEF Range
    <3> QED
      BY <1>1, <2>2, <3>2 DEF NumbersOK
  <2>4. ASSUME NEW g \in Generation, NEW i \in 1 .. Len(log'[g])
        PROVE  log'[g][i].pend <= written' \/ log'[g][i].pend > MaxTxns
    <3>1. log[g] \in Seq(Frame) /\ arena \in Generation
      BY <1>1 DEF TypeOK
    <3>2. CASE i \in 1 .. Len(log[g])
      <4>1. log'[g][i] = log[g][i]
        BY SMT, <1>1, <1>2, <1>3, <3>1, <3>2 DEF TypeOK
      <4>2. log[g][i].pend \in Effect \cup {None}
        <5>1. log[g][i] \in Frame
          BY SMT, <3>1, <3>2
        <5> QED
          BY <5>1, FrameFields
      <4>3. log[g][i].pend \in Nat
        BY <4>2, EffectNat
      <4>4. Known(log[g][i].pend)
        BY <1>1, <3>2 DEF NumbersOK
      <4> QED
        BY <2>2, <4>1, <4>3, <4>4 DEF Known
    <3>3. CASE i \notin 1 .. Len(log[g])
      <4>1. g = arena
        BY <1>1, <1>3, <2>4, <3>1, <3>3 DEF TypeOK
      <4>2. log[g] \in Seq(Frame) /\ log'[g] = Append(log[g], f) /\ i \in 1 .. Len(log'[g])
        BY <1>3, <3>1, <4>1, <2>4
      <4>3. i = Len(log[g]) + 1
        BY SMT, <3>3, <4>2
      <4>4. log'[g][i] = f
        BY SMT, <4>2, <4>3
      <4> QED
        BY <1>2, <4>4
    <3> QED
      BY <3>2, <3>3
  <2>5. pc'[Compactor] \notin Staged \cup Swapped
    BY <1>2, <1>6, Threads DEF Staged, Swapped
  <2>6. pc'[Compactor] = "carry" => pc[Compactor] = "carry"
    BY <1>2, <1>6, Threads
  <2>7. QueueOK(live.queue) /\ \A e \in Range(live.queue) : Known(e)'
    BY <1>1, <2>3 DEF NumbersOK
  <2> QED
    BY <1>1, <1>4, <2>4, <2>5, <2>6, <2>7 DEF NumbersOK, Known
<1>12. GenerationsOK'
  <2>1. pc'[Compactor] \notin Staged \cup Swapped
    BY <1>2, <1>6, Threads DEF Staged, Swapped
  <2>2. pc'[Compactor] = "carry" => pc[Compactor] = "carry"
    BY <1>2, <1>6, Threads
  <2> QED
    BY <1>1, <1>2, <1>4, <1>6, <2>1, <2>2 DEF GenerationsOK, Staged, Swapped
<1>13. JournalOK(arena)' /\ (orphan \/ Apply(live, f) = Replay(log'[arena]))
  <2>1. JournalOK(arena) /\ (orphan \/ live = Replay(log[arena])) /\ live \in State
    BY <1>1, <1>2 DEF LiveOK, View, TypeOK
  <2>2. log[arena] \in Seq(Frame)
    BY <1>1 DEF TypeOK
  <2>3. CASE Replay(log[arena]) = Refused
    <3>1. orphan
      BY <2>1, <2>3, Constants
    <3>2. Replay(log'[arena]) = Refused
      BY <1>3, <2>3 DEF Replays
    <3> QED
      BY <1>4, <3>1, <3>2 DEF JournalOK
  <2>4. CASE Replay(log[arena]) # Refused
    <3>1. Replay(log[arena]) \in State /\ Replay(log[arena]).docs = Promised
      BY <2>1, <2>2, <2>4, ReplayOK DEF JournalOK
    <3>2. CASE AuditTransitionOK(Replay(log[arena]).queue, f)
      <4>1. Replay(log'[arena]) = Apply(Replay(log[arena]), f)
        BY <1>3, <2>4, <3>2 DEF Replays
      <4>2. Replay(log'[arena]).docs = Promised'
        BY <1>3, <3>1, <4>1
      <4> QED
        BY <1>4, <2>1, <4>1, <4>2 DEF JournalOK
    <3>3. CASE ~AuditTransitionOK(Replay(log[arena]).queue, f)
      <4>1. orphan
        BY <1>2, <2>1, <3>3
      <4>2. Replay(log'[arena]) = Refused
        BY <1>3, <3>3 DEF Replays
      <4> QED
        BY <1>4, <4>1, <4>2 DEF JournalOK
    <3> QED
      BY <3>2, <3>3
  <2> QED
    BY <2>3, <2>4
<1>14. View' = Apply(live, f) /\ View = live
  BY <1>2, <1>4, <1>6, Threads DEF View
<1>15. LiveOK'
  <2>1. pc'[Compactor] \notin Staged
    BY <1>2, <1>6, Threads DEF Staged
  <2> QED
    BY <1>3, <1>4, <1>13, <1>14, <2>1 DEF LiveOK
<1>16. CarryOK'
  <2> SUFFICES ASSUME pc'[Compactor] = "carry"
               PROVE  CarryOK'
    BY DEF CarryOK
  <2> DEFINE q == Replay(log[made] \o Missing)
  <2>1. t # Compactor /\ pc[Compactor] = "carry"
    BY <1>6, Threads
  <2>2. /\ comp.cursor <= Len(log[arena]) /\ comp.docs \in [Key -> Value]
        /\ q # Refused /\ q.queue = live.queue
        /\ \A k \in Key : k \notin comp.todo \/ Writes(Missing, k) => q.docs[k] = Promised[k]
        /\ comp.rounds = 0 => \A k \in Key : ~Writes(Missing, k) => comp.docs[k] = Promised[k]
        /\ comp.todo # {} => comp.rounds = 0
    BY <1>1, <1>14, <2>1 DEF CarryOK
  <2>3. arena # made /\ arena \in Generation /\ made \in Generation /\ log[arena] \in Seq(Frame)
        /\ log[made] \in Seq(Frame) /\ comp.cursor \in Nat /\ Generation \subseteq Nat
    BY SMT, <1>1, <2>1, Constants DEF GenerationsOK, TypeOK, CompState, Generation
  <2>4. log'[made] = log[made]
    BY <1>1, <1>3, <2>3 DEF TypeOK
  <2>5. Missing' = Append(Missing, f) /\ Missing \in Seq(Frame)
    <3>1. comp.cursor \in 0 .. Len(log[arena]) /\ Missing' = After(Append(log[arena], f), comp.cursor)
      BY SMT, <1>3, <1>4, <2>2, <2>3 DEF Missing
    <3>2. log[arena] \in Seq(Frame) /\ f \in Frame
      BY <1>2, <2>3
    <3>3. /\ After(Append(log[arena], f), comp.cursor) = Append(After(log[arena], comp.cursor), f)
          /\ After(log[arena], comp.cursor) \in Seq(Frame)
      BY SMT, <3>1, <3>2, SuffixStep
    <3> QED
      BY <3>1, <3>3 DEF Missing
  <2>6. Replay(log[made] \o Missing)' = Replays(q, f) /\ log[made] \o Missing \in Seq(Frame)
    <3>1. log[made] \o Append(Missing, f) = Append(log[made] \o Missing, f)
      <4> DEFINE a == log[made]
                 b == Missing
      <4>1. a \in Seq(Frame) /\ b \in Seq(Frame)
        BY <2>3, <2>5
      <4> HIDE DEF a, b
      <4>2. a \o Append(b, f) = Append(a \o b, f)
        BY SMT, <1>2, <4>1, ConcatStep
      <4> QED
        BY <4>2 DEF a, b
    <3>2. log[made] \o Missing \in Seq(Frame)
      BY SMT, <2>3, <2>5
    <3>3. Replay(log[made] \o Missing)' = Replay(log[made] \o Append(Missing, f))
      BY <1>4, <2>4, <2>5
    <3>4. Replay(Append(log[made] \o Missing, f)) = Replays(q, f)
      BY <1>2, <3>2, ReplayStep
    <3> QED
      BY <3>1, <3>2, <3>3, <3>4
  <2>7. q \in State
    BY <2>2, <2>6, ReplayOK
  <2> HIDE DEF q
  <2>8. Replays(q, f) = Apply(q, f)
    BY <1>2, <2>2 DEF Replays
  <2>9. Apply(q, f) \in State /\ Apply(q, f).queue = Apply(live, f).queue
    <3>1. QueueOK(q.queue)
      BY <1>1, <2>2 DEF NumbersOK
    <3>2. Apply(q, f).queue = Apply(live, f).queue
      BY <2>2 DEF Apply
    <3> QED
      BY <1>2, <2>2, <2>7, <3>1, <3>2, ApplyType
  <2>10. \A k \in Key : /\ Promised'[k] = IF f.key = k THEN f.val ELSE Promised[k]
                        /\ Apply(q, f).docs[k] = IF f.key = k THEN f.val ELSE q.docs[k]
    <3>1. q.docs \in [Key -> Value] /\ f.key \in Key \cup {NoKey}
      BY <1>2, <2>7, FrameFields DEF State
    <3>2. history' = Append(history, f) /\ history \in Seq(Frame)
      BY <1>1 DEF AppendFrame, TypeOK, f
    <3>3. \A k \in Key : Promised'[k] = IF f.key = k THEN f.val ELSE Promised[k]
      BY <1>2, <3>2, PromisedStep
    <3> QED
      BY <3>1, <3>3, Constants DEF Apply
  <2>11. \A k \in Key : Writes(Missing, k)' <=> Writes(Missing, k) \/ f.key = k
    <3>1. Len(Missing') = Len(Missing) + 1 /\ Missing'[Len(Missing) + 1] = f /\ Len(Missing) \in Nat
          /\ \A i \in 1 .. Len(Missing) : Missing'[i] = Missing[i]
      BY SMT, <1>2, <2>5
    <3> QED
      BY SMT, <3>1 DEF Writes
  <2>12. \A k \in Key : k \notin comp.todo \/ Writes(Missing, k)' => Apply(q, f).docs[k] = Promised'[k]
    BY <2>2, <2>10, <2>11
  <2>13. comp.rounds = 0 => \A k \in Key : ~Writes(Missing, k)' => comp.docs[k] = Promised'[k]
    BY <2>2, <2>10, <2>11
  <2>14. comp.cursor < Len(log'[arena])
    <3>1. Len(log'[arena]) = Len(log[arena]) + 1 /\ Len(log[arena]) \in Nat
      BY SMT, <1>2, <1>3, <2>3
    <3>2. comp.cursor <= Len(log[arena]) /\ comp.cursor \in Nat
      BY <2>2, <2>3
    <3> QED
      BY SMT, <3>1, <3>2
  <2>15. Replay(log[made] \o Missing)' = Apply(q, f) /\ Apply(q, f) # Refused
    BY <2>6, <2>8, <2>9, Constants
  <2> QED
    BY SMT, <1>4, <1>14, <2>2, <2>3, <2>9, <2>12, <2>13, <2>14, <2>15 DEF CarryOK
<1>17. JournalOK(current.seen)' /\ JournalOK(current.kept)'
  <2>1. arena' = arena /\ current'.seen = arena /\ current'.kept = arena
    BY <1>4, <1>6
  <2> QED
    BY <1>13, <2>1 DEF JournalOK
<1> QED
  BY <1>7, <1>8, <1>9, <1>10, <1>11, <1>12, <1>15, <1>16, <1>17 DEF StoreInv

\* apply_mutations brings the live state to where the journal already is.
LEMMA ApplyStep ==
    ASSUME Laws, StoreInv, NEW t \in Thread, ApplyFrame(t)
    PROVE  StoreInv'
<1> DEFINE f == frame[t]
<1>1. TypeOK /\ LeaseOK /\ HandOK /\ NumbersLeft /\ NumbersOK /\ GenerationsOK
      /\ JournalOK(current.seen) /\ JournalOK(current.kept) /\ LiveOK /\ CarryOK
  BY InvParts
<1>2. /\ log' = log /\ made' = made /\ removed' = removed /\ current' = current
      /\ arena' = arena /\ comp' = comp /\ history' = history /\ orphan' = orphan
      /\ written' = written /\ lease' = Free /\ live' = Apply(live, f)
      /\ pc[t] = "apply" /\ Running
  BY DEF ApplyFrame, At, counters
<1>3. lease = t /\ f \in Frame /\ AuditTransitionOK(live.queue, f)
      /\ log[arena] # <<>> /\ Last(log[arena]) = f
      /\ (f.ack # None => drainer = t /\ target[t] \in Range(live.queue))
  BY <1>1, <1>2 DEF LeaseOK, HandOK, Hand, Draining
<1>4. live \in State /\ QueueOK(live.queue)
  BY <1>1 DEF TypeOK, NumbersOK
<1>5. /\ live' \in State /\ QueueOK(live'.queue)
      /\ \A e \in Range(live'.queue) : e \in Range(live.queue) \/ e = f.pend
  BY <1>2, <1>3, <1>4, ApplyType
<1>6. \A x \in Range(live.queue) : x # f.ack => x \in Range(live'.queue)
  BY <1>2, <1>3, <1>4, StaysQueued
<1>7. /\ \A u \in Thread \ {t} : pc'[u] = pc[u] /\ frame'[u] = frame[u] /\ target'[u] = target[u]
      /\ \A u \in Thread \ {t} : drainer = u => drainer' = u
      /\ pc' \in [Thread -> Steps] /\ frame' \in [Thread -> InHand]
      /\ target' \in [Thread -> Effect \cup {None}]
      /\ \/ /\ f.ack # None /\ f.ack # target[t] /\ pc'[t] = "deliver" /\ target'[t] = target[t]
            /\ drainer' = drainer /\ status' = status
         \/ pc'[t] = "drain" /\ status' = status
         \/ pc'[t] = "idle" /\ status' = IF t = Opener THEN "open" ELSE status
  <2>1. NoFrame \in InHand
    BY DEF NoFrame, InHand, Put, Value
  <2>2. \/ /\ f.ack # None /\ f.ack # target[t] /\ Goto(t, "deliver")
           /\ UNCHANGED <<target, drainer, status>> /\ frame' = [frame EXCEPT ![t] = NoFrame]
        \/ /\ Goto(t, "drain") /\ UNCHANGED <<target, drainer, status>>
           /\ frame' = [frame EXCEPT ![t] = NoFrame]
        \/ Return(t, TRUE)
    BY DEF ApplyFrame
  <2> HIDE DEF f
  <2>3. CASE /\ f.ack # None /\ f.ack # target[t] /\ Goto(t, "deliver")
             /\ UNCHANGED <<target, drainer, status>> /\ frame' = [frame EXCEPT ![t] = NoFrame]
    BY <1>1, <2>1, <2>3 DEF TypeOK, Goto, Steps
  <2>4. CASE /\ Goto(t, "drain") /\ UNCHANGED <<target, drainer, status>>
             /\ frame' = [frame EXCEPT ![t] = NoFrame]
    BY <1>1, <2>1, <2>4 DEF TypeOK, Goto, Steps
  <2>5. CASE Return(t, TRUE)
    BY <1>1, <2>1, <2>5 DEF TypeOK, Return, Steps
  <2> QED
    BY <2>2, <2>3, <2>4, <2>5
<1> HIDE DEF f
<1>8. \A u \in Thread : pc'[u] \notin {"apply"} \cup Staged \cup Swapped
  BY <1>1, <1>2, <1>3, <1>7 DEF LeaseOK, Staged, Swapped
<1>9. pc[Compactor] \notin Staged \cup Swapped /\ (pc'[Compactor] = "carry" <=> pc[Compactor] = "carry")
  BY <1>1, <1>2, <1>3, <1>7, Threads DEF LeaseOK, Staged, Swapped
<1>10. status \in {"open", "opening"} /\ (status = "open" <=> t # Opener)
  BY <1>1, <1>2 DEF LeaseOK, Running
<1>11. TypeOK'
  BY <1>1, <1>2, <1>5, <1>7 DEF TypeOK
<1>12. LeaseOK'
  <2>1. \A u \in Thread : pc'[u] = "carry" => u = Compactor
    BY <1>1, <1>7 DEF LeaseOK
  <2>2. status' = "open" => pc'[Opener] = "idle"
    BY <1>1, <1>7, <1>10, Threads DEF LeaseOK
  <2>3. status' # "open" => \A u \in Thread \ {Opener} : pc'[u] = "idle"
    BY <1>1, <1>7, <1>10 DEF LeaseOK
  <2>4. Running'
    BY <1>7, <1>10 DEF Running
  <2> QED
    BY <1>2, <1>8, <2>1, <2>2, <2>3, <2>4 DEF LeaseOK
<1>13. HandOK'
  <2>1. ASSUME NEW u \in Thread \ {t}
        PROVE  Hand(u)'
    <3>1. Hand(u) /\ (Draining(u)' <=> Draining(u))
      BY <1>1, <1>7 DEF HandOK, Draining
    <3>2. Draining(u) => drainer = u /\ target[u] \in Range(live.queue)
      BY <3>1 DEF Hand
    <3>3. Draining(u) => f.ack = None
      BY <1>3, <3>2
    <3>4. Draining(u) => target[u] \in Range(live'.queue)
      <4>1. live.queue \in Seq(Effect)
        BY <1>4 DEF State
      <4>2. \A x \in Range(live.queue) : x # None
        BY SMT, <4>1, Constants DEF Range
      <4> QED
        BY <1>6, <3>2, <3>3, <4>2
    <3> QED
      BY <1>7, <1>8, <3>1, <3>2, <3>4 DEF Hand
  <2>2. Hand(t)'
    <3>1. Draining(t)' => pc'[t] = "deliver"
      BY <1>7 DEF Draining
    <3>2. pc'[t] = "deliver" => drainer' = t /\ target'[t] \in Range(live'.queue)
      BY <1>3, <1>6, <1>7
    <3> QED
      BY <1>7, <3>1, <3>2 DEF Hand
  <2> QED
    BY <2>1, <2>2 DEF HandOK
<1>14. NumbersLeft'
  <2>1. Unnumbered' \subseteq Unnumbered
    BY <1>7 DEF Unnumbered
  <2> QED
    BY <1>1, <1>2, <2>1, FewerUnnumbered
<1>15. NumbersOK'
  <2>1. \A e : Known(e)' <=> Known(e)
    BY <1>2 DEF Known
  <2>2. Known(f.pend)
    <3>1. log[arena] \in Seq(Frame) /\ arena \in Generation
      BY <1>1 DEF TypeOK
    <3>2. Len(log[arena]) \in 1 .. Len(log[arena]) /\ log[arena][Len(log[arena])] = f
      BY SMT, <1>3, <3>1 DEF Last
    <3> QED
      BY <1>1, <3>1, <3>2 DEF NumbersOK
  <2>3. \A e \in Range(live'.queue) : Known(e)
    BY <1>1, <1>5, <2>2 DEF NumbersOK
  <2>4. pc'[Compactor] \notin Staged \cup Swapped
    BY <1>8, Threads
  <2> QED
    BY <1>1, <1>2, <1>5, <1>9, <2>1, <2>3, <2>4 DEF NumbersOK
<1>16. GenerationsOK'
  <2>1. pc'[Compactor] \notin {"publish", "dirsync", "swap", "cleanup", "finish"}
        /\ pc[Compactor] \notin {"publish", "dirsync", "swap", "cleanup", "finish"}
    BY <1>8, <1>9, Threads DEF Staged, Swapped
  <2> QED
    BY <1>1, <1>2, <1>9, <2>1 DEF GenerationsOK
<1>17. View' = View /\ Promised' = Promised
  <2>1. View = Apply(live, f)
    BY <1>2, <1>3, Threads DEF View, f
  <2>2. View' = live'
    BY <1>2 DEF View
  <2> QED
    BY <1>2, <2>1, <2>2 DEF Promised
<1>18. JournalOK(current.seen)' /\ JournalOK(current.kept)'
  BY <1>1, <1>2, <1>17 DEF JournalOK
<1>19. LiveOK'
  <2>1. pc'[Compactor] \notin Staged
    BY <1>8, Threads
  <2> QED
    BY <1>1, <1>2, <1>17, <2>1 DEF LiveOK
<1>20. CarryOK'
  <2>1. Missing' = Missing
    BY <1>2 DEF Missing
  <2>2. \A k \in Key : Writes(Missing, k)' <=> Writes(Missing, k)
    BY <2>1 DEF Writes
  <2> QED
    BY <1>1, <1>2, <1>9, <1>17, <2>1, <2>2 DEF CarryOK
<1> QED
  BY <1>11, <1>12, <1>13, <1>14, <1>15, <1>16, <1>18, <1>19, <1>20 DEF StoreInv

-----------------------------------------------------------------------------
(* Every step of the engine.                                               *)

\* Every step of the engine keeps the invariant.
LEMMA InvStep ==
    ASSUME SyncCoversRename, Laws, StoreInv, [Next]_vars
    PROVE  StoreInv'
<1>1. CASE UNCHANGED vars
  <2>1. /\ Untouched /\ pc' = pc /\ frame' = frame /\ target' = target /\ drainer' = drainer
        /\ status' = status
    BY <1>1 DEF vars, calls, counters, audit, Untouched
  <2>2. TypeOK' /\ LeaseOK' /\ NumbersLeft' /\ NumbersOK' /\ GenerationsOK'
    <3>1. TypeOK'
      BY <2>1, InvParts DEF Untouched, TypeOK
    <3>2. LeaseOK' /\ GenerationsOK'
      BY <2>1, InvParts DEF Untouched, LeaseOK, Running, GenerationsOK
    <3>3. NumbersLeft' /\ NumbersOK'
      BY <2>1, InvParts DEF Untouched, NumbersLeft, Unnumbered, NumbersOK, Known
    <3> QED
      BY <3>1, <3>2, <3>3
  <2>3. HandOK'
    BY <2>1, InvParts DEF Untouched, HandOK, Hand, Draining
  <2>4. View' = View /\ Promised' = Promised /\ Missing' = Missing
    BY <2>1 DEF Untouched, View, Promised, Missing
  <2>5. JournalOK(current.seen)' /\ JournalOK(current.kept)' /\ LiveOK'
    BY <2>1, <2>4, InvParts DEF Untouched, JournalOK, LiveOK, Running
  <2>6. CarryOK'
    BY <2>1, <2>4, InvParts DEF Untouched, CarryOK, Writes
  <2> QED
    BY <2>2, <2>3, <2>5, <2>6 DEF StoreInv
<1>2. ASSUME NEW t \in Thread, Step(t)
      PROVE  StoreInv'
  BY <1>2, AppendStep, FailSteps, ApplyStep, DrainSteps DEF Step, Commit, Drain, DrainStep
<1>3. CASE Compact(Compactor)
  BY <1>3, CarryStep, CatchUpStep, FinalRoundStep, CompactFailsStep, RenameStep, SyncPointerStep,
     SwapStep, RemoveStep, FinishStep DEF Compact
<1>4. CASE Flush(Compactor) \/ Snapshot(Compactor)
  BY <1>4, DrainSteps, SnapshotStep, Threads DEF DrainStep
<1>5. CASE \E t \in Writer, k \in Key, deletes \in BOOLEAN : Begin(t, k, deletes)
  BY <1>5, BeginStep
<1>6. CASE (\E power \in BOOLEAN : Crash(power)) \/ Open
  BY <1>6, CrashStep, OpenStep
<1> QED
  BY <1>1, <1>2, <1>3, <1>4, <1>5, <1>6 DEF Next
=============================================================================
