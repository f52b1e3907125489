---------------------------- MODULE StoreProofs -----------------------------
(*****************************************************************************)
(* The theorems about Store.  What a replay gives is proved here by          *)
(* induction on the journal, the invariant from the steps of StoreSteps.     *)
(*****************************************************************************)
EXTENDS StoreSteps, FiniteSetTheorems, WellFoundedInduction

USE Zenon

-----------------------------------------------------------------------------
(* Induction.  The library's induction theorems take the induction hypothesis as   *)
(* an operator, which the provers cannot instantiate.  Its theorem on minimal      *)
(* elements takes a set, so an induction is a proof about the least counterexample. *)

\* Every non-empty set of naturals has a least element.
LEMMA LeastNatural ==
    ASSUME NEW T, T \subseteq Nat, T # {}
    PROVE  \E m \in T : \A n \in T : m <= n
<1> DEFINE R == OpToRel(<, Nat)
<1>1. IsWellFoundedOn(R, Nat)
  BY NatLessThanWellFounded
<1>2. \A m, n \in Nat : n < m => <<n, m>> \in R
  BY DEF OpToRel
<1> HIDE DEF R
<1>3. PICK m \in T : \A n \in T : ~(<<n, m>> \in R)
  BY <1>1, WFMin
<1>4. \A n \in T : m <= n
  <2> SUFFICES ASSUME NEW n \in T, n < m
               PROVE  FALSE
    BY SMT
  <2>1. m \in Nat /\ n \in Nat
    OBVIOUS
  <2> QED
    BY <1>2, <1>3, <2>1
<1> QED
  BY <1>4

\* Induction up to a bound, about the set G of the numbers that have the property.
LEMMA UpTo ==
    ASSUME NEW n \in Nat, NEW G, 0 \in G,
           \A i \in 0 .. n - 1 : i \in G => i + 1 \in G
    PROVE  \A i \in 0 .. n : i \in G
<1> DEFINE T == {i \in 0 .. n : i \notin G}
<1> SUFFICES ASSUME T # {}
             PROVE  FALSE
  OBVIOUS
<1>1. PICK m \in T : \A i \in T : m <= i
  <2>1. T \subseteq Nat
    BY SMT
  <2> HIDE DEF T
  <2> QED
    BY <2>1, LeastNatural
<1>2. m \in 1 .. n
  BY SMT, <1>1
<1>3. m - 1 \in 0 .. n - 1 /\ m - 1 \notin T
  BY SMT, <1>1, <1>2
<1>4. m - 1 \in G
  BY SMT, <1>3
<1>5. (m - 1) + 1 \in G
  BY <1>3, <1>4
<1> QED
  BY SMT, <1>1, <1>2, <1>5

\* A non-empty set of numbers with an upper bound has a greatest element.
LEMMA GreatestNatural ==
    ASSUME NEW n \in Nat, NEW S, S \subseteq 0 .. n, S # {}
    PROVE  \E m \in S : \A i \in S : i <= m
<1> DEFINE T == {n - i : i \in S}
<1>1. T \subseteq Nat /\ T # {}
  <2>1. \A i \in S : n - i \in Nat
    BY SMT
  <2>2. PICK i : i \in S
    OBVIOUS
  <2>3. n - i \in T
    BY <2>2
  <2> QED
    BY <2>1, <2>3
<1>2. PICK u \in T : \A v \in T : u <= v
  <2> HIDE DEF T
  <2> QED
    BY <1>1, LeastNatural
<1>3. PICK m \in S : u = n - m
  BY <1>2
<1>4. \A i \in S : n - m <= n - i
  BY <1>2, <1>3
<1> QED
  BY SMT, <1>4

\* A sequence, one element at a time.
LEMMA PrefixStep ==
    ASSUME NEW S, NEW s \in Seq(S), NEW n \in 0 .. Len(s) - 1
    PROVE  /\ SubSeq(s, 1, n) \in Seq(S) /\ s[n + 1] \in S
           /\ SubSeq(s, 1, n + 1) = Append(SubSeq(s, 1, n), s[n + 1])
  BY SMT

-----------------------------------------------------------------------------
(* Replaying a journal, one transaction at a time.                         *)

\* The states a replay of fs goes through, up to frame n.
IsRun(g, fs, n) ==
    g = [i \in 0 .. n |-> IF i = 0 THEN Fresh ELSE Replays(g[i - 1], fs[i])]

\* Two runs agree where both are defined.
LEMMA RunUnique ==
    ASSUME NEW fs, NEW n \in Nat, NEW m \in Nat, m <= n, NEW g, NEW h, IsRun(g, fs, n), IsRun(h, fs, m)
    PROVE  \A i \in 0 .. m : g[i] = h[i]
<1> DEFINE G == {i \in Nat : g[i] = h[i]}
<1>1. 0 \in G
  BY SMT DEF IsRun
<1>2. ASSUME NEW i \in 0 .. m - 1, i \in G
      PROVE  i + 1 \in G
  <2>1. g[i + 1] = Replays(g[(i + 1) - 1], fs[i + 1])
    BY SMT DEF IsRun
  <2>2. h[i + 1] = Replays(h[(i + 1) - 1], fs[i + 1])
    BY SMT DEF IsRun
  <2> QED
    BY SMT, <1>2, <2>1, <2>2
<1> HIDE DEF G
<1>3. \A i \in 0 .. m : i \in G
  BY <1>1, <1>2, UpTo
<1> QED
  BY <1>3 DEF G

\* There is a run of every length.
LEMMA RunExists ==
    ASSUME NEW fs, NEW n \in Nat
    PROVE  \E g : IsRun(g, fs, n)
<1> DEFINE G == {i \in Nat : \E g : IsRun(g, fs, i)}
<1>1. 0 \in G
  <2> DEFINE g == [i \in 0 .. 0 |-> Fresh]
  <2>1. IsRun(g, fs, 0)
    BY SMT DEF IsRun
  <2> QED
    BY <2>1
<1>2. ASSUME NEW i \in 0 .. n - 1, i \in G
      PROVE  i + 1 \in G
  <2>1. PICK g : IsRun(g, fs, i)
    BY <1>2
  <2> DEFINE h == [j \in 0 .. i + 1 |-> IF j = i + 1 THEN Replays(g[i], fs[i + 1]) ELSE g[j]]
             k == [j \in 0 .. i + 1 |-> IF j = 0 THEN Fresh ELSE Replays(h[j - 1], fs[j])]
  <2>2. \A j \in 0 .. i + 1 : h[j] = k[j]
    <3> TAKE j \in 0 .. i + 1
    <3>1. CASE j = 0
      BY SMT, <2>1, <3>1 DEF IsRun
    <3>2. CASE j = i + 1
      <4>1. h[j - 1] = g[i]
        BY SMT, <3>2
      <4> QED
        BY SMT, <3>2, <4>1
    <3>3. CASE j \in 1 .. i
      <4>1. h[j - 1] = g[j - 1] /\ h[j] = g[j]
        BY SMT, <3>3
      <4>2. g[j] = Replays(g[j - 1], fs[j])
        BY SMT, <2>1, <3>3 DEF IsRun
      <4> QED
        BY SMT, <3>3, <4>1, <4>2
    <3> QED
      BY SMT, <3>1, <3>2, <3>3
  <2>3. h = k
    BY <2>2
  <2>4. IsRun(h, fs, i + 1)
    BY <2>3 DEF IsRun
  <2> QED
    BY SMT, <2>4
<1> HIDE DEF G
<1>3. n \in G
  BY SMT, <1>1, <1>2, UpTo
<1> QED
  BY <1>3 DEF G

\* Replay is where the run ends.
LEMMA ReplayIsRun ==
    ASSUME NEW fs \in Seq(Frame), NEW g, IsRun(g, fs, Len(fs))
    PROVE  Replay(fs) = g[Len(fs)]
<1> DEFINE step(s, f) == IF s = Refused \/ ~AuditTransitionOK(s.queue, f)
                         THEN Refused ELSE Apply(s, f)
           F(h) == [n \in 0 .. Len(fs) |->
                       IF n = 0 THEN Fresh
                       ELSE CHOOSE r \in {step(s, fs[n]) : s \in {h[n - 1]}} : TRUE]
           upTo == CHOOSE h : h = F(h)
<1>1. \A h : F(h) = [i \in 0 .. Len(fs) |-> IF i = 0 THEN Fresh ELSE Replays(h[i - 1], fs[i])]
  <2> TAKE h
  <2>1. \A n : {step(s, fs[n]) : s \in {h[n - 1]}} = {Replays(h[n - 1], fs[n])}
    BY DEF Replays
  <2>2. \A x : (CHOOSE r \in {x} : TRUE) = x
    OBVIOUS
  <2> HIDE DEF step
  <2> QED
    BY <2>1, <2>2
<1>2. g = F(g)
  BY <1>1 DEF IsRun
<1> HIDE DEF F
<1>3. upTo = F(upTo)
  BY <1>2
<1> HIDE DEF upTo
<1>4. IsRun(upTo, fs, Len(fs))
  BY <1>1, <1>3 DEF IsRun
<1>5. upTo[Len(fs)] = g[Len(fs)]
  BY SMT, <1>4, RunUnique
<1>6. Replay(fs) = upTo[Len(fs)]
  BY DEF Replay, upTo, F, step
<1> QED
  BY <1>5, <1>6

\* An empty journal replays to the fresh state, and one more transaction is one more step.
LEMMA ReplayGoesOn ==
    /\ Replay(<<>>) = Fresh
    /\ \A fs \in Seq(Frame), f \in Frame : Replay(Append(fs, f)) = Replays(Replay(fs), f)
<1>1. Replay(<<>>) = Fresh
  <2> DEFINE fs == <<>>
  <2>1. fs \in Seq(Frame) /\ Len(fs) = 0
    BY SMT
  <2>2. PICK g : IsRun(g, fs, 0)
    BY RunExists
  <2>3. g[0] = Fresh
    BY SMT, <2>2 DEF IsRun
  <2> HIDE DEF fs
  <2>4. Replay(fs) = g[0]
    BY <2>1, <2>2, ReplayIsRun
  <2> QED
    BY <2>3, <2>4 DEF fs
<1>2. ASSUME NEW fs \in Seq(Frame), NEW f \in Frame
      PROVE  Replay(Append(fs, f)) = Replays(Replay(fs), f)
  <2> DEFINE gs == Append(fs, f)
             n == Len(fs)
  <2>1. gs \in Seq(Frame) /\ Len(gs) = n + 1 /\ n \in Nat /\ gs[n + 1] = f
        /\ n + 1 \in Nat /\ \A i \in 1 .. n : gs[i] = fs[i]
    BY SMT
  <2> HIDE DEF gs, n
  <2>2. PICK g : IsRun(g, fs, n)
    BY <2>1, RunExists
  <2>3. PICK h : IsRun(h, gs, n + 1)
    BY <2>1, RunExists
  <2> DEFINE e == [i \in 0 .. n |-> h[i]]
  <2>4. IsRun(e, fs, n)
    <3>1. \A i \in 0 .. n : e[i] = IF i = 0 THEN Fresh ELSE Replays(e[i - 1], fs[i])
      <4> TAKE i \in 0 .. n
      <4>1. h[i] = IF i = 0 THEN Fresh ELSE Replays(h[i - 1], gs[i])
        BY SMT, <2>1, <2>3 DEF IsRun
      <4>2. i # 0 => i - 1 \in 0 .. n /\ gs[i] = fs[i]
        BY SMT, <2>1
      <4> QED
        BY <4>1, <4>2
    <3> QED
      BY <3>1 DEF IsRun
  <2>5. h[n] = g[n]
    <3>1. e[n] = g[n]
      <4> HIDE DEF e
      <4> QED
        BY SMT, <2>1, <2>2, <2>4, RunUnique
    <3> QED
      BY SMT, <3>1, <2>1
  <2>6. h[n + 1] = Replays(h[n], f)
    <3>1. n + 1 \in 0 .. n + 1 /\ n + 1 # 0 /\ (n + 1) - 1 = n
      BY SMT, <2>1
    <3> QED
      BY <2>1, <2>3, <3>1 DEF IsRun
  <2>7. Replay(fs) = g[n] /\ Replay(gs) = h[n + 1]
    BY <2>1, <2>2, <2>3, ReplayIsRun DEF n
  <2> QED
    BY <2>5, <2>6, <2>7 DEF gs
<1> QED
  BY <1>1, <1>2

-----------------------------------------------------------------------------
(* What a replay returns.                                                  *)

\* A replay is refused for good, or gives a well-formed state whose queue keeps its
\* bounds and holds intents of the journal only.
LEMMA ReplayGivesState ==
    ASSUME NEW fs \in Seq(Frame), Replay(fs) # Refused
    PROVE  /\ Replay(fs) \in State /\ QueueOK(Replay(fs).queue)
           /\ \A e \in Range(Replay(fs).queue) : \E i \in 1 .. Len(fs) : fs[i].pend = e
<1> DEFINE Good(n) == LET s == SubSeq(fs, 1, n)
                          r == Replay(s)
                      IN  r # Refused =>
                            /\ r \in State /\ QueueOK(r.queue)
                            /\ \A e \in Range(r.queue) : \E i \in 1 .. n : fs[i].pend = e
           G == {n \in Nat : Good(n)}
<1>1. 0 \in G
  <2>1. SubSeq(fs, 1, 0) = <<>>
    BY PrefixEnds
  <2>2. Range(<<>>) = {}
    BY SMT DEF Range
  <2> QED
    BY <2>1, <2>2, ReplayGoesOn, Constants
<1>2. ASSUME NEW n \in 0 .. Len(fs) - 1, n \in G
      PROVE  n + 1 \in G
  <2> DEFINE s == SubSeq(fs, 1, n)
             r == Replay(s)
             f == fs[n + 1]
  <2>1. s \in Seq(Frame) /\ f \in Frame /\ SubSeq(fs, 1, n + 1) = Append(s, f)
    BY PrefixStep
  <2>2. Replay(SubSeq(fs, 1, n + 1)) = Replays(r, f)
    BY <2>1, ReplayGoesOn
  <2>3. SUFFICES ASSUME Replays(r, f) # Refused
                 PROVE  /\ Replays(r, f) \in State /\ QueueOK(Replays(r, f).queue)
                        /\ \A e \in Range(Replays(r, f).queue) :
                              \E i \in 1 .. n + 1 : fs[i].pend = e
    BY SMT, <2>2
  <2>4. r # Refused /\ AuditTransitionOK(r.queue, f) /\ Replays(r, f) = Apply(r, f)
    BY <2>3 DEF Replays
  <2>5. r \in State /\ QueueOK(r.queue) /\ \A e \in Range(r.queue) : \E i \in 1 .. n : fs[i].pend = e
    BY <1>2, <2>4
  <2> HIDE DEF r
  <2>6. /\ Apply(r, f) \in State /\ QueueOK(Apply(r, f).queue)
        /\ \A e \in Range(Apply(r, f).queue) : e \in Range(r.queue) \/ e = f.pend
    BY <2>1, <2>4, <2>5, ApplyType
  <2>7. ASSUME NEW e \in Range(Apply(r, f).queue)
        PROVE  \E i \in 1 .. n + 1 : fs[i].pend = e
    <3>1. CASE e = f.pend
      BY SMT, <3>1
    <3>2. CASE e \in Range(r.queue)
      BY SMT, <2>5, <3>2
    <3> QED
      BY <2>6, <3>1, <3>2
  <2> QED
    BY <2>4, <2>6, <2>7
<1>3. Len(fs) \in G
  <2>1. Len(fs) \in Nat
    BY SMT
  <2> HIDE DEF G
  <2>2. \A n \in 0 .. Len(fs) : n \in G
    BY <1>1, <1>2, <2>1, UpTo
  <2> QED
    BY SMT, <2>1, <2>2
<1> QED
  BY <1>3, PrefixEnds

\* Nothing is applied after a transition that does not fit.
LEMMA RefusedStays ==
    ASSUME NEW a \in Seq(Frame), NEW t \in Seq(Frame), Replay(a) = Refused
    PROVE  Replay(a \o t) = Refused
<1> DEFINE G == {n \in Nat : Replay(a \o SubSeq(t, 1, n)) = Refused}
<1>1. 0 \in G
  BY PrefixEnds
<1>2. ASSUME NEW n \in 0 .. Len(t) - 1, n \in G
      PROVE  n + 1 \in G
  <2> DEFINE s == SubSeq(t, 1, n)
             f == t[n + 1]
  <2>1. s \in Seq(Frame) /\ f \in Frame /\ SubSeq(t, 1, n + 1) = Append(s, f)
    BY PrefixStep
  <2>2. a \o SubSeq(t, 1, n + 1) = Append(a \o s, f) /\ a \o s \in Seq(Frame)
    BY SMT, <2>1, ConcatStep
  <2>3. Replay(a \o s) = Refused
    BY <1>2
  <2>4. Replay(Append(a \o s, f)) = Replays(Replay(a \o s), f)
    BY <2>1, <2>2, ReplayGoesOn
  <2> HIDE DEF s, f
  <2>5. Replay(Append(a \o s, f)) = Refused
    BY <2>3, <2>4 DEF Replays
  <2>6. Replay(a \o SubSeq(t, 1, n + 1)) = Refused
    BY <2>2, <2>5
  <2>7. n + 1 \in Nat
    BY SMT
  <2> QED
    BY <2>6, <2>7
<1>3. Len(t) \in G
  <2>1. Len(t) \in Nat
    BY SMT
  <2> HIDE DEF G
  <2>2. \A n \in 0 .. Len(t) : n \in G
    BY <1>1, <1>2, <2>1, UpTo
  <2> QED
    BY SMT, <2>1, <2>2
<1> QED
  BY <1>3, PrefixEnds

\* Two journals that replay to the same queue stay so under the same further
\* transactions; these decide the keys they write and leave the others as they were.
LEMMA SameTail ==
    ASSUME NEW a \in Seq(Frame), NEW b \in Seq(Frame), NEW t \in Seq(Frame),
           Replay(b) # Refused, Replay(a).queue = Replay(b).queue, Replay(a \o t) # Refused
    PROVE  /\ Replay(b \o t) # Refused /\ Replay(a \o t).queue = Replay(b \o t).queue
           /\ \A k \in Key :
                 IF Writes(t, k) THEN Replay(a \o t).docs[k] = Replay(b \o t).docs[k]
                 ELSE /\ Replay(a \o t).docs[k] = Replay(a).docs[k]
                      /\ Replay(b \o t).docs[k] = Replay(b).docs[k]
<1> DEFINE A(n) == Replay(a \o SubSeq(t, 1, n))
           B(n) == Replay(b \o SubSeq(t, 1, n))
           Same(n) == /\ B(n) # Refused /\ A(n).queue = B(n).queue
                      /\ \A k \in Key :
                            IF \E i \in 1 .. n : t[i].key = k THEN A(n).docs[k] = B(n).docs[k]
                            ELSE /\ A(n).docs[k] = Replay(a).docs[k]
                                 /\ B(n).docs[k] = Replay(b).docs[k]
           G == {n \in Nat : A(n) # Refused => Same(n)}
<1>1. 0 \in G
  <2>1. A(0) = Replay(a) /\ B(0) = Replay(b)
    BY PrefixEnds
  <2> HIDE DEF A, B
  <2> QED
    BY SMT, <2>1
<1>2. ASSUME NEW n \in 0 .. Len(t) - 1, n \in G
      PROVE  n + 1 \in G
  <2> DEFINE s == SubSeq(t, 1, n)
             f == t[n + 1]
  <2>1. s \in Seq(Frame) /\ f \in Frame /\ SubSeq(t, 1, n + 1) = Append(s, f)
    BY PrefixStep
  <2>2. /\ a \o SubSeq(t, 1, n + 1) = Append(a \o s, f) /\ a \o s \in Seq(Frame)
        /\ b \o SubSeq(t, 1, n + 1) = Append(b \o s, f) /\ b \o s \in Seq(Frame)
    <3>1. a \o SubSeq(t, 1, n + 1) = Append(a \o s, f) /\ a \o s \in Seq(Frame)
      BY SMT, <2>1, ConcatStep
    <3>2. b \o SubSeq(t, 1, n + 1) = Append(b \o s, f) /\ b \o s \in Seq(Frame)
      BY SMT, <2>1, ConcatStep
    <3> QED
      BY <3>1, <3>2
  <2>3. A(n + 1) = Replays(A(n), f) /\ B(n + 1) = Replays(B(n), f)
    BY <2>1, <2>2, ReplayGoesOn
  <2>4. A(n) # Refused => A(n) \in State
    BY <2>2, ReplayGivesState
  <2>5. B(n) # Refused => B(n) \in State
    BY <2>2, ReplayGivesState
  <2> HIDE DEF A, B
  <2>6. SUFFICES ASSUME A(n + 1) # Refused
                 PROVE  Same(n + 1)
    BY SMT
  <2>7. A(n) # Refused /\ AuditTransitionOK(A(n).queue, f) /\ A(n + 1) = Apply(A(n), f)
    BY <2>3, <2>6 DEF Replays
  <2>8. Same(n)
    BY <1>2, <2>7
  <2>9. B(n + 1) = Apply(B(n), f)
    BY <2>3, <2>7, <2>8 DEF Replays
  <2>10. A(n) \in State /\ B(n) \in State
    BY <2>4, <2>5, <2>7, <2>8
  <2>11. A(n + 1).queue = B(n + 1).queue
    <3>1. A(n).queue = B(n).queue
      BY <2>8
    <3>2. Apply(A(n), f).queue = Apply(B(n), f).queue
      BY <3>1 DEF Apply
    <3> QED
      BY <2>7, <2>9, <3>2
  <2>12. Apply(B(n), f) \in State
    BY <2>1, <2>2, <2>7, <2>8, <2>10, ReplayGivesState, ApplyType DEF B
  <2>13. ASSUME NEW k \in Key
         PROVE  IF \E i \in 1 .. n + 1 : t[i].key = k THEN A(n + 1).docs[k] = B(n + 1).docs[k]
                ELSE /\ A(n + 1).docs[k] = Replay(a).docs[k]
                     /\ B(n + 1).docs[k] = Replay(b).docs[k]
    <3>1. A(n).docs \in [Key -> Value] /\ B(n).docs \in [Key -> Value]
      BY <2>10 DEF State
    <3>2. CASE f.key = k
      <4>1. A(n + 1).docs[k] = f.val /\ B(n + 1).docs[k] = f.val
        BY SMT, <2>7, <2>9, <3>1, <3>2, Constants DEF Apply
      <4> QED
        BY SMT, <3>2, <4>1
    <3>3. CASE f.key # k
      <4>1. A(n + 1).docs[k] = A(n).docs[k] /\ B(n + 1).docs[k] = B(n).docs[k]
        BY SMT, <2>1, <2>7, <2>9, <3>1, <3>3, FrameFields DEF Apply
      <4>2. (\E i \in 1 .. n + 1 : t[i].key = k) <=> (\E i \in 1 .. n : t[i].key = k)
        BY SMT, <3>3
      <4> QED
        BY <2>8, <4>1, <4>2
    <3> QED
      BY <3>2, <3>3
  <2> QED
    BY SMT, <2>9, <2>11, <2>12, <2>13, Constants
<1>3. Len(t) \in G
  <2>1. Len(t) \in Nat
    BY SMT
  <2> HIDE DEF G
  <2>2. \A n \in 0 .. Len(t) : n \in G
    BY <1>1, <1>2, <2>1, UpTo
  <2> QED
    BY SMT, <2>1, <2>2
<1>4. A(Len(t)) = Replay(a \o t) /\ B(Len(t)) = Replay(b \o t)
  BY PrefixEnds
<1> QED
  BY <1>3, <1>4 DEF Writes

\* The frames compaction writes for the vectors replay to exactly those vectors.
LEMMA ReplayPuts ==
    ASSUME NEW docs \in [Key -> Value], NEW keys \in SUBSET Key, IsFiniteSet(keys)
    PROVE  /\ PutFrames(docs, keys) \in Seq(Frame)
           /\ Replay(PutFrames(docs, keys)) =
                 [docs |-> [k \in Key |-> IF k \in keys THEN docs[k] ELSE Absent], queue |-> <<>>]
           /\ \A i \in 1 .. Len(PutFrames(docs, keys)) : PutFrames(docs, keys)[i].pend = None
<1> DEFINE c == Cardinality(keys)
           order == CHOOSE f \in Bijection(1 .. c, keys) : TRUE
           fs == [i \in 1 .. c |-> Put(order[i], docs[order[i]])]
           some(n) == {k \in Key : \E i \in 1 .. n : order[i] = k}
           upto(n) == [docs |-> [k \in Key |-> IF k \in some(n) THEN docs[k] ELSE Absent],
                       queue |-> <<>>]
           G == {n \in Nat : Replay(SubSeq(fs, 1, n)) = upto(n)}
<1>1. c \in Nat
  BY FS_CardinalityType
<1>2. order \in Bijection(1 .. c, keys)
  <2>1. Bijection(1 .. c, keys) # {}
    BY FS_CardinalityType DEF ExistsBijection
  <2> QED
    BY <2>1
<1>3. order \in [1 .. c -> keys] /\ \A k \in keys : \E i \in 1 .. c : order[i] = k
  BY <1>2 DEF Bijection, Injection, Surjection
<1> HIDE DEF order, c
<1>4. \A i \in 1 .. c : /\ order[i] \in Key /\ fs[i] = Put(order[i], docs[order[i]])
                        /\ fs[i] \in Frame
  BY <1>3 DEF Put, Frame, Value
<1>5. fs \in Seq(Frame) /\ Len(fs) = c
  BY SMT, <1>1, <1>4
<1>6. PutFrames(docs, keys) = fs
  BY DEF PutFrames, order, c
<1> HIDE DEF fs
<1>7. 0 \in G
  <2>1. upto(0) = Fresh
    BY SMT DEF Fresh
  <2> QED
    BY <1>5, <2>1, PrefixEnds, ReplayGoesOn
<1>8. ASSUME NEW n \in 0 .. c - 1, n \in G
      PROVE  n + 1 \in G
  <2> DEFINE s == SubSeq(fs, 1, n)
             f == fs[n + 1]
  <2>1. s \in Seq(Frame) /\ f \in Frame /\ SubSeq(fs, 1, n + 1) = Append(s, f)
    BY <1>5, PrefixStep
  <2>2. Replay(SubSeq(fs, 1, n + 1)) = Replays(upto(n), f)
    <3>1. Replay(s) = upto(n)
      BY <1>8
    <3> HIDE DEF s, upto
    <3>2. Replay(Append(s, f)) = Replays(Replay(s), f)
      BY <2>1, ReplayGoesOn
    <3> QED
      BY <2>1, <3>1, <3>2
  <2>3. n + 1 \in 1 .. c /\ n + 1 \in Nat
    BY SMT, <1>1
  <2>4. f = Put(order[n + 1], docs[order[n + 1]]) /\ order[n + 1] \in Key
    BY <1>4, <2>3
  <2>5. AuditTransitionOK(upto(n).queue, f)
    BY SMT, <2>4 DEF AuditTransitionOK, Put
  <2>6. upto(n) # Refused
    <3>1. upto(n) \in State
      <4>1. [k \in Key |-> IF k \in some(n) THEN docs[k] ELSE Absent] \in [Key -> Value]
        BY DEF Value
      <4>2. <<>> \in Seq(Effect)
        BY SMT
      <4> QED
        BY <4>1, <4>2 DEF State
    <3> QED
      BY <3>1, Constants
  <2>7. Apply(upto(n), f) = upto(n + 1)
    <3>1. f.key = order[n + 1] /\ f.val = docs[order[n + 1]] /\ f.ack = None /\ f.pend = None
      BY SMT, <2>4 DEF Put
    <3>2. f.key # NoKey
      BY <2>4, <3>1, Constants
    <3>3. Apply(upto(n), f) = [docs |-> [upto(n).docs EXCEPT ![f.key] = f.val], queue |-> <<>>]
      BY <3>1, <3>2 DEF Apply
    <3>4. [upto(n).docs EXCEPT ![f.key] = f.val] = upto(n + 1).docs
      <4>1. \A k \in Key : k \in some(n + 1) <=> k \in some(n) \/ k = order[n + 1]
        BY SMT
      <4> HIDE DEF some
      <4> QED
        BY <2>4, <3>1, <4>1
    <3> QED
      BY <3>3, <3>4
  <2> HIDE DEF upto
  <2>8. Replays(upto(n), f) = upto(n + 1)
    BY <2>5, <2>6, <2>7 DEF Replays
  <2> QED
    BY <2>2, <2>3, <2>8
<1>9. c \in G
  <2> HIDE DEF G
  <2>1. \A n \in 0 .. c : n \in G
    BY <1>1, <1>7, <1>8, UpTo
  <2> QED
    BY SMT, <1>1, <2>1
<1>10. upto(c) = [docs |-> [k \in Key |-> IF k \in keys THEN docs[k] ELSE Absent], queue |-> <<>>]
  <2>1. some(c) = keys
    BY <1>3
  <2> HIDE DEF some
  <2> QED
    BY <2>1
<1> HIDE DEF upto
<1>11. Replay(fs) = upto(c)
  BY <1>5, <1>9, PrefixEnds
<1>12. \A i \in 1 .. Len(fs) : fs[i].pend = None
  BY SMT, <1>4, <1>5 DEF Put
<1> QED
  BY <1>5, <1>6, <1>10, <1>11, <1>12

\* The frames compaction writes for the queue put the queue back.
LEMMA ReplayPends ==
    ASSUME NEW a \in Seq(Frame), NEW q, QueueOK(q),
           Replay(a) \in State, Replay(a).queue = <<>>
    PROVE  /\ PendFrames(q) \in Seq(Frame)
           /\ Replay(a \o PendFrames(q)) = [docs |-> Replay(a).docs, queue |-> q]
           /\ \A i \in 1 .. Len(PendFrames(q)) : PendFrames(q)[i].pend \in Range(q)
<1> DEFINE fs == PendFrames(q)
           upto(n) == [docs |-> Replay(a).docs, queue |-> SubSeq(q, 1, n)]
           G == {n \in Nat : Replay(a \o SubSeq(fs, 1, n)) = upto(n)}
<1>1. q \in Seq(Effect) /\ Len(q) <= MaxPending /\ Len(q) \in Nat
      /\ \A i, j \in 1 .. Len(q) : q[i] = q[j] => i = j
  BY SMT DEF QueueOK
<1>2. \A i \in 1 .. Len(q) : q[i] \in Effect /\ Pend(q[i]) \in Frame
  BY SMT, <1>1, PendFrame
<1>3. fs = [i \in 1 .. Len(q) |-> Pend(q[i])]
  BY DEF PendFrames
<1>4. fs \in Seq(Frame) /\ Len(fs) = Len(q)
  BY SMT, <1>1, <1>2, <1>3
<1> HIDE DEF fs
<1>5. 0 \in G
  <2>1. upto(0) = Replay(a)
    BY <1>1, PrefixEnds DEF State
  <2>2. a \o SubSeq(fs, 1, 0) = a
    BY <1>4, PrefixEnds
  <2> HIDE DEF upto
  <2> QED
    BY <2>1, <2>2
<1>6. ASSUME NEW n \in 0 .. Len(q) - 1, n \in G
      PROVE  n + 1 \in G
  <2> DEFINE s == SubSeq(fs, 1, n)
             f == fs[n + 1]
             e == q[n + 1]
  <2>1. s \in Seq(Frame) /\ f \in Frame /\ SubSeq(fs, 1, n + 1) = Append(s, f)
    BY <1>4, PrefixStep
  <2>2. a \o SubSeq(fs, 1, n + 1) = Append(a \o s, f) /\ a \o s \in Seq(Frame)
    BY SMT, <2>1, ConcatStep
  <2>3. n + 1 \in 1 .. Len(q) /\ n + 1 \in Nat /\ n \in Nat
    BY SMT, <1>1
  <2>4. f = Pend(e) /\ e \in Effect
    BY <1>2, <1>3, <2>3
  <2>5. SubSeq(q, 1, n) \in Seq(Effect) /\ Len(SubSeq(q, 1, n)) = n
        /\ SubSeq(q, 1, n + 1) = Append(SubSeq(q, 1, n), e)
        /\ \A i \in 1 .. n : SubSeq(q, 1, n)[i] = q[i]
    BY SMT, <1>1, <2>3
  <2>6. upto(n) \in State
    BY <2>5 DEF State
  <2>7. e \notin Range(SubSeq(q, 1, n))
    BY SMT, <1>1, <2>3, <2>5 DEF Range
  <2>8. Replay(Append(a \o s, f)) = Replays(upto(n), f)
    <3>1. Replay(a \o s) = upto(n)
      BY <1>6
    <3> HIDE DEF s, upto
    <3>2. Replay(Append(a \o s, f)) = Replays(Replay(a \o s), f)
      BY <2>1, <2>2, ReplayGoesOn
    <3> QED
      BY <3>1, <3>2
  <2>9. AuditTransitionOK(upto(n).queue, f)
    <3>1. Len(SubSeq(q, 1, n)) < MaxPending
      BY SMT, <1>1, <2>3, <2>5, Constants
    <3>2. f.ack = None /\ f.pend = e
      BY <2>4, PendFrame
    <3> QED
      BY <2>7, <3>1, <3>2 DEF AuditTransitionOK
  <2>10. Apply(upto(n), f) = [docs |-> upto(n).docs, queue |-> Append(upto(n).queue, e)]
    BY <2>4, <2>6, PendFrame
  <2>11. Apply(upto(n), f) = upto(n + 1)
    BY <2>5, <2>10
  <2> HIDE DEF upto
  <2>12. Replays(upto(n), f) = upto(n + 1)
    BY <2>6, <2>9, <2>11, Constants DEF Replays
  <2> QED
    BY <2>2, <2>3, <2>8, <2>12
<1>7. Len(q) \in G
  <2> HIDE DEF G
  <2>1. \A n \in 0 .. Len(q) : n \in G
    BY <1>1, <1>5, <1>6, UpTo
  <2> QED
    BY SMT, <1>1, <2>1
<1>8. SubSeq(q, 1, Len(q)) = q /\ SubSeq(fs, 1, Len(q)) = fs
  BY <1>1, <1>4, PrefixEnds
<1>9. \A i \in 1 .. Len(fs) : fs[i].pend \in Range(q)
  <2> TAKE i \in 1 .. Len(fs)
  <2>1. i \in 1 .. Len(q) /\ fs[i] = Pend(q[i]) /\ q[i] \in Effect
    BY <1>2, <1>3, <1>4
  <2>2. fs[i].pend = q[i]
    BY <2>1, PendFrame
  <2> QED
    BY SMT, <1>1, <2>1, <2>2 DEF Range
<1> QED
  BY <1>4, <1>7, <1>8, <1>9 DEF fs

\* The staged journal starts as the vectors and the queue of the snapshot.
LEMMA SnapshotJournal ==
    ASSUME NEW s \in State, QueueOK(s.queue)
    PROVE  /\ StartOf(s) \in Seq(Frame)
           /\ Replay(StartOf(s)) = [docs |-> [k \in Key |-> IF k \in Vector THEN s.docs[k] ELSE Absent],
                                    queue |-> s.queue]
           /\ \A i \in 1 .. Len(StartOf(s)) :
                 StartOf(s)[i].pend = None \/ StartOf(s)[i].pend \in Range(s.queue)
<1> DEFINE keys == {k \in Vector : s.docs[k] # Absent}
           a == PutFrames(s.docs, keys)
           b == PendFrames(s.queue)
<1>1. s.docs \in [Key -> Value] /\ s.queue \in Seq(Effect)
  BY DEF State
<1>2. keys \in SUBSET Key /\ IsFiniteSet(keys)
  <2>1. IsFiniteSet(Vector)
    BY StoreAssumption
  <2> QED
    BY <2>1, FS_Subset DEF Key
<1>3. \A k \in Key : k \notin keys /\ k \in Vector => s.docs[k] = Absent
  OBVIOUS
<1>4. keys \subseteq Vector
  OBVIOUS
<1> HIDE DEF keys
<1>5. /\ a \in Seq(Frame) /\ \A i \in 1 .. Len(a) : a[i].pend = None
      /\ Replay(a) = [docs |-> [k \in Key |-> IF k \in keys THEN s.docs[k] ELSE Absent], queue |-> <<>>]
  BY <1>1, <1>2, ReplayPuts
<1>6. [k \in Key |-> IF k \in keys THEN s.docs[k] ELSE Absent] =
      [k \in Key |-> IF k \in Vector THEN s.docs[k] ELSE Absent]
  BY <1>3, <1>4
<1>7. Replay(a) \in State /\ Replay(a).queue = <<>>
  <2>1. [k \in Key |-> IF k \in keys THEN s.docs[k] ELSE Absent] \in [Key -> Value]
    BY <1>1 DEF Value
  <2>2. <<>> \in Seq(Effect)
    BY SMT
  <2> QED
    BY SMT, <1>5, <2>1, <2>2 DEF State
<1> HIDE DEF a
<1>8. /\ b \in Seq(Frame) /\ \A i \in 1 .. Len(b) : b[i].pend \in Range(s.queue)
      /\ Replay(a \o b) = [docs |-> Replay(a).docs, queue |-> s.queue]
  BY <1>5, <1>7, ReplayPends
<1> HIDE DEF b
<1>9. Replay(a \o b) = [docs |-> [k \in Key |-> IF k \in Vector THEN s.docs[k] ELSE Absent],
                        queue |-> s.queue]
  BY SMT, <1>5, <1>6, <1>8
<1>10. a \o b \in Seq(Frame) /\ \A i \in 1 .. Len(a \o b) :
          (a \o b)[i].pend = None \/ (a \o b)[i].pend \in Range(s.queue)
  <2>1. a \o b \in Seq(Frame) /\ Len(a \o b) = Len(a) + Len(b) /\ Len(a) \in Nat /\ Len(b) \in Nat
    BY SMT, <1>5, <1>8
  <2>2. ASSUME NEW i \in 1 .. Len(a \o b)
        PROVE  (a \o b)[i].pend = None \/ (a \o b)[i].pend \in Range(s.queue)
    <3>1. CASE i \in 1 .. Len(a)
      <4>1. (a \o b)[i] = a[i]
        BY SMT, <1>5, <1>8, <3>1
      <4> QED
        BY <1>5, <3>1, <4>1
    <3>2. CASE i \notin 1 .. Len(a)
      <4> DEFINE j == i - Len(a)
      <4>1. j \in 1 .. Len(b) /\ (a \o b)[i] = b[j]
        BY SMT, <1>5, <1>8, <2>1, <3>2
      <4> HIDE DEF j
      <4> QED
        BY <1>8, <4>1
    <3> QED
      BY <3>1, <3>2
  <2> QED
    BY <2>1, <2>2
<1> QED
  BY <1>9, <1>10 DEF a, b, keys, StartOf

-----------------------------------------------------------------------------
(* The laws.                                                               *)

\* Every set of threads is finite, and counted as finite sets are.
LEMMA ThreadsCounted == CountLaw
<1>1. IsFiniteSet(Thread)
  <2>1. IsFiniteSet(Writer)
    BY StoreAssumption
  <2>2. IsFiniteSet(Writer \cup {Compactor})
    BY <2>1, FS_AddElement
  <2>3. IsFiniteSet((Writer \cup {Compactor}) \cup {Opener})
    BY <2>2, FS_AddElement
  <2>4. Thread = (Writer \cup {Compactor}) \cup {Opener}
    BY DEF Thread
  <2> QED
    BY <2>3, <2>4
<1>2. Cardinality({}) = 0
  BY FS_EmptySet
<1>3. ASSUME NEW S \in SUBSET Thread
      PROVE  /\ Cardinality(S) \in Nat /\ (S # {} => Cardinality(S) >= 1)
             /\ \A R \in SUBSET S : Cardinality(R) <= Cardinality(S)
             /\ \A t \in Thread : Cardinality(S \cup {t}) <= Cardinality(S) + 1
             /\ \A t \in S : Cardinality(S \ {t}) = Cardinality(S) - 1
  <2>1. IsFiniteSet(S)
    BY <1>1, FS_Subset
  <2>2. Cardinality(S) \in Nat /\ (S # {} => Cardinality(S) # 0)
    BY <2>1, FS_CardinalityType, FS_EmptySet
  <2>3. \A R \in SUBSET S : Cardinality(R) <= Cardinality(S)
    BY <2>1, FS_Subset
  <2>4. \A t \in Thread : Cardinality(S \cup {t}) <= Cardinality(S) + 1
    <3> TAKE t \in Thread
    <3>1. Cardinality(S \cup {t}) = IF t \in S THEN Cardinality(S) ELSE Cardinality(S) + 1
      BY <2>1, FS_AddElement
    <3> QED
      BY SMT, <2>2, <3>1
  <2>5. \A t \in S : Cardinality(S \ {t}) = Cardinality(S) - 1
    <3> TAKE t \in S
    <3>1. t \in S
      OBVIOUS
    <3> QED
      BY <2>1, <3>1, FS_RemoveElement
  <2> QED
    BY SMT, <2>2, <2>3, <2>4, <2>5
<1> QED
  BY <1>2, <1>3 DEF CountLaw

\* The laws that the steps of the engine were proved from.
LEMMA LawsHold == Laws
<1>1. ReplayStepLaw
  BY ReplayGoesOn DEF ReplayStepLaw
<1>2. ReplayOKLaw
  BY ReplayGivesState DEF ReplayOKLaw
<1>3. RefusedLaw
  BY RefusedStays DEF RefusedLaw
<1>4. SameTailLaw
  <2> SUFFICES ASSUME NEW a \in Seq(Frame), NEW b \in Seq(Frame), NEW t \in Seq(Frame),
                      Replay(b) # Refused, Replay(a).queue = Replay(b).queue, Replay(a \o t) # Refused
               PROVE  /\ Replay(b \o t) # Refused /\ Replay(a \o t).queue = Replay(b \o t).queue
                      /\ \A k \in Key :
                            IF Writes(t, k) THEN Replay(a \o t).docs[k] = Replay(b \o t).docs[k]
                            ELSE /\ Replay(a \o t).docs[k] = Replay(a).docs[k]
                                 /\ Replay(b \o t).docs[k] = Replay(b).docs[k]
    BY DEF SameTailLaw
  <2> QED
    BY SMT, SameTail
<1>5. SnapshotLaw
  BY SnapshotJournal DEF SnapshotLaw
<1>6. LastLaw
  BY GreatestNatural DEF LastLaw
<1> QED
  BY <1>1, <1>2, <1>3, <1>4, <1>5, <1>6, ThreadsCounted DEF Laws

-----------------------------------------------------------------------------
(* The theorems.  SyncCoversRename is what they need of the file system: the sync  *)
(* of a commit in the new generation also makes the rename of CURRENT durable.     *)

\* The inductive invariant holds in every reachable state of every instance.
THEOREM InvAlways ==
    ASSUME SyncCoversRename
    PROVE  Spec => []StoreInv
<1>1. Init => StoreInv
  BY InitStep, LawsHold
<1>2. StoreInv /\ [Next]_vars => StoreInv'
  BY InvStep, LawsHold
<1> QED
  BY <1>1, <1>2, PTL DEF Spec

\* Append is the commit point: whichever generation CURRENT names after a crash or power
\* loss, it was not removed and replays to exactly the committed writes.
THEOREM CommittedSurvivesAlways ==
    ASSUME SyncCoversRename
    PROVE  Spec => []CommittedSurvives
<1>1. StoreInv => CommittedSurvives
  BY InvParts DEF CommittedSurvives, GenerationsOK, JournalOK
<1> QED
  BY <1>1, InvAlways, PTL

\* Between two leases the live documents and audit queue are the ones a reopen would
\* build from the journal being appended to.
THEOREM LiveMatchesJournalAlways ==
    ASSUME SyncCoversRename
    PROVE  Spec => []LiveMatchesJournal
<1>1. ASSUME StoreInv, Running, lease = Free
      PROVE  LET r == Replay(log[arena])
             IN  live = r \/ (orphan /\ (live.docs = r.docs \/ r = Refused))
  <2>1. LiveOK /\ GenerationsOK /\ LeaseOK /\ JournalOK(current.seen)
    BY <1>1, InvParts
  <2>2. View = live
    BY <1>1 DEF View
  <2>3. arena = current.seen
    BY <1>1, <2>1, Threads DEF GenerationsOK, LeaseOK, Staged
  <2> QED
    BY <1>1, <2>1, <2>2, <2>3 DEF LiveOK, JournalOK
<1>2. StoreInv => LiveMatchesJournal
  BY <1>1 DEF LiveMatchesJournal
<1> QED
  BY <1>2, InvAlways, PTL
=============================================================================
