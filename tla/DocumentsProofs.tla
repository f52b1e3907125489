-------------------------- MODULE DocumentsProofs --------------------------
(***************************************************************************)
(* ReplayMatchesLive, NoStaleVector and PlansAreCurrent for any documents, *)
(* texts and writers and for journals of any length.                       *)
(*                                                                         *)
(* The invariant DocInv follows a replay of the journal beside the live    *)
(* store: between commits both show the same; within one, the live store   *)
(* is where the replay is after as many mutations of the last frame; and   *)
(* the generation a compaction stages will, with the frames since its      *)
(* snapshot, show what the journal it replaces shows.                      *)
(***************************************************************************)
EXTENDS DocumentsSteps

USE Zenon

-----------------------------------------------------------------------------
(* The invariant holds initially, and every step keeps it.                 *)

\* A store just opened, whether new or on a checkpoint.
LEMMA InitDocInv == DocumentsInit => DocInv
<1> SUFFICES ASSUME DocumentsInit
             PROVE  DocInv
  OBVIOUS
<1> USE DEF NoWriter
<1>1. PICK image \in {NoDocuments} \cup Images :
         /\ journal = [image |-> image, served |-> image # NoDocuments, frames |-> <<>>]
         /\ live = ServedFrom(image, image # NoDocuments)
  BY DEF DocumentsInit
<1> DEFINE served == image # NoDocuments
           none == <<>>
<1>2. /\ writing = [w \in DocWriters |-> AtRest] /\ owner = NoDoc /\ encoding = {}
      /\ compaction = AtRest /\ revision = 0
  BY DEF DocumentsInit
<1>3. image \in Image
  BY RunTypes, DocumentsAssumption DEF Image
<1>4. served \in BOOLEAN /\ (~served => image = NoDocuments)
  OBVIOUS
<1>5. none \in Seq(Seq(Mutations)) /\ Len(none) = 0
  BY SMT
<1> HIDE DEF served, none
<1>6. journal = [image |-> image, served |-> served, frames |-> none] /\ live = ServedFrom(image, served)
  BY <1>1 DEF served, none
<1>7. IsGeneration(journal) /\ journal.image = image /\ journal.served = served /\ Len(journal.frames) = 0
  BY <1>3, <1>4, <1>5, <1>6 DEF IsGeneration, Generation
<1>8. Fit(live, NoDocuments)
  BY <1>3, <1>4, <1>6, StartFits
<1>9. Pending = NoDocuments
  BY <1>2 DEF Pending
<1>10. DocTypeOK
  <2>1. live \in Engine
    BY <1>8 DEF Fit, Sound
  <2>2. writing \in [DocWriters -> Job \cup {AtRest}]
    BY <1>2
  <2>3. revision \in Nat
    BY SMT, <1>2
  <2> QED
    BY <1>2, <1>7, <2>1, <2>2, <2>3 DEF DocTypeOK
<1>11. \A w \in DocWriters : writing[w] = AtRest /\ owner # w /\ writing[w].stage = "idle"
  <2>1. AtRest.stage = "idle"
    BY SMT DEF AtRest
  <2> QED
    BY <1>2, <2>1, NoDocIsNone
<1>12. GateOK
  BY <1>11 DEF GateOK, InGate
<1>13. PlansOK
  BY <1>11 DEF PlansOK, Planned
<1>14. InStep
  <2>1. Opened(journal)[0] = ServedFrom(journal.image, journal.served)
    BY <1>7, OpenedRun
  <2> QED
    BY <1>2, <1>6, <1>7, <2>1 DEF InStep, Same
<1>15. StagedOK
  BY <1>2 DEF StagedOK
<1> QED
  BY <1>8, <1>9, <1>10, <1>12, <1>13, <1>14, <1>15 DEF DocInv

\* The compaction under way still makes up the store: the frames before its snapshot
\* are the same, and the text of a document still to copy has not moved unless a frame
\* since then decides the document.
LEMMA StagedCarries ==
    ASSUME StagedOK, compaction' = compaction,
           Len(journal.frames) \in Nat, Len(journal'.frames) \in Nat,
           Len(journal.frames) <= Len(journal'.frames),
           \A i \in 1 .. Len(journal.frames) : journal'.frames[i] = journal.frames[i],
           \A i \in 0 .. Len(journal.frames) : Opened(journal')[i] = Opened(journal)[i],
           ~live.served => ~live'.served,
           owner' = NoWriter \/ owner # NoWriter \/ Len(journal.frames) < Len(journal'.frames),
           compaction # AtRest =>
              \A d \in DocIds : live.own[d] # NoDoc =>
                 \/ Decided(d)'
                 \/ live'.own[d] # NoDoc /\ live'.own[d].at = live.own[d].at
    PROVE  StagedOK'
<1> SUFFICES ASSUME compaction # AtRest
             PROVE  StagedOK'
  BY DEF StagedOK
<1> DEFINE then == Opened(journal)[compaction.cursor]
           now == Opened(StagedGeneration)[Len(compaction.staged)]
<1>1. /\ ~live.served
      /\ IsGeneration(StagedGeneration)
      /\ compaction.cursor \in 0 .. Len(journal.frames)
      /\ owner # NoWriter => compaction.cursor < Len(journal.frames)
      /\ then.other = now.other
      /\ \A x, y \in compaction.todo : x[1] = y[1] => x = y
      /\ \A d \in DocIds : Decided(d) \/ Kept(d, compaction.todo, live.own, then, now)
  BY DEF StagedOK
<1>2. StagedGeneration' = StagedGeneration
  BY DEF StagedGeneration
<1>3. then' = then
  BY <1>1
<1>4. now' = now
  BY <1>2
<1>5. compaction.cursor' = compaction.cursor /\ compaction.todo' = compaction.todo
  OBVIOUS
<1>6. compaction.cursor \in 0 .. Len(journal'.frames)
  BY SMT, <1>1
<1>7. owner' # NoWriter => compaction.cursor < Len(journal'.frames)
  <2>1. CASE owner # NoWriter
    <3>1. compaction.cursor < Len(journal.frames)
      BY <1>1, <2>1
    <3> QED
      BY SMT, <1>1, <3>1
  <2>2. CASE Len(journal.frames) < Len(journal'.frames)
    BY SMT, <1>1, <2>2
  <2> QED
    BY <2>1, <2>2
<1>8. ASSUME NEW d \in DocIds, Decided(d)
      PROVE  Decided(d)'
  <2>1. PICK i \in compaction.cursor + 1 .. Len(journal.frames) : Decides(journal.frames[i], d)
    BY <1>8 DEF Decided
  <2>2. i \in 1 .. Len(journal.frames) /\ i \in compaction.cursor + 1 .. Len(journal'.frames)
    BY SMT, <1>1
  <2>3. Decides(journal'.frames[i], d)
    BY <2>1, <2>2
  <2> QED
    BY <1>5, <2>2, <2>3 DEF Decided
<1> HIDE DEF then, now
<1>9. ASSUME NEW d \in DocIds
      PROVE  Decided(d)' \/ Kept(d, compaction.todo, live'.own, then, now)
  <2>1. CASE Decided(d)
    BY <1>8, <2>1
  <2>2. CASE Kept(d, compaction.todo, live.own, then, now)
    <3>1. live.own[d] # NoDoc =>
             \/ Decided(d)'
             \/ live'.own[d] # NoDoc /\ live'.own[d].at = live.own[d].at
      OBVIOUS
    <3> QED
      BY <2>2, <3>1 DEF Kept
  <2> QED
    BY <1>1, <2>1, <2>2
<1>10. /\ compaction.cursor' \in 0 .. Len(journal'.frames)
       /\ owner' # NoWriter => compaction.cursor' < Len(journal'.frames)
       /\ (then.other)' = (now.other)'
       /\ \A x, y \in compaction.todo' : x[1] = y[1] => x = y
       /\ ~live'.served /\ IsGeneration(StagedGeneration)'
       /\ \A d \in DocIds : Decided(d)' \/ Kept(d, compaction.todo', live'.own, then', now')
  BY <1>1, <1>2, <1>3, <1>4, <1>5, <1>6, <1>7, <1>9
<1> QED
  BY <1>10 DEF StagedOK, then, now

\* Nothing the compaction depends on changes.
LEMMA StagedSame ==
    ASSUME StagedOK, UNCHANGED <<live, journal, owner, compaction>>
    PROVE  StagedOK'
  BY DEF StagedOK, StagedGeneration, Decided

\* Nothing the replay depends on changes.
LEMMA InStepSame ==
    ASSUME InStep, UNCHANGED <<live, journal, owner>>, owner # NoWriter => writing'[owner] = writing[owner]
    PROVE  InStep' /\ Pending' = Pending
<1>1. CASE owner = NoWriter
  BY <1>1 DEF InStep, Pending
<1>2. CASE owner # NoWriter
  <2> DEFINE job == writing[owner]
             a(j) == Applied(Opened(journal)[Len(journal.frames) - 1],
                             journal.frames[Len(journal.frames)])[j.next - 1]
  <2>1. Pending' = Pending /\ Pending = job.pend
    BY <1>2 DEF Pending
  <2>2. Same(live, Pending, a(job).s, a(job).pend)
    BY <1>2 DEF InStep
  <2>3. writing'[owner] = job /\ owner' = owner
    BY <1>2
  <2>4. Same(live', Pending', a(writing'[owner']).s, a(writing'[owner']).pend)
    BY <2>1, <2>2, <2>3
  <2>5. InStep'
    BY <1>2, <2>4 DEF InStep
  <2> QED
    BY <2>1, <2>5
<1> QED
  BY <1>1, <1>2

\* What is known of the variables.
LEMMA Typed ==
    ASSUME DocInv
    PROVE  /\ live \in Engine /\ IsGeneration(journal)
           /\ writing \in [DocWriters -> Job \cup {AtRest}]
           /\ owner # NoWriter => owner \in DocWriters
           /\ \A w \in DocWriters : w # NoWriter
           /\ encoding \subseteq DocIds \X Texts
           /\ compaction \in Copying \cup {AtRest}
           /\ revision \in Nat
           /\ Len(journal.frames) \in Nat
<1>1. DocTypeOK
  BY DEF DocInv
<1>2. \A w \in DocWriters : w # NoWriter
  BY NoDocIsNone DEF NoWriter
<1>3. IsGeneration(journal)
  BY <1>1 DEF DocTypeOK
<1>4. Len(journal.frames) \in Nat
  BY <1>3, OpenedRun
<1> QED
  BY <1>1, <1>2, <1>4 DEF DocTypeOK

\* A batch is prepared.
LEMMA PrepareStep ==
    ASSUME DocInv, NEW w \in DocWriters, NEW batch \in Seq(Mutations), NEW planned \in BOOLEAN,
           Prepare(w, batch, planned), encoding' \subseteq DocIds \X Texts
    PROVE  DocInv'
<1> DEFINE P == IF planned THEN <<revision, View(live)>> ELSE <<>>
           q == Prepared(live, batch)
           job == [stage |-> "prepared", batch |-> batch, previous |-> q, next |-> 1,
                   pend |-> NoDocuments, plan |-> P]
<1>1. /\ writing[w].stage = "idle" /\ (planned => owner = NoWriter)
      /\ writing' = [writing EXCEPT ![w] = job]
      /\ UNCHANGED <<live, journal, owner, compaction, revision>>
  BY DEF Prepare
<1>2. /\ live \in Engine /\ IsGeneration(journal) /\ writing \in [DocWriters -> Job \cup {AtRest}]
      /\ owner # NoWriter => owner \in DocWriters
      /\ revision \in Nat
  BY Typed
<1>3. q \in Seq(Stored)
  <2>1. \A i \in DOMAIN batch : batch[i] \in Mutations
    BY SMT
  <2>2. live.own \in [DocIds -> Stored] /\ NoDoc \in Stored
    BY <1>2, EngineFields DEF Stored
  <2>3. q \in [DOMAIN batch -> Stored]
    BY <2>1, <2>2, MutationFields DEF Prepared
  <2>4. Len(batch) \in Nat /\ DOMAIN batch = 1 .. Len(batch)
    BY SMT
  <2> HIDE DEF q
  <2> QED
    BY SMT, <2>3, <2>4
<1>4. P \in {<<>>} \cup (Nat \X View1) /\ (P # <<>> => planned /\ P[1] = revision /\ P[2] = View(live))
  <2> DEFINE v == View(live)
  <2>1. v \in View1
    BY <1>2, ViewIs
  <2> HIDE DEF v
  <2>2. <<revision, v>> \in Nat \X View1 /\ <<revision, v>>[1] = revision /\ <<revision, v>>[2] = v
    BY SMT, <1>2, <2>1
  <2> QED
    BY <2>2 DEF v
<1> HIDE DEF P, q
<1>5. job \in Job
  <2>1. 1 \in Nat
    BY SMT
  <2> QED
    BY <1>3, <1>4, <2>1, RunTypes DEF Job
<1>6. /\ job.stage = "prepared" /\ job.next = 1 /\ job.pend = NoDocuments /\ job.plan = P
      /\ job.stage # "idle" /\ job.stage # "applying"
  BY SMT
<1> HIDE DEF job
<1>7. /\ writing' \in [DocWriters -> Job \cup {AtRest}] /\ writing'[w] = job
      /\ \A v \in DocWriters \ {w} : writing'[v] = writing[v]
  BY <1>1, <1>2, <1>5
<1>8. GateOK /\ PlansOK /\ InStep /\ StagedOK /\ Fit(live, Pending)
  BY DEF DocInv
<1>9. owner # w
  <2>1. "idle" # "applying"
    OBVIOUS
  <2> QED
    BY <1>1, <1>8, <2>1 DEF GateOK
<1>10. InStep' /\ Pending' = Pending
  BY <1>1, <1>2, <1>7, <1>8, <1>9, InStepSame
<1>11. StagedOK'
  BY <1>1, <1>8, StagedSame
<1>12. GateOK'
  <2> SUFFICES ASSUME NEW v \in DocWriters
               PROVE  /\ writing'[v].stage = "applying" <=> owner' = v
                      /\ InGate(writing'[v], journal'.frames)
    BY DEF GateOK
  <2>1. CASE v = w
    BY <1>1, <1>6, <1>7, <1>9, <2>1 DEF InGate
  <2>2. CASE v # w
    BY <1>1, <1>7, <1>8, <2>2 DEF GateOK
  <2> QED
    BY <2>1, <2>2
<1>13. PlansOK'
  <2> SUFFICES ASSUME NEW v \in DocWriters
               PROVE  Planned(v, writing[v])'
    BY DEF PlansOK
  <2>1. CASE v = w
    <3>1. revision <= revision
      BY SMT, <1>2
    <3>2. writing'[v].plan = P
      BY <1>6, <1>7, <2>1
    <3>3. View(live') = View(live)
      BY <1>1
    <3> QED
      BY <1>1, <1>4, <1>9, <2>1, <3>1, <3>2, <3>3 DEF Planned
  <2>2. CASE v # w
    BY <1>1, <1>7, <1>8, <2>2 DEF PlansOK, Planned
  <2> QED
    BY <2>1, <2>2
<1>14. DocTypeOK'
  BY <1>1, <1>7, Typed, DocInv DEF DocInv, DocTypeOK
<1>15. Fit(live, Pending)'
  BY <1>1, <1>8, <1>10
<1> QED
  BY <1>10, <1>11, <1>12, <1>13, <1>14, <1>15 DEF DocInv

\* A batch is begun.
LEMMA BeginStep ==
    ASSUME DocInv, NEW w \in DocWriters, BeginWrite(w) \/ BeginEncode(w)
    PROVE  DocInv'
<1>1. encoding \subseteq DocIds \X Texts
  BY Typed
<1>2. CASE BeginWrite(w)
  <2>1. PICK batch \in Batches, planned \in BOOLEAN : Prepare(w, batch, planned)
    BY <1>2 DEF BeginWrite
  <2>2. batch \in Seq(Mutations)
    BY DocumentsAssumption
  <2>3. encoding' \subseteq DocIds \X Texts
    BY <1>1, <1>2 DEF BeginWrite
  <2> QED
    BY <2>1, <2>2, <2>3, PrepareStep
<1>3. CASE BeginEncode(w)
  <2>1. PICK job \in encoding :
           /\ Prepare(w, <<[op |-> "encode", id |-> job[1], text |-> job[2]]>>, FALSE)
           /\ encoding' = encoding \ {job}
    BY <1>3 DEF BeginEncode
  <2> DEFINE m == [op |-> "encode", id |-> job[1], text |-> job[2]]
             no == FALSE
  <2>2. job[1] \in DocIds /\ job[2] \in Texts
    BY <1>1
  <2>3. m \in Mutations
    BY <2>2 DEF Mutations
  <2> HIDE DEF m
  <2>4. <<m>> \in Seq(Mutations)
    BY SMT, <2>3
  <2>5. Prepare(w, <<m>>, no) /\ no \in BOOLEAN
    BY <2>1 DEF m
  <2> HIDE DEF no
  <2>6. encoding' \subseteq DocIds \X Texts
    BY <1>1, <2>1
  <2> QED
    BY <2>4, <2>5, <2>6, PrepareStep
<1> QED
  BY <1>2, <1>3
\* A batch is turned away.
LEMMA RefuseStep ==
    ASSUME DocInv, NEW w \in DocWriters, Refuse(w)
    PROVE  DocInv'
<1>1. /\ writing[w].stage = "prepared" /\ owner = NoWriter
      /\ writing' = [writing EXCEPT ![w] = AtRest]
      /\ encoding' = {} \/ encoding' = encoding
      /\ UNCHANGED <<live, journal, owner, compaction, revision>>
  BY DEF Refuse
<1>2. /\ writing \in [DocWriters -> Job \cup {AtRest}] /\ owner # w
      /\ encoding \subseteq DocIds \X Texts
  BY <1>1, Typed
<1>3. /\ writing' \in [DocWriters -> Job \cup {AtRest}] /\ writing'[w] = AtRest
      /\ \A v \in DocWriters \ {w} : writing'[v] = writing[v]
  BY <1>1, <1>2
<1>4. DocTypeOK /\ GateOK /\ PlansOK /\ InStep /\ StagedOK /\ Fit(live, Pending)
  BY DEF DocInv
<1>5. AtRest.stage = "idle" /\ AtRest.stage # "applying" /\ AtRest.stage # "prepared"
  BY SMT DEF AtRest
<1>6. InStep' /\ Pending' = Pending
  BY <1>1, <1>4, InStepSame
<1>7. StagedOK'
  BY <1>1, <1>4, StagedSame
<1>8. GateOK'
  <2> SUFFICES ASSUME NEW v \in DocWriters
               PROVE  /\ writing'[v].stage = "applying" <=> owner' = v
                      /\ InGate(writing'[v], journal'.frames)
    BY DEF GateOK
  <2>1. CASE v = w
    BY <1>1, <1>2, <1>3, <1>5, <2>1 DEF InGate
  <2>2. CASE v # w
    BY <1>1, <1>3, <1>4, <2>2 DEF GateOK
  <2> QED
    BY <2>1, <2>2
<1>9. PlansOK'
  <2> SUFFICES ASSUME NEW v \in DocWriters
               PROVE  Planned(v, writing[v])'
    BY DEF PlansOK
  <2>1. CASE v = w
    BY <1>3, <1>5, <2>1 DEF Planned
  <2>2. CASE v # w
    BY <1>1, <1>3, <1>4, <2>2 DEF PlansOK, Planned
  <2> QED
    BY <2>1, <2>2
<1>10. DocTypeOK'
  <2>1. encoding' \subseteq DocIds \X Texts
    BY <1>1, <1>2
  <2> QED
    BY <1>1, <1>3, <1>4, <2>1 DEF DocTypeOK
<1>11. Fit(live, Pending)'
  BY <1>1, <1>4, <1>6
<1> QED
  BY <1>6, <1>7, <1>8, <1>9, <1>10, <1>11 DEF DocInv

\* A batch enters the gate and the journal.
LEMMA AppendStep ==
    ASSUME DocInv, NEW w \in DocWriters, AppendFrame(w)
    PROVE  DocInv'
<1> DEFINE job == writing[w]
           new == [job EXCEPT !.stage = "applying"]
           batch == job.batch
           n == Len(journal.frames)
<1>1. /\ job.stage = "prepared" /\ owner = NoWriter /\ Current(job.plan) /\ owner' = w
      /\ journal' = Longer(journal, batch)
      /\ writing' = [writing EXCEPT ![w].stage = "applying"]
      /\ UNCHANGED <<live, encoding, compaction, revision>>
  BY DEF AppendFrame, Longer
<1>2. /\ IsGeneration(journal) /\ writing \in [DocWriters -> Job \cup {AtRest}]
      /\ w # NoWriter /\ revision \in Nat
  BY Typed
<1>3. /\ job \in Job /\ batch \in Seq(Mutations) /\ Len(batch) \in Nat
  <2>1. job \in Job \cup {AtRest} /\ job.stage # "idle"
    BY <1>1, <1>2
  <2>2. job \in Job /\ batch \in Seq(Mutations)
    BY <2>1, JobFields
  <2> QED
    BY SMT, <2>2
<1>4. /\ new \in Job /\ new.stage = "applying" /\ new.batch = batch /\ new.next = job.next
      /\ new.pend = job.pend /\ new.plan = job.plan
  BY <1>3, JobSteps
<1>5. /\ writing' \in [DocWriters -> Job \cup {AtRest}] /\ writing'[w] = new
      /\ \A v \in DocWriters \ {w} : writing'[v] = writing[v]
  <2>1. writing' = [writing EXCEPT ![w] = new]
    BY <1>1
  <2> HIDE DEF new
  <2> QED
    BY <1>2, <1>4, <2>1
<1> HIDE DEF new
<1>6. DocTypeOK /\ GateOK /\ PlansOK /\ InStep /\ StagedOK /\ Fit(live, Pending)
  BY DEF DocInv
<1>7. job.next = 1 /\ job.pend = NoDocuments /\ Pending = NoDocuments
  BY <1>1, <1>6 DEF GateOK, InGate, Pending
<1>8. /\ IsGeneration(journal') /\ n \in Nat /\ Len(journal'.frames) = n + 1
      /\ journal'.frames[n + 1] = batch /\ journal'.frames # <<>>
      /\ \A i \in 1 .. n : journal'.frames[i] = journal.frames[i]
      /\ \A i \in 0 .. n : Opened(journal')[i] = Opened(journal)[i]
  BY <1>1, <1>2, <1>3, LongerRun
<1>9. Pending' = NoDocuments
  BY <1>1, <1>2, <1>4, <1>5, <1>7 DEF Pending
<1>10. n \in 0 .. n /\ (n + 1) - 1 = n /\ 1 - 1 = 0 /\ 1 \in 1 .. Len(batch) + 1 /\ n <= n + 1 /\ n < n + 1
  BY SMT, <1>3, <1>8
<1>11. InStep'
  <2> DEFINE s == Opened(journal)[n]
             g == Applied(s, batch)
  <2>1. Fit(s, NoDocuments)
    BY <1>2, <1>10, OpenedRun
  <2>2. Same(live, NoDocuments, s, NoDocuments)
    BY <1>1, <1>6 DEF InStep
  <2> HIDE DEF s
  <2>3. Same(g[0].s, g[0].pend, s, NoDocuments)
    BY <1>3, <2>1, FrameFits
  <2> HIDE DEF g
  <2>4. Same(live, NoDocuments, g[0].s, g[0].pend)
    BY <2>2, <2>3 DEF Same
  <2>5. s = Opened(journal')[Len(journal'.frames) - 1] /\ batch = journal'.frames[Len(journal'.frames)]
    BY <1>8, <1>10 DEF s
  <2>6. writing'[owner'].next - 1 = 0
    BY <1>1, <1>4, <1>5, <1>7, <1>10
  <2>7. g = Applied(Opened(journal')[Len(journal'.frames) - 1], journal'.frames[Len(journal'.frames)])
    BY <2>5 DEF g
  <2> QED
    BY <1>1, <1>2, <1>9, <2>4, <2>6, <2>7 DEF InStep
<1>12. StagedOK'
  <2>1. Len(journal.frames) \in Nat /\ Len(journal'.frames) \in Nat
    BY SMT, <1>8
  <2>2. Len(journal.frames) <= Len(journal'.frames) /\ Len(journal.frames) < Len(journal'.frames)
    BY <1>8, <1>10
  <2>3. /\ \A i \in 1 .. Len(journal.frames) : journal'.frames[i] = journal.frames[i]
        /\ \A i \in 0 .. Len(journal.frames) : Opened(journal')[i] = Opened(journal)[i]
    BY <1>8
  <2>4. StagedOK /\ compaction' = compaction /\ live' = live
    BY <1>1, <1>6
  <2> QED
    BY <2>1, <2>2, <2>3, <2>4, StagedCarries
<1>13. GateOK'
  <2> SUFFICES ASSUME NEW v \in DocWriters
               PROVE  /\ writing'[v].stage = "applying" <=> owner' = v
                      /\ InGate(writing'[v], journal'.frames)
    BY DEF GateOK
  <2>1. CASE v = w
    <3>1. InGate(new, journal'.frames)
      <4>1. \A d \in DocIds : NoDocuments[d] = NoDoc
        BY RunTypes
      <4>2. "applying" # "prepared"
        OBVIOUS
      <4> QED
        BY <1>4, <1>7, <1>8, <1>10, <4>1, <4>2 DEF InGate
    <3> QED
      BY <1>1, <1>4, <1>5, <2>1, <3>1
  <2>2. CASE v # w
    <3>1. writing[v].stage # "applying"
      BY <1>1, <1>6, Typed DEF GateOK
    <3>2. InGate(writing[v], journal.frames)
      BY <1>6 DEF GateOK
    <3> QED
      BY <1>1, <1>5, <2>2, <3>1, <3>2 DEF InGate
  <2> QED
    BY <2>1, <2>2
<1>14. PlansOK'
  <2> SUFFICES ASSUME NEW v \in DocWriters
               PROVE  Planned(v, writing[v])'
    BY DEF PlansOK
  <2>1. CASE v = w
    <3>1. Planned(w, job)
      BY <1>6 DEF PlansOK
    <3>2. job.stage # "idle" /\ (job.plan # <<>> => job.plan[1] = revision)
      BY <1>1 DEF Current
    <3> QED
      BY <1>1, <1>2, <1>4, <1>5, <2>1, <3>1, <3>2 DEF Planned
  <2>2. CASE v # w
    <3>1. Planned(v, writing[v])
      BY <1>6 DEF PlansOK
    <3> QED
      BY <1>1, <1>2, <1>5, <2>2, <3>1 DEF Planned
  <2> QED
    BY <2>1, <2>2
<1>15. DocTypeOK'
  BY <1>1, <1>5, <1>6, <1>8 DEF DocTypeOK
<1>16. Fit(live, Pending)'
  BY <1>1, <1>6, <1>7, <1>9
<1> QED
  BY <1>11, <1>12, <1>13, <1>14, <1>15, <1>16 DEF DocInv
\* The same mutation of stores that show the same.
LEMMA SameAfter ==
    ASSUME NEW s, NEW r, NEW t, NEW q, NEW m, NEW s2, NEW r2, NEW t2, NEW q2,
           StepOK(s, r, m, s2, r2), StepOK(t, q, m, t2, q2), Same(s, r, t, q)
    PROVE  Same(s2, r2, t2, q2)
<1>1. /\ Shown(s, r) = Shown(t, q) /\ s.other = t.other
  BY DEF Same
<1>2. /\ Fit(s2, r2) /\ s2.other = (s.other \/ m.op = "other")
      /\ \A d \in DocIds : Shown(s2, r2)[d] = FaceAfter(Shown(s, r)[d], d, m)
  BY DEF StepOK
<1>3. /\ Fit(t2, q2) /\ t2.other = (t.other \/ m.op = "other")
      /\ \A d \in DocIds : Shown(t2, q2)[d] = FaceAfter(Shown(t, q)[d], d, m)
  BY DEF StepOK
<1>4. \A d \in DocIds : Shown(s2, r2)[d] = Shown(t2, q2)[d]
  BY <1>1, <1>2, <1>3
<1>5. Shown(s2, r2) = Shown(t2, q2)
  <2>1. Shown(s2, r2) \in [DocIds -> Faces]
    BY <1>2, ShownTypes DEF Fit, Sound
  <2>2. Shown(t2, q2) \in [DocIds -> Faces]
    BY <1>3, ShownTypes DEF Fit, Sound
  <2> DEFINE f == Shown(s2, r2)
             h == Shown(t2, q2)
  <2>3. f \in [DocIds -> Faces] /\ h \in [DocIds -> Faces] /\ \A d \in DocIds : f[d] = h[d]
    BY <1>4, <2>1, <2>2
  <2> HIDE DEF f, h
  <2>4. f = h
    BY SMT, <2>3
  <2> QED
    BY <2>4 DEF f, h
<1>6. s2.other = t2.other
  BY <1>1, <1>2, <1>3
<1> QED
  BY <1>5, <1>6 DEF Same

\* A document that the batch in the gate writes is decided since the snapshot.
LEMMA BatchDecides ==
    ASSUME DocInv, NEW w \in DocWriters, writing[w].stage = "applying", compaction # AtRest,
           NEW d \in DocIds, NEW k \in DOMAIN writing[w].batch, Overwrites(writing[w].batch[k], d)
    PROVE  Decided(d)
<1>1. owner = w /\ journal.frames[Len(journal.frames)] = writing[w].batch
  BY DEF DocInv, GateOK, InGate
<1>2. /\ compaction.cursor \in 0 .. Len(journal.frames)
      /\ compaction.cursor < Len(journal.frames) /\ Len(journal.frames) \in Nat
  BY <1>1, Typed DEF DocInv, StagedOK
<1>3. Len(journal.frames) \in compaction.cursor + 1 .. Len(journal.frames)
  BY SMT, <1>2
<1>4. Decides(journal.frames[Len(journal.frames)], d)
  BY <1>1 DEF Decides
<1> QED
  BY <1>3, <1>4 DEF Decided

\* The batch in the gate, and the states its replay would go through.
LEMMA Applying ==
    ASSUME DocInv, NEW w \in DocWriters, writing[w].stage = "applying"
    PROVE  LET job == writing[w]
               n == Len(journal.frames)
               u == Opened(journal)[n - 1]
               g == Applied(u, job.batch)
           IN  /\ owner = w /\ w # NoWriter /\ Pending = job.pend /\ Fit(live, job.pend)
               /\ job \in Job /\ job.batch \in Seq(Mutations) /\ job.next \in Nat
               /\ Len(job.batch) \in Nat
               /\ job.next \in 1 .. Len(job.batch) + 1
               /\ journal.frames[n] = job.batch /\ n \in Nat
               /\ Fit(u, NoDocuments)
               /\ Opened(journal)[n] = ReplayFrame(u, job.batch)
               /\ Same(live, job.pend, g[job.next - 1].s, g[job.next - 1].pend)
<1> DEFINE job == writing[w]
           n == Len(journal.frames)
           u == Opened(journal)[n - 1]
           g == Applied(u, job.batch)
<1>1. /\ IsGeneration(journal) /\ writing \in [DocWriters -> Job \cup {AtRest}]
      /\ w # NoWriter /\ n \in Nat
  BY Typed
<1>2. GateOK /\ InStep /\ Fit(live, Pending)
  BY DEF DocInv
<1>3. /\ owner = w /\ job.next \in 1 .. Len(job.batch) + 1 /\ journal.frames # <<>>
      /\ journal.frames[n] = job.batch
  BY <1>2 DEF GateOK, InGate
<1>4. job \in Job /\ job.batch \in Seq(Mutations) /\ job.next \in Nat
  <2>1. job \in Job \cup {AtRest} /\ job.stage # "idle"
    BY <1>1
  <2> QED
    BY <2>1, JobFields
<1>5. Len(job.batch) \in Nat
  BY SMT, <1>4
<1>6. Pending = job.pend
  BY <1>1, <1>3 DEF Pending
<1>7. n \in 1 .. n /\ n - 1 \in 0 .. n
  <2>1. journal.frames \in Seq(Seq(Mutations))
    BY SMT, <1>1 DEF IsGeneration, Generation
  <2> QED
    BY SMT, <1>1, <1>3, <2>1
<1>8. /\ Fit(u, NoDocuments) /\ Opened(journal)[n] = ReplayFrame(u, journal.frames[n])
  BY <1>1, <1>7, OpenedRun
<1>9. Same(live, job.pend, g[job.next - 1].s, g[job.next - 1].pend)
  BY <1>1, <1>2, <1>3, <1>6 DEF InStep
<1> QED
  BY <1>1, <1>2, <1>3, <1>4, <1>5, <1>6, <1>8, <1>9

\* The batch in the gate goes on by one mutation.
LEMMA MutationStep ==
    ASSUME DocInv, NEW w \in DocWriters, ApplyMutation(w)
    PROVE  DocInv'
<1> DEFINE job == writing[w]
           m == job.batch[job.next]
           done == ApplyOne([s |-> live, pend |-> job.pend], m, job.previous[job.next])
           new == [job EXCEPT !.next = @ + 1, !.pend = done.pend]
           n == Len(journal.frames)
           u == Opened(journal)[n - 1]
           g == Applied(u, job.batch)
<1>1. /\ job.stage = "applying" /\ job.next <= Len(job.batch)
      /\ live' = done.s /\ writing' = [writing EXCEPT ![w] = new]
      /\ UNCHANGED <<journal, owner, encoding, compaction, revision>>
  BY DEF ApplyMutation
<1>2. /\ owner = w /\ w # NoWriter /\ Pending = job.pend /\ Fit(live, job.pend)
      /\ job \in Job /\ job.batch \in Seq(Mutations) /\ job.next \in Nat /\ Len(job.batch) \in Nat
      /\ job.next \in 1 .. Len(job.batch) + 1
      /\ journal.frames[n] = job.batch /\ n \in Nat
      /\ Fit(u, NoDocuments)
      /\ Same(live, job.pend, g[job.next - 1].s, g[job.next - 1].pend)
  BY <1>1, Applying
<1>3. DocTypeOK /\ GateOK /\ PlansOK /\ InStep /\ StagedOK
  BY DEF DocInv
<1>4. /\ job.next \in 1 .. Len(job.batch) /\ job.next \in DOMAIN job.batch /\ m \in Mutations
      /\ job.next + 1 \in 1 .. Len(job.batch) + 1 /\ (job.next + 1) - 1 = job.next /\ job.next + 1 # 1
  <2> DEFINE b == job.batch
             i == job.next
  <2>1. b \in Seq(Mutations) /\ i \in 1 .. Len(b) + 1 /\ i <= Len(b)
    BY <1>1, <1>2
  <2> HIDE DEF b, i
  <2>2. /\ i \in 1 .. Len(b) /\ i \in DOMAIN b /\ b[i] \in Mutations
        /\ i + 1 \in 1 .. Len(b) + 1 /\ (i + 1) - 1 = i /\ i + 1 # 1
    BY SMT, <2>1
  <2> QED
    BY <2>2 DEF b, i
<1>5. StepOK(live, job.pend, m, done.s, done.pend)
  <2> HIDE DEF m, job
  <2> QED
    BY <1>2, <1>4, ApplyStep
<1>6. done.pend \in Run
  BY <1>5 DEF StepOK, Fit
<1>7. /\ new \in Job /\ new.stage = job.stage /\ new.batch = job.batch /\ new.next = job.next + 1
      /\ new.pend = done.pend /\ new.plan = job.plan
  <2> HIDE DEF done
  <2> QED
    BY <1>2, <1>6, JobSteps
<1> HIDE DEF done, new
<1>8. /\ writing' \in [DocWriters -> Job \cup {AtRest}] /\ writing'[w] = new
      /\ \A v \in DocWriters \ {w} : writing'[v] = writing[v]
  <2>1. writing \in [DocWriters -> Job \cup {AtRest}]
    BY Typed
  <2> HIDE DEF job
  <2> QED
    BY <1>1, <1>7, <2>1
<1>9. Pending' = done.pend
  BY <1>1, <1>2, <1>7, <1>8 DEF Pending
<1>10. Fit(live, Pending)'
  BY <1>1, <1>5, <1>9 DEF StepOK
<1>11. InStep'
  <2>1. StepOK(g[job.next - 1].s, g[job.next - 1].pend, m, g[job.next].s, g[job.next].pend)
    BY <1>2, <1>4, AppliedRun
  <2>2. Same(done.s, done.pend, g[job.next].s, g[job.next].pend)
    <3> DEFINE a == g[job.next - 1]
               b == g[job.next]
    <3>1. /\ StepOK(live, job.pend, m, done.s, done.pend) /\ StepOK(a.s, a.pend, m, b.s, b.pend)
          /\ Same(live, job.pend, a.s, a.pend)
      BY <1>2, <1>5, <2>1
    <3> HIDE DEF m, job, a, b
    <3>2. Same(done.s, done.pend, b.s, b.pend)
      BY <3>1, SameAfter
    <3> QED
      BY <3>2 DEF b
  <2>3. writing'[owner'].next - 1 = job.next
    BY <1>1, <1>2, <1>4, <1>7, <1>8
  <2>4. g = Applied(Opened(journal')[Len(journal'.frames) - 1], journal'.frames[Len(journal'.frames)])
    BY <1>1, <1>2
  <2> HIDE DEF g
  <2> QED
    BY <1>1, <1>2, <1>9, <2>2, <2>3, <2>4 DEF InStep
<1>12. StagedOK'
  <2>1. Len(journal.frames) \in Nat /\ Len(journal'.frames) \in Nat /\ Len(journal.frames) <= Len(journal'.frames)
    BY SMT, <1>1, <1>2
  <2>2. ASSUME compaction # AtRest, NEW d \in DocIds, live.own[d] # NoDoc
        PROVE  Decided(d)' \/ (live'.own[d] # NoDoc /\ live'.own[d].at = live.own[d].at)
    <3>1. Decided(d)' <=> Decided(d)
      BY <1>1 DEF Decided
    <3>2. CASE Overwrites(m, d)
      BY <1>1, <1>4, <2>2, <3>1, <3>2, BatchDecides
    <3>3. CASE job.pend[d] # NoDoc
      <4>1. PICK k \in DOMAIN job.batch : job.batch[k].op = "document" /\ job.batch[k].id = d
        BY <1>1, <1>3, <3>3 DEF GateOK, InGate
      <4>2. Overwrites(job.batch[k], d)
        BY <4>1 DEF Overwrites
      <4> QED
        BY <1>1, <2>2, <3>1, <4>2, BatchDecides
    <3>4. CASE job.pend[d] = NoDoc /\ ~Overwrites(m, d)
      BY <1>1, <1>5, <2>2, <3>4 DEF StepOK
    <3> QED
      BY <3>2, <3>3, <3>4
  <2>3. ~live.served => ~live'.served
    BY <1>1, <1>5 DEF StepOK
  <2>4. /\ \A i \in 1 .. Len(journal.frames) : journal'.frames[i] = journal.frames[i]
        /\ \A i \in 0 .. Len(journal.frames) : Opened(journal')[i] = Opened(journal)[i]
    BY <1>1
  <2>5. StagedOK /\ compaction' = compaction /\ owner # NoWriter
    BY <1>1, <1>2, <1>3
  <2> QED
    BY <2>1, <2>2, <2>3, <2>4, <2>5, StagedCarries
<1>13. GateOK'
  <2> SUFFICES ASSUME NEW v \in DocWriters
               PROVE  /\ writing'[v].stage = "applying" <=> owner' = v
                      /\ InGate(writing'[v], journal'.frames)
    BY DEF GateOK
  <2>1. CASE v = w
    <3>1. InGate(job, journal.frames)
      BY <1>3 DEF GateOK
    <3>2. "applying" # "prepared"
      OBVIOUS
    <3>3. ASSUME NEW d \in DocIds, new.pend[d] # NoDoc
          PROVE  \E k \in DOMAIN job.batch : job.batch[k].op = "document" /\ job.batch[k].id = d
      <4>1. job.pend[d] # NoDoc \/ (m.op = "document" /\ m.id = d)
        BY <1>5, <1>7, <3>3 DEF StepOK
      <4> QED
        BY <1>1, <1>4, <3>1, <4>1 DEF InGate
    <3>4. /\ new.stage = "applying" /\ new.next \in 1 .. Len(new.batch) + 1
          /\ journal.frames # <<>> /\ journal.frames[Len(journal.frames)] = new.batch
      BY <1>1, <1>4, <1>7, <3>1 DEF InGate
    <3>5. InGate(new, journal.frames)
      BY <1>7, <3>2, <3>3, <3>4 DEF InGate
    <3> QED
      BY <1>1, <1>2, <1>7, <1>8, <2>1, <3>5
  <2>2. CASE v # w
    BY <1>1, <1>3, <1>8, <2>2 DEF GateOK
  <2> QED
    BY <2>1, <2>2
<1>14. PlansOK'
  <2> SUFFICES ASSUME NEW v \in DocWriters
               PROVE  Planned(v, writing[v])'
    BY DEF PlansOK
  <2>1. Planned(v, writing[v])
    BY <1>3 DEF PlansOK
  <2>2. CASE v = w
    <3>1. job.stage # "idle" /\ new.next # 1
      BY <1>1, <1>4, <1>7
    <3> QED
      BY <1>1, <1>2, <1>7, <1>8, <2>1, <2>2, <3>1 DEF Planned
  <2>3. CASE v # w
    BY <1>1, <1>2, <1>8, <2>1, <2>3 DEF Planned
  <2> QED
    BY <2>2, <2>3
<1>15. DocTypeOK'
  <2>1. live' \in Engine
    BY <1>10 DEF Fit, Sound
  <2> QED
    BY <1>1, <1>3, <1>8, <2>1 DEF DocTypeOK
<1> QED
  BY <1>10, <1>11, <1>12, <1>13, <1>14, <1>15 DEF DocInv
\* The commit ends.
LEMMA EndStep ==
    ASSUME DocInv, NEW w \in DocWriters, EndCommit(w)
    PROVE  DocInv'
<1> DEFINE job == writing[w]
           n == Len(journal.frames)
           u == Opened(journal)[n - 1]
           g == Applied(u, job.batch)
           done == InstallAll(live, job.pend)
<1>1. /\ job.stage = "applying" /\ job.next > Len(job.batch)
      /\ live' = done /\ revision' = revision + 1 /\ owner' = NoWriter
      /\ writing' = [writing EXCEPT ![w] = AtRest]
      /\ UNCHANGED <<journal, encoding, compaction>>
  BY DEF EndCommit
<1>2. /\ owner = w /\ w # NoWriter /\ Fit(live, job.pend)
      /\ job.batch \in Seq(Mutations) /\ job.next \in Nat /\ Len(job.batch) \in Nat
      /\ job.next \in 1 .. Len(job.batch) + 1 /\ n \in Nat
      /\ Fit(u, NoDocuments) /\ Opened(journal)[n] = ReplayFrame(u, job.batch)
      /\ Same(live, job.pend, g[job.next - 1].s, g[job.next - 1].pend)
  BY <1>1, Applying
<1>3. DocTypeOK /\ GateOK /\ PlansOK /\ InStep /\ StagedOK
  BY DEF DocInv
<1>4. job.next - 1 = Len(job.batch)
  BY SMT, <1>1, <1>2
<1>5. /\ Fit(done, NoDocuments) /\ Shown(done, NoDocuments) = Shown(live, job.pend)
      /\ done.other = live.other /\ done.served = live.served
      /\ \A d \in DocIds : job.pend[d] = NoDoc => done.own[d] = live.own[d]
  <2> HIDE DEF job
  <2> QED
    BY <1>2, InstallRun
<1> HIDE DEF done
<1>6. /\ writing' \in [DocWriters -> Job \cup {AtRest}] /\ writing'[w] = AtRest
      /\ \A v \in DocWriters \ {w} : writing'[v] = writing[v]
  <2>1. writing \in [DocWriters -> Job \cup {AtRest}]
    BY Typed
  <2> QED
    BY <1>1, <2>1
<1>7. AtRest.stage = "idle" /\ AtRest.stage # "applying" /\ AtRest.stage # "prepared"
  BY SMT DEF AtRest
<1>8. Pending' = NoDocuments
  BY <1>1 DEF Pending
<1>9. Fit(live, Pending)'
  BY <1>1, <1>5, <1>8
<1>10. InStep'
  <2>1. Same(ReplayFrame(u, job.batch), NoDocuments, g[Len(job.batch)].s, g[Len(job.batch)].pend)
    BY <1>2, FrameFits
  <2>2. Same(live, job.pend, g[Len(job.batch)].s, g[Len(job.batch)].pend)
    BY <1>2, <1>4
  <2>3. Same(done, NoDocuments, Opened(journal)[n], NoDocuments)
    <3> HIDE DEF g, u
    <3> QED
      BY <1>2, <1>5, <2>1, <2>2 DEF Same
  <2> QED
    BY <1>1, <2>3 DEF InStep
<1>11. StagedOK'
  <2>1. Len(journal.frames) \in Nat /\ Len(journal'.frames) \in Nat /\ Len(journal.frames) <= Len(journal'.frames)
    BY SMT, <1>1, <1>2
  <2>2. ASSUME compaction # AtRest, NEW d \in DocIds, live.own[d] # NoDoc
        PROVE  Decided(d)' \/ (live'.own[d] # NoDoc /\ live'.own[d].at = live.own[d].at)
    <3>1. Decided(d)' <=> Decided(d)
      BY <1>1 DEF Decided
    <3>2. CASE job.pend[d] # NoDoc
      <4>1. PICK k \in DOMAIN job.batch : job.batch[k].op = "document" /\ job.batch[k].id = d
        BY <1>1, <1>3, <3>2 DEF GateOK, InGate
      <4>2. Overwrites(job.batch[k], d)
        BY <4>1 DEF Overwrites
      <4> QED
        BY <1>1, <2>2, <3>1, <4>2, BatchDecides
    <3>3. CASE job.pend[d] = NoDoc
      BY <1>1, <1>5, <2>2, <3>3
    <3> QED
      BY <3>2, <3>3
  <2>3. ~live.served => ~live'.served
    BY <1>1, <1>5
  <2>4. /\ \A i \in 1 .. Len(journal.frames) : journal'.frames[i] = journal.frames[i]
        /\ \A i \in 0 .. Len(journal.frames) : Opened(journal')[i] = Opened(journal)[i]
    BY <1>1
  <2>5. StagedOK /\ compaction' = compaction /\ owner # NoWriter
    BY <1>1, <1>2, <1>3
  <2> QED
    BY <2>1, <2>2, <2>3, <2>4, <2>5, StagedCarries
<1>12. GateOK'
  <2> SUFFICES ASSUME NEW v \in DocWriters
               PROVE  /\ writing'[v].stage = "applying" <=> owner' = v
                      /\ InGate(writing'[v], journal'.frames)
    BY DEF GateOK
  <2>1. v # NoWriter
    BY Typed
  <2>2. CASE v = w
    BY <1>1, <1>6, <1>7, <2>1, <2>2 DEF InGate
  <2>3. CASE v # w
    <3>1. writing[v].stage # "applying" /\ InGate(writing[v], journal.frames)
      BY <1>2, <1>3, <2>3 DEF GateOK
    <3> QED
      BY <1>1, <1>6, <2>1, <2>3, <3>1
  <2> QED
    BY <2>2, <2>3
<1>13. PlansOK'
  <2> SUFFICES ASSUME NEW v \in DocWriters
               PROVE  Planned(v, writing[v])'
    BY DEF PlansOK
  <2>1. Planned(v, writing[v]) /\ v # NoWriter
    BY <1>3, Typed DEF PlansOK
  <2>2. CASE v = w
    BY <1>6, <1>7, <2>2 DEF Planned
  <2>3. CASE v # w
    <3> DEFINE p == writing[v].plan[1]
    <3>1. writing[v].stage # "idle" /\ writing[v].plan # <<>> => p \in Nat /\ p <= revision
      BY <2>1, Typed, JobFields DEF Planned
    <3>2. revision \in Nat
      BY Typed
    <3> HIDE DEF p
    <3>3. p \in Nat /\ p <= revision => p <= revision + 1 /\ p # revision + 1
      BY SMT, <3>2
    <3>4. writing[v].stage # "idle" /\ writing[v].plan # <<>> => p <= revision' /\ p # revision'
      BY <1>1, <3>1, <3>3
    <3> QED
      BY <1>1, <1>6, <2>1, <2>3, <3>4 DEF Planned, p
  <2> QED
    BY <2>2, <2>3
<1>14. DocTypeOK'
  <2>1. live' \in Engine
    BY <1>9 DEF Fit, Sound
  <2>2. revision' \in Nat
    <3>1. revision \in Nat
      BY Typed
    <3> QED
      BY SMT, <1>1, <3>1
  <2> QED
    BY <1>1, <1>3, <1>6, <2>1, <2>2 DEF DocTypeOK
<1> QED
  BY <1>9, <1>10, <1>11, <1>12, <1>13, <1>14 DEF DocInv

\* A store served from its checkpoint is rebuilt, in the middle of a batch or not.
LEMMA HydrateStep ==
    ASSUME DocInv, Hydrate
    PROVE  DocInv'
<1> DEFINE t == Hydrated(live)
<1>1. live.served /\ live' = t /\ UNCHANGED <<journal, writing, owner, encoding, compaction, revision>>
  BY DEF Hydrate
<1>2. DocTypeOK /\ GateOK /\ PlansOK /\ InStep /\ StagedOK /\ Fit(live, Pending)
  BY DEF DocInv
<1>3. /\ Fit(t, Pending) /\ t.other = live.other /\ t.shards = live.shards
      /\ Shown(t, Pending) = Shown(live, Pending)
      /\ Shown(t, NoDocuments) = Shown(live, NoDocuments)
  <2> DEFINE r == Pending
  <2>1. Fit(live, r)
    BY <1>2
  <2> HIDE DEF r
  <2>2. /\ Fit(t, r) /\ t.other = live.other /\ t.shards = live.shards
        /\ Shown(t, r) = Shown(live, r)
        /\ Shown(t, NoDocuments) = Shown(live, NoDocuments)
    BY <2>1, Hydration
  <2> QED
    BY <2>2 DEF r
<1> HIDE DEF t
<1>4. Pending' = Pending /\ (owner = NoWriter => Pending = NoDocuments)
  BY <1>1 DEF Pending
<1>5. Fit(live, Pending)'
  BY <1>1, <1>3, <1>4
<1>6. View(live') = View(live)
  <2>1. live \in Engine /\ t \in Engine
    BY <1>3, Typed DEF Fit, Sound
  <2>2. View(t) = [docs |-> Shown(t, NoDocuments), shards |-> t.shards, other |-> t.other]
    BY <2>1, ViewIs
  <2>3. View(live) = [docs |-> Shown(live, NoDocuments), shards |-> live.shards, other |-> live.other]
    BY <2>1, ViewIs
  <2>4. View(t) = View(live)
    BY <1>3, <2>2, <2>3
  <2> QED
    BY <1>1, <2>4
<1>7. InStep'
  <2>1. CASE owner = NoWriter
    <3> DEFINE s == Opened(journal)[Len(journal.frames)]
    <3>1. Same(live, NoDocuments, s, NoDocuments)
      BY <1>2, <2>1 DEF InStep
    <3>2. Same(t, NoDocuments, s, NoDocuments)
      BY <1>3, <3>1 DEF Same
    <3> QED
      BY <1>1, <2>1, <3>2 DEF InStep
  <2>2. CASE owner # NoWriter
    <3> DEFINE a == Applied(Opened(journal)[Len(journal.frames) - 1],
                            journal.frames[Len(journal.frames)])[writing[owner].next - 1]
    <3>1. Same(live, Pending, a.s, a.pend)
      BY <1>2, <2>2 DEF InStep
    <3>2. Same(t, Pending, a.s, a.pend)
      BY <1>3, <3>1 DEF Same
    <3> QED
      BY <1>1, <1>4, <2>2, <3>2 DEF InStep
  <2> QED
    BY <2>1, <2>2
<1>8. StagedOK'
  <2>1. compaction = AtRest
    BY <1>1, <1>2 DEF StagedOK
  <2> QED
    BY <1>1, <2>1 DEF StagedOK
<1>9. GateOK'
  BY <1>1, <1>2 DEF GateOK
<1>10. PlansOK'
  BY <1>1, <1>2, <1>6 DEF PlansOK, Planned
<1>11. DocTypeOK'
  <2>1. live' \in Engine
    BY <1>5 DEF Fit, Sound
  <2> QED
    BY <1>1, <1>2, <2>1 DEF DocTypeOK
<1> QED
  BY <1>5, <1>7, <1>8, <1>9, <1>10, <1>11 DEF DocInv

\* Nothing but the encoder's snapshot and the bounds changes.
LEMMA OtherStep ==
    ASSUME DocInv, UNCHANGED <<live, journal, writing, owner, compaction, revision>>,
           encoding' \subseteq DocIds \X Texts
    PROVE  DocInv'
<1>1. DocTypeOK /\ GateOK /\ PlansOK /\ InStep /\ StagedOK /\ Fit(live, Pending)
  BY DEF DocInv
<1>2. InStep' /\ Pending' = Pending
  BY <1>1, InStepSame
<1>3. StagedOK'
  BY <1>1, StagedSame
<1>4. GateOK' /\ PlansOK'
  BY <1>1 DEF GateOK, PlansOK, Planned
<1>5. DocTypeOK'
  BY <1>1 DEF DocTypeOK
<1>6. Fit(live, Pending)'
  BY <1>1, <1>2
<1> QED
  BY <1>2, <1>3, <1>4, <1>5, <1>6 DEF DocInv

\* The encoder takes its snapshot.
LEMMA SnapshotEncodeStep ==
    ASSUME DocInv, EncodeSnapshot
    PROVE  DocInv'
<1>1. /\ UNCHANGED <<live, journal, writing, owner, compaction, revision>>
      /\ encoding' = {<<d, live.own[d].text>> :
                        d \in {e \in DocIds : live.own[e] # NoDoc /\ live.own[e].mode = "pending"}}
  BY DEF EncodeSnapshot
<1>2. \A d \in DocIds : live.own[d] \in Stored
  BY Typed, EngineFields
<1>3. \A d \in DocIds : live.own[d] # NoDoc => live.own[d].text \in Texts
  BY <1>2, FaceOf
<1>4. encoding' \subseteq DocIds \X Texts
  <2> SUFFICES ASSUME NEW x \in encoding'
               PROVE  x \in DocIds \X Texts
    OBVIOUS
  <2>1. PICK d \in DocIds : live.own[d] # NoDoc /\ x = <<d, live.own[d].text>>
    BY <1>1
  <2>2. live.own[d].text \in Texts
    BY <1>3, <2>1
  <2> QED
    BY <2>1, <2>2
<1> QED
  BY <1>1, <1>4, OtherStep
-----------------------------------------------------------------------------
(* Compaction.                                                             *)

\* A frame of one mutation.
OneFrameOK(s, m, t) ==
    /\ Fit(t, NoDocuments) /\ t.other = (s.other \/ m.op = "other")
    /\ \A d \in DocIds : Shown(t, NoDocuments)[d] = FaceAfter(Shown(s, NoDocuments)[d], d, m)

\* It does what its mutation does.
LEMMA OneFrame ==
    ASSUME NEW s, Fit(s, NoDocuments), NEW m \in Mutations
    PROVE  OneFrameOK(s, m, ReplayFrame(s, <<m>>))
<1> DEFINE batch == <<m>>
           t == ReplayFrame(s, batch)
           g == Applied(s, batch)
<1>1. batch \in Seq(Mutations) /\ Len(batch) = 1 /\ batch[1] = m /\ 1 \in 1 .. 1 /\ 1 - 1 = 0
  BY SMT
<1> HIDE DEF batch
<1>2. /\ Fit(t, NoDocuments) /\ Same(t, NoDocuments, g[1].s, g[1].pend)
      /\ Same(g[0].s, g[0].pend, s, NoDocuments)
  BY <1>1, FrameFits
<1>3. \A i \in 1 .. Len(batch) : StepOK(g[i - 1].s, g[i - 1].pend, batch[i], g[i].s, g[i].pend)
  BY <1>1, AppliedRun
<1>4. StepOK(g[0].s, g[0].pend, m, g[1].s, g[1].pend)
  BY <1>1, <1>3
<1> HIDE DEF t, g
<1>5. OneFrameOK(s, m, t)
  BY <1>2, <1>4 DEF StepOK, Same, OneFrameOK
<1> QED
  BY <1>5 DEF t, batch

\* The fields of a compaction.
LEMMA CopyingFields ==
    ASSUME NEW c
    PROVE  c \in Copying <=>
              /\ c = [stage |-> "copying", served |-> c.served, image |-> c.image, todo |-> c.todo,
                      staged |-> c.staged, cursor |-> c.cursor]
              /\ c.served \in BOOLEAN /\ c.image \in Image /\ c.todo \subseteq DocIds \X Doc
              /\ c.staged \in Seq(Seq(Mutations)) /\ c.cursor \in Nat
  BY SMT DEF Copying

\* What changes is the compaction alone.
LEMMA CompactionStep ==
    ASSUME DocInv, UNCHANGED <<live, journal, writing, owner, encoding, revision>>,
           compaction' \in Copying \cup {AtRest}, StagedOK'
    PROVE  DocInv'
<1>1. DocTypeOK /\ GateOK /\ PlansOK /\ InStep /\ Fit(live, Pending)
  BY DEF DocInv
<1>2. InStep' /\ Pending' = Pending
  BY <1>1, InStepSame
<1>3. GateOK' /\ PlansOK'
  BY <1>1 DEF GateOK, PlansOK, Planned
<1>4. DocTypeOK'
  BY <1>1 DEF DocTypeOK
<1>5. Fit(live, Pending)'
  BY <1>1, <1>2
<1> QED
  BY <1>2, <1>3, <1>4, <1>5 DEF DocInv

\* The documents of the snapshot, as a checkpoint or as documents to copy.
Checkpoint(own) == [d \in DocIds |-> IF own[d] # NoDoc THEN [own[d] EXCEPT !.at = 0] ELSE NoDoc]
ToCopy(own) == {<<d, own[d]>> : d \in {e \in DocIds : own[e] # NoDoc}}

\* A checkpoint of lexical documents is one, and shows them.
LEMMA CheckpointIs ==
    ASSUME NEW own \in [DocIds -> Stored], \A d \in DocIds : own[d] # NoDoc => own[d].mode = "lexical"
    PROVE  Checkpoint(own) \in Image /\ \A d \in DocIds : Face(Checkpoint(own)[d]) = Face(own[d])
<1> DEFINE L == [text : Texts, mode : {"lexical"}, at : {0}]
<1>1. ASSUME NEW x \in Doc, x.mode = "lexical"
      PROVE  [x EXCEPT !.at = 0] \in L /\ [x EXCEPT !.at = 0].text = x.text
             /\ [x EXCEPT !.at = 0].mode = x.mode
  BY SMT, <1>1 DEF Doc
<1>2. \A x \in L : x # NoDoc
  BY NoDocIsNone
<1>3. ASSUME NEW d \in DocIds
      PROVE  /\ Checkpoint(own)[d] \in L \cup {NoDoc}
             /\ Face(Checkpoint(own)[d]) = Face(own[d])
  <2> DEFINE x == own[d]
             y == [x EXCEPT !.at = 0]
  <2>1. x \in Stored /\ Checkpoint(own)[d] = IF x # NoDoc THEN y ELSE NoDoc
    BY DEF Checkpoint
  <2>2. CASE x = NoDoc
    BY <2>1, <2>2
  <2>3. CASE x # NoDoc
    <3>1. x \in Doc /\ x.mode = "lexical"
      BY <2>1, <2>3 DEF Stored
    <3>2. y \in L /\ y.text = x.text /\ y.mode = x.mode
      BY <1>1, <3>1
    <3>3. y # NoDoc
      BY <1>2, <3>2
    <3>4. Checkpoint(own)[d] = y
      BY <2>1, <2>3
    <3> HIDE DEF y, L
    <3>5. Face(y) = Face(x)
      BY <2>3, <3>2, <3>3 DEF Face
    <3> QED
      BY <3>2, <3>4, <3>5 DEF L
  <2> QED
    BY <2>2, <2>3
<1>4. Checkpoint(own) \in [DocIds -> L \cup {NoDoc}]
  <2>1. \A d \in DocIds : Checkpoint(own)[d] \in L \cup {NoDoc}
    BY <1>3
  <2> HIDE DEF L
  <2> QED
    BY <2>1 DEF Checkpoint
<1> QED
  BY <1>3, <1>4 DEF Image

\* The snapshot of a compaction: what it stages and what it has still to copy is the store.
LEMMA SnapshotStagedOK ==
    ASSUME DocInv, CompactSnapshot
    PROVE  StagedOK' /\ compaction' \in Copying
<1> DEFINE rep == Representable(live)
           m == [op |-> "other"]
           staged == IF live.other THEN <<<<m>>>> ELSE <<>>
           image == IF rep THEN Checkpoint(live.own) ELSE NoDocuments
           todo == IF rep THEN {} ELSE ToCopy(live.own)
           n == Len(journal.frames)
           k == [image |-> image, served |-> rep, frames |-> staged]
           then == Opened(journal)[n]
           start == ServedFrom(image, rep)
           now == Opened(k)[Len(staged)]
<1>1. /\ owner = NoWriter /\ ~live.served /\ UNCHANGED <<live, journal, writing, owner>>
      /\ compaction' = [stage |-> "copying", served |-> rep, image |-> image, todo |-> todo,
                        staged |-> staged, cursor |-> n]
  BY DEF CompactSnapshot, Checkpoint, ToCopy
<1>2. live \in Engine /\ IsGeneration(journal) /\ n \in Nat
  BY Typed
<1>3. /\ Sound(live) /\ live.base = NoDocuments /\ Same(live, NoDocuments, then, NoDocuments)
  BY <1>1 DEF DocInv, Fit, Sound, InStep
<1>4. live.own \in [DocIds -> Stored] /\ live.other \in BOOLEAN
  BY <1>2, EngineFields
<1>5. /\ rep \in BOOLEAN /\ image \in Image /\ (~rep => image = NoDocuments)
      /\ (rep => \A d \in DocIds : Face(image[d]) = Face(live.own[d]))
      /\ (rep => ~live.other)
  <2>1. rep => ~live.other /\ \A d \in DocIds : live.own[d] # NoDoc => live.own[d].mode = "lexical"
    BY DEF Representable
  <2>2. rep => image \in Image /\ \A d \in DocIds : Face(image[d]) = Face(live.own[d])
    BY <1>4, <2>1, CheckpointIs
  <2> QED
    BY <2>1, <2>2, RunTypes DEF Representable
<1>6. todo \subseteq DocIds \X Doc /\ \A x, y \in todo : x[1] = y[1] => x = y
  <2>1. ASSUME NEW x \in todo
        PROVE  ~rep /\ \E d \in DocIds : live.own[d] # NoDoc /\ x = <<d, live.own[d]>>
    BY <2>1 DEF ToCopy
  <2> HIDE DEF todo
  <2>2. ASSUME NEW x \in todo
        PROVE  x \in DocIds \X Doc /\ x = <<x[1], live.own[x[1]]>>
    <3>1. PICK d \in DocIds : live.own[d] # NoDoc /\ x = <<d, live.own[d]>>
      BY <2>1
    <3>2. live.own[d] \in Doc
      BY <1>4, <3>1 DEF Stored
    <3>3. x[1] = d
      BY SMT, <3>1
    <3> QED
      BY <3>1, <3>2, <3>3
  <2>3. \A x, y \in todo : x[1] = y[1] => x = y
    <3> SUFFICES ASSUME NEW x \in todo, NEW y \in todo, x[1] = y[1]
                 PROVE  x = y
      OBVIOUS
    <3>1. x = <<x[1], live.own[x[1]]>> /\ y = <<y[1], live.own[y[1]]>>
      BY <2>2
    <3> QED
      BY <3>1
  <2> QED
    BY <2>2, <2>3
<1>7. m \in Mutations
  BY DEF Mutations
<1>8. m.op = "other"
  BY SMT
<1> HIDE DEF m
<1>9. staged \in Seq(Seq(Mutations)) /\ (~live.other => Len(staged) = 0)
      /\ (live.other => Len(staged) = 1 /\ staged[1] = <<m>>)
  BY SMT, <1>7
<1> HIDE DEF rep, image, todo, staged
<1>10. IsGeneration(k)
  <2>1. k \in Generation
    BY <1>5, <1>9 DEF Generation
  <2>2. k.served = rep /\ k.image = image
    OBVIOUS
  <2> QED
    BY <1>5, <2>1, <2>2 DEF IsGeneration
<1>11. k.image = image /\ k.served = rep /\ k.frames = staged
  OBVIOUS
<1> HIDE DEF k
<1>12. /\ Fit(start, NoDocuments) /\ \A d \in DocIds : Shown(start, NoDocuments)[d] = Face(image[d])
       /\ start.other = FALSE
  BY <1>5, StartFits
<1>13. /\ Opened(k)[0] = start
       /\ \A i \in 1 .. Len(staged) : Opened(k)[i] = ReplayFrame(Opened(k)[i - 1], staged[i])
  BY <1>10, <1>11, OpenedRun
<1> HIDE DEF start
<1>14. /\ now.other = live.other
       /\ \A d \in DocIds : Shown(now, NoDocuments)[d] = Face(image[d])
  <2>1. CASE ~live.other
    BY <1>4, <1>9, <1>12, <1>13, <2>1
  <2>2. CASE live.other
    <3>1. 1 \in 1 .. 1 /\ 1 - 1 = 0
      BY SMT
    <3>2. now = ReplayFrame(start, <<m>>)
      BY <1>9, <1>13, <2>2, <3>1
    <3>3. OneFrameOK(start, m, now)
      BY <1>7, <1>12, <3>2, OneFrame
    <3> HIDE DEF now
    <3>4. \A d \in DocIds : Shown(now, NoDocuments)[d] = Shown(start, NoDocuments)[d]
      BY <1>8, <3>3 DEF OneFrameOK, FaceAfter
    <3>5. now.other = TRUE
      BY <1>8, <3>3 DEF OneFrameOK
    <3> QED
      BY <1>4, <1>12, <2>2, <3>4, <3>5
  <2> QED
    BY <2>1, <2>2
<1> DEFINE c == compaction'
<1>15. /\ c.served = rep /\ c.image = image /\ c.todo = todo /\ c.staged = staged /\ c.cursor = n
       /\ c = [stage |-> "copying", served |-> c.served, image |-> c.image, todo |-> c.todo,
               staged |-> c.staged, cursor |-> c.cursor]
  BY <1>1
<1>16. c \in Copying
  BY <1>2, <1>5, <1>6, <1>9, <1>15, CopyingFields
<1>17. StagedGeneration' = k
  BY <1>15 DEF StagedGeneration, k
<1>18. ASSUME NEW d \in DocIds
       PROVE  Kept(d, todo, live.own, then, now)
  <2>1. NoDocuments[d] = NoDoc /\ live.own[d] \in Stored
    BY <1>4, RunTypes
  <2>2. Shown(then, NoDocuments)[d] = Face(live.own[d])
    <3>1. Shown(live, NoDocuments)[d] = Face(live.own[d])
      BY <1>3, <2>1 DEF Shown
    <3> QED
      BY <1>3, <3>1 DEF Same
  <2>3. Shown(now, NoDocuments)[d] = Face(image[d])
    BY <1>14
  <2>4. CASE rep
    BY <1>5, <2>2, <2>3, <2>4 DEF Kept, todo
  <2>5. CASE ~rep /\ live.own[d] = NoDoc
    <3>1. \A x \in todo : x[1] # d
      <4> SUFFICES ASSUME NEW x \in todo, x[1] = d
                   PROVE  FALSE
        OBVIOUS
      <4>1. PICK e \in DocIds : live.own[e] # NoDoc /\ x = <<e, live.own[e]>>
        BY <2>5 DEF todo, ToCopy
      <4>2. x[1] = e
        BY SMT, <4>1
      <4> QED
        BY <2>5, <4>1, <4>2
    <3>2. image[d] = NoDoc
      BY <1>5, <2>1, <2>5
    <3> QED
      BY <2>2, <2>3, <2>5, <3>1, <3>2 DEF Kept
  <2>6. CASE ~rep /\ live.own[d] # NoDoc
    <3> DEFINE x == <<d, live.own[d]>>
    <3>1. x \in todo
      BY <2>6 DEF todo, ToCopy
    <3>2. x[1] = d /\ x[2] = live.own[d]
      BY SMT
    <3> HIDE DEF x
    <3> QED
      BY <2>2, <2>6, <3>1, <3>2 DEF Kept
  <2> QED
    BY <2>4, <2>5, <2>6
<1>19. /\ c.cursor \in 0 .. Len(journal'.frames) /\ owner' = NoWriter
       /\ \A x, y \in c.todo : x[1] = y[1] => x = y
       /\ ~live'.served /\ IsGeneration(StagedGeneration')
  <2>1. n \in 0 .. n
    BY SMT, <1>2
  <2> QED
    BY <1>1, <1>6, <1>10, <1>15, <1>17, <2>1
<1>20. Opened(journal')[c.cursor] = then /\ Opened(StagedGeneration')[Len(c.staged)] = now
  BY <1>1, <1>15, <1>17
<1>21. then.other = now.other
  BY <1>3, <1>14 DEF Same
<1>22. \A d \in DocIds : Kept(d, c.todo, live'.own, then, now)
  BY <1>1, <1>15, <1>18
<1> HIDE DEF then, now, c
<1>23. StagedOK'
  BY <1>19, <1>20, <1>21, <1>22 DEF StagedOK, c
<1> QED
  BY <1>16, <1>23 DEF c
\* What is known of the staged generation.
LEMMA Staged ==
    ASSUME DocInv, compaction # AtRest
    PROVE  LET then == Opened(journal)[compaction.cursor]
               now == Opened(StagedGeneration)[Len(compaction.staged)]
           IN  /\ compaction \in Copying /\ IsGeneration(StagedGeneration)
               /\ StagedGeneration.image = compaction.image
               /\ StagedGeneration.served = compaction.served
               /\ StagedGeneration.frames = compaction.staged
               /\ compaction.staged \in Seq(Seq(Mutations)) /\ Len(compaction.staged) \in Nat
               /\ ~live.served
               /\ compaction.cursor \in 0 .. Len(journal.frames)
               /\ compaction.todo \subseteq DocIds \X Doc
               /\ Fit(then, NoDocuments) /\ Fit(now, NoDocuments)
               /\ then.other = now.other
               /\ \A x, y \in compaction.todo : x[1] = y[1] => x = y
               /\ \A d \in DocIds : Decided(d) \/ Kept(d, compaction.todo, live.own, then, now)
<1> DEFINE then == Opened(journal)[compaction.cursor]
           now == Opened(StagedGeneration)[Len(compaction.staged)]
<1>1. compaction \in Copying /\ IsGeneration(journal)
  BY Typed
<1>2. compaction.staged \in Seq(Seq(Mutations)) /\ compaction.todo \subseteq DocIds \X Doc
  BY <1>1, CopyingFields
<1>3. /\ ~live.served /\ IsGeneration(StagedGeneration)
      /\ compaction.cursor \in 0 .. Len(journal.frames)
      /\ then.other = now.other
      /\ \A x, y \in compaction.todo : x[1] = y[1] => x = y
      /\ \A d \in DocIds : Decided(d) \/ Kept(d, compaction.todo, live.own, then, now)
  BY DEF DocInv, StagedOK
<1>4. /\ StagedGeneration.image = compaction.image /\ StagedGeneration.served = compaction.served
      /\ StagedGeneration.frames = compaction.staged
  BY DEF StagedGeneration
<1>5. Len(compaction.staged) \in Nat /\ Len(compaction.staged) \in 0 .. Len(compaction.staged)
  BY SMT, <1>2
<1>6. Fit(then, NoDocuments)
  BY <1>1, <1>3, OpenedRun
<1>7. Fit(now, NoDocuments)
  BY <1>3, <1>4, <1>5, OpenedRun
<1> QED
  BY <1>1, <1>2, <1>3, <1>4, <1>5, <1>6, <1>7

\* Another document is copied, or left out.
LEMMA KeptStill ==
    ASSUME NEW todo, NEW own, NEW then, NEW now, NEW after, NEW job, NEW d,
           Kept(d, todo, own, then, now), job[1] # d,
           Shown(after, NoDocuments)[d] = Shown(now, NoDocuments)[d]
    PROVE  Kept(d, todo \ {job}, own, then, after)
<1>1. CASE \E x \in todo : /\ x[1] = d
                           /\ Face(x[2]) = Shown(then, NoDocuments)[d]
                           /\ own[d] # NoDoc /\ own[d].at = x[2].at
  <2>1. PICK x \in todo : /\ x[1] = d
                          /\ Face(x[2]) = Shown(then, NoDocuments)[d]
                          /\ own[d] # NoDoc /\ own[d].at = x[2].at
    BY <1>1
  <2>2. x \in todo \ {job}
    BY <2>1
  <2> QED
    BY <2>1, <2>2 DEF Kept
<1>2. CASE /\ \A x \in todo : x[1] # d
           /\ Shown(now, NoDocuments)[d] = Shown(then, NoDocuments)[d]
  BY <1>2 DEF Kept
<1> QED
  BY <1>1, <1>2 DEF Kept

\* A compaction with other documents to copy and another staged generation.
Recopied(x, todo, staged) == [x EXCEPT !.todo = todo, !.staged = staged]

RecopiedIs(x, todo, staged, y) ==
    y = [stage |-> "copying", served |-> x.served, image |-> x.image, todo |-> todo,
         staged |-> staged, cursor |-> x.cursor]

\* Nothing else of it changes.
LEMMA CopyUpdate ==
    ASSUME NEW x \in Copying, NEW todo, NEW staged
    PROVE  RecopiedIs(x, todo, staged, Recopied(x, todo, staged))
<1> DEFINE y == Recopied(x, todo, staged)
<1>1. x = [stage |-> x.stage, served |-> x.served, image |-> x.image, todo |-> x.todo,
           staged |-> x.staged, cursor |-> x.cursor]
  BY SMT DEF Copying
<1>2. x.stage = "copying"
  BY SMT DEF Copying
<1>3. y = [x EXCEPT !.todo = todo, !.staged = staged]
  BY DEF Recopied
<1> HIDE DEF y
<1>4. y = [stage |-> x.stage, served |-> x.served, image |-> x.image, todo |-> todo,
           staged |-> staged, cursor |-> x.cursor]
  BY <1>1, <1>3
<1>5. RecopiedIs(x, todo, staged, y)
  BY <1>2, <1>4 DEF RecopiedIs
<1> QED
  BY <1>5 DEF y

\* A document is copied unless it has been deleted since.
LEMMA CopyStagedOK ==
    ASSUME DocInv, compaction # AtRest, CompactCopy
    PROVE  StagedOK' /\ compaction' \in Copying
           /\ UNCHANGED <<live, journal, writing, owner, encoding, revision>>
<1> DEFINE then == Opened(journal)[compaction.cursor]
           now == Opened(StagedGeneration)[Len(compaction.staged)]
           Frame(d, doc) == IF <<d, doc.at>> \in live.scrubbed THEN [op |-> "damaged"]
                     ELSE [op |-> "document", id |-> d, text |-> doc.text, mode |-> doc.mode]
<1>1. PICK job \in compaction.todo :
         /\ compaction' = [compaction EXCEPT
                             !.todo = @ \ {job},
                             !.staged = IF IsDeleted(job[1], job[2]) THEN @
                                        ELSE Append(@, <<Frame(job[1], job[2])>>)]
         /\ UNCHANGED <<live, journal, writing, owner, encoding, revision>>
  BY DEF CompactCopy
<1> DEFINE d == job[1]
           doc == job[2]
           m == [op |-> "document", id |-> d, text |-> doc.text, mode |-> doc.mode]
           gone == IsDeleted(d, doc)
           staged == IF gone THEN compaction.staged ELSE Append(compaction.staged, <<m>>)
           todo == compaction.todo \ {job}
           c == compaction'
           after == Opened(StagedGeneration')[Len(staged)]
<1>2. /\ compaction \in Copying /\ IsGeneration(StagedGeneration)
      /\ StagedGeneration.frames = compaction.staged
      /\ compaction.staged \in Seq(Seq(Mutations)) /\ Len(compaction.staged) \in Nat
      /\ ~live.served
      /\ compaction.cursor \in 0 .. Len(journal.frames)
      /\ compaction.todo \subseteq DocIds \X Doc
      /\ Fit(then, NoDocuments) /\ Fit(now, NoDocuments)
      /\ then.other = now.other
      /\ \A x, y \in compaction.todo : x[1] = y[1] => x = y
      /\ \A e \in DocIds : Decided(e) \/ Kept(e, compaction.todo, live.own, then, now)
  BY Staged
<1>3. d \in DocIds /\ doc \in Doc
  BY <1>2
<1>4. doc.text \in Texts /\ doc.mode \in Modes /\ doc # NoDoc /\ Face(doc) = [text |-> doc.text, mode |-> doc.mode]
  <2>1. doc.text \in Texts /\ doc.mode \in Modes
    BY SMT, <1>3 DEF Doc
  <2>2. doc # NoDoc
    BY <1>3, NoDocIsNone
  <2> QED
    BY <2>1, <2>2 DEF Face
<1>5. m \in Mutations
  BY <1>3, <1>4 DEF Mutations
<1>6. m.op = "document" /\ m.id = d /\ m.text = doc.text /\ m.mode = doc.mode
  OBVIOUS
<1>7. ~gone => Frame(d, doc) = m
  BY DEF IsDeleted
<1> HIDE DEF Frame, m
<1>8. compaction' = [compaction EXCEPT !.todo = todo, !.staged = staged]
  BY <1>1, <1>7
<1>9. staged \in Seq(Seq(Mutations))
  <2>1. <<m>> \in Seq(Mutations)
    BY SMT, <1>5
  <2> QED
    BY SMT, <1>2, <2>1
<1> HIDE DEF d, doc, gone
<1>10. /\ c.served = compaction.served /\ c.image = compaction.image /\ c.cursor = compaction.cursor
       /\ c.todo = todo /\ c.staged = staged /\ c \in Copying
  <2> HIDE DEF todo, staged
  <2>1. /\ compaction = [stage |-> "copying", served |-> compaction.served, image |-> compaction.image,
                         todo |-> compaction.todo, staged |-> compaction.staged,
                         cursor |-> compaction.cursor]
        /\ compaction.served \in BOOLEAN /\ compaction.image \in Image
        /\ compaction.cursor \in Nat
    BY <1>2, CopyingFields
  <2>2. c = [stage |-> "copying", served |-> compaction.served, image |-> compaction.image,
             todo |-> todo, staged |-> staged, cursor |-> compaction.cursor]
    <3>1. compaction \in Copying /\ c = Recopied(compaction, todo, staged)
      BY <1>2, <1>8 DEF Recopied
    <3>2. RecopiedIs(compaction, todo, staged, Recopied(compaction, todo, staged))
      BY <3>1, CopyUpdate
    <3> HIDE DEF c
    <3>3. RecopiedIs(compaction, todo, staged, c)
      BY <3>1, <3>2
    <3> QED
      BY <3>3 DEF RecopiedIs
  <2>3. /\ c.served = compaction.served /\ c.image = compaction.image /\ c.cursor = compaction.cursor
        /\ c.todo = todo /\ c.staged = staged
    BY <2>2
  <2>4. todo \subseteq DocIds \X Doc
    BY <1>2 DEF todo
  <2> QED
    BY <1>9, <2>1, <2>2, <2>3, <2>4, CopyingFields
<1>11. ~Decided(d) => ~gone /\ Face(doc) = Shown(then, NoDocuments)[d]
  <2> SUFFICES ASSUME ~Decided(d)
               PROVE  ~gone /\ Face(doc) = Shown(then, NoDocuments)[d]
    OBVIOUS
  <2>1. Kept(d, compaction.todo, live.own, then, now)
    BY <1>2, <1>3
  <2> HIDE DEF then, now
  <2>2. PICK x \in compaction.todo :
           /\ x[1] = d
           /\ Face(x[2]) = Shown(then, NoDocuments)[d]
           /\ live.own[d] # NoDoc /\ live.own[d].at = x[2].at
    BY <2>1 DEF Kept, d
  <2>3. x = job
    BY <1>2, <2>2 DEF d
  <2>4. Face(doc) = Shown(then, NoDocuments)[d] /\ live.own[d] # NoDoc /\ live.own[d].at = doc.at
    BY <2>2, <2>3 DEF doc
  <2>5. Placed(live)
    BY DEF DocInv, Fit, Sound
  <2>6. <<d, doc.at>> \notin live.scrubbed
    BY <1>3, <2>4, <2>5 DEF Placed
  <2> QED
    BY <2>4, <2>6 DEF gone, IsDeleted
<1>12. /\ IsGeneration(StagedGeneration') /\ after.other = now.other
       /\ \A e \in DocIds \ {d} : Shown(after, NoDocuments)[e] = Shown(now, NoDocuments)[e]
       /\ ~gone => Shown(after, NoDocuments)[d] = Face(doc)
  <2>1. CASE gone
    <3>1. StagedGeneration' = StagedGeneration /\ staged = compaction.staged
      BY <1>10, <2>1 DEF StagedGeneration
    <3> QED
      BY <1>2, <2>1, <3>1
  <2>2. CASE ~gone
    <3> DEFINE k == StagedGeneration
               l == Longer(k, <<m>>)
               p == Len(compaction.staged)
    <3>1. <<m>> \in Seq(Mutations)
      BY SMT, <1>5
    <3>2. StagedGeneration' = l
      <4>1. k = [image |-> compaction.image, served |-> compaction.served, frames |-> compaction.staged]
        BY DEF StagedGeneration
      <4>2. StagedGeneration' = [image |-> compaction.image, served |-> compaction.served,
                                 frames |-> Append(compaction.staged, <<m>>)]
        BY <1>10, <2>2 DEF StagedGeneration
      <4>3. l = [k EXCEPT !.frames = Append(compaction.staged, <<m>>)]
        BY <1>2 DEF Longer
      <4> DEFINE f == Append(compaction.staged, <<m>>)
      <4>4. l = [k EXCEPT !.frames = f] /\ StagedGeneration' =
                [image |-> compaction.image, served |-> compaction.served, frames |-> f]
        BY <4>2, <4>3
      <4> HIDE DEF f, l, k
      <4>5. l = [image |-> compaction.image, served |-> compaction.served, frames |-> f]
        BY <4>1, <4>4
      <4> QED
        BY <4>4, <4>5
    <3>3. /\ IsGeneration(l) /\ Len(l.frames) = p + 1 /\ l.frames[p + 1] = <<m>>
          /\ \A i \in 0 .. p : Opened(l)[i] = Opened(k)[i]
      <4> DEFINE b == <<m>>
      <4>1. IsGeneration(k) /\ b \in Seq(Mutations)
        BY <1>2, <3>1
      <4>2. p = Len(k.frames)
        BY <1>2
      <4> HIDE DEF b, k, p
      <4>3. LET j == Longer(k, b)
            IN  /\ IsGeneration(j) /\ Len(j.frames) = Len(k.frames) + 1
                /\ j.frames[Len(k.frames) + 1] = b
                /\ \A i \in 0 .. Len(k.frames) : Opened(j)[i] = Opened(k)[i]
        BY <4>1, LongerRun
      <4> QED
        BY <4>2, <4>3 DEF b
    <3>4. /\ p \in 0 .. p /\ p + 1 \in 1 .. p + 1 /\ (p + 1) - 1 = p
      BY SMT, <1>2
    <3>5. Len(staged) = p + 1
      BY SMT, <1>2, <2>2
    <3> HIDE DEF l
    <3>6. Opened(l)[p + 1] = ReplayFrame(Opened(l)[p], <<m>>)
      <4>1. \A i \in 1 .. Len(l.frames) : Opened(l)[i] = ReplayFrame(Opened(l)[i - 1], l.frames[i])
        BY <3>3, OpenedRun
      <4>2. Opened(l)[p + 1] = ReplayFrame(Opened(l)[(p + 1) - 1], l.frames[p + 1])
        BY <3>3, <3>4, <4>1
      <4> QED
        BY <3>3, <3>4, <4>2
    <3>7. after = ReplayFrame(now, <<m>>)
      BY <3>2, <3>3, <3>4, <3>5, <3>6
    <3>8. OneFrameOK(now, m, after)
      BY <1>2, <1>5, <3>7, OneFrame
    <3>9. now.other \in BOOLEAN
      BY <1>2, EngineFields DEF Fit, Sound
    <3> HIDE DEF now, after
    <3>10. after.other = now.other
      <4>1. after.other = (now.other \/ m.op = "other") /\ m.op # "other"
        BY <1>6, <3>8 DEF OneFrameOK
      <4> QED
        BY <3>9, <4>1
    <3>11. \A e \in DocIds \ {d} : Shown(after, NoDocuments)[e] = Shown(now, NoDocuments)[e]
      BY <1>6, <3>8 DEF OneFrameOK, FaceAfter
    <3>12. Shown(after, NoDocuments)[d] = Face(doc)
      <4>1. Shown(after, NoDocuments)[d] = FaceAfter(Shown(now, NoDocuments)[d], d, m)
        BY <1>3, <3>8 DEF OneFrameOK
      <4>2. FaceAfter(Shown(now, NoDocuments)[d], d, m) = [text |-> doc.text, mode |-> doc.mode]
        BY <1>6 DEF FaceAfter
      <4> QED
        BY <1>4, <4>1, <4>2
    <3> QED
      BY <3>2, <3>3, <3>10, <3>11, <3>12
  <2> QED
    BY <2>1, <2>2
<1> HIDE DEF then, now, after
<1>13. ASSUME NEW e \in DocIds
       PROVE  Decided(e) \/ Kept(e, todo, live.own, then, after)
  <2>1. CASE e = d
    <3> SUFFICES ASSUME ~Decided(d)
                 PROVE  Kept(d, todo, live.own, then, after)
      BY <2>1
    <3>1. Shown(after, NoDocuments)[d] = Shown(then, NoDocuments)[d]
      BY <1>11, <1>12
    <3>2. \A x \in todo : x[1] # d
      BY <1>2 DEF d
    <3> QED
      BY <3>1, <3>2 DEF Kept
  <2>2. CASE e # d
    <3>1. Shown(after, NoDocuments)[e] = Shown(now, NoDocuments)[e] /\ job[1] # e
      BY <1>12, <2>2 DEF d
    <3>2. Decided(e) \/ Kept(e, compaction.todo, live.own, then, now)
      BY <1>2 DEF then, now
    <3> QED
      BY <3>1, <3>2, KeptStill
  <2> QED
    BY <2>1, <2>2
<1>14. /\ Opened(journal')[c.cursor] = then /\ Opened(StagedGeneration')[Len(c.staged)] = after
       /\ ~live'.served /\ IsGeneration(StagedGeneration')
       /\ c.cursor \in 0 .. Len(journal'.frames)
       /\ owner' # NoWriter => c.cursor < Len(journal'.frames)
       /\ then.other = after.other
  <2>1. owner # NoWriter => compaction.cursor < Len(journal.frames)
    BY DEF DocInv, StagedOK
  <2> QED
    BY <1>1, <1>2, <1>10, <1>12, <2>1 DEF then, after, now
<1>15. \A x, y \in c.todo : x[1] = y[1] => x = y
  BY <1>2, <1>10
<1>16. \A e \in DocIds : Decided(e)' \/ Kept(e, c.todo, live'.own, then, after)
  <2>1. \A e \in DocIds : Decided(e)' <=> Decided(e)
    BY <1>1, <1>10 DEF Decided
  <2> QED
    BY <1>1, <1>10, <1>13, <2>1
<1> HIDE DEF c
<1>17. StagedOK'
  BY <1>14, <1>15, <1>16 DEF StagedOK, c
<1> QED
  BY <1>1, <1>10, <1>17 DEF c
\* The staged generation with the frames since the snapshot.
Published(j, c) ==
    [image |-> c.image, served |-> c.served,
     frames |-> c.staged \o SubSeq(j.frames, c.cursor + 1, Len(j.frames))]

PublishedIs(j, c, k) ==
    LET p == Len(c.staged)
        m == Len(j.frames) - c.cursor
    IN  /\ IsGeneration(k) /\ k.image = c.image /\ k.served = c.served
        /\ p \in Nat /\ m \in Nat /\ Len(k.frames) = p + m
        /\ \A i \in 1 .. p : k.frames[i] = c.staged[i]
        /\ \A i \in 1 .. m : k.frames[p + i] = j.frames[c.cursor + i]

\* It is the staged generation first, and goes on like the journal.
LEMMA PublishedRun ==
    ASSUME NEW j, NEW c, IsGeneration(j), c \in Copying, ~c.served => c.image = NoDocuments,
           c.cursor \in 0 .. Len(j.frames)
    PROVE  PublishedIs(j, c, Published(j, c))
<1> DEFINE k == Published(j, c)
           s == c.staged
           f == j.frames
           b == c.cursor
           t == SubSeq(f, b + 1, Len(f))
           h == s \o t
           m == Len(f) - b
<1>1. c.image \in Image /\ c.served \in BOOLEAN /\ s \in Seq(Seq(Mutations))
  BY CopyingFields
<1>2. f \in Seq(Seq(Mutations)) /\ b \in 0 .. Len(f)
  <2>1. f \in Seq(Seq(Mutations))
    BY SMT DEF IsGeneration, Generation
  <2> QED
    BY <2>1
<1>3. k.image = c.image /\ k.served = c.served /\ k.frames = h
  BY DEF Published
<1>4. k = [image |-> c.image, served |-> c.served, frames |-> h]
  BY DEF Published
<1> HIDE DEF k, s, f, b
<1>5. /\ t \in Seq(Seq(Mutations)) /\ Len(t) = m /\ m \in Nat /\ Len(s) \in Nat
      /\ \A i \in 1 .. m : t[i] = f[b + i]
  <2>1. Len(f) \in Nat /\ b \in Nat /\ b <= Len(f)
    BY SMT, <1>2
  <2>2. t \in Seq(Seq(Mutations))
    BY SMT, <1>2, <2>1
  <2>3. Len(t) = m /\ m \in Nat /\ Len(s) \in Nat
    BY SMT, <1>1, <1>2, <2>1
  <2>4. ASSUME NEW i \in 1 .. m
        PROVE  t[i] = f[b + i]
    BY SMT, <1>2, <2>1
  <2> QED
    BY <2>2, <2>3, <2>4
<1> HIDE DEF t, m
<1>6. /\ h \in Seq(Seq(Mutations)) /\ Len(h) = Len(s) + m
      /\ \A i \in 1 .. Len(s) : h[i] = s[i]
      /\ \A i \in 1 .. m : h[Len(s) + i] = t[i]
  <2>1. s \in Seq(Seq(Mutations)) /\ t \in Seq(Seq(Mutations))
    BY <1>1, <1>5
  <2>2. h \in Seq(Seq(Mutations))
    BY SMT, <2>1
  <2>3. Len(h) = Len(s) + Len(t)
    BY SMT, <2>1
  <2>4. \A i \in 1 .. Len(s) : h[i] = s[i]
    BY SMT, <2>1
  <2>5. \A i \in 1 .. Len(t) : h[Len(s) + i] = t[i]
    BY SMT, <2>1
  <2> QED
    BY <1>5, <2>2, <2>3, <2>4, <2>5
<1> HIDE DEF h
<1>7. IsGeneration(k)
  <2>1. k \in Generation
    BY <1>1, <1>4, <1>6 DEF Generation
  <2> QED
    BY <1>3, <2>1 DEF IsGeneration
<1> QED
  BY <1>3, <1>5, <1>6, <1>7 DEF k, s, f, b, m, PublishedIs

\* The new generation shows what the old one shows.
LEMMA PublishedSame ==
    ASSUME DocInv, compaction # AtRest, compaction.todo = {}
    PROVE  LET k == Published(journal, compaction)
           IN  /\ IsGeneration(k)
               /\ Same(Opened(journal)[Len(journal.frames)], NoDocuments,
                       Opened(k)[Len(k.frames)], NoDocuments)
<1> DEFINE k == Published(journal, compaction)
           g == StagedGeneration
           c == compaction.cursor
           p == Len(compaction.staged)
           n == Len(journal.frames)
           m == n - c
           then == Opened(journal)[c]
           now == Opened(g)[p]
           s == Opened(journal)[n]
           t == Opened(k)[Len(k.frames)]
<1>1. /\ compaction \in Copying /\ IsGeneration(g)
      /\ g.image = compaction.image /\ g.served = compaction.served /\ g.frames = compaction.staged
      /\ c \in 0 .. n
      /\ then.other = now.other
      /\ \A d \in DocIds : Decided(d) \/ Kept(d, compaction.todo, live.own, then, now)
  BY Staged
<1>2. IsGeneration(journal) /\ n \in Nat
  BY Typed
<1>3. ~compaction.served => compaction.image = NoDocuments
  BY <1>1 DEF IsGeneration
<1>4. /\ IsGeneration(k) /\ k.image = compaction.image /\ k.served = compaction.served
      /\ p \in Nat /\ m \in Nat /\ Len(k.frames) = p + m
      /\ \A i \in 1 .. p : k.frames[i] = compaction.staged[i]
      /\ \A i \in 1 .. m : k.frames[p + i] = journal.frames[c + i]
  <2>1. PublishedIs(journal, compaction, k)
    BY <1>1, <1>2, <1>3, PublishedRun
  <2> HIDE DEF k
  <2> QED
    BY <2>1 DEF PublishedIs
<1> HIDE DEF k, g
<1>5. now = Opened(k)[p]
  <2>1. p <= Len(k.frames) /\ p <= Len(g.frames) /\ p \in 0 .. p
    BY SMT, <1>1, <1>4
  <2>2. \A i \in 1 .. p : k.frames[i] = g.frames[i]
    BY <1>1, <1>4
  <2>3. k.image = g.image /\ k.served = g.served
    BY <1>1, <1>4
  <2>4. IsGeneration(k) /\ IsGeneration(g) /\ p \in Nat
    BY <1>1, <1>4
  <2>5. AlikeTo(k, g, p)
    BY <2>1, <2>2, <2>3 DEF AlikeTo
  <2> HIDE DEF p
  <2>6. \A i \in 0 .. p : Opened(k)[i] = Opened(g)[i]
    BY <2>4, <2>5, OpenedPrefix
  <2> QED
    BY <2>1, <2>6
<1>6. c \in Nat /\ c + m = n /\ c + m <= n /\ p + m <= Len(k.frames)
  BY SMT, <1>1, <1>2, <1>4
<1>7. /\ Opened(k)[p + m].other = Opened(journal)[c + m].other
      /\ \A d \in DocIds :
            \/ Shown(Opened(k)[p], NoDocuments)[d] = Shown(Opened(journal)[c], NoDocuments)[d]
            \/ \E i \in 1 .. m : Decides(journal.frames[c + i], d)
            => Shown(Opened(k)[p + m], NoDocuments)[d] = Shown(Opened(journal)[c + m], NoDocuments)[d]
  <2>1. Opened(k)[p].other = Opened(journal)[c].other
    BY <1>1, <1>5
  <2>2. p \in Nat /\ c \in Nat /\ m \in Nat /\ p + m <= Len(k.frames) /\ c + m <= Len(journal.frames)
    BY <1>4, <1>6
  <2>3. \A i \in 1 .. m : k.frames[p + i] = journal.frames[c + i]
    BY <1>4
  <2>4. IsGeneration(k) /\ IsGeneration(journal)
    BY <1>2, <1>4
  <2> HIDE DEF p, m, c
  <2>5. AgreeAt(k, p, journal, c, m)
    BY <2>1, <2>2, <2>3, <2>4, JournalsAgree
  <2> QED
    BY <2>5 DEF AgreeAt
<1>8. s.other = t.other
  BY <1>4, <1>6, <1>7
<1>9. ASSUME NEW d \in DocIds
      PROVE  Shown(s, NoDocuments)[d] = Shown(t, NoDocuments)[d]
  <2>1. \/ Shown(Opened(k)[p], NoDocuments)[d] = Shown(Opened(journal)[c], NoDocuments)[d]
        \/ \E i \in 1 .. m : Decides(journal.frames[c + i], d)
    <3>1. CASE Decided(d)
      <4>1. PICK i \in c + 1 .. n : Decides(journal.frames[i], d)
        BY <3>1 DEF Decided
      <4>2. i - c \in 1 .. m /\ c + (i - c) = i
        BY SMT, <1>1, <1>2
      <4> QED
        BY <4>1, <4>2
    <3>2. CASE Kept(d, compaction.todo, live.own, then, now)
      <4>1. Shown(now, NoDocuments)[d] = Shown(then, NoDocuments)[d]
        <5> HIDE DEF then, now
        <5> QED
          BY <3>2 DEF Kept
      <4> QED
        BY <1>5, <4>1
    <3> QED
      BY <1>1, <3>1, <3>2
  <2> QED
    BY <1>4, <1>6, <1>7, <2>1
<1>10. Shown(s, NoDocuments) = Shown(t, NoDocuments)
  <2> DEFINE a == Shown(s, NoDocuments)
             b == Shown(t, NoDocuments)
  <2>1. n \in 0 .. n /\ Len(k.frames) \in 0 .. Len(k.frames)
    BY SMT, <1>2, <1>4
  <2>2. Fit(s, NoDocuments)
    BY <1>2, <2>1, OpenedRun
  <2>3. Fit(t, NoDocuments)
    BY <1>4, <2>1, OpenedRun
  <2> HIDE DEF s, t
  <2>4. a \in [DocIds -> Faces]
    BY <2>2, ShownTypes, RunTypes DEF Fit, Sound
  <2>5. b \in [DocIds -> Faces]
    BY <2>3, ShownTypes, RunTypes DEF Fit, Sound
  <2>6. \A d \in DocIds : a[d] = b[d]
    BY <1>9
  <2> HIDE DEF a, b
  <2>7. a = b
    BY SMT, <2>4, <2>5, <2>6
  <2> QED
    BY <2>7 DEF a, b
<1> QED
  BY <1>4, <1>8, <1>10 DEF Same, k

\* The new generation is published.
LEMMA PublishStep ==
    ASSUME DocInv, compaction # AtRest, CompactPublish
    PROVE  DocInv'
<1>1. /\ compaction.todo = {} /\ owner = NoWriter
      /\ journal' = Published(journal, compaction)
      /\ revision' = revision + 1 /\ compaction' = AtRest
      /\ UNCHANGED <<live, writing, owner, encoding>>
  BY DEF CompactPublish, Published
<1>2. DocTypeOK /\ GateOK /\ PlansOK /\ InStep /\ Fit(live, Pending)
  BY DEF DocInv
<1>3. /\ IsGeneration(journal')
      /\ Same(Opened(journal)[Len(journal.frames)], NoDocuments,
              Opened(journal')[Len(journal'.frames)], NoDocuments)
  BY <1>1, PublishedSame
<1>4. Pending' = Pending
  BY <1>1 DEF Pending
<1>5. Fit(live, Pending)'
  BY <1>1, <1>2, <1>4
<1>6. InStep'
  <2>1. Same(live, NoDocuments, Opened(journal)[Len(journal.frames)], NoDocuments)
    BY <1>1, <1>2 DEF InStep
  <2>2. Same(live, NoDocuments, Opened(journal')[Len(journal'.frames)], NoDocuments)
    BY <1>3, <2>1 DEF Same
  <2> QED
    BY <1>1, <2>2 DEF InStep
<1>7. StagedOK'
  BY <1>1 DEF StagedOK
<1>8. GateOK'
  <2> SUFFICES ASSUME NEW v \in DocWriters
               PROVE  /\ writing'[v].stage = "applying" <=> owner' = v
                      /\ InGate(writing'[v], journal'.frames)
    BY DEF GateOK
  <2>1. writing[v].stage # "applying" /\ v # NoWriter /\ InGate(writing[v], journal.frames)
    BY <1>1, <1>2, Typed DEF GateOK
  <2> QED
    BY <1>1, <2>1 DEF InGate
<1>9. PlansOK'
  <2> SUFFICES ASSUME NEW v \in DocWriters
               PROVE  Planned(v, writing[v])'
    BY DEF PlansOK
  <2> DEFINE p == writing[v].plan[1]
  <2>1. Planned(v, writing[v]) /\ v # NoWriter /\ revision \in Nat
    BY <1>2, Typed DEF PlansOK
  <2>2. writing[v].stage # "idle" /\ writing[v].plan # <<>> => p \in Nat /\ p <= revision
    BY <2>1, Typed, JobFields DEF Planned
  <2> HIDE DEF p
  <2>3. p \in Nat /\ p <= revision => p <= revision + 1 /\ p # revision + 1
    BY SMT, <2>1
  <2>4. writing[v].stage # "idle" /\ writing[v].plan # <<>> => p <= revision' /\ p # revision'
    BY <1>1, <2>2, <2>3
  <2> QED
    BY <1>1, <2>1, <2>4 DEF Planned, p
<1>10. DocTypeOK'
  <2>1. revision' \in Nat
    <3>1. revision \in Nat
      BY Typed
    <3> QED
      BY SMT, <1>1, <3>1
  <2> QED
    BY <1>1, <1>2, <1>3, <2>1 DEF DocTypeOK
<1> QED
  BY <1>5, <1>6, <1>7, <1>8, <1>9, <1>10 DEF DocInv
\* A step of the compaction.
LEMMA CompactingStep ==
    ASSUME DocInv, Compacting
    PROVE  DocInv'
<1>1. compaction # AtRest
  BY DEF Compacting
<1>2. CASE CompactCopy
  <2>1. /\ StagedOK' /\ compaction' \in Copying
        /\ UNCHANGED <<live, journal, writing, owner, encoding, revision>>
    BY <1>1, <1>2, CopyStagedOK
  <2> QED
    BY <2>1, CompactionStep
<1>3. CASE CompactPublish
  BY <1>1, <1>3, PublishStep
<1>4. CASE CompactFails
  <2>1. compaction' = AtRest /\ UNCHANGED <<live, journal, writing, owner, encoding, revision>>
    BY <1>4 DEF CompactFails
  <2>2. StagedOK'
    BY <2>1 DEF StagedOK
  <2> QED
    BY <2>1, <2>2, CompactionStep
<1> QED
  BY <1>2, <1>3, <1>4 DEF Compacting

\* The store is opened again.
LEMMA ReopenStep ==
    ASSUME DocInv, ReopenEngine
    PROVE  DocInv'
<1>1. /\ live' = Replayed(journal) /\ writing' = [w \in DocWriters |-> AtRest]
      /\ owner' = NoWriter /\ encoding' = {} /\ compaction' = AtRest /\ revision' = 0
      /\ journal' = journal
  BY DEF ReopenEngine
<1>2. IsGeneration(journal) /\ Len(journal.frames) \in Nat
  BY Typed
<1> DEFINE s == Opened(journal)[Len(journal.frames)]
<1>3. live' = s /\ Fit(s, NoDocuments)
  <2>1. Len(journal.frames) \in 0 .. Len(journal.frames)
    BY SMT, <1>2
  <2> QED
    BY <1>1, <1>2, <2>1, OpenedRun
<1>4. Pending' = NoDocuments
  BY <1>1 DEF Pending
<1>5. Fit(live, Pending)'
  BY <1>3, <1>4
<1>6. InStep'
  BY <1>1, <1>3 DEF InStep, Same
<1>7. StagedOK'
  BY <1>1 DEF StagedOK
<1>8. \A w \in DocWriters : writing'[w].stage = "idle" /\ owner' # w
  <2>1. AtRest.stage = "idle"
    BY SMT DEF AtRest
  <2> QED
    BY <1>1, <2>1, Typed
<1>9. GateOK'
  BY <1>8 DEF GateOK, InGate
<1>10. PlansOK'
  BY <1>8 DEF PlansOK, Planned
<1>11. DocTypeOK'
  <2>1. live' \in Engine
    BY <1>3 DEF Fit, Sound
  <2>2. writing' \in [DocWriters -> Job \cup {AtRest}]
    BY <1>1
  <2>3. revision' \in Nat
    BY SMT, <1>1
  <2> QED
    BY <1>1, <1>2, <2>1, <2>2, <2>3 DEF DocTypeOK
<1> QED
  BY <1>5, <1>6, <1>7, <1>9, <1>10, <1>11 DEF DocInv

\* Every step keeps the invariant.
LEMMA DocNextInv ==
    ASSUME DocInv, [DocumentsNext]_docVars
    PROVE  DocInv'
<1>1. CASE \E w \in DocWriters : BeginWrite(w) \/ BeginEncode(w) \/ AppendFrame(w) \/ Refuse(w)
                                 \/ ApplyMutation(w) \/ EndCommit(w)
  <2>1. PICK w \in DocWriters : BeginWrite(w) \/ BeginEncode(w) \/ AppendFrame(w) \/ Refuse(w)
                                 \/ ApplyMutation(w) \/ EndCommit(w)
    BY <1>1
  <2>2. CASE BeginWrite(w) \/ BeginEncode(w)
    BY <2>2, BeginStep
  <2>3. CASE AppendFrame(w)
    BY <2>3, AppendStep
  <2>4. CASE Refuse(w)
    BY <2>4, RefuseStep
  <2>5. CASE ApplyMutation(w)
    BY <2>5, MutationStep
  <2>6. CASE EndCommit(w)
    BY <2>6, EndStep
  <2> QED
    BY <2>1, <2>2, <2>3, <2>4, <2>5, <2>6
<1>2. CASE Hydrate
  BY <1>2, HydrateStep
<1>3. CASE EncodeSnapshot
  BY <1>3, SnapshotEncodeStep
<1>4. CASE CompactSnapshot
  <2>1. StagedOK' /\ compaction' \in Copying
    BY <1>4, SnapshotStagedOK
  <2>2. UNCHANGED <<live, journal, writing, owner, encoding, revision>>
    BY <1>4 DEF CompactSnapshot
  <2> QED
    BY <2>1, <2>2, CompactionStep
<1>5. CASE Compacting
  BY <1>5, CompactingStep
<1>6. CASE ReopenEngine
  BY <1>6, ReopenStep
<1>7. CASE UNCHANGED docVars
  <2>1. /\ UNCHANGED <<live, journal, writing, owner, compaction, revision>>
        /\ encoding' \subseteq DocIds \X Texts
    BY <1>7, Typed DEF docVars
  <2> QED
    BY <2>1, OtherStep
<1> QED
  BY <1>1, <1>2, <1>3, <1>4, <1>5, <1>6, <1>7 DEF DocumentsNext

-----------------------------------------------------------------------------
(* The theorems.                                                           *)

\* In every state of every behaviour: the vectors are those of the documents written, the
\* store shows what replaying the journal so far shows, in the middle of a batch too, a
\* staged generation together with what is still to copy and the frames since shows the
\* same, and a plan that is still current was made of the store there is.
THEOREM DocInvAlways == DocumentsSpec => []DocInv
<1>1. DocumentsInit => DocInv
  BY InitDocInv
<1>2. DocInv /\ [DocumentsNext]_docVars => DocInv'
  BY DocNextInv
<1> QED
  BY <1>1, <1>2, PTL DEF DocumentsSpec

\* Between two commits the journal opens to what the live store shows, whatever was
\* hydrated, encoded late or compacted (load_from_log against apply_mutations).
THEOREM ReplayMatchesLiveAlways == DocumentsSpec => []ReplayMatchesLive
<1>1. ASSUME DocInv
      PROVE  ReplayMatchesLive
  <2> SUFFICES ASSUME owner = NoWriter
               PROVE  Opens(journal) /\ View(Replayed(journal)) = View(live)
    BY DEF ReplayMatchesLive
  <2> DEFINE n == Len(journal.frames)
             s == Opened(journal)[n]
  <2>1. IsGeneration(journal) /\ n \in Nat
    BY <1>1, Typed
  <2>2. n \in 0 .. n
    BY SMT, <2>1
  <2>3. Replayed(journal) = s /\ Fit(s, NoDocuments)
    BY <2>1, <2>2, OpenedRun
  <2>4. Fit(live, NoDocuments) /\ Same(live, NoDocuments, s, NoDocuments)
    BY <1>1 DEF DocInv, Pending, InStep
  <2>5. View(live) = View(s)
    BY <2>3, <2>4, SameView
  <2>6. Opens(journal)
    <3> SUFFICES ASSUME NEW i \in DOMAIN journal.frames, NEW k \in DOMAIN journal.frames[i]
                 PROVE  journal.frames[i][k].op # "damaged"
      BY DEF Opens
    <3>1. journal.frames \in Seq(Seq(Mutations))
      BY SMT, <2>1 DEF IsGeneration, Generation
    <3>2. journal.frames[i] \in Seq(Mutations)
      BY SMT, <3>1
    <3>3. journal.frames[i][k] \in Mutations
      BY SMT, <3>2
    <3> QED
      BY <3>3, MutationFields
  <2> QED
    BY <2>3, <2>5, <2>6
<1> QED
  BY <1>1, DocInvAlways, PTL

\* Between two commits the shards hold exactly the vectors of the encoded documents, each
\* of the text its document has (stale_chunks, install_deferred_encoding).
THEOREM NoStaleVectorAlways == DocumentsSpec => []NoStaleVector
<1>1. ASSUME DocInv
      PROVE  NoStaleVector
  <2> SUFFICES ASSUME owner = NoWriter
               PROVE  live.shards = UNION {VectorsOf(d, live.own[d]) : d \in DocIds}
    BY DEF NoStaleVector
  <2>1. Exact(live.shards, Written(live, NoDocuments))
    BY <1>1 DEF DocInv, Pending, Fit
  <2>2. \A d \in DocIds : Written(live, NoDocuments)[d] = live.own[d]
    BY RunTypes DEF Written
  <2>3. Exact(live.shards, live.own)
    BY <2>1, <2>2, ExactSame
  <2> QED
    BY <2>3 DEF Exact
<1> QED
  BY <1>1, DocInvAlways, PTL

\* A commit planned on the store at one revision is applied to the store it was planned on
\* (commit_serialized_if_revision).
THEOREM PlansAreCurrentAlways == DocumentsSpec => []PlansAreCurrent
<1>1. ASSUME DocInv
      PROVE  PlansAreCurrent
  <2> SUFFICES ASSUME NEW w \in DocWriters, writing[w].stage = "applying", writing[w].next = 1,
                      writing[w].plan # <<>>
               PROVE  View(live) = writing[w].plan[2]
    BY DEF PlansAreCurrent
  <2>1. owner = w
    BY <1>1 DEF DocInv, GateOK
  <2>2. Planned(w, writing[w])
    BY <1>1 DEF DocInv, PlansOK
  <2> QED
    BY <2>1, <2>2 DEF Planned
<1> QED
  BY <1>1, DocInvAlways, PTL
=============================================================================
