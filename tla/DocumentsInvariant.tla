------------------------- MODULE DocumentsInvariant -------------------------
(***************************************************************************)
(* The inductive invariant of Documents.                                   *)
(***************************************************************************)
EXTENDS Documents

Doc == [text : Texts, mode : Modes, at : Nat]
Stored == Doc \cup {NoDoc}
NewDoc == [text : Texts, mode : Modes, at : {0}]
Run == [DocIds -> NewDoc \cup {NoDoc}]
Image == [DocIds -> [text : Texts, mode : {"lexical"}, at : {0}] \cup {NoDoc}]
Vectors == DocIds \X Nat \X Texts

Engine == [own : [DocIds -> Stored], base : Image, dead : SUBSET DocIds, served : BOOLEAN,
           place : Nat, scrubbed : SUBSET (DocIds \X Nat), shards : SUBSET Vectors,
           other : BOOLEAN]

\* What a query sees of a document.
Face(doc) == IF doc = NoDoc THEN NoDoc ELSE [text |-> doc.text, mode |-> doc.mode]
Faces == [text : Texts, mode : Modes] \cup {NoDoc}

\* The documents written, and those shown, once the run of documents not yet
\* installed is.
Written(s, run) == [d \in DocIds |-> IF run[d] # NoDoc THEN run[d] ELSE s.own[d]]
Shown(s, run) ==
    [d \in DocIds |-> Face(IF run[d] # NoDoc THEN run[d]
                           ELSE IF s.own[d] # NoDoc THEN s.own[d]
                           ELSE IF d \in s.dead THEN NoDoc ELSE s.base[d])]

\* The vectors are those of the documents.
Exact(shards, docs) == shards = UNION {VectorsOf(d, docs[d]) : d \in DocIds}

\* No document has its text where text was zeroed.
Placed(s) ==
    /\ \A d \in DocIds : s.own[d] # NoDoc =>
          /\ s.own[d].at <= s.place
          /\ <<d, s.own[d].at>> \notin s.scrubbed
          /\ s.served \/ s.own[d].at # 0
    /\ \A p \in s.scrubbed : p[2] \in 1 .. s.place

Sound(s) ==
    /\ s \in Engine
    /\ ~s.served => s.base = NoDocuments
    /\ \A d \in DocIds : s.own[d] # NoDoc /\ s.base[d] # NoDoc => d \in s.dead
    /\ Placed(s)
Fit(s, run) == Sound(s) /\ run \in Run /\ Exact(s.shards, Written(s, run))

-----------------------------------------------------------------------------
(* Replay, step by step.                                                   *)

\* The states between the mutations of a frame, and between the frames.
Applied(s, batch) ==
    LET start == IF Accepts(batch) THEN s ELSE Hydrated(s)
        previous == Prepared(start, batch)
        applied[i \in 0..Len(batch)] ==
            IF i = 0 THEN [s |-> start, pend |-> NoDocuments]
            ELSE ApplyOne(applied[i - 1], batch[i], previous[i]) IN
    applied
Opened(j) ==
    LET after[i \in 0..Len(j.frames)] ==
            IF i = 0 THEN ServedFrom(j.image, j.served)
            ELSE ReplayFrame(after[i - 1], j.frames[i]) IN
    after

Generation == [image : Image, served : BOOLEAN, frames : Seq(Seq(Mutations))]
IsGeneration(j) == j \in Generation /\ (~j.served => j.image = NoDocuments)

-----------------------------------------------------------------------------
View1 == [docs : [DocIds -> Faces], shards : SUBSET Vectors, other : BOOLEAN]
Job == [stage : {"prepared", "applying"}, batch : Seq(Mutations), previous : Seq(Stored),
        next : Nat, pend : Run, plan : {<<>>} \cup (Nat \X View1)]
Copying == [stage : {"copying"}, served : BOOLEAN, image : Image,
            todo : SUBSET (DocIds \X Doc), staged : Seq(Seq(Mutations)), cursor : Nat]

DocTypeOK ==
    /\ live \in Engine
    /\ IsGeneration(journal)
    /\ owner \in DocWriters \cup {NoWriter}
    /\ writing \in [DocWriters -> Job \cup {AtRest}]
    /\ encoding \subseteq DocIds \X Texts
    /\ compaction \in Copying \cup {AtRest}
    /\ revision \in Nat

\* The documents of the batch under way that are not installed yet.
Pending == IF owner = NoWriter THEN NoDocuments ELSE writing[owner].pend

\* A batch prepared has not begun; one being applied is the last frame, and the run
\* of documents is of it.
InGate(job, frames) ==
    /\ job.stage = "prepared" => job.next = 1 /\ job.pend = NoDocuments
    /\ job.stage = "applying" =>
          /\ job.next \in 1 .. Len(job.batch) + 1
          /\ frames # <<>>
          /\ frames[Len(frames)] = job.batch
          /\ \A d \in DocIds : job.pend[d] # NoDoc =>
                \E k \in DOMAIN job.batch : job.batch[k].op = "document" /\ job.batch[k].id = d

\* Who is inside the gate, and where.
GateOK ==
    \A w \in DocWriters :
        /\ writing[w].stage = "applying" <=> owner = w
        /\ InGate(writing[w], journal.frames)

Same(s, run, t, run2) == Shown(s, run) = Shown(t, run2) /\ s.other = t.other

\* The live state against the replay of the journal.
InStep ==
    LET n == Len(journal.frames) IN
    IF owner = NoWriter
    THEN Same(live, NoDocuments, Opened(journal)[n], NoDocuments)
    ELSE LET a == Applied(Opened(journal)[n - 1], journal.frames[n])[writing[owner].next - 1] IN
         Same(live, Pending, a.s, a.pend)

\* The mutations that decide a document whatever it was, and the documents the
\* frames since the snapshot decide.
Overwrites(m, d) == m.op \in {"document", "delete"} /\ m.id = d
Decides(batch, d) == \E k \in DOMAIN batch : Overwrites(batch[k], d)
Decided(d) == \E i \in compaction.cursor + 1 .. Len(journal.frames) : Decides(journal.frames[i], d)

StagedGeneration ==
    [image |-> compaction.image, served |-> compaction.served, frames |-> compaction.staged]

\* A document of the snapshot is still to be copied, with its text where it was, or
\* the staged generation has it.
Kept(d, todo, own, then, now) ==
    \/ \E x \in todo :
          /\ x[1] = d
          /\ Face(x[2]) = Shown(then, NoDocuments)[d]
          /\ own[d] # NoDoc /\ own[d].at = x[2].at
    \/ /\ \A x \in todo : x[1] # d
       /\ Shown(now, NoDocuments)[d] = Shown(then, NoDocuments)[d]

\* The staged generation, the documents still to copy and the frames since the
\* snapshot make up the store.
StagedOK ==
    compaction # AtRest =>
        LET then == Opened(journal)[compaction.cursor]
            now == Opened(StagedGeneration)[Len(compaction.staged)] IN
        /\ ~live.served
        /\ IsGeneration(StagedGeneration)
        /\ compaction.cursor \in 0 .. Len(journal.frames)
        /\ owner # NoWriter => compaction.cursor < Len(journal.frames)
        /\ then.other = now.other
        /\ \A x, y \in compaction.todo : x[1] = y[1] => x = y
        /\ \A d \in DocIds : Decided(d) \/ Kept(d, compaction.todo, live.own, then, now)

\* A plan that is still current was made of what the store shows.
Planned(w, job) ==
    job.stage # "idle" /\ job.plan # <<>> =>
        /\ job.plan[1] <= revision
        /\ owner = NoWriter /\ job.plan[1] = revision => View(live) = job.plan[2]
        /\ owner = w /\ job.next = 1 => View(live) = job.plan[2]
PlansOK == \A w \in DocWriters : Planned(w, writing[w])

DocInv ==
    /\ DocTypeOK
    /\ Fit(live, Pending)
    /\ GateOK
    /\ InStep
    /\ StagedOK
    /\ PlansOK
=============================================================================
