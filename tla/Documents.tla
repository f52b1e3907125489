------------------------------ MODULE Documents ------------------------------
(***************************************************************************)
(* The live document state of the engine against its journal               *)
(* (core/engine/mutation.rs, image.rs, compaction.rs, document_api.rs).    *)
(*                                                                         *)
(* A batch is prepared with no lock, journaled and applied under the       *)
(* mutation gate (module MutationGate), one mutation after the other,      *)
(* while a store served from a checkpoint may be rebuilt in between,       *)
(* deferred encodings computed earlier arrive late and a compaction writes *)
(* a new generation beside it all.  Reopening replays the checkpoint and   *)
(* the frames with the same operators.  How frames and generations reach   *)
(* the disk is module Store.                                               *)
(*                                                                         *)
(* A document is its text (which fixes its chunks, its vectors and its     *)
(* fingerprint), the encode mode of its chunks and the place of its text   *)
(* in the text segment, 0 for text kept inline or not at all.  Two         *)
(* documents with the same place are the same Arc.                         *)
(***************************************************************************)
EXTENDS Integers, Sequences, FiniteSets

CONSTANTS
    DocIds,
    Texts,          \* texts, with the number of chunks of each
    ChunkCount,
    DocWriters,     \* threads in commit
    Batches,        \* the batches they write: sequences of mutations
    Images,         \* checkpoints a store may be found with
    NoDoc,          \* no document
    MaxCommits,     \* bound on the transactions journaled
    MaxReopens,     \* bound on crashes and reopenings
    MaxCompactions  \* bound on the compactions begun

Modes == {"encoded", "pending", "lexical"}

\* The mutations: Document, DeleteDocument, EncodeDocument, and any other
\* (a vector), of which only its presence is kept.
Mutations ==
    [op : {"document"}, id : DocIds, text : Texts, mode : Modes]
    \cup [op : {"delete"}, id : DocIds]
    \cup [op : {"encode"}, id : DocIds, text : Texts]
    \cup [op : {"other"}]

ASSUME DocumentsAssumption ==
    /\ IsFiniteSet(DocIds)
    /\ ChunkCount \in [Texts -> Nat \ {0}]
    /\ Batches \subseteq Seq(Mutations)
    /\ Images \subseteq [DocIds -> [text : Texts, mode : {"lexical"}, at : {0}] \cup {NoDoc}]
    /\ {MaxCommits, MaxReopens, MaxCompactions} \subseteq Nat
    /\ NoDoc \notin DocWriters
    /\ NoDoc \notin [text : Texts, mode : Modes] \cup [text : Texts, mode : Modes, at : Nat]

VARIABLES
    live,       \* the engine's state, see ServedFrom
    journal,    \* the live generation: its checkpoint and its frames
    writing,    \* each writer: its stage, its batch and what it prepared
    owner,      \* the writer inside the mutation gate, if any
    encoding,   \* encode_pending_documents: the snapshot still to commit
    compaction, \* the compaction under way
    revision,   \* WarmCore.revision
    budget      \* what is left of the bounds

docVars == <<live, journal, writing, owner, encoding, compaction, revision, budget>>

-----------------------------------------------------------------------------
(* The engine's state as one record: own documents of the DocumentStore,   *)
(* the checkpoint it is served from and the documents dead in it, the text *)
(* segment (places given out, places scrubbed), the shards as triples of   *)
(* document, chunk and the text the vector encodes, and other_state.       *)

NoDocuments == [d \in DocIds |-> NoDoc]

\* open_checkpoint, with the image of the generation or none.
ServedFrom(image, served) ==
    [own |-> NoDocuments, base |-> image, dead |-> {}, served |-> served,
     place |-> 0, scrubbed |-> {}, shards |-> {}, other |-> FALSE]

ChunksOf(d, doc) == {<<d, i>> : i \in 1..ChunkCount[doc.text]}
\* The vectors a document brings: those of encoded chunks.
VectorsOf(d, doc) ==
    IF doc # NoDoc /\ doc.mode = "encoded"
    THEN {<<d, i, doc.text>> : i \in 1..ChunkCount[doc.text]} ELSE {}
DropVectors(shards, chunks) == {v \in shards : <<v[1], v[2]>> \notin chunks}

\* stale_chunks.
StaleChunks(d, previous, doc) ==
    IF previous = NoDoc THEN {}
    ELSE ChunksOf(d, previous)
           \ (IF doc.mode = "encoded" THEN ChunksOf(d, doc) ELSE {})

\* DocumentStore::insert_batch of the documents in new: the checkpoint's copy
\* dies, text moves to the segment if there is one, replaced text is scrubbed.
InstallAll(s, new) ==
    LET given == {d \in DocIds : new[d] # NoDoc}
        at(d) == IF new[d].at # 0 THEN new[d].at ELSE IF s.served THEN 0 ELSE s.place + 1 IN
    [s EXCEPT
        !.own = [d \in DocIds |-> IF d \in given THEN [new[d] EXCEPT !.at = at(d)] ELSE @[d]],
        !.dead = @ \cup {d \in given : s.base[d] # NoDoc},
        !.place = IF \E d \in given : at(d) > @ THEN @ + 1 ELSE @,
        !.scrubbed = @ \cup {<<d, s.own[d].at>> : d \in
                        {e \in given : s.own[e] # NoDoc /\ s.own[e].at \notin {0, at(e)}}}]

\* remove_document_from_memory.
Remove(s, d) ==
    LET old == s.own[d] IN
    IF old = NoDoc
    THEN [s EXCEPT !.dead = @ \cup (IF s.base[d] = NoDoc THEN {} ELSE {d})]
    ELSE [s EXCEPT !.own[d] = NoDoc,
                   !.shards = DropVectors(@, ChunksOf(d, old)),
                   !.scrubbed = @ \cup (IF old.at = 0 THEN {} ELSE {<<d, old.at>>})]

\* A deferred encoding belongs to the revision it was computed for.
Applicable(doc, text) ==
    /\ doc # NoDoc
    /\ doc.mode = "pending"
    /\ doc.text = text

\* install_deferred_encoding.
Encode(s, d, text) ==
    LET doc == s.own[d] IN
    IF ~Applicable(doc, text) THEN s
    ELSE [InstallAll(s, [NoDocuments EXCEPT ![d] = [doc EXCEPT !.mode = "encoded"]])
          EXCEPT !.shards = DropVectors(@, ChunksOf(d, doc))
                              \cup {<<d, i, text>> : i \in 1..ChunkCount[text]}]

\* hydrate_documents: the checkpoint's live documents, then those written
\* since, in a store of their own with a fresh text segment.
Hydrated(s) ==
    LET doc(d) == IF s.own[d] # NoDoc THEN s.own[d]
                  ELSE IF d \in s.dead THEN NoDoc ELSE s.base[d] IN
    IF ~s.served THEN s
    ELSE [s EXCEPT !.own = [d \in DocIds |-> IF doc(d) = NoDoc THEN NoDoc
                                             ELSE [doc(d) EXCEPT !.at = s.place + 1]],
                   !.place = @ + 1, !.base = NoDocuments, !.dead = {}, !.served = FALSE]

\* checkpoint_accepts: without other mutations the store need not be rebuilt.
Accepts(batch) == \A i \in DOMAIN batch : batch[i].op # "other"

-----------------------------------------------------------------------------
(* prepare_mutations and apply_mutations.                                  *)

DocumentOf(m) == [text |-> m.text, mode |-> m.mode, at |-> 0]

\* What prepare_mutations captures for each document of the batch.
Prepared(s, batch) ==
    [i \in DOMAIN batch |-> IF batch[i].op = "document" THEN s.own[batch[i].id] ELSE NoDoc]

\* Defect: the chunks diffed against the predecessor seen while preparing go,
\* whatever is stored by now.
BugStale(d, previous, current, doc) == StaleChunks(d, previous, doc)

\* The prepared diff, or a new one if the predecessor has been replaced.
Stale(d, previous, current, doc) ==
    IF previous = current THEN StaleChunks(d, previous, doc)
    ELSE StaleChunks(d, current, doc)

\* apply_mutation.  a.s is the state, a.pend the run of documents not yet
\* installed; the run breaks at a repeated id and at any other mutation.
ApplyOne(a, m, previous) ==
    LET done == InstallAll(a.s, a.pend) IN
    CASE m.op = "document" ->
           LET doc == DocumentOf(m)
               s == IF a.pend[m.id] = NoDoc THEN a.s ELSE done
               run == IF a.pend[m.id] = NoDoc THEN a.pend ELSE NoDocuments
               gone == Stale(m.id, previous, s.own[m.id], doc) IN
           [s |-> [s EXCEPT !.shards =
                     DropVectors(@, gone \cup (IF doc.mode = "encoded" THEN ChunksOf(m.id, doc)
                                           ELSE {})) \cup VectorsOf(m.id, doc)],
            pend |-> [run EXCEPT ![m.id] = doc]]
      [] m.op = "delete" -> [s |-> Remove(done, m.id), pend |-> NoDocuments]
      [] m.op = "encode" -> [s |-> Encode(done, m.id, m.text), pend |-> NoDocuments]
      [] m.op = "other" -> [s |-> [done EXCEPT !.other = TRUE], pend |-> NoDocuments]

\* replay_mutations: a whole frame, prepared and applied in one go.
ReplayFrame(s, batch) ==
    LET start == IF Accepts(batch) THEN s ELSE Hydrated(s)
        previous == Prepared(start, batch)
        applied[i \in 0..Len(batch)] ==
            IF i = 0 THEN [s |-> start, pend |-> NoDocuments]
            ELSE ApplyOne(applied[i - 1], batch[i], previous[i]) IN
    InstallAll(applied[Len(batch)].s, applied[Len(batch)].pend)

\* Opening: open_checkpoint and load_from_log.  A frame whose text was zeroed
\* fails its validation, and with it the open.
Replayed(j) ==
    LET after[i \in 0..Len(j.frames)] ==
            IF i = 0 THEN ServedFrom(j.image, j.served)
            ELSE ReplayFrame(after[i - 1], j.frames[i]) IN
    after[Len(j.frames)]
Opens(j) ==
    \A i \in DOMAIN j.frames : \A k \in DOMAIN j.frames[i] : j.frames[i][k].op # "damaged"

-----------------------------------------------------------------------------
NoWriter == NoDoc
AtRest == [stage |-> "idle"]

\* A new store, and one opened on a checkpoint.
DocumentsInit ==
    /\ \E image \in {NoDocuments} \cup Images :
          /\ journal = [image |-> image, served |-> image # NoDocuments, frames |-> <<>>]
          /\ live = ServedFrom(image, image # NoDocuments)
    /\ writing = [w \in DocWriters |-> AtRest]
    /\ owner = NoWriter
    /\ encoding = {}
    /\ compaction = AtRest
    /\ revision = 0
    /\ budget = [commits |-> MaxCommits, reopens |-> MaxReopens, compactions |-> MaxCompactions]

\* What a query can tell apart.
View(s) ==
    [docs |-> [d \in DocIds |->
                 LET doc == IF s.own[d] # NoDoc THEN s.own[d]
                            ELSE IF d \in s.dead THEN NoDoc ELSE s.base[d] IN
                 IF doc = NoDoc THEN NoDoc ELSE [text |-> doc.text, mode |-> doc.mode]],
     shards |-> s.shards, other |-> s.other]

\* commit until the gate: hydrate_documents has run where it must, and the
\* batch is prepared.  A planned batch was computed under the gate's read lock
\* and commits only at the revision it saw there.
Prepare(w, batch, planned) ==
    /\ writing[w].stage = "idle"
    /\ Accepts(batch) \/ ~live.served
    /\ planned => owner = NoWriter
    /\ writing' = [writing EXCEPT ![w] =
                     [stage |-> "prepared", batch |-> batch, previous |-> Prepared(live, batch),
                      next |-> 1, pend |-> NoDocuments,
                      plan |-> IF planned THEN <<revision, View(live)>> ELSE <<>>]]
    /\ UNCHANGED <<live, journal, owner, compaction, revision>>

BeginWrite(w) ==
    /\ budget.commits > 0
    /\ \E batch \in Batches, planned \in BOOLEAN : Prepare(w, batch, planned)
    /\ budget' = [budget EXCEPT !.commits = @ - 1]
    /\ UNCHANGED encoding

IsEncoder(w) == writing[w].stage # "idle" /\ writing[w].batch[1].op = "encode"

\* The encoder commits one document of its snapshot.
BeginEncode(w) ==
    \E job \in encoding :
        /\ \A v \in DocWriters : ~IsEncoder(v)
        /\ Prepare(w, <<[op |-> "encode", id |-> job[1], text |-> job[2]]>>, FALSE)
        /\ encoding' = encoding \ {job}
        /\ UNCHANGED budget

\* Defect: the revision is not compared.
BugCurrent(plan) == TRUE

\* commit_payload_at_revision: the plan, if any, still holds.
Current(plan) == plan # <<>> => plan[1] = revision

\* Inside the gate the batch is appended to the journal as one frame.
AppendFrame(w) ==
    /\ writing[w].stage = "prepared"
    /\ owner = NoWriter
    /\ Current(writing[w].plan)
    /\ owner' = w
    /\ journal' = [journal EXCEPT !.frames = Append(@, writing[w].batch)]
    /\ writing' = [writing EXCEPT ![w].stage = "applying"]
    /\ UNCHANGED <<live, encoding, compaction, revision, budget>>

\* The plan is out of date, or the append fails: nothing is written, and an
\* encoder gives up what is left of its snapshot.
Refuse(w) ==
    /\ writing[w].stage = "prepared"
    /\ owner = NoWriter
    /\ writing' = [writing EXCEPT ![w] = AtRest]
    /\ encoding' = IF IsEncoder(w) THEN {} ELSE encoding
    /\ UNCHANGED <<live, journal, owner, compaction, revision, budget>>

\* The next mutation of the batch.
ApplyMutation(w) ==
    LET job == writing[w]
        done == ApplyOne([s |-> live, pend |-> job.pend], job.batch[job.next],
                         job.previous[job.next]) IN
    /\ job.stage = "applying"
    /\ job.next <= Len(job.batch)
    /\ live' = done.s
    /\ writing' = [writing EXCEPT ![w].next = @ + 1, ![w].pend = done.pend]
    /\ UNCHANGED <<journal, owner, encoding, compaction, revision, budget>>

\* The last documents are installed, the revision moves and the gate opens.
EndCommit(w) ==
    /\ writing[w].stage = "applying"
    /\ writing[w].next > Len(writing[w].batch)
    /\ live' = InstallAll(live, writing[w].pend)
    /\ revision' = revision + 1
    /\ owner' = NoWriter
    /\ writing' = [writing EXCEPT ![w] = AtRest]
    /\ UNCHANGED <<journal, encoding, compaction, budget>>

\* hydrate_documents, which needs no gate: a reader that wants the whole store,
\* a commit the checkpoint does not accept, a compaction.
Hydrate ==
    /\ live.served
    /\ live' = Hydrated(live)
    /\ UNCHANGED <<journal, writing, owner, encoding, compaction, revision, budget>>

\* encode_pending_documents, one caller at a time (its encode gate): the
\* snapshot, under the mutation gate's read lock.
EncodeSnapshot ==
    /\ encoding = {} /\ \A w \in DocWriters : ~IsEncoder(w)
    /\ owner = NoWriter
    /\ encoding' = {<<d, live.own[d].text>> :
                      d \in {e \in DocIds : live.own[e] # NoDoc /\ live.own[e].mode = "pending"}}
    /\ encoding' # {}
    /\ UNCHANGED <<live, journal, writing, owner, compaction, revision, budget>>

-----------------------------------------------------------------------------
(* compact_impl, one at a time under the compaction lock.                  *)

\* encode_checkpoint: lexical documents only, and nothing else in the store.
Representable(s) ==
    /\ s.shards = {}
    /\ ~s.other
    /\ \A d \in DocIds : s.own[d] # NoDoc => s.own[d].mode = "lexical"

\* compaction_snapshot, under the gate, after hydration.
CompactSnapshot ==
    LET image == Representable(live)
        present == {d \in DocIds : live.own[d] # NoDoc} IN
    /\ compaction = AtRest
    /\ budget.compactions > 0
    /\ owner = NoWriter
    /\ ~live.served
    /\ compaction' =
         [stage |-> "copying", served |-> image,
          image |-> IF image
                    THEN [d \in DocIds |-> IF d \in present THEN [live.own[d] EXCEPT !.at = 0]
                                           ELSE NoDoc]
                    ELSE NoDocuments,
          todo |-> IF image THEN {} ELSE {<<d, live.own[d]>> : d \in present},
          staged |-> IF live.other THEN <<<<[op |-> "other"]>>>> ELSE <<>>,
          cursor |-> Len(journal.frames)]
    /\ budget' = [budget EXCEPT !.compactions = @ - 1]
    /\ UNCHANGED <<live, journal, writing, owner, encoding, revision>>

\* Defect: every document of the snapshot is carried over.
BugIsDeleted(d, doc) == FALSE

\* DocumentStore::is_deleted.
IsDeleted(d, doc) == live.own[d] = NoDoc \/ <<d, doc.at>> \in live.scrubbed

\* A document is carried over unless it has been deleted since; zeroed text
\* makes a frame that no longer validates.
CompactCopy ==
    \E job \in compaction.todo :
        LET d == job[1]
            doc == job[2]
            frame == IF <<d, doc.at>> \in live.scrubbed THEN [op |-> "damaged"]
                     ELSE [op |-> "document", id |-> d, text |-> doc.text, mode |-> doc.mode] IN
        /\ compaction' = [compaction EXCEPT
                            !.todo = @ \ {job},
                            !.staged = IF IsDeleted(d, doc) THEN @ ELSE Append(@, <<frame>>)]
        /\ UNCHANGED <<live, journal, writing, owner, encoding, revision, budget>>

\* The frames appended since the snapshot follow, under the gate.
CompactPublish ==
    /\ compaction.todo = {}
    /\ owner = NoWriter
    /\ journal' = [image |-> compaction.image, served |-> compaction.served,
                   frames |-> compaction.staged
                     \o SubSeq(journal.frames, compaction.cursor + 1, Len(journal.frames))]
    /\ revision' = revision + 1
    /\ compaction' = AtRest
    /\ UNCHANGED <<live, writing, owner, encoding, budget>>

\* Any step before publication may fail: the staged generation is dropped.
CompactFails ==
    /\ compaction' = AtRest
    /\ UNCHANGED <<live, journal, writing, owner, encoding, revision, budget>>

Compacting ==
    /\ compaction # AtRest
    /\ CompactCopy \/ CompactPublish \/ CompactFails

\* The process dies at any point, or the store is closed; it is opened again.
ReopenEngine ==
    /\ budget.reopens > 0
    /\ Opens(journal)
    /\ live' = Replayed(journal)
    /\ writing' = [w \in DocWriters |-> AtRest]
    /\ owner' = NoWriter
    /\ encoding' = {}
    /\ compaction' = AtRest
    /\ revision' = 0
    /\ budget' = [budget EXCEPT !.reopens = @ - 1]
    /\ UNCHANGED journal

DocumentsNext ==
    \/ \E w \in DocWriters :
          \/ BeginWrite(w)
          \/ BeginEncode(w)
          \/ AppendFrame(w)
          \/ Refuse(w)
          \/ ApplyMutation(w)
          \/ EndCommit(w)
    \/ Hydrate
    \/ EncodeSnapshot
    \/ CompactSnapshot
    \/ Compacting
    \/ ReopenEngine

DocumentsSpec == DocumentsInit /\ [][DocumentsNext]_docVars

-----------------------------------------------------------------------------
(* "so a replay of the journal reaches the same one": between two commits  *)
(* the journal opens, and what opening it would show is what the live      *)
(* store shows, whatever was hydrated, encoded late or compacted.          *)
ReplayMatchesLive ==
    owner = NoWriter => Opens(journal) /\ View(Replayed(journal)) = View(live)

(* "no stale vector outlives the text it encoded": between two commits the *)
(* shards hold exactly the vectors of the encoded chunks of the documents  *)
(* stored, each computed from the text its document has.                   *)
NoStaleVector ==
    owner = NoWriter =>
        live.shards = UNION {VectorsOf(d, live.own[d]) : d \in DocIds}

(* A commit planned on the store at one revision is applied to the store   *)
(* it was planned on (commit_serialized_if_revision).                      *)
PlansAreCurrent ==
    \A w \in DocWriters :
        writing[w].stage = "applying" /\ writing[w].next = 1 /\ writing[w].plan # <<>>
            => View(live) = writing[w].plan[2]
=============================================================================
