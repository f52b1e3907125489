-------------------------- MODULE DocumentsSteps ---------------------------
(***************************************************************************)
(* What one mutation, one frame and one journal do to the documents and    *)
(* their vectors: the lemmas about replay that DocumentsProofs rests on.   *)
(*                                                                         *)
(* A state Fits the run of new documents beside it when the vectors in its *)
(* shards are those of its documents and of the run.  Applying a mutation  *)
(* keeps that and changes what is shown of one document, by that mutation  *)
(* alone (FaceAfter).  Two states that show the same therefore show the    *)
(* same after the same frame, however differently they store it, and so do *)
(* two journals whose frames agree from two such states on.                *)
(***************************************************************************)
EXTENDS DocumentsInvariant, WellFoundedInduction, TLAPS

USE Zenon

-----------------------------------------------------------------------------
(* Documents, what they show and the vectors they bring.                   *)

\* No document is a document, and a text has chunks.
LEMMA NoDocIsNone ==
    /\ NoDoc \notin Doc /\ NoDoc \notin DocWriters
    /\ \A x \in NewDoc : x # NoDoc /\ x \in Doc
    /\ \A x \in [text : Texts, mode : {"lexical"}, at : {0}] : x # NoDoc /\ x \in Doc /\ x.mode = "lexical"
    /\ \A x \in [text : Texts, mode : Modes] : x # NoDoc
    /\ \A t \in Texts : ChunkCount[t] \in Nat
  BY SMT, DocumentsAssumption DEF Doc, NewDoc, Modes

\* The run and the image of a store hold documents.
LEMMA RunTypes ==
    /\ NoDocuments \in Run /\ NoDocuments \in Image /\ \A d \in DocIds : NoDocuments[d] = NoDoc
    /\ \A r \in Run, d \in DocIds : r[d] \in Stored /\ (r[d] # NoDoc => r[d].at = 0)
    /\ \A r \in Image, d \in DocIds : r[d] \in Stored /\ (r[d] # NoDoc => r[d].mode = "lexical")
  BY SMT, NoDocIsNone DEF NoDocuments, Run, NewDoc, Image, Stored

\* What a document shows.
LEMMA FaceOf ==
    ASSUME NEW x \in Stored
    PROVE  /\ Face(x) \in Faces
           /\ Face(x) = NoDoc <=> x = NoDoc
           /\ x # NoDoc => Face(x).text = x.text /\ Face(x).mode = x.mode
                           /\ x.text \in Texts /\ x.mode \in Modes /\ x.at \in Nat
  BY SMT, NoDocIsNone DEF Face, Faces, Stored, Doc

\* A vector of a document.
LEMMA VectorOf ==
    ASSUME NEW d \in DocIds, NEW x \in Stored, NEW v
    PROVE  v \in VectorsOf(d, x) <=>
              /\ x # NoDoc /\ x.mode = "encoded"
              /\ \E i \in 1 .. ChunkCount[x.text] : v = <<d, i, x.text>>
  BY DEF VectorsOf

\* Documents that show the same have the same vectors.
LEMMA SameVectors ==
    ASSUME NEW d \in DocIds, NEW x \in Stored, NEW y \in Stored, Face(x) = Face(y)
    PROVE  VectorsOf(d, x) = VectorsOf(d, y)
<1>1. x = NoDoc <=> y = NoDoc
  BY FaceOf
<1>2. x # NoDoc => x.text = y.text /\ x.mode = y.mode
  BY <1>1, FaceOf
<1> QED
  BY <1>1, <1>2 DEF VectorsOf

\* The chunks of the vectors of a document.
LEMMA ChunkOf ==
    ASSUME NEW d \in DocIds, NEW x \in Stored, NEW v \in VectorsOf(d, x)
    PROVE  /\ v[1] = d /\ <<v[1], v[2]>> \in ChunksOf(d, x) /\ v \in Vectors
           /\ x # NoDoc /\ x.mode = "encoded"
<1>1. PICK i \in 1 .. ChunkCount[x.text] : v = <<d, i, x.text>>
  BY VectorOf
<1>2. x # NoDoc /\ x.mode = "encoded"
  BY VectorOf
<1>3. x.text \in Texts /\ i \in Nat
  BY SMT, <1>2, FaceOf, NoDocIsNone
<1> QED
  BY SMT, <1>1, <1>2, <1>3 DEF ChunksOf, Vectors

\* The vectors of d are dropped and those of another document brought.
LEMMA ShardStep ==
    ASSUME NEW docs \in [DocIds -> Stored], NEW new \in [DocIds -> Stored], NEW d \in DocIds,
           NEW shards, Exact(shards, docs),
           \A e \in DocIds \ {d} : VectorsOf(e, new[e]) = VectorsOf(e, docs[e]),
           NEW gone, \A c \in gone : c[1] = d,
           docs[d] # NoDoc /\ docs[d].mode = "encoded" => ChunksOf(d, docs[d]) \subseteq gone
    PROVE  Exact(DropVectors(shards, gone) \cup VectorsOf(d, new[d]), new)
<1> DEFINE left == DropVectors(shards, gone)
<1>1. ASSUME NEW v \in left
      PROVE  \E e \in DocIds : v \in VectorsOf(e, new[e])
  <2>1. v \in shards /\ <<v[1], v[2]>> \notin gone
    BY DEF DropVectors
  <2>2. PICK e \in DocIds : v \in VectorsOf(e, docs[e])
    BY <2>1 DEF Exact
  <2>3. /\ v[1] = e /\ <<v[1], v[2]>> \in ChunksOf(e, docs[e])
        /\ docs[e] # NoDoc /\ docs[e].mode = "encoded"
    BY <2>2, ChunkOf
  <2>4. e # d
    BY <2>1, <2>3
  <2> QED
    BY <2>2, <2>4
<1>2. ASSUME NEW e \in DocIds, NEW v \in VectorsOf(e, new[e])
      PROVE  v \in left \cup VectorsOf(d, new[d])
  <2>1. CASE e = d
    BY <2>1
  <2>2. CASE e # d
    <3>1. v \in VectorsOf(e, docs[e])
      BY <2>2
    <3>2. v \in shards
      BY <3>1 DEF Exact
    <3>3. v[1] = e
      BY <3>1, ChunkOf
    <3>4. <<v[1], v[2]>> \notin gone
      <4> SUFFICES ASSUME <<v[1], v[2]>> \in gone PROVE FALSE
        OBVIOUS
      <4>1. <<v[1], v[2]>>[1] = d
        OBVIOUS
      <4> QED
        BY SMT, <4>1, <3>3, <2>2
    <3> QED
      BY <3>2, <3>4 DEF DropVectors
  <2> QED
    BY <2>1, <2>2
<1> HIDE DEF left
<1> QED
  BY <1>1, <1>2 DEF Exact, left
-----------------------------------------------------------------------------
(* What the operations of the document store do.                           *)

\* The fields of a state.
LEMMA EngineFields ==
    ASSUME NEW s \in Engine
    PROVE  /\ s.own \in [DocIds -> Stored] /\ s.base \in Image /\ s.dead \subseteq DocIds
           /\ s.served \in BOOLEAN /\ s.place \in Nat /\ s.scrubbed \subseteq DocIds \X Nat
           /\ s.shards \subseteq Vectors /\ s.other \in BOOLEAN
  BY SMT DEF Engine

\* Where text goes when documents are installed.
PlaceOf(s, new, d) ==
    IF new[d].at # 0 THEN new[d].at ELSE IF s.served THEN 0 ELSE s.place + 1

\* insert_batch, field by field.
LEMMA InstallFields ==
    ASSUME NEW s \in Engine, NEW new \in [DocIds -> Stored]
    PROVE  LET t == InstallAll(s, new)
               given == {d \in DocIds : new[d] # NoDoc}
           IN  /\ t.own = [d \in DocIds |-> IF new[d] # NoDoc
                             THEN [new[d] EXCEPT !.at = PlaceOf(s, new, d)] ELSE s.own[d]]
               /\ t.dead = s.dead \cup {d \in given : s.base[d] # NoDoc}
               /\ t.place = IF \E d \in given : PlaceOf(s, new, d) > s.place
                            THEN s.place + 1 ELSE s.place
               /\ t.scrubbed = s.scrubbed \cup {<<d, s.own[d].at>> : d \in
                        {e \in given : s.own[e] # NoDoc /\ s.own[e].at \notin {0, PlaceOf(s, new, e)}}}
               /\ t.base = s.base /\ t.served = s.served /\ t.shards = s.shards
               /\ t.other = s.other
               /\ t = [own |-> t.own, base |-> s.base, dead |-> t.dead, served |-> s.served,
                       place |-> t.place, scrubbed |-> t.scrubbed, shards |-> s.shards,
                       other |-> s.other]
<1> DEFINE given == {d \in DocIds : new[d] # NoDoc}
           own == [d \in DocIds |-> IF d \in given
                     THEN [new[d] EXCEPT !.at = PlaceOf(s, new, d)] ELSE s.own[d]]
           dead == s.dead \cup {d \in given : s.base[d] # NoDoc}
           place == IF \E d \in given : PlaceOf(s, new, d) > s.place THEN s.place + 1 ELSE s.place
           scrubbed == s.scrubbed \cup {<<d, s.own[d].at>> : d \in
                        {e \in given : s.own[e] # NoDoc /\ s.own[e].at \notin {0, PlaceOf(s, new, e)}}}
<1>1. InstallAll(s, new) = [s EXCEPT !.own = own, !.dead = dead, !.place = place, !.scrubbed = scrubbed]
  BY DEF InstallAll, PlaceOf
<1>2. own = [d \in DocIds |-> IF new[d] # NoDoc
               THEN [new[d] EXCEPT !.at = PlaceOf(s, new, d)] ELSE s.own[d]]
  OBVIOUS
<1> HIDE DEF own, dead, place, scrubbed
<1>3. LET t == InstallAll(s, new)
      IN  /\ t.own = own /\ t.dead = dead /\ t.place = place /\ t.scrubbed = scrubbed
          /\ t.base = s.base /\ t.served = s.served /\ t.shards = s.shards /\ t.other = s.other
          /\ t = [own |-> own, base |-> s.base, dead |-> dead, served |-> s.served,
                  place |-> place, scrubbed |-> scrubbed, shards |-> s.shards,
                  other |-> s.other]
  <2>1. s = [own |-> s.own, base |-> s.base, dead |-> s.dead, served |-> s.served,
             place |-> s.place, scrubbed |-> s.scrubbed, shards |-> s.shards, other |-> s.other]
    BY SMT DEF Engine
  <2> QED
    BY <1>1, <2>1
<1> QED
  BY <1>2, <1>3 DEF dead, place, scrubbed

\* Documents are installed: each is shown, in a place of its own or where its text is.
LEMMA Installed ==
    ASSUME NEW s, Sound(s), NEW new \in [DocIds -> Stored],
           \A d \in DocIds : new[d] # NoDoc /\ new[d].at # 0 =>
                                s.own[d] # NoDoc /\ new[d].at = s.own[d].at
    PROVE  LET t == InstallAll(s, new)
           IN  /\ Sound(t) /\ t.base = s.base /\ t.served = s.served /\ t.shards = s.shards
               /\ t.other = s.other
               /\ \A d \in DocIds : new[d] = NoDoc => t.own[d] = s.own[d]
               /\ \A d \in DocIds : new[d] # NoDoc =>
                     /\ t.own[d] # NoDoc /\ Face(t.own[d]) = Face(new[d])
                     /\ new[d].at # 0 => t.own[d].at = s.own[d].at
                     /\ new[d].at = 0 /\ s.served => t.own[d].at = 0
               /\ t.dead = s.dead \cup {d \in DocIds : new[d] # NoDoc /\ s.base[d] # NoDoc}
<1> DEFINE t == InstallAll(s, new)
           at(d) == PlaceOf(s, new, d)
           given == {d \in DocIds : new[d] # NoDoc}
<1>1. s \in Engine /\ (~s.served => s.base = NoDocuments) /\ Placed(s)
  BY DEF Sound
<1>2. /\ s.own \in [DocIds -> Stored] /\ s.base \in Image /\ s.dead \subseteq DocIds
      /\ s.served \in BOOLEAN /\ s.place \in Nat /\ s.scrubbed \subseteq DocIds \X Nat
      /\ s.shards \subseteq Vectors /\ s.other \in BOOLEAN
  BY <1>1, EngineFields
<1>3. \A d \in DocIds : new[d] # NoDoc => new[d] \in Doc
  BY DEF Stored
<1>4. \A d \in given : at(d) \in Nat /\ at(d) <= s.place + 1
  <2> TAKE d \in given
  <2>1. new[d].at \in Nat /\ d \in DocIds
    BY <1>3, FaceOf DEF Stored
  <2>2. new[d].at # 0 => new[d].at <= s.place
    BY <1>1 DEF Placed
  <2> QED
    BY SMT, <1>2, <2>1, <2>2 DEF PlaceOf
<1>5. /\ t.own = [d \in DocIds |-> IF new[d] # NoDoc
                             THEN [new[d] EXCEPT !.at = at(d)] ELSE s.own[d]]
      /\ t.dead = s.dead \cup {d \in given : s.base[d] # NoDoc}
      /\ t.place = IF \E d \in given : at(d) > s.place THEN s.place + 1 ELSE s.place
      /\ t.scrubbed = s.scrubbed \cup {<<d, s.own[d].at>> : d \in
                        {e \in given : s.own[e] # NoDoc /\ s.own[e].at \notin {0, at(e)}}}
      /\ t.base = s.base /\ t.served = s.served /\ t.shards = s.shards
      /\ t.other = s.other
      /\ t = [own |-> t.own, base |-> s.base, dead |-> t.dead, served |-> s.served,
              place |-> t.place, scrubbed |-> t.scrubbed, shards |-> s.shards,
              other |-> s.other]
  BY <1>1, InstallFields
<1>6. \A d \in given : /\ at(d) = 0 => s.served
                       /\ new[d].at # 0 => at(d) = s.own[d].at /\ s.own[d] # NoDoc
                       /\ new[d].at = 0 => at(d) = 0 \/ at(d) = s.place + 1
                       /\ new[d].at = 0 /\ s.served => at(d) = 0
  <2> TAKE d \in given
  <2>1. new[d].at \in Nat /\ d \in DocIds
    BY <1>3, FaceOf DEF Stored
  <2>2. at(d) = IF new[d].at # 0 THEN new[d].at ELSE IF s.served THEN 0 ELSE s.place + 1
    BY DEF PlaceOf
  <2>3. s.place + 1 # 0
    BY SMT, <1>2
  <2> QED
    BY <2>1, <2>2, <2>3
<1> HIDE DEF t, at
<1>7. t.place \in Nat /\ t.place >= s.place /\ \A d \in given : at(d) <= t.place
  BY SMT, <1>2, <1>4, <1>5
<1>8. \A d \in given : /\ t.own[d] \in Doc /\ t.own[d].at = at(d)
                       /\ t.own[d].text = new[d].text /\ t.own[d].mode = new[d].mode
  BY SMT, <1>3, <1>4, <1>5 DEF Doc
<1>9. \A d \in DocIds \ given : t.own[d] = s.own[d]
  BY <1>5
<1>10. t.own \in [DocIds -> Stored]
  <2>1. \A d \in DocIds : t.own[d] \in Stored
    BY <1>2, <1>8, <1>9 DEF Stored
  <2> QED
    BY <1>5, <2>1
<1>11. t.scrubbed \subseteq DocIds \X Nat
  BY SMT, <1>2, <1>5 DEF Stored, Doc
<1>12. t \in Engine
  BY SMT, <1>2, <1>5, <1>7, <1>10, <1>11 DEF Engine
<1>13. Placed(t)
  <2>1. ASSUME NEW p \in t.scrubbed
        PROVE  /\ p[2] \in 1 .. t.place
               /\ p \in s.scrubbed \/ \E d \in given : p = <<d, s.own[d].at>> /\ s.own[d].at # at(d)
    <3>1. CASE p \in s.scrubbed
      BY SMT, <1>1, <1>2, <1>7, <3>1 DEF Placed
    <3>2. CASE p \notin s.scrubbed
      <4>1. PICK d \in given : p = <<d, s.own[d].at>> /\ s.own[d] # NoDoc
                               /\ s.own[d].at # 0 /\ s.own[d].at # at(d)
        BY <1>5, <3>2
      <4>2. s.own[d].at \in Nat /\ s.own[d].at <= s.place
        BY <1>1, <1>2, <4>1, FaceOf DEF Placed
      <4>3. s.own[d].at \in 1 .. t.place
        BY SMT, <1>2, <1>7, <4>1, <4>2
      <4> QED
        BY SMT, <4>1, <4>3
    <3> QED
      BY <3>1, <3>2
  <2>2. ASSUME NEW d \in DocIds, t.own[d] # NoDoc
        PROVE  /\ t.own[d].at <= t.place
               /\ <<d, t.own[d].at>> \notin t.scrubbed
               /\ t.served \/ t.own[d].at # 0
    <3>1. CASE d \in given
      <4>1. t.own[d].at = at(d) /\ at(d) <= t.place /\ (t.served \/ at(d) # 0)
        BY <1>5, <1>6, <1>7, <1>8, <3>1
      <4>2. ASSUME <<d, at(d)>> \in t.scrubbed
            PROVE  FALSE
        <5>1. <<d, at(d)>>[2] \in 1 .. t.place /\ <<d, at(d)>> \in s.scrubbed
          BY <2>1, <4>2
        <5>2. at(d) \in 1 .. s.place
          BY SMT, <1>1, <5>1 DEF Placed
        <5>3. at(d) = s.own[d].at /\ s.own[d] # NoDoc
          BY SMT, <1>2, <1>6, <3>1, <5>2
        <5> QED
          BY <1>1, <5>1, <5>3 DEF Placed
      <4> QED
        BY <4>1, <4>2
    <3>2. CASE d \notin given
      <4>1. t.own[d] = s.own[d] /\ s.own[d] # NoDoc
        BY <1>9, <2>2, <3>2
      <4>2. s.own[d].at <= s.place /\ <<d, s.own[d].at>> \notin s.scrubbed
            /\ (s.served \/ s.own[d].at # 0) /\ s.own[d].at \in Nat
        BY <1>1, <1>2, <4>1, FaceOf DEF Placed
      <4>3. <<d, s.own[d].at>> \notin t.scrubbed
        BY <2>1, <3>2, <4>2
      <4>4. s.own[d].at <= t.place
        BY SMT, <1>2, <1>7, <4>2
      <4> QED
        BY <1>5, <4>1, <4>2, <4>3, <4>4
    <3> QED
      BY <3>1, <3>2
  <2> QED
    BY <2>1, <2>2 DEF Placed
<1>14. \A d \in given : t.own[d] # NoDoc /\ Face(t.own[d]) = Face(new[d])
  BY <1>8, NoDocIsNone DEF Face
<1>15. Sound(t)
  <2>1. \A d \in DocIds : t.own[d] # NoDoc /\ t.base[d] # NoDoc => d \in t.dead
    BY <1>5, <1>9 DEF Sound
  <2> QED
    BY <1>1, <1>5, <1>12, <1>13, <2>1 DEF Sound
<1>16. t.dead = s.dead \cup {d \in DocIds : new[d] # NoDoc /\ s.base[d] # NoDoc}
  BY <1>5
<1>17. \A d \in DocIds : new[d] = NoDoc => t.own[d] = s.own[d]
  BY <1>9
<1>18. \A d \in DocIds : new[d] # NoDoc =>
          /\ t.own[d] # NoDoc /\ Face(t.own[d]) = Face(new[d])
          /\ new[d].at # 0 => t.own[d].at = s.own[d].at
          /\ new[d].at = 0 /\ s.served => t.own[d].at = 0
  BY <1>6, <1>8, <1>14
<1>19. t.base = s.base /\ t.served = s.served /\ t.shards = s.shards /\ t.other = s.other
  BY <1>5
<1> QED
  BY <1>15, <1>16, <1>17, <1>18, <1>19 DEF t

\* Documents with the same vectors have the same shards.
LEMMA ExactSame ==
    ASSUME NEW shards, NEW docs, NEW new, Exact(shards, docs),
           \A d \in DocIds : VectorsOf(d, new[d]) = VectorsOf(d, docs[d])
    PROVE  Exact(shards, new)
  BY DEF Exact

\* The types of what is written and shown.
LEMMA ShownTypes ==
    ASSUME NEW s \in Engine, NEW run \in Run
    PROVE  /\ Written(s, run) \in [DocIds -> Stored]
           /\ Shown(s, run) \in [DocIds -> Faces]
           /\ \A d \in DocIds : s.own[d] \in Stored /\ s.base[d] \in Stored /\ run[d] \in Stored
<1>1. \A d \in DocIds : s.own[d] \in Stored /\ s.base[d] \in Stored /\ run[d] \in Stored
  BY EngineFields, RunTypes
<1>2. NoDoc \in Stored
  BY DEF Stored
<1>3. \A d \in DocIds : Written(s, run)[d] \in Stored /\ Shown(s, run)[d] \in Faces
  BY <1>1, <1>2, FaceOf DEF Written, Shown
<1> QED
  BY <1>1, <1>3 DEF Written, Shown

\* The documents not yet installed are.
LEMMA InstallRun ==
    ASSUME NEW s, NEW run, Fit(s, run)
    PROVE  LET t == InstallAll(s, run)
           IN  /\ Fit(t, NoDocuments) /\ Shown(t, NoDocuments) = Shown(s, run)
               /\ t.other = s.other /\ t.served = s.served
               /\ \A d \in DocIds : run[d] = NoDoc => t.own[d] = s.own[d]
<1> DEFINE t == InstallAll(s, run)
<1>1. Sound(s) /\ s \in Engine /\ run \in Run /\ Exact(s.shards, Written(s, run))
  BY DEF Fit, Sound
<1>2. run \in [DocIds -> Stored] /\ \A d \in DocIds : run[d] # NoDoc => run[d].at = 0
  BY <1>1, RunTypes DEF Run
<1>3. /\ Sound(t) /\ t.base = s.base /\ t.served = s.served /\ t.shards = s.shards
      /\ t.other = s.other
      /\ \A d \in DocIds : run[d] = NoDoc => t.own[d] = s.own[d]
      /\ \A d \in DocIds : run[d] # NoDoc => t.own[d] # NoDoc /\ Face(t.own[d]) = Face(run[d])
      /\ t.dead = s.dead \cup {d \in DocIds : run[d] # NoDoc /\ s.base[d] # NoDoc}
  <2>1. \A d \in DocIds : run[d] # NoDoc /\ run[d].at # 0 =>
                             s.own[d] # NoDoc /\ run[d].at = s.own[d].at
    BY <1>2
  <2> QED
    BY SMT, <1>1, <1>2, <2>1, Installed
<1> HIDE DEF t
<1>4. t \in Engine /\ NoDocuments \in Run /\ \A d \in DocIds : NoDocuments[d] = NoDoc
  BY <1>3, RunTypes DEF Sound
<1>5. \A d \in DocIds : Shown(t, NoDocuments)[d] = Shown(s, run)[d]
  BY <1>3, <1>4 DEF Shown
<1>6. Shown(t, NoDocuments) = Shown(s, run)
  BY <1>5 DEF Shown
<1>7. \A d \in DocIds : Face(Written(t, NoDocuments)[d]) = Face(Written(s, run)[d])
  BY <1>3, <1>4 DEF Written
<1>8. \A d \in DocIds : VectorsOf(d, Written(t, NoDocuments)[d]) = VectorsOf(d, Written(s, run)[d])
  BY <1>1, <1>4, <1>7, SameVectors, ShownTypes
<1>9. Exact(t.shards, Written(t, NoDocuments))
  BY <1>1, <1>3, <1>8, ExactSame
<1> QED
  BY <1>3, <1>4, <1>6, <1>9 DEF Fit, t

\* A document is removed.
LEMMA Removed ==
    ASSUME NEW s, Fit(s, NoDocuments), NEW d \in DocIds
    PROVE  LET t == Remove(s, d)
           IN  /\ Fit(t, NoDocuments)
               /\ Shown(t, NoDocuments)[d] = NoDoc
               /\ \A e \in DocIds \ {d} : /\ Shown(t, NoDocuments)[e] = Shown(s, NoDocuments)[e]
                                          /\ t.own[e] = s.own[e]
               /\ t.other = s.other /\ t.served = s.served
<1> DEFINE t == Remove(s, d)
           old == s.own[d]
           zeroed == IF old.at = 0 THEN {} ELSE {<<d, old.at>>}
<1>1. /\ Sound(s) /\ s \in Engine /\ Exact(s.shards, Written(s, NoDocuments))
      /\ ~s.served => s.base = NoDocuments
      /\ \A e \in DocIds : s.own[e] # NoDoc /\ s.base[e] # NoDoc => e \in s.dead
      /\ Placed(s)
  BY DEF Fit, Sound
<1>2. /\ s.own \in [DocIds -> Stored] /\ s.base \in Image /\ s.dead \subseteq DocIds
      /\ s.served \in BOOLEAN /\ s.place \in Nat /\ s.scrubbed \subseteq DocIds \X Nat
      /\ s.shards \subseteq Vectors /\ s.other \in BOOLEAN
  BY <1>1, EngineFields
<1>3. NoDocuments \in Run /\ (\A e \in DocIds : NoDocuments[e] = NoDoc) /\ NoDoc \in Stored
      /\ Face(NoDoc) = NoDoc
  BY RunTypes DEF Stored, Face
<1>4. s = [own |-> s.own, base |-> s.base, dead |-> s.dead, served |-> s.served,
           place |-> s.place, scrubbed |-> s.scrubbed, shards |-> s.shards, other |-> s.other]
  BY SMT, <1>1 DEF Engine
<1>5. /\ t.own = [s.own EXCEPT ![d] = NoDoc] /\ t.base = s.base /\ t.served = s.served
      /\ t.place = s.place /\ t.other = s.other
      /\ t.dead \subseteq DocIds /\ s.dead \subseteq t.dead /\ t.dead \subseteq s.dead \cup {d}
      /\ s.base[d] = NoDoc \/ d \in t.dead
      /\ IF old = NoDoc THEN t.shards = s.shards /\ t.scrubbed = s.scrubbed
         ELSE /\ t.shards = DropVectors(s.shards, ChunksOf(d, old))
              /\ t.scrubbed = s.scrubbed \cup zeroed
      /\ t = [own |-> t.own, base |-> s.base, dead |-> t.dead, served |-> s.served,
              place |-> s.place, scrubbed |-> t.scrubbed, shards |-> t.shards, other |-> s.other]
  <2>1. CASE old = NoDoc
    <3> DEFINE dead == s.dead \cup (IF s.base[d] = NoDoc THEN {} ELSE {d})
    <3>1. t = [s EXCEPT !.dead = dead]
      BY <2>1 DEF Remove
    <3>2. s.own = [s.own EXCEPT ![d] = NoDoc]
      BY <1>2, <2>1
    <3>3. /\ dead \subseteq DocIds /\ s.dead \subseteq dead /\ dead \subseteq s.dead \cup {d}
          /\ s.base[d] = NoDoc \/ d \in dead
      BY <1>2
    <3> HIDE DEF t, dead
    <3>4. t = [own |-> s.own, base |-> s.base, dead |-> dead, served |-> s.served,
               place |-> s.place, scrubbed |-> s.scrubbed, shards |-> s.shards, other |-> s.other]
      BY <1>4, <3>1
    <3> QED
      BY <2>1, <3>2, <3>3, <3>4
  <2>2. CASE old # NoDoc
    <3> DEFINE own == [s.own EXCEPT ![d] = NoDoc]
               shards == DropVectors(s.shards, ChunksOf(d, old))
               scrubbed == s.scrubbed \cup zeroed
    <3>1. t = [s EXCEPT !.own[d] = NoDoc, !.shards = shards, !.scrubbed = scrubbed]
      BY <2>2 DEF Remove
    <3>2. s.base[d] = NoDoc \/ d \in s.dead
      BY <1>1, <2>2
    <3> HIDE DEF t, shards, scrubbed
    <3>4. t = [own |-> own, base |-> s.base, dead |-> s.dead, served |-> s.served,
               place |-> s.place, scrubbed |-> scrubbed, shards |-> shards, other |-> s.other]
      BY <1>4, <3>1
    <3> QED
      BY <1>2, <2>2, <3>2, <3>4 DEF shards, scrubbed
  <2> QED
    BY <2>1, <2>2
<1> HIDE DEF t
<1>6. t.own \in [DocIds -> Stored] /\ t.own[d] = NoDoc /\ \A e \in DocIds \ {d} : t.own[e] = s.own[e]
  BY <1>2, <1>3, <1>5
<1>7. t.shards \subseteq s.shards /\ s.scrubbed \subseteq t.scrubbed
  BY <1>5 DEF DropVectors
<1>8. ASSUME NEW p \in t.scrubbed
      PROVE  p \in DocIds \X Nat /\ p[2] \in 1 .. s.place /\ (p[1] # d => p \in s.scrubbed)
  <2>1. CASE p \in s.scrubbed
    BY <1>1, <1>2, <2>1 DEF Placed
  <2>2. CASE p \notin s.scrubbed
    <3>1. old # NoDoc /\ old.at # 0 /\ p = <<d, old.at>>
      BY <1>5, <2>2
    <3>2. old.at \in Nat /\ old.at <= s.place
      BY <1>1, <1>2, <3>1, FaceOf DEF Placed
    <3> QED
      BY SMT, <1>2, <3>1, <3>2
  <2> QED
    BY <2>1, <2>2
<1>9. t \in Engine
  <2>1. t.scrubbed \subseteq DocIds \X Nat /\ t.shards \subseteq Vectors
    BY <1>2, <1>7, <1>8
  <2> QED
    BY SMT, <1>2, <1>5, <1>6, <2>1 DEF Engine
<1>10. Placed(t)
  <2>1. ASSUME NEW e \in DocIds, t.own[e] # NoDoc
        PROVE  /\ t.own[e].at <= t.place /\ <<e, t.own[e].at>> \notin t.scrubbed
               /\ t.served \/ t.own[e].at # 0
    <3>1. e # d /\ t.own[e] = s.own[e]
      BY <1>6, <2>1
    <3>2. /\ s.own[e].at <= s.place /\ <<e, s.own[e].at>> \notin s.scrubbed
          /\ s.served \/ s.own[e].at # 0
      BY <1>1, <2>1, <3>1 DEF Placed
    <3>3. <<e, s.own[e].at>> \notin t.scrubbed
      <4>1. <<e, s.own[e].at>>[1] # d
        BY <3>1
      <4> QED
        BY <1>8, <3>2, <4>1
    <3> QED
      BY <1>5, <3>1, <3>2, <3>3
  <2> QED
    BY <1>5, <1>8, <2>1 DEF Placed
<1>11. Sound(t)
  BY <1>1, <1>5, <1>6, <1>9, <1>10 DEF Sound
<1>12. Exact(t.shards, Written(t, NoDocuments))
  <2> DEFINE docs == Written(s, NoDocuments)
             new == Written(t, NoDocuments)
  <2>1. \A e \in DocIds : docs[e] = s.own[e] /\ new[e] = t.own[e]
    BY <1>3 DEF Written
  <2>2. docs \in [DocIds -> Stored] /\ new \in [DocIds -> Stored] /\ Exact(s.shards, docs)
    BY <1>1, <1>3, <1>9, ShownTypes
  <2> HIDE DEF docs, new
  <2>3. VectorsOf(d, new[d]) = {}
    BY <1>6, <2>1 DEF VectorsOf
  <2>4. CASE old = NoDoc
    <3>1. \A e \in DocIds : VectorsOf(e, new[e]) = VectorsOf(e, docs[e])
      BY <1>6, <2>1, <2>4
    <3>2. t.shards = s.shards
      BY <1>5, <2>4
    <3>3. Exact(s.shards, new)
      BY <2>2, <3>1, ExactSame
    <3> QED
      BY <3>2, <3>3 DEF new
  <2>5. CASE old # NoDoc
    <3> DEFINE gone == ChunksOf(d, old)
    <3>1. \A c \in gone : c[1] = d
      BY SMT DEF ChunksOf
    <3>2. \A e \in DocIds \ {d} : VectorsOf(e, new[e]) = VectorsOf(e, docs[e])
      BY <1>6, <2>1
    <3>3. docs[d] # NoDoc /\ docs[d].mode = "encoded" => ChunksOf(d, docs[d]) \subseteq gone
      BY <2>1
    <3> HIDE DEF gone
    <3>4. Exact(DropVectors(s.shards, gone) \cup VectorsOf(d, new[d]), new)
      BY <2>2, <3>1, <3>2, <3>3, ShardStep
    <3> QED
      BY <1>5, <2>3, <2>5, <3>4 DEF gone, new
  <2> QED
    BY <2>4, <2>5
<1>13. /\ Shown(t, NoDocuments)[d] = NoDoc
       /\ \A e \in DocIds \ {d} : Shown(t, NoDocuments)[e] = Shown(s, NoDocuments)[e]
  BY <1>3, <1>5, <1>6 DEF Shown
<1> QED
  BY <1>3, <1>5, <1>6, <1>11, <1>12, <1>13 DEF Fit, t
\* A store served from its checkpoint is rebuilt: nothing shown changes.
LEMMA Hydration ==
    ASSUME NEW s, NEW run, Fit(s, run)
    PROVE  LET t == Hydrated(s)
           IN  /\ Fit(t, run) /\ ~t.served /\ t.other = s.other /\ t.shards = s.shards
               /\ Shown(t, run) = Shown(s, run)
               /\ Shown(t, NoDocuments) = Shown(s, NoDocuments)
<1> DEFINE t == Hydrated(s)
           doc(d) == IF s.own[d] # NoDoc THEN s.own[d]
                     ELSE IF d \in s.dead THEN NoDoc ELSE s.base[d]
           own == [d \in DocIds |-> IF doc(d) = NoDoc THEN NoDoc
                                    ELSE [doc(d) EXCEPT !.at = s.place + 1]]
<1>1. /\ Sound(s) /\ s \in Engine /\ run \in Run /\ Exact(s.shards, Written(s, run)) /\ Placed(s)
  BY DEF Fit, Sound
<1>2. /\ s.own \in [DocIds -> Stored] /\ s.base \in Image /\ s.dead \subseteq DocIds
      /\ s.served \in BOOLEAN /\ s.place \in Nat /\ s.scrubbed \subseteq DocIds \X Nat
      /\ s.shards \subseteq Vectors /\ s.other \in BOOLEAN
  BY <1>1, EngineFields
<1>3. /\ NoDocuments \in Run /\ NoDocuments \in Image /\ (\A e \in DocIds : NoDocuments[e] = NoDoc)
      /\ NoDoc \in Stored /\ Face(NoDoc) = NoDoc
  BY RunTypes DEF Stored, Face
<1>4. CASE ~s.served
  BY <1>4 DEF Hydrated
<1>5. CASE s.served
  <2>1. s = [own |-> s.own, base |-> s.base, dead |-> s.dead, served |-> s.served,
             place |-> s.place, scrubbed |-> s.scrubbed, shards |-> s.shards, other |-> s.other]
    BY SMT, <1>1 DEF Engine
  <2>2. t = [s EXCEPT !.own = own, !.place = s.place + 1, !.base = NoDocuments, !.dead = {},
                      !.served = FALSE]
    BY <1>5 DEF Hydrated
  <2>3. \A d \in DocIds : doc(d) \in Stored /\ s.base[d] \in Stored
    BY <1>2, <1>3, RunTypes
  <2>4. \A d \in DocIds : /\ own[d] \in Stored
                          /\ own[d] = NoDoc <=> doc(d) = NoDoc
                          /\ Face(own[d]) = Face(doc(d))
                          /\ own[d] # NoDoc => own[d].at = s.place + 1
    <3> TAKE d \in DocIds
    <3>1. CASE doc(d) = NoDoc
      BY <1>3, <3>1
    <3>2. CASE doc(d) # NoDoc
      <4> DEFINE x == doc(d)
                 y == [x EXCEPT !.at = s.place + 1]
      <4>1. x \in Doc
        BY <2>3, <3>2 DEF Stored
      <4>2. own[d] = y
        BY <3>2
      <4> HIDE DEF x, own
      <4>3. y \in Doc /\ y.text = x.text /\ y.mode = x.mode /\ y.at = s.place + 1
        BY SMT, <1>2, <4>1 DEF Doc
      <4>4. y # NoDoc /\ x # NoDoc
        BY <4>1, <4>3, NoDocIsNone
      <4>5. Face(y) = Face(x)
        BY <4>3, <4>4 DEF Face
      <4> QED
        BY <4>2, <4>3, <4>4, <4>5 DEF x, Stored
    <3> QED
      BY <3>1, <3>2
  <2>5. own \in [DocIds -> Stored]
    BY <2>4
  <2>6. /\ t.own = own /\ t.base = NoDocuments /\ t.dead = {} /\ t.served = FALSE
        /\ t.place = s.place + 1 /\ t.scrubbed = s.scrubbed /\ t.shards = s.shards
        /\ t.other = s.other
        /\ t = [own |-> own, base |-> NoDocuments, dead |-> {}, served |-> FALSE,
                place |-> s.place + 1, scrubbed |-> s.scrubbed, shards |-> s.shards,
                other |-> s.other]
    <3> HIDE DEF own, t
    <3> QED
      BY <2>1, <2>2
  <2> HIDE DEF t, own
  <2>7. t \in Engine
    BY SMT, <1>2, <1>3, <2>5, <2>6 DEF Engine
  <2>8. Placed(t)
    <3>1. \A p \in t.scrubbed : p[2] \in 1 .. s.place
      BY <1>1, <2>6 DEF Placed
    <3>2. \A p \in t.scrubbed : p[2] \in 1 .. t.place /\ p[2] # s.place + 1
      BY SMT, <1>2, <2>6, <3>1
    <3>3. ASSUME NEW d \in DocIds, t.own[d] # NoDoc
          PROVE  /\ t.own[d].at <= t.place /\ <<d, t.own[d].at>> \notin t.scrubbed
                 /\ t.served \/ t.own[d].at # 0
      <4>1. t.own[d].at = s.place + 1
        BY <2>4, <2>6, <3>3
      <4>2. s.place + 1 <= t.place /\ s.place + 1 # 0
        BY SMT, <1>2, <2>6
      <4>3. <<d, s.place + 1>> \notin t.scrubbed
        BY <3>2
      <4> QED
        BY <4>1, <4>2, <4>3
    <3> QED
      BY <3>2, <3>3 DEF Placed
  <2>9. Sound(t)
    BY <1>3, <2>6, <2>7, <2>8 DEF Sound
  <2>10. \A d \in DocIds : VectorsOf(d, Written(t, run)[d]) = VectorsOf(d, Written(s, run)[d])
    <3> TAKE d \in DocIds
    <3>1. CASE run[d] # NoDoc \/ s.own[d] # NoDoc
      <4>1. Face(Written(t, run)[d]) = Face(Written(s, run)[d])
        BY <2>4, <2>6, <3>1 DEF Written
      <4> QED
        BY <1>1, <2>7, <4>1, SameVectors, ShownTypes
    <3>2. CASE run[d] = NoDoc /\ s.own[d] = NoDoc
      <4>1. VectorsOf(d, Written(s, run)[d]) = {}
        BY <3>2 DEF Written, VectorsOf
      <4>2. Written(t, run)[d] = own[d]
        BY <2>6, <3>2 DEF Written
      <4>3. doc(d) = NoDoc \/ (doc(d) = s.base[d] /\ doc(d).mode = "lexical" /\ doc(d) # NoDoc)
        BY <1>2, <3>2, RunTypes
      <4>4. own[d] = NoDoc \/ own[d].mode = "lexical"
        <5>1. CASE doc(d) = NoDoc
          BY <2>4, <5>1
        <5>2. CASE doc(d) # NoDoc /\ doc(d).mode = "lexical"
          <6> DEFINE x == doc(d)
                     y == own[d]
          <6>1. x \in Stored /\ y \in Stored /\ Face(y) = Face(x) /\ x # NoDoc
                /\ y # NoDoc /\ x.mode = "lexical"
            BY <2>3, <2>4, <5>2
          <6> HIDE DEF x, y
          <6>2. Face(y).mode = y.mode /\ Face(x).mode = x.mode
            BY <6>1, FaceOf
          <6>3. y.mode = "lexical"
            BY <6>1, <6>2
          <6> QED
            BY <6>3 DEF y
        <5> QED
          BY <4>3, <5>1, <5>2
      <4> QED
        BY <4>1, <4>2, <4>4 DEF VectorsOf
    <3> QED
      BY <3>1, <3>2
  <2>11. Exact(t.shards, Written(t, run))
    <3> DEFINE docs == Written(s, run)
               new == Written(t, run)
    <3>1. \A d \in DocIds : VectorsOf(d, new[d]) = VectorsOf(d, docs[d])
      BY <2>10
    <3>2. Exact(s.shards, docs)
      BY <1>1
    <3> HIDE DEF docs, new
    <3>3. Exact(s.shards, new)
      BY <3>1, <3>2, ExactSame
    <3> QED
      BY <2>6, <3>3 DEF new
  <2>12. \A r \in Run, d \in DocIds : Shown(t, r)[d] = Shown(s, r)[d]
    <3> TAKE r \in Run, d \in DocIds
    <3>1. CASE r[d] # NoDoc
      BY <3>1 DEF Shown
    <3>2. CASE r[d] = NoDoc
      <4>1. Shown(s, r)[d] = Face(doc(d))
        BY <3>2 DEF Shown
      <4>2. Shown(t, r)[d] = Face(own[d])
        BY <1>3, <2>6, <3>2 DEF Shown
      <4> QED
        BY <2>4, <4>1, <4>2
    <3> QED
      BY <3>1, <3>2
  <2>13. \A r \in Run : Shown(t, r) = Shown(s, r)
    BY <2>12 DEF Shown
  <2> QED
    BY <1>1, <1>3, <2>6, <2>9, <2>11, <2>13 DEF Fit, t
<1> QED
  BY <1>2, <1>4, <1>5

\* A deferred encoding is installed if it belongs to the document there is.
LEMMA Encoded ==
    ASSUME NEW s, Fit(s, NoDocuments), NEW d \in DocIds, NEW text \in Texts
    PROVE  LET t == Encode(s, d, text)
               x == Shown(s, NoDocuments)[d]
           IN  /\ Fit(t, NoDocuments) /\ t.other = s.other /\ t.served = s.served
               /\ Shown(t, NoDocuments)[d] =
                    IF x # NoDoc /\ x.mode = "pending" /\ x.text = text
                    THEN [text |-> x.text, mode |-> "encoded"] ELSE x
               /\ \A e \in DocIds \ {d} : Shown(t, NoDocuments)[e] = Shown(s, NoDocuments)[e]
               /\ \A e \in DocIds : s.own[e] # NoDoc =>
                     t.own[e] # NoDoc /\ t.own[e].at = s.own[e].at
<1> DEFINE t == Encode(s, d, text)
           x == Shown(s, NoDocuments)[d]
           doc == s.own[d]
<1>1. Sound(s) /\ s \in Engine /\ Exact(s.shards, Written(s, NoDocuments))
  BY DEF Fit, Sound
<1>2. /\ s.own \in [DocIds -> Stored] /\ s.base \in Image /\ s.dead \subseteq DocIds
      /\ doc \in Stored
  BY <1>1, EngineFields
<1>3. NoDocuments \in Run /\ (\A e \in DocIds : NoDocuments[e] = NoDoc) /\ NoDoc \in Stored
      /\ Face(NoDoc) = NoDoc
  BY RunTypes DEF Stored, Face
<1>4. doc # NoDoc => x # NoDoc /\ x.text = doc.text /\ x.mode = doc.mode
  BY <1>2, <1>3, FaceOf DEF Shown
<1>5. doc = NoDoc => x = NoDoc \/ x.mode = "lexical"
  <2> SUFFICES ASSUME doc = NoDoc, x # NoDoc
               PROVE  x.mode = "lexical"
    OBVIOUS
  <2>1. x = Face(s.base[d])
    BY <1>3 DEF Shown
  <2>2. s.base[d] \in Stored /\ (s.base[d] # NoDoc => s.base[d].mode = "lexical")
    BY <1>2, RunTypes
  <2> QED
    BY <2>1, <2>2, FaceOf
<1>6. Applicable(doc, text) <=> x # NoDoc /\ x.mode = "pending" /\ x.text = text
  BY <1>4, <1>5 DEF Applicable
<1>7. CASE ~Applicable(doc, text)
  BY <1>6, <1>7 DEF Encode
<1>8. CASE Applicable(doc, text)
  <2> DEFINE y == [doc EXCEPT !.mode = "encoded"]
             new == [NoDocuments EXCEPT ![d] = y]
             u == InstallAll(s, new)
             shards == DropVectors(s.shards, ChunksOf(d, doc))
                         \cup {<<d, i, text>> : i \in 1 .. ChunkCount[text]}
  <2>1. doc \in Doc /\ doc # NoDoc /\ doc.text = text /\ doc.mode = "pending"
    BY <1>2, <1>8 DEF Applicable, Stored
  <2>2. y \in Doc /\ y.text = text /\ y.mode = "encoded" /\ y.at = doc.at
    BY SMT, <2>1 DEF Doc, Modes
  <2>3. y # NoDoc /\ y \in Stored
    BY <2>2, NoDocIsNone DEF Stored
  <2>4. t = [InstallAll(s, [NoDocuments EXCEPT ![d] = [doc EXCEPT !.mode = "encoded"]])
               EXCEPT !.shards = DropVectors(@, ChunksOf(d, doc))
                              \cup {<<d, i, text>> : i \in 1..ChunkCount[text]}]
    BY <1>8 DEF Encode
  <2> HIDE DEF y
  <2>5. /\ new \in [DocIds -> Stored] /\ new[d] = y
        /\ \A e \in DocIds \ {d} : new[e] = NoDoc
    BY <1>3, <2>3 DEF NoDocuments
  <2> HIDE DEF new
  <2>6. \A e \in DocIds : new[e] # NoDoc /\ new[e].at # 0 =>
                              s.own[e] # NoDoc /\ new[e].at = s.own[e].at
    BY <2>1, <2>2, <2>5
  <2>7. /\ Sound(u) /\ u.base = s.base /\ u.served = s.served /\ u.shards = s.shards
        /\ u.other = s.other
        /\ \A e \in DocIds : new[e] = NoDoc => u.own[e] = s.own[e]
        /\ \A e \in DocIds : new[e] # NoDoc =>
              /\ u.own[e] # NoDoc /\ Face(u.own[e]) = Face(new[e])
              /\ new[e].at # 0 => u.own[e].at = s.own[e].at
              /\ new[e].at = 0 /\ s.served => u.own[e].at = 0
        /\ u.dead = s.dead \cup {e \in DocIds : new[e] # NoDoc /\ s.base[e] # NoDoc}
    BY SMT, <1>1, <2>5, <2>6, Installed
  <2>8. t = [u EXCEPT !.shards = shards]
    BY <2>4, <2>7 DEF new, y
  <2>9. u.own[d] # NoDoc /\ Face(u.own[d]) = [text |-> text, mode |-> "encoded"]
    BY <2>2, <2>3, <2>5, <2>7 DEF Face
  <2>10. \A e \in DocIds \ {d} : u.own[e] = s.own[e]
    BY <2>5, <2>7
  <2>11. u.own[d].at = doc.at
    <3>1. doc.at = 0 => s.served
      BY <1>1, <2>1 DEF Sound, Placed
    <3> QED
      BY <2>2, <2>3, <2>5, <2>7, <3>1
  <2>12. u \in Engine /\ Placed(u) /\ (~u.served => u.base = NoDocuments)
         /\ \A e \in DocIds : u.own[e] # NoDoc /\ u.base[e] # NoDoc => e \in u.dead
    BY <2>7 DEF Sound
  <2> HIDE DEF u
  <2>13. shards \subseteq Vectors
    <3>1. s.shards \subseteq Vectors
      BY <1>1, EngineFields
    <3>2. \A i \in 1 .. ChunkCount[text] : <<d, i, text>> \in Vectors
      BY SMT, NoDocIsNone DEF Vectors
    <3> QED
      BY <3>1, <3>2 DEF DropVectors
  <2>14. Exact(shards, Written(u, NoDocuments))
    <3> DEFINE docs == Written(s, NoDocuments)
               after == Written(u, NoDocuments)
               gone == ChunksOf(d, doc)
    <3>1. \A e \in DocIds : docs[e] = s.own[e] /\ after[e] = u.own[e]
      BY <1>3 DEF Written
    <3>2. docs \in [DocIds -> Stored] /\ after \in [DocIds -> Stored] /\ Exact(s.shards, docs)
      BY <1>1, <1>3, <2>12, ShownTypes
    <3>3. VectorsOf(d, u.own[d]) = {<<d, i, text>> : i \in 1 .. ChunkCount[text]}
      <4>1. u.own[d] \in Stored
        BY <2>12, EngineFields
      <4>2. Face(u.own[d]).text = text /\ Face(u.own[d]).mode = "encoded"
        BY SMT, <2>9
      <4>3. u.own[d].text = text /\ u.own[d].mode = "encoded"
        BY <2>9, <4>1, <4>2, FaceOf
      <4> QED
        BY <2>9, <4>3 DEF VectorsOf
    <3> HIDE DEF docs, after
    <3>4. \A c \in gone : c[1] = d
      BY SMT DEF ChunksOf
    <3>5. \A e \in DocIds \ {d} : VectorsOf(e, after[e]) = VectorsOf(e, docs[e])
      BY <2>10, <3>1
    <3>6. docs[d] # NoDoc /\ docs[d].mode = "encoded" => ChunksOf(d, docs[d]) \subseteq gone
      BY <3>1
    <3> HIDE DEF gone
    <3>7. Exact(DropVectors(s.shards, gone) \cup VectorsOf(d, after[d]), after)
      BY <3>2, <3>4, <3>5, <3>6, ShardStep
    <3> QED
      BY <3>1, <3>3, <3>7 DEF gone, after
  <2> HIDE DEF shards
  <2>15. /\ t.own = u.own /\ t.base = u.base /\ t.dead = u.dead /\ t.served = u.served
         /\ t.place = u.place /\ t.scrubbed = u.scrubbed /\ t.shards = shards /\ t.other = u.other
         /\ t \in Engine
    BY SMT, <2>8, <2>12, <2>13 DEF Engine
  <2> HIDE DEF t
  <2>16. Sound(t)
    BY <2>12, <2>15 DEF Sound, Placed
  <2>17. Exact(t.shards, Written(t, NoDocuments))
    BY <2>14, <2>15 DEF Written
  <2>18. \A e \in DocIds : Shown(t, NoDocuments)[e] = Shown(u, NoDocuments)[e]
    BY <2>15 DEF Shown
  <2>19. Shown(u, NoDocuments)[d] = [text |-> text, mode |-> "encoded"]
    BY <1>3, <2>9 DEF Shown
  <2>20. \A e \in DocIds \ {d} : Shown(u, NoDocuments)[e] = Shown(s, NoDocuments)[e]
    BY <1>3, <2>5, <2>7, <2>10 DEF Shown
  <2>21. \A e \in DocIds : s.own[e] # NoDoc => t.own[e] # NoDoc /\ t.own[e].at = s.own[e].at
    BY <2>9, <2>10, <2>11, <2>15
  <2>22. Fit(t, NoDocuments) /\ t.other = s.other /\ t.served = s.served
    BY <1>3, <2>7, <2>15, <2>16, <2>17 DEF Fit
  <2>23. x.text = text
    BY <1>6, <1>8
  <2> QED
    BY <1>6, <1>8, <2>18, <2>19, <2>20, <2>21, <2>22, <2>23 DEF t
<1> QED
  BY <1>7, <1>8
-----------------------------------------------------------------------------
(* apply_mutation.                                                         *)

\* What a document shows after a mutation.
FaceAfter(x, d, m) ==
    IF m.op = "other" \/ m.id # d THEN x
    ELSE IF m.op = "document" THEN [text |-> m.text, mode |-> m.mode]
    ELSE IF m.op = "delete" THEN NoDoc
    ELSE IF x # NoDoc /\ x.mode = "pending" /\ x.text = m.text
         THEN [text |-> x.text, mode |-> "encoded"] ELSE x

\* The kinds of mutations.
LEMMA MutationFields ==
    ASSUME NEW m \in Mutations
    PROVE  /\ m.op \in {"document", "delete", "encode", "other"}
           /\ m.op # "other" => m.id \in DocIds
           /\ m.op = "document" => m.text \in Texts /\ m.mode \in Modes
           /\ m.op = "encode" => m.text \in Texts
  BY SMT DEF Mutations

\* The state when a document joins the run.
Joined(s, d, previous, doc) ==
    [s EXCEPT !.shards =
       DropVectors(@, Stale(d, previous, s.own[d], doc)
                        \cup (IF doc.mode = "encoded" THEN ChunksOf(d, doc) ELSE {}))
         \cup VectorsOf(d, doc)]

RunWith(run, d, doc) == [run EXCEPT ![d] = doc]
JoinOK(s, run, d, doc, t, r) ==
    /\ Fit(t, r) /\ t.own = s.own /\ t.other = s.other /\ t.served = s.served
    /\ Shown(t, r)[d] = Face(doc)
    /\ \A e \in DocIds \ {d} : Shown(t, r)[e] = Shown(s, run)[e] /\ r[e] = run[e]

\* A document joins the run: the vectors of its predecessor go, whatever was seen
\* when the batch was prepared.
LEMMA DocumentStep ==
    ASSUME NEW s, NEW run, Fit(s, run), NEW d \in DocIds, run[d] = NoDoc, NEW previous,
           NEW doc \in NewDoc
    PROVE  JoinOK(s, run, d, doc, Joined(s, d, previous, doc), RunWith(run, d, doc))
<1> DEFINE gone == Stale(d, previous, s.own[d], doc)
                     \cup (IF doc.mode = "encoded" THEN ChunksOf(d, doc) ELSE {})
           shards == DropVectors(s.shards, gone) \cup VectorsOf(d, doc)
           t == [s EXCEPT !.shards = shards]
           r == [run EXCEPT ![d] = doc]
<1>1. Sound(s) /\ s \in Engine /\ run \in Run /\ Exact(s.shards, Written(s, run))
  BY DEF Fit, Sound
<1>2. doc # NoDoc /\ doc \in Doc /\ doc \in Stored
  BY NoDocIsNone DEF Stored
<1>3. r \in Run /\ r[d] = doc /\ \A e \in DocIds \ {d} : r[e] = run[e]
  BY <1>1 DEF Run
<1>4. gone = StaleChunks(d, s.own[d], doc)
               \cup (IF doc.mode = "encoded" THEN ChunksOf(d, doc) ELSE {})
  BY DEF Stale
<1>5. \A c \in gone : c[1] = d
  BY SMT, <1>4 DEF StaleChunks, ChunksOf
<1>6. s.own[d] # NoDoc => ChunksOf(d, s.own[d]) \subseteq gone
  BY <1>4 DEF StaleChunks
<1> HIDE DEF gone
<1>7. shards \subseteq Vectors
  <2>1. s.shards \subseteq Vectors
    BY <1>1, EngineFields
  <2>2. VectorsOf(d, doc) \subseteq Vectors
    BY <1>2, ChunkOf
  <2> QED
    BY <2>1, <2>2 DEF DropVectors
<1> HIDE DEF shards
<1>8. /\ t.own = s.own /\ t.base = s.base /\ t.dead = s.dead /\ t.served = s.served
      /\ t.place = s.place /\ t.scrubbed = s.scrubbed /\ t.shards = shards /\ t.other = s.other
      /\ t \in Engine
  BY SMT, <1>1, <1>7 DEF Engine
<1> HIDE DEF t, r
<1>9. Sound(t)
  BY <1>1, <1>8 DEF Sound, Placed
<1>10. Exact(t.shards, Written(t, r))
  <2> DEFINE docs == Written(s, run)
             new == Written(t, r)
  <2>1. docs \in [DocIds -> Stored] /\ new \in [DocIds -> Stored] /\ Exact(s.shards, docs)
    BY <1>1, <1>3, <1>8, ShownTypes
  <2>2. docs[d] = s.own[d] /\ new[d] = doc /\ \A e \in DocIds \ {d} : new[e] = docs[e]
    BY <1>2, <1>3, <1>8 DEF Written
  <2> HIDE DEF docs, new
  <2>3. docs[d] # NoDoc /\ docs[d].mode = "encoded" => ChunksOf(d, docs[d]) \subseteq gone
    BY <1>6, <2>2
  <2>4. \A e \in DocIds \ {d} : VectorsOf(e, new[e]) = VectorsOf(e, docs[e])
    BY <2>2
  <2>5. Exact(DropVectors(s.shards, gone) \cup VectorsOf(d, new[d]), new)
    BY SMT, <1>5, <2>1, <2>3, <2>4, ShardStep
  <2> QED
    BY <1>8, <2>2, <2>5 DEF shards, new
<1>11. /\ Shown(t, r)[d] = Face(doc)
       /\ \A e \in DocIds \ {d} : Shown(t, r)[e] = Shown(s, run)[e]
  BY <1>2, <1>3, <1>8 DEF Shown
<1>12. t = Joined(s, d, previous, doc) /\ r = RunWith(run, d, doc)
  BY DEF Joined, RunWith, r, t, shards, gone
<1> QED
  BY <1>3, <1>8, <1>9, <1>10, <1>11, <1>12 DEF Fit, JoinOK

\* A mutation m takes a state with run to another.
StepOK(s, run, m, t, r) ==
    /\ Fit(t, r) /\ t.served = s.served
    /\ t.other = (s.other \/ m.op = "other")
    /\ \A d \in DocIds : Shown(t, r)[d] = FaceAfter(Shown(s, run)[d], d, m)
    /\ \A d \in DocIds : r[d] # NoDoc => run[d] # NoDoc \/ (m.op = "document" /\ m.id = d)
    /\ \A d \in DocIds : s.own[d] # NoDoc /\ run[d] = NoDoc /\ ~Overwrites(m, d) =>
          t.own[d] # NoDoc /\ t.own[d].at = s.own[d].at

\* One mutation of a batch: what is shown after it depends on what was shown before
\* it alone, the vectors stay exact, and text stays in its place unless the document
\* is written.
LEMMA ApplyStep ==
    ASSUME NEW s, NEW run, Fit(s, run), NEW m \in Mutations, NEW previous
    PROVE  LET b == ApplyOne([s |-> s, pend |-> run], m, previous)
           IN  StepOK(s, run, m, b.s, b.pend)
<1> DEFINE b == ApplyOne([s |-> s, pend |-> run], m, previous)
           done == InstallAll(s, run)
<1>1. /\ Fit(done, NoDocuments) /\ Shown(done, NoDocuments) = Shown(s, run)
      /\ done.other = s.other /\ done.served = s.served
      /\ \A d \in DocIds : run[d] = NoDoc => done.own[d] = s.own[d]
  BY InstallRun
<1>2. s.other \in BOOLEAN /\ s \in Engine /\ run \in Run
  BY EngineFields DEF Fit, Sound
<1>3. NoDocuments \in Run /\ \A d \in DocIds : NoDocuments[d] = NoDoc
  BY RunTypes
<1>4. /\ m.op \in {"document", "delete", "encode", "other"}
      /\ m.op # "other" => m.id \in DocIds
      /\ m.op = "document" => m.text \in Texts /\ m.mode \in Modes
      /\ m.op = "encode" => m.text \in Texts
  BY MutationFields
<1>5. CASE m.op = "document"
  <2> DEFINE d == m.id
             doc == DocumentOf(m)
             s1 == IF run[d] = NoDoc THEN s ELSE done
             r1 == IF run[d] = NoDoc THEN run ELSE NoDocuments
             t == Joined(s1, d, previous, doc)
             r == RunWith(r1, d, doc)
  <2>1. b = [s |-> t, pend |-> r]
    BY <1>5 DEF ApplyOne, Joined, RunWith
  <2>2. /\ Fit(s1, r1) /\ Shown(s1, r1) = Shown(s, run) /\ s1.other = s.other /\ s1.served = s.served
        /\ \A e \in DocIds : r1[e] # NoDoc => run[e] # NoDoc
        /\ \A e \in DocIds : run[e] = NoDoc => s1.own[e] = s.own[e]
        /\ r1[d] = NoDoc /\ d \in DocIds
    BY <1>1, <1>3, <1>4, <1>5
  <2>3. doc \in NewDoc /\ Face(doc) = [text |-> m.text, mode |-> m.mode]
    <3>1. doc \in NewDoc /\ doc.text = m.text /\ doc.mode = m.mode
      BY SMT, <1>4, <1>5 DEF DocumentOf, NewDoc
    <3> QED
      BY <3>1, NoDocIsNone DEF Face
  <2> HIDE DEF b, s1, r1, doc
  <2>4. /\ Fit(t, r) /\ t.own = s1.own /\ t.other = s1.other /\ t.served = s1.served
        /\ Shown(t, r)[d] = Face(doc)
        /\ \A e \in DocIds \ {d} : Shown(t, r)[e] = Shown(s1, r1)[e] /\ r[e] = r1[e]
    <3>1. Fit(s1, r1) /\ r1[d] = NoDoc /\ d \in DocIds
      BY <2>2
    <3>2. doc \in NewDoc
      BY <2>3
    <3>3. JoinOK(s1, r1, d, doc, t, r)
      BY <3>1, <3>2, DocumentStep
    <3> QED
      BY <3>3 DEF JoinOK
  <2> HIDE DEF t, r
  <2>5. b.s = t /\ b.pend = r
    BY <2>1
  <2>6. \A e \in DocIds : Shown(t, r)[e] = FaceAfter(Shown(s, run)[e], e, m)
    BY <1>5, <2>2, <2>3, <2>4 DEF FaceAfter
  <2>7. \A e \in DocIds : r[e] # NoDoc => run[e] # NoDoc \/ m.id = e
    BY <2>2, <2>4
  <2> QED
    <3>1. Fit(t, r) /\ t.served = s.served /\ t.other = (s.other \/ m.op = "other")
      BY <1>2, <1>5, <2>2, <2>4
    <3>2. \A e \in DocIds : s.own[e] # NoDoc /\ run[e] = NoDoc /\ ~Overwrites(m, e) =>
             t.own[e] # NoDoc /\ t.own[e].at = s.own[e].at
      BY <2>2, <2>4
    <3>3. StepOK(s, run, m, t, r)
      BY <1>5, <2>6, <2>7, <3>1, <3>2 DEF StepOK
    <3> QED
      BY <2>5, <3>3 DEF b
<1>6. CASE m.op = "delete"
  <2> DEFINE t == Remove(done, m.id)
  <2>1. b.s = t /\ b.pend = NoDocuments
    BY <1>6 DEF ApplyOne
  <2>2. /\ Fit(t, NoDocuments)
        /\ Shown(t, NoDocuments)[m.id] = NoDoc
        /\ \A e \in DocIds \ {m.id} : /\ Shown(t, NoDocuments)[e] = Shown(done, NoDocuments)[e]
                                      /\ t.own[e] = done.own[e]
        /\ t.other = done.other /\ t.served = done.served
    BY <1>1, <1>4, <1>6, Removed
  <2> HIDE DEF t, done, b
  <2>3. \A e \in DocIds : Shown(t, NoDocuments)[e] = FaceAfter(Shown(s, run)[e], e, m)
    BY <1>1, <1>6, <2>2 DEF FaceAfter
  <2>4. \A e \in DocIds : s.own[e] # NoDoc /\ run[e] = NoDoc /\ ~Overwrites(m, e) => t.own[e] = s.own[e]
    BY <1>1, <1>6, <2>2 DEF Overwrites
  <2> QED
    BY <1>1, <1>2, <1>3, <1>6, <2>1, <2>2, <2>3, <2>4 DEF b, StepOK
<1>7. CASE m.op = "encode"
  <2> DEFINE t == Encode(done, m.id, m.text)
  <2>1. b.s = t /\ b.pend = NoDocuments
    BY <1>7 DEF ApplyOne
  <2>2. LET x == Shown(done, NoDocuments)[m.id]
        IN  /\ Fit(t, NoDocuments) /\ t.other = done.other /\ t.served = done.served
            /\ Shown(t, NoDocuments)[m.id] =
                 IF x # NoDoc /\ x.mode = "pending" /\ x.text = m.text
                 THEN [text |-> x.text, mode |-> "encoded"] ELSE x
            /\ \A e \in DocIds \ {m.id} : Shown(t, NoDocuments)[e] = Shown(done, NoDocuments)[e]
            /\ \A e \in DocIds : done.own[e] # NoDoc =>
                  t.own[e] # NoDoc /\ t.own[e].at = done.own[e].at
    BY SMT, <1>1, <1>4, <1>7, Encoded
  <2> HIDE DEF t, done, b
  <2>3. \A e \in DocIds : Shown(t, NoDocuments)[e] = FaceAfter(Shown(s, run)[e], e, m)
    BY <1>1, <1>4, <1>7, <2>2 DEF FaceAfter
  <2>4. \A e \in DocIds : s.own[e] # NoDoc /\ run[e] = NoDoc =>
           t.own[e] # NoDoc /\ t.own[e].at = s.own[e].at
    BY <1>1, <2>2
  <2> QED
    BY <1>1, <1>2, <1>3, <1>7, <2>1, <2>2, <2>3, <2>4 DEF b, StepOK
<1>8. CASE m.op = "other"
  <2> DEFINE t == [done EXCEPT !.other = TRUE]
  <2>1. b.s = t /\ b.pend = NoDocuments
    BY <1>8 DEF ApplyOne
  <2>2. done \in Engine
    BY <1>1 DEF Fit, Sound
  <2>0. Sound(done) /\ Exact(done.shards, Written(done, NoDocuments))
    BY <1>1 DEF Fit
  <2> HIDE DEF done
  <2>3. /\ t.own = done.own /\ t.base = done.base /\ t.dead = done.dead /\ t.served = done.served
        /\ t.place = done.place /\ t.scrubbed = done.scrubbed /\ t.shards = done.shards
        /\ t.other = TRUE /\ t \in Engine
    <3>1. done = [own |-> done.own, base |-> done.base, dead |-> done.dead, served |-> done.served,
                  place |-> done.place, scrubbed |-> done.scrubbed, shards |-> done.shards,
                  other |-> done.other]
      BY SMT, <2>2 DEF Engine
    <3> DEFINE yes == TRUE
    <3>0. t = [done EXCEPT !.other = yes] /\ yes = TRUE
      OBVIOUS
    <3> HIDE DEF yes, t
    <3>2. t = [own |-> done.own, base |-> done.base, dead |-> done.dead, served |-> done.served,
               place |-> done.place, scrubbed |-> done.scrubbed, shards |-> done.shards,
               other |-> yes]
      BY <3>0, <3>1
    <3>3. t \in Engine
      BY <2>2, <3>0, <3>2, EngineFields DEF Engine
    <3> QED
      BY <3>0, <3>2, <3>3
  <2> HIDE DEF t, b
  <2>4. Sound(t)
    BY <2>0, <2>3 DEF Sound, Placed
  <2>5. Exact(t.shards, Written(t, NoDocuments))
    BY <2>0, <2>3 DEF Written
  <2>6. \A e \in DocIds : Shown(t, NoDocuments)[e] = FaceAfter(Shown(s, run)[e], e, m)
    <3>1. Shown(t, NoDocuments) = Shown(done, NoDocuments)
      BY <2>3 DEF Shown
    <3> QED
      BY <1>1, <1>8, <3>1 DEF FaceAfter
  <2> QED
    BY <1>1, <1>2, <1>3, <1>8, <2>1, <2>3, <2>4, <2>5, <2>6 DEF b, Fit, StepOK
<1> QED
  BY <1>4, <1>5, <1>6, <1>7, <1>8
-----------------------------------------------------------------------------
(* Induction.  The library's induction theorems take the induction hypothesis as an *)
(* operator, which the provers cannot instantiate.  Its theorem on minimal elements *)
(* takes a set: an induction is a proof about the least counterexample.             *)

\* Every non-empty set of naturals has a least element.
LEMMA LeastNatural ==
    ASSUME NEW T, T \subseteq Nat, T # {}
    PROVE  \E m \in T : \A n \in T : m <= n
<1> DEFINE R == OpToRel(<, Nat)
<1>1. IsWellFoundedOn(R, Nat)
  BY NatLessThanWellFounded
<1>2. \A m, n \in Nat : n < m => <<n, m>> \in R
  BY DEF OpToRel
<1> HIDE DEF R
<1>3. PICK m \in T : \A n \in T : ~(<<n, m>> \in R)
  BY <1>1, WFMin
<1>4. \A n \in T : m <= n
  <2> SUFFICES ASSUME NEW n \in T, n < m
               PROVE  FALSE
    BY SMT
  <2>1. m \in Nat /\ n \in Nat
    OBVIOUS
  <2> QED
    BY <1>2, <1>3, <2>1
<1> QED
  BY <1>4

\* Induction up to a bound, about the set G of the numbers that have the property.
LEMMA UpTo ==
    ASSUME NEW n \in Nat, NEW G, 0 \in G,
           \A i \in 0 .. n - 1 : i \in G => i + 1 \in G
    PROVE  \A i \in 0 .. n : i \in G
<1> DEFINE T == {i \in 0 .. n : i \notin G}
<1> SUFFICES ASSUME T # {}
             PROVE  FALSE
  OBVIOUS
<1>1. PICK m \in T : \A i \in T : m <= i
  <2>1. T \subseteq Nat
    BY SMT
  <2> HIDE DEF T
  <2> QED
    BY <2>1, LeastNatural
<1>2. m \in 1 .. n
  BY SMT, <1>1
<1>3. m - 1 \in 0 .. n - 1 /\ m - 1 \notin T
  BY SMT, <1>1, <1>2
<1>4. m - 1 \in G
  BY SMT, <1>3
<1>5. (m - 1) + 1 \in G
  BY <1>3, <1>4
<1> QED
  BY SMT, <1>1, <1>2, <1>5

StaysIn(S, n, F) == \A i \in 1 .. n, y \in S : F[<<i, y>>] \in S
IsIterated(S, x, n, F) ==
    \E g \in [0 .. n -> S] : g[0] = x /\ \A i \in 1 .. n : g[i] = F[<<i, g[i - 1]>>]
\* n steps of a function on S can be taken.
LEMMA Iterates ==
    ASSUME NEW S, NEW x \in S, NEW n \in Nat, NEW F, StaysIn(S, n, F)
    PROVE  IsIterated(S, x, n, F)
<1> USE DEF StaysIn, IsIterated
<1> DEFINE Is(g, k) == /\ g \in [0 .. k -> S] /\ g[0] = x
                       /\ \A i \in 1 .. k : g[i] = F[<<i, g[i - 1]>>]
           G == {k \in Nat : \E g : Is(g, k)}
<1>1. 0 \in G
  <2> DEFINE g == [i \in 0 .. 0 |-> x]
  <2>1. Is(g, 0)
    BY SMT
  <2> QED
    BY <2>1
<1>2. ASSUME NEW k \in 0 .. n - 1, k \in G
      PROVE  k + 1 \in G
  <2>1. PICK g : Is(g, k)
    BY <1>2
  <2> DEFINE y == F[<<k + 1, g[k]>>]
             h == [i \in 0 .. k + 1 |-> IF i = k + 1 THEN y ELSE g[i]]
  <2>2. k \in 0 .. k /\ k + 1 \in 1 .. n /\ k \in Nat /\ k + 1 \in Nat /\ 0 # k + 1 /\ 0 \in 0 .. k + 1
    BY SMT
  <2>3. g[k] \in S /\ y \in S
    BY <2>1, <2>2
  <2> HIDE DEF y
  <2>4. \A i \in 0 .. k : h[i] = g[i] /\ g[i] \in S
    BY SMT, <2>1
  <2>5. h[k + 1] = y
    BY SMT
  <2>6. h \in [0 .. k + 1 -> S]
    <3>1. \A i \in 0 .. k + 1 : i = k + 1 \/ i \in 0 .. k
      BY SMT
    <3> QED
      BY <2>3, <2>4, <3>1
  <2>7. \A i \in 1 .. k + 1 : h[i] = F[<<i, h[i - 1]>>]
    <3> SUFFICES ASSUME NEW i \in 1 .. k + 1
                 PROVE  h[i] = F[<<i, h[i - 1]>>]
      OBVIOUS
    <3>1. CASE i = k + 1
      <4>1. i - 1 = k
        BY SMT, <3>1
      <4>2. h[i - 1] = g[k]
        BY <2>2, <2>4, <4>1
      <4> QED
        BY <2>5, <3>1, <4>2 DEF y
    <3>2. CASE i # k + 1
      <4>1. i \in 1 .. k /\ i \in 0 .. k /\ i - 1 \in 0 .. k
        BY SMT, <3>2
      <4> QED
        BY <2>1, <2>4, <4>1
    <3> QED
      BY <3>1, <3>2
  <2>8. h[0] = x
    <3>1. 0 \in 0 .. k
      BY SMT
    <3> QED
      BY <2>1, <2>4, <3>1
  <2> HIDE DEF h
  <2> QED
    BY <2>2, <2>6, <2>7, <2>8
<1> HIDE DEF G
<1>3. \A k \in 0 .. n : k \in G
  BY <1>1, <1>2, UpTo
<1>4. n \in 0 .. n
  BY SMT
<1> QED
  BY <1>3, <1>4 DEF G

-----------------------------------------------------------------------------
(* A frame, mutation by mutation.                                          *)

\* A state and the run beside it.
Fitting == {a \in [s : Engine, pend : Run] : Fit(a.s, a.pend)}

\* It is a record of two fields.
LEMMA FittingIs ==
    ASSUME NEW a
    PROVE  a \in Fitting <=> a = [s |-> a.s, pend |-> a.pend] /\ Fit(a.s, a.pend)
  BY SMT DEF Fitting, Fit, Sound

\* apply_mutation goes from one to the next.
LEMMA ApplyFits ==
    ASSUME NEW a \in Fitting, NEW m \in Mutations, NEW previous
    PROVE  LET b == ApplyOne(a, m, previous)
           IN  b \in Fitting /\ StepOK(a.s, a.pend, m, b.s, b.pend)
<1> DEFINE b == ApplyOne(a, m, previous)
<1>1. a = [s |-> a.s, pend |-> a.pend] /\ Fit(a.s, a.pend)
  BY FittingIs
<1>2. LET c == ApplyOne([s |-> a.s, pend |-> a.pend], m, previous)
      IN  StepOK(a.s, a.pend, m, c.s, c.pend)
  BY <1>1, ApplyStep
<1>3. StepOK(a.s, a.pend, m, b.s, b.pend)
  BY <1>1, <1>2
<1>4. Fit(b.s, b.pend)
  BY <1>3 DEF StepOK
<1>5. b = [s |-> b.s, pend |-> b.pend]
  BY MutationFields DEF ApplyOne
<1> HIDE DEF b
<1>6. b \in Fitting
  BY <1>4, <1>5, FittingIs
<1> QED
  BY <1>3, <1>6 DEF b

\* The states of a frame under replay.
LEMMA AppliedRun ==
    ASSUME NEW s, Fit(s, NoDocuments), NEW batch \in Seq(Mutations)
    PROVE  LET g == Applied(s, batch)
           IN  /\ g[0] = [s |-> IF Accepts(batch) THEN s ELSE Hydrated(s), pend |-> NoDocuments]
               /\ \A i \in 0 .. Len(batch) : g[i] \in Fitting
               /\ \A i \in 1 .. Len(batch) :
                     StepOK(g[i - 1].s, g[i - 1].pend, batch[i], g[i].s, g[i].pend)
               /\ ReplayFrame(s, batch) = InstallAll(g[Len(batch)].s, g[Len(batch)].pend)
<1> DEFINE start == IF Accepts(batch) THEN s ELSE Hydrated(s)
           previous == Prepared(start, batch)
           x == [s |-> start, pend |-> NoDocuments]
           n == Len(batch)
           E(f) == [i \in 0 .. n |-> IF i = 0 THEN x ELSE ApplyOne(f[i - 1], batch[i], previous[i])]
           g == CHOOSE f : f = E(f)
           F == [p \in (1 .. n) \X Fitting |-> ApplyOne(p[2], batch[p[1]], previous[p[1]])]
<1>1. n \in Nat /\ \A i \in 1 .. n : batch[i] \in Mutations /\ i - 1 \in 0 .. n /\ i \in 0 .. n /\ i # 0
  BY SMT
<1>2. x \in Fitting
  <2>1. Fit(start, NoDocuments)
    BY Hydration
  <2> HIDE DEF start
  <2>2. x.s = start /\ x.pend = NoDocuments
    OBVIOUS
  <2> QED
    BY <2>1, <2>2, FittingIs
<1> HIDE DEF previous, x
<1>3. ASSUME NEW i \in 1 .. n, NEW a \in Fitting
      PROVE  F[<<i, a>>] = ApplyOne(a, batch[i], previous[i]) /\ F[<<i, a>>] \in Fitting
  <2>1. F[<<i, a>>] = ApplyOne(a, batch[i], previous[i])
    BY SMT
  <2> QED
    BY <1>1, <2>1, ApplyFits
<1> HIDE DEF F
<1>4. PICK h \in [0 .. n -> Fitting] : h[0] = x /\ \A i \in 1 .. n : h[i] = F[<<i, h[i - 1]>>]
  <2>1. StaysIn(Fitting, n, F)
    BY <1>3 DEF StaysIn
  <2>2. n \in Nat
    BY <1>1
  <2> HIDE DEF n
  <2>3. IsIterated(Fitting, x, n, F)
    BY <1>2, <2>1, <2>2, Iterates
  <2> QED
    BY <2>3 DEF IsIterated
<1>5. \A i \in 0 .. n : h[i] = E(h)[i]
  <2> SUFFICES ASSUME NEW i \in 0 .. n
               PROVE  h[i] = E(h)[i]
    OBVIOUS
  <2>1. CASE i = 0
    BY <1>4, <2>1
  <2>2. CASE i # 0
    <3>1. i \in 1 .. n
      BY SMT, <1>1, <2>2
    <3>2. h[i - 1] \in Fitting
      BY <1>1, <1>4, <3>1
    <3> QED
      BY <1>3, <1>4, <2>2, <3>1, <3>2
  <2> QED
    BY <2>1, <2>2
<1>6. h = E(h)
  BY <1>4, <1>5
<1> HIDE DEF E
<1>7. g = E(g)
  BY <1>6
<1>8. g = Applied(s, batch)
  BY DEF Applied, E, x, previous
<1>9. ReplayFrame(s, batch) = InstallAll(g[n].s, g[n].pend)
  BY DEF ReplayFrame, E, x, previous
<1> HIDE DEF g
<1>10. g[0] = x /\ \A i \in 1 .. n : g[i] = ApplyOne(g[i - 1], batch[i], previous[i])
  <2>1. 0 \in 0 .. n
    BY SMT, <1>1
  <2> QED
    BY <1>1, <1>7, <2>1 DEF E
<1>11. \A i \in 0 .. n : g[i] \in Fitting
  <2> DEFINE G == {i \in Nat : g[i] \in Fitting}
  <2>1. 0 \in G
    BY <1>2, <1>10
  <2>2. ASSUME NEW i \in 0 .. n - 1, i \in G
        PROVE  i + 1 \in G
    <3>1. i + 1 \in 1 .. n /\ (i + 1) - 1 = i /\ i + 1 \in Nat
      BY SMT, <1>1
    <3>2. g[i + 1] = ApplyOne(g[i], batch[i + 1], previous[i + 1])
      BY <1>10, <3>1
    <3> QED
      BY <1>1, <2>2, <3>1, <3>2, ApplyFits
  <2> HIDE DEF G
  <2>3. \A i \in 0 .. n : i \in G
    BY <1>1, <2>1, <2>2, UpTo
  <2> QED
    BY <2>3 DEF G
<1>12. \A i \in 1 .. n : StepOK(g[i - 1].s, g[i - 1].pend, batch[i], g[i].s, g[i].pend)
  BY <1>1, <1>10, <1>11, ApplyFits
<1> QED
  BY <1>8, <1>9, <1>10, <1>11, <1>12 DEF x
\* What a frame leaves is what its last mutation shows.
LEMMA FrameFits ==
    ASSUME NEW s, Fit(s, NoDocuments), NEW batch \in Seq(Mutations)
    PROVE  LET g == Applied(s, batch)
               t == ReplayFrame(s, batch)
               n == Len(batch)
           IN  /\ Fit(t, NoDocuments)
               /\ Same(t, NoDocuments, g[n].s, g[n].pend)
               /\ Same(g[0].s, g[0].pend, s, NoDocuments)
               /\ g[0].pend = NoDocuments
<1> DEFINE g == Applied(s, batch)
           t == ReplayFrame(s, batch)
           n == Len(batch)
           start == IF Accepts(batch) THEN s ELSE Hydrated(s)
<1>1. /\ g[0] = [s |-> start, pend |-> NoDocuments]
      /\ \A i \in 0 .. n : g[i] \in Fitting
      /\ t = InstallAll(g[n].s, g[n].pend)
  BY AppliedRun
<1>2. n \in 0 .. n
  BY SMT
<1>3. Fit(g[n].s, g[n].pend)
  BY <1>1, <1>2, FittingIs
<1>4. Same(start, NoDocuments, s, NoDocuments)
  BY Hydration DEF Same
<1>5. Fit(t, NoDocuments) /\ Same(t, NoDocuments, g[n].s, g[n].pend)
  <2> DEFINE u == g[n].s
             r == g[n].pend
             v == InstallAll(u, r)
  <2>1. Fit(u, r) /\ t = v
    BY <1>1, <1>3
  <2> HIDE DEF u, r, t
  <2>2. Fit(v, NoDocuments) /\ Shown(v, NoDocuments) = Shown(u, r) /\ v.other = u.other
    BY <2>1, InstallRun
  <2> HIDE DEF v
  <2>3. Fit(t, NoDocuments) /\ Same(t, NoDocuments, u, r)
    BY <2>1, <2>2 DEF Same
  <2> QED
    BY <2>3 DEF u, r
<1>6. g[0].s = start /\ g[0].pend = NoDocuments
  <2>1. g[0] = [s |-> start, pend |-> NoDocuments]
    BY <1>1
  <2> HIDE DEF g, start
  <2> QED
    BY SMT, <2>1
<1> HIDE DEF g, n, start, t
<1> QED
  BY <1>4, <1>5, <1>6 DEF g, n, t

\* What a mutation makes of a document depends on what the document showed, and a
\* mutation that writes it not even on that.
LEMMA FaceAfterSame ==
    ASSUME NEW x, NEW y, NEW d, NEW m, x = y \/ Overwrites(m, d)
    PROVE  FaceAfter(x, d, m) = FaceAfter(y, d, m)
<1>1. CASE x = y
  BY <1>1
<1>2. CASE Overwrites(m, d)
  <2>1. m.id = d /\ m.op # "other" /\ (m.op = "document" \/ m.op = "delete")
    BY <1>2 DEF Overwrites
  <2>2. CASE m.op = "document"
    BY <2>1, <2>2 DEF FaceAfter
  <2>3. CASE m.op = "delete"
    BY <2>1, <2>3 DEF FaceAfter
  <2> QED
    BY <2>1, <2>2, <2>3
<1> QED
  BY <1>1, <1>2

\* s2 and t2 agree wherever s and t do, and where batch decides.
AgreeAfter(s, t, batch, s2, t2) ==
    /\ s.other = t.other => s2.other = t2.other
    /\ \A d \in DocIds :
          Shown(s, NoDocuments)[d] = Shown(t, NoDocuments)[d] \/ Decides(batch, d)
             => Shown(s2, NoDocuments)[d] = Shown(t2, NoDocuments)[d]

\* Two stores that agree on a document still do after the same frame; they do after a
\* frame that writes it, whatever they showed before.
LEMMA FrameAgree ==
    ASSUME NEW s, NEW t, Fit(s, NoDocuments), Fit(t, NoDocuments), NEW batch \in Seq(Mutations)
    PROVE  AgreeAfter(s, t, batch, ReplayFrame(s, batch), ReplayFrame(t, batch))
<1> DEFINE g == Applied(s, batch)
           h == Applied(t, batch)
           n == Len(batch)
           s2 == ReplayFrame(s, batch)
           t2 == ReplayFrame(t, batch)
<1>1. /\ Same(s2, NoDocuments, g[n].s, g[n].pend)
      /\ Same(g[0].s, g[0].pend, s, NoDocuments)
  BY FrameFits
<1>2. /\ Same(t2, NoDocuments, h[n].s, h[n].pend)
      /\ Same(h[0].s, h[0].pend, t, NoDocuments)
  BY FrameFits
<1>3. \A i \in 1 .. n : StepOK(g[i - 1].s, g[i - 1].pend, batch[i], g[i].s, g[i].pend)
  BY AppliedRun
<1>4. \A i \in 1 .. n : StepOK(h[i - 1].s, h[i - 1].pend, batch[i], h[i].s, h[i].pend)
  BY AppliedRun
<1>5. n \in Nat /\ n \in 0 .. n /\ DOMAIN batch = 1 .. n
  BY SMT
<1>6. \A i \in 0 .. n - 1 : i + 1 \in 1 .. n /\ (i + 1) - 1 = i /\ i + 1 \in Nat
  BY SMT, <1>5
<1> HIDE DEF g, h, n, s2, t2
<1>7. ASSUME s.other = t.other
      PROVE  s2.other = t2.other
  <2> DEFINE G == {i \in Nat : g[i].s.other = h[i].s.other}
  <2>1. 0 \in G
    BY <1>1, <1>2, <1>7 DEF Same
  <2>2. ASSUME NEW i \in 0 .. n - 1, i \in G
        PROVE  i + 1 \in G
    <3>1. StepOK(g[i].s, g[i].pend, batch[i + 1], g[i + 1].s, g[i + 1].pend)
      BY <1>3, <1>6
    <3>2. StepOK(h[i].s, h[i].pend, batch[i + 1], h[i + 1].s, h[i + 1].pend)
      BY <1>4, <1>6
    <3> QED
      BY <1>6, <2>2, <3>1, <3>2 DEF StepOK
  <2> HIDE DEF G
  <2>3. \A i \in 0 .. n : i \in G
    BY <1>5, <2>1, <2>2, UpTo
  <2> QED
    BY <1>1, <1>2, <1>5, <2>3 DEF G, Same
<1>8. ASSUME NEW d \in DocIds, Shown(s, NoDocuments)[d] = Shown(t, NoDocuments)[d] \/ Decides(batch, d)
      PROVE  Shown(s2, NoDocuments)[d] = Shown(t2, NoDocuments)[d]
  <2> DEFINE x(i) == Shown(g[i].s, g[i].pend)[d]
             y(i) == Shown(h[i].s, h[i].pend)[d]
             E == Shown(s, NoDocuments)[d] = Shown(t, NoDocuments)[d]
             G == {i \in Nat : E \/ (\E k \in 1 .. i : Overwrites(batch[k], d)) => x(i) = y(i)}
  <2>1. 0 \in G
    <3>1. x(0) = Shown(s, NoDocuments)[d] /\ y(0) = Shown(t, NoDocuments)[d]
      BY <1>1, <1>2 DEF Same
    <3>2. 0 \in Nat /\ \A k \in 1 .. 0 : FALSE
      BY SMT
    <3> QED
      BY <3>1, <3>2
  <2>2. ASSUME NEW i \in 0 .. n - 1, i \in G
        PROVE  i + 1 \in G
    <3>1. StepOK(g[i].s, g[i].pend, batch[i + 1], g[i + 1].s, g[i + 1].pend)
      BY <1>3, <1>6
    <3>2. StepOK(h[i].s, h[i].pend, batch[i + 1], h[i + 1].s, h[i + 1].pend)
      BY <1>4, <1>6
    <3>3. /\ x(i + 1) = FaceAfter(x(i), d, batch[i + 1])
          /\ y(i + 1) = FaceAfter(y(i), d, batch[i + 1])
      BY <3>1, <3>2 DEF StepOK
    <3> HIDE DEF x, y, E
    <3>4. \A k \in 1 .. i + 1 : k = i + 1 \/ k \in 1 .. i
      BY SMT
    <3>5. ASSUME E \/ (\E k \in 1 .. i + 1 : Overwrites(batch[k], d))
          PROVE  x(i + 1) = y(i + 1)
      <4>1. x(i) = y(i) \/ Overwrites(batch[i + 1], d)
        BY <2>2, <3>4, <3>5
      <4>2. FaceAfter(x(i), d, batch[i + 1]) = FaceAfter(y(i), d, batch[i + 1])
        BY <4>1, FaceAfterSame
      <4> QED
        BY <3>3, <4>2
    <3> QED
      BY <1>6, <3>5
  <2> HIDE DEF G
  <2>3. \A i \in 0 .. n : i \in G
    BY <1>5, <2>1, <2>2, UpTo
  <2>4. n \in G
    BY <1>5, <2>3
  <2>5. E \/ \E k \in 1 .. n : Overwrites(batch[k], d)
    BY <1>5, <1>8 DEF Decides
  <2>6. x(n) = y(n)
    BY <2>4, <2>5 DEF G
  <2> QED
    BY <1>1, <1>2, <2>6 DEF Same
<1> QED
  BY <1>7, <1>8 DEF s2, t2, AgreeAfter

-----------------------------------------------------------------------------
(* A journal, frame by frame.                                              *)

\* A checkpoint opened shows its documents.
LEMMA StartFits ==
    ASSUME NEW image \in Image, NEW served \in BOOLEAN, ~served => image = NoDocuments
    PROVE  LET s == ServedFrom(image, served)
           IN  /\ Fit(s, NoDocuments)
               /\ \A d \in DocIds : Shown(s, NoDocuments)[d] = Face(image[d])
               /\ s.other = FALSE /\ s.own = NoDocuments
<1> DEFINE s == ServedFrom(image, served)
<1>1. /\ s.own = NoDocuments /\ s.base = image /\ s.dead = {} /\ s.served = served
      /\ s.place = 0 /\ s.scrubbed = {} /\ s.shards = {} /\ s.other = FALSE
  BY DEF ServedFrom
<1>2. NoDocuments \in [DocIds -> Stored] /\ 0 \in Nat
  BY SMT DEF NoDocuments, Stored
<1>3. s \in Engine
  BY SMT, <1>2 DEF ServedFrom, Engine
<1> HIDE DEF s
<1>4. \A d \in DocIds : NoDocuments[d] = NoDoc
  BY RunTypes
<1>5. Placed(s)
  BY <1>1, <1>4 DEF Placed
<1>6. Sound(s)
  BY <1>1, <1>3, <1>4, <1>5 DEF Sound
<1>7. \A d \in DocIds : VectorsOf(d, Written(s, NoDocuments)[d]) = {}
  BY <1>1, <1>4 DEF Written, VectorsOf
<1>8. Exact(s.shards, Written(s, NoDocuments))
  <2> DEFINE W == Written(s, NoDocuments)
  <2>1. \A d \in DocIds : VectorsOf(d, W[d]) = {}
    BY <1>7
  <2> HIDE DEF W
  <2>2. UNION {VectorsOf(d, W[d]) : d \in DocIds} = {}
    BY <2>1
  <2> QED
    BY <1>1, <2>2 DEF Exact, W
<1>9. Fit(s, NoDocuments)
  BY <1>6, <1>8, RunTypes DEF Fit
<1>10. \A d \in DocIds : Shown(s, NoDocuments)[d] = Face(image[d])
  BY <1>1, <1>4 DEF Shown
<1> QED
  BY <1>1, <1>9, <1>10 DEF s

\* The states of a journal under replay.
LEMMA OpenedRun ==
    ASSUME NEW j, IsGeneration(j)
    PROVE  LET g == Opened(j)
               n == Len(j.frames)
           IN  /\ n \in Nat
               /\ g[0] = ServedFrom(j.image, j.served)
               /\ \A i \in 0 .. n : Fit(g[i], NoDocuments)
               /\ \A i \in 1 .. n : /\ j.frames[i] \in Seq(Mutations)
                                    /\ g[i] = ReplayFrame(g[i - 1], j.frames[i])
               /\ Replayed(j) = g[n]
<1> DEFINE n == Len(j.frames)
           S == {s \in Engine : Fit(s, NoDocuments)}
           x == ServedFrom(j.image, j.served)
           E(f) == [i \in 0 .. n |-> IF i = 0 THEN x ELSE ReplayFrame(f[i - 1], j.frames[i])]
           g == CHOOSE f : f = E(f)
           F == [p \in (1 .. n) \X S |-> ReplayFrame(p[2], j.frames[p[1]])]
<1>1. /\ j.image \in Image /\ j.served \in BOOLEAN /\ (~j.served => j.image = NoDocuments)
      /\ j.frames \in Seq(Seq(Mutations))
  BY SMT DEF IsGeneration, Generation
<1>2. n \in Nat /\ \A i \in 1 .. n : j.frames[i] \in Seq(Mutations) /\ i - 1 \in 0 .. n /\ i \in 0 .. n /\ i # 0
  BY SMT, <1>1
<1>3. \A s : Fit(s, NoDocuments) => s \in S
  BY DEF Fit, Sound
<1>4. x \in S
  <2>1. Fit(x, NoDocuments)
    BY <1>1, StartFits
  <2> QED
    BY <1>3, <2>1
<1> HIDE DEF x
<1>5. ASSUME NEW i \in 1 .. n, NEW s \in S
      PROVE  F[<<i, s>>] = ReplayFrame(s, j.frames[i]) /\ F[<<i, s>>] \in S
  <2>1. F[<<i, s>>] = ReplayFrame(s, j.frames[i])
    <3> HIDE DEF S
    <3> QED
      BY SMT
  <2>2. Fit(ReplayFrame(s, j.frames[i]), NoDocuments)
    BY <1>2, FrameFits
  <2> QED
    BY <1>3, <2>1, <2>2
<1>6. \A s \in S : Fit(s, NoDocuments)
  OBVIOUS
<1> HIDE DEF F, S
<1>7. PICK h \in [0 .. n -> S] : h[0] = x /\ \A i \in 1 .. n : h[i] = F[<<i, h[i - 1]>>]
  <2>1. StaysIn(S, n, F)
    BY <1>5 DEF StaysIn
  <2>2. n \in Nat
    BY <1>2
  <2> HIDE DEF n
  <2>3. IsIterated(S, x, n, F)
    BY <1>4, <2>1, <2>2, Iterates
  <2> QED
    BY <2>3 DEF IsIterated
<1>8. \A i \in 0 .. n : h[i] = E(h)[i]
  <2> SUFFICES ASSUME NEW i \in 0 .. n
               PROVE  h[i] = E(h)[i]
    OBVIOUS
  <2>1. CASE i = 0
    BY <1>7, <2>1
  <2>2. CASE i # 0
    <3>1. i \in 1 .. n
      BY SMT, <1>2, <2>2
    <3>2. h[i - 1] \in S
      BY <1>2, <1>7, <3>1
    <3> QED
      BY <1>5, <1>7, <2>2, <3>1, <3>2
  <2> QED
    BY <2>1, <2>2
<1>9. h = E(h)
  BY <1>7, <1>8
<1> HIDE DEF E
<1>10. g = E(g)
  BY <1>9
<1>11. g = Opened(j) /\ Replayed(j) = g[n]
  BY DEF Opened, Replayed, E, x
<1> HIDE DEF g
<1>12. g[0] = x /\ \A i \in 1 .. n : g[i] = ReplayFrame(g[i - 1], j.frames[i])
  <2>1. 0 \in 0 .. n
    BY SMT, <1>2
  <2> QED
    BY <1>2, <1>10, <2>1 DEF E
<1>13. \A i \in 0 .. n : Fit(g[i], NoDocuments)
  <2> DEFINE G == {i \in Nat : Fit(g[i], NoDocuments)}
  <2>1. 0 \in G
    BY <1>4, <1>6, <1>12
  <2>2. ASSUME NEW i \in 0 .. n - 1, i \in G
        PROVE  i + 1 \in G
    <3>1. i + 1 \in 1 .. n /\ (i + 1) - 1 = i /\ i + 1 \in Nat
      BY SMT, <1>2
    <3>2. g[i + 1] = ReplayFrame(g[i], j.frames[i + 1])
      BY <1>12, <3>1
    <3> QED
      BY <1>2, <2>2, <3>1, <3>2, FrameFits
  <2> HIDE DEF G
  <2>3. \A i \in 0 .. n : i \in G
    BY <1>2, <2>1, <2>2, UpTo
  <2> QED
    BY <2>3 DEF G
<1> QED
  BY <1>2, <1>11, <1>12, <1>13 DEF x
\* Two journals start alike.
AlikeTo(j, k, n) ==
    /\ j.image = k.image /\ j.served = k.served
    /\ n <= Len(j.frames) /\ n <= Len(k.frames)
    /\ \A i \in 1 .. n : j.frames[i] = k.frames[i]

\* Journals with the same frames so far have the same states so far.
LEMMA OpenedPrefix ==
    ASSUME NEW j, NEW k, IsGeneration(j), IsGeneration(k), NEW n \in Nat, AlikeTo(j, k, n)
    PROVE  \A i \in 0 .. n : Opened(j)[i] = Opened(k)[i]
<1> USE DEF AlikeTo
<1> DEFINE g == Opened(j)
           h == Opened(k)
           G == {i \in Nat : g[i] = h[i]}
<1>1. /\ g[0] = ServedFrom(j.image, j.served) /\ Len(j.frames) \in Nat
      /\ \A i \in 1 .. Len(j.frames) : g[i] = ReplayFrame(g[i - 1], j.frames[i])
  BY OpenedRun
<1>2. /\ h[0] = ServedFrom(k.image, k.served) /\ Len(k.frames) \in Nat
      /\ \A i \in 1 .. Len(k.frames) : h[i] = ReplayFrame(h[i - 1], k.frames[i])
  BY OpenedRun
<1> HIDE DEF g, h
<1>3. 0 \in G
  BY <1>1, <1>2
<1>4. ASSUME NEW i \in 0 .. n - 1, i \in G
      PROVE  i + 1 \in G
  <2>1. /\ i + 1 \in 1 .. n /\ i + 1 \in 1 .. Len(j.frames) /\ i + 1 \in 1 .. Len(k.frames)
        /\ (i + 1) - 1 = i /\ i + 1 \in Nat
    BY SMT, <1>1, <1>2
  <2>2. g[i + 1] = ReplayFrame(g[i], j.frames[i + 1])
    BY <1>1, <2>1
  <2>3. h[i + 1] = ReplayFrame(h[i], k.frames[i + 1])
    BY <1>2, <2>1
  <2> QED
    BY <1>4, <2>1, <2>2, <2>3
<1> HIDE DEF G
<1>5. \A i \in 0 .. n : i \in G
  BY <1>3, <1>4, UpTo
<1> QED
  BY <1>5 DEF G, g, h

AgreeAt(j, a, k, b, m) ==
    /\ Opened(j)[a + m].other = Opened(k)[b + m].other
    /\ \A d \in DocIds :
          \/ Shown(Opened(j)[a], NoDocuments)[d] = Shown(Opened(k)[b], NoDocuments)[d]
          \/ \E i \in 1 .. m : Decides(k.frames[b + i], d)
          => Shown(Opened(j)[a + m], NoDocuments)[d] = Shown(Opened(k)[b + m], NoDocuments)[d]

\* Two journals that go on with the same frames, from states that agree on other state:
\* they end up agreeing on the documents on which they did, and on those the frames write.
LEMMA JournalsAgree ==
    ASSUME NEW j, NEW k, IsGeneration(j), IsGeneration(k),
           NEW a \in Nat, NEW b \in Nat, NEW m \in Nat,
           a + m <= Len(j.frames), b + m <= Len(k.frames),
           \A i \in 1 .. m : j.frames[a + i] = k.frames[b + i],
           Opened(j)[a].other = Opened(k)[b].other
    PROVE  AgreeAt(j, a, k, b, m)
<1> DEFINE g(i) == Opened(j)[a + i]
           h(i) == Opened(k)[b + i]
<1>1. /\ Len(j.frames) \in Nat /\ \A i \in 0 .. Len(j.frames) : Fit(Opened(j)[i], NoDocuments)
      /\ \A i \in 1 .. Len(j.frames) : j.frames[i] \in Seq(Mutations)
                                   /\ Opened(j)[i] = ReplayFrame(Opened(j)[i - 1], j.frames[i])
  BY OpenedRun
<1>2. /\ Len(k.frames) \in Nat /\ \A i \in 0 .. Len(k.frames) : Fit(Opened(k)[i], NoDocuments)
      /\ \A i \in 1 .. Len(k.frames) : Opened(k)[i] = ReplayFrame(Opened(k)[i - 1], k.frames[i])
  BY OpenedRun
<1>3. a + 0 = a /\ b + 0 = b /\ m \in 0 .. m
  BY SMT
<1>4. ASSUME NEW i \in 0 .. m - 1
      PROVE  /\ i + 1 \in Nat /\ j.frames[a + (i + 1)] = k.frames[b + (i + 1)]
             /\ Fit(g(i), NoDocuments) /\ Fit(h(i), NoDocuments)
             /\ k.frames[b + (i + 1)] \in Seq(Mutations)
             /\ g(i + 1) = ReplayFrame(g(i), k.frames[b + (i + 1)])
             /\ h(i + 1) = ReplayFrame(h(i), k.frames[b + (i + 1)])
  <2>1. /\ i + 1 \in 1 .. m /\ i + 1 \in Nat
        /\ a + i \in 0 .. Len(j.frames) /\ b + i \in 0 .. Len(k.frames)
        /\ a + (i + 1) \in 1 .. Len(j.frames) /\ b + (i + 1) \in 1 .. Len(k.frames)
        /\ (a + (i + 1)) - 1 = a + i /\ (b + (i + 1)) - 1 = b + i
    BY SMT, <1>1, <1>2
  <2>2. j.frames[a + (i + 1)] = k.frames[b + (i + 1)]
    BY <2>1
  <2>3. Fit(g(i), NoDocuments) /\ Fit(h(i), NoDocuments)
    BY <1>1, <1>2, <2>1
  <2>4. j.frames[a + (i + 1)] \in Seq(Mutations)
    BY <1>1, <2>1
  <2>5. Opened(j)[a + (i + 1)] = ReplayFrame(Opened(j)[a + i], j.frames[a + (i + 1)])
    BY <1>1, <2>1
  <2>6. Opened(k)[b + (i + 1)] = ReplayFrame(Opened(k)[b + i], k.frames[b + (i + 1)])
    BY <1>2, <2>1
  <2> QED
    BY <2>1, <2>2, <2>3, <2>4, <2>5, <2>6
<1>5. ASSUME NEW i \in 0 .. m - 1
      PROVE  /\ g(i).other = h(i).other => g(i + 1).other = h(i + 1).other
             /\ \A d \in DocIds :
                    Shown(g(i), NoDocuments)[d] = Shown(h(i), NoDocuments)[d]
                       \/ Decides(k.frames[b + (i + 1)], d)
                    => Shown(g(i + 1), NoDocuments)[d] = Shown(h(i + 1), NoDocuments)[d]
  <2> DEFINE s == g(i)
             t == h(i)
             batch == k.frames[b + (i + 1)]
             s2 == ReplayFrame(s, batch)
             t2 == ReplayFrame(t, batch)
  <2>1. /\ Fit(s, NoDocuments) /\ Fit(t, NoDocuments) /\ batch \in Seq(Mutations)
        /\ g(i + 1) = s2 /\ h(i + 1) = t2
    BY <1>4
  <2> HIDE DEF s, t, batch, g, h
  <2>2. AgreeAfter(s, t, batch, s2, t2)
    BY <2>1, FrameAgree
  <2> HIDE DEF s2, t2
  <2> QED
    BY <2>1, <2>2 DEF s, t, batch, AgreeAfter
<1>6. g(0) = Opened(j)[a] /\ h(0) = Opened(k)[b]
  BY <1>3
<1> HIDE DEF g, h
<1>7. g(m).other = h(m).other
  <2> DEFINE G == {i \in Nat : g(i).other = h(i).other}
  <2>1. 0 \in G
    BY <1>6
  <2>2. ASSUME NEW i \in 0 .. m - 1, i \in G
        PROVE  i + 1 \in G
    BY <1>4, <1>5, <2>2
  <2> HIDE DEF G
  <2>3. \A i \in 0 .. m : i \in G
    BY <2>1, <2>2, UpTo
  <2> QED
    BY <1>3, <2>3 DEF G
<1>8. ASSUME NEW d \in DocIds,
             Shown(g(0), NoDocuments)[d] = Shown(h(0), NoDocuments)[d]
                \/ \E i \in 1 .. m : Decides(k.frames[b + i], d)
      PROVE  Shown(g(m), NoDocuments)[d] = Shown(h(m), NoDocuments)[d]
  <2> DEFINE x(i) == Shown(g(i), NoDocuments)[d]
             y(i) == Shown(h(i), NoDocuments)[d]
             G == {i \in Nat : x(0) = y(0) \/ (\E c \in 1 .. i : Decides(k.frames[b + c], d))
                                 => x(i) = y(i)}
  <2>1. 0 \in G
    <3>1. 0 \in Nat /\ \A c \in 1 .. 0 : FALSE
      BY SMT
    <3> HIDE DEF x, y
    <3> QED
      BY <3>1
  <2>2. ASSUME NEW i \in 0 .. m - 1, i \in G
        PROVE  i + 1 \in G
    <3>1. x(i) = y(i) \/ Decides(k.frames[b + (i + 1)], d) => x(i + 1) = y(i + 1)
      BY <1>5
    <3> HIDE DEF x, y
    <3>2. \A c \in 1 .. i + 1 : c = i + 1 \/ c \in 1 .. i
      BY SMT
    <3>3. i + 1 \in Nat
      BY <1>4
    <3> QED
      BY <2>2, <3>1, <3>2, <3>3
  <2> HIDE DEF G
  <2>3. \A i \in 0 .. m : i \in G
    BY <2>1, <2>2, UpTo
  <2> QED
    BY <1>3, <1>8, <2>3 DEF G
<1> QED
  BY <1>6, <1>7, <1>8 DEF g, h, AgreeAt

-----------------------------------------------------------------------------
(* What a query sees.                                                      *)

\* The view of a store is what it shows, its vectors and the rest.
LEMMA ViewIs ==
    ASSUME NEW s \in Engine
    PROVE  /\ View(s) = [docs |-> Shown(s, NoDocuments), shards |-> s.shards, other |-> s.other]
           /\ View(s) \in View1
<1>1. \A d \in DocIds : NoDocuments[d] = NoDoc
  BY RunTypes
<1>2. View(s).docs = Shown(s, NoDocuments)
  BY <1>1 DEF View, Shown, Face
<1>3. View(s) = [docs |-> Shown(s, NoDocuments), shards |-> s.shards, other |-> s.other]
  BY <1>1 DEF View, Shown, Face
<1>4. /\ Shown(s, NoDocuments) \in [DocIds -> Faces] /\ s.shards \subseteq Vectors
      /\ s.other \in BOOLEAN
  BY ShownTypes, EngineFields, RunTypes
<1> DEFINE a == Shown(s, NoDocuments)
           b == s.shards
           c == s.other
<1>5. a \in [DocIds -> Faces] /\ b \subseteq Vectors /\ c \in BOOLEAN
  BY <1>4
<1> HIDE DEF a, b, c
<1>6. [docs |-> a, shards |-> b, other |-> c] \in View1
  BY SMT, <1>5 DEF View1
<1> QED
  BY <1>3, <1>6 DEF a, b, c

\* The vectors of the documents written are those of the documents shown: a checkpoint
\* holds none.
LEMMA ShownVectors ==
    ASSUME NEW s, Fit(s, NoDocuments), NEW d \in DocIds
    PROVE  VectorsOf(d, s.own[d]) = VectorsOf(d, Shown(s, NoDocuments)[d])
<1> DEFINE x == s.own[d]
           y == Shown(s, NoDocuments)[d]
<1>1. s \in Engine
  BY DEF Fit, Sound
<1>2. x \in Stored /\ s.base[d] \in Stored /\ NoDocuments[d] = NoDoc
  BY <1>1, ShownTypes, RunTypes
<1>3. s.base[d] # NoDoc => s.base[d].mode = "lexical"
  BY <1>1, EngineFields, RunTypes
<1>4. CASE x # NoDoc
  <2>1. y = Face(x)
    BY <1>2, <1>4 DEF Shown
  <2>2. y # NoDoc /\ y.text = x.text /\ y.mode = x.mode
    BY <1>2, <1>4, <2>1, FaceOf
  <2> HIDE DEF x, y
  <2>3. VectorsOf(d, x) = VectorsOf(d, y)
    BY <1>4, <2>2 DEF VectorsOf
  <2> QED
    BY <2>3 DEF x, y
<1>5. CASE x = NoDoc
  <2>1. y = NoDoc \/ (y = Face(s.base[d]) /\ s.base[d] # NoDoc)
    BY <1>2, <1>5 DEF Shown, Face
  <2>2. y = NoDoc \/ y.mode = "lexical"
    BY <1>2, <1>3, <2>1, FaceOf
  <2>3. "lexical" # "encoded"
    OBVIOUS
  <2> HIDE DEF x, y
  <2>4. VectorsOf(d, x) = {} /\ VectorsOf(d, y) = {}
    BY <1>5, <2>2, <2>3 DEF VectorsOf
  <2> QED
    BY <2>4 DEF x, y
<1> QED
  BY <1>4, <1>5

\* Stores that show the same look the same.
LEMMA SameView ==
    ASSUME NEW s, NEW t, Fit(s, NoDocuments), Fit(t, NoDocuments),
           Same(s, NoDocuments, t, NoDocuments)
    PROVE  View(s) = View(t)
<1>1. /\ s \in Engine /\ t \in Engine
      /\ Exact(s.shards, Written(s, NoDocuments)) /\ Exact(t.shards, Written(t, NoDocuments))
  BY DEF Fit, Sound
<1>2. Shown(s, NoDocuments) = Shown(t, NoDocuments) /\ s.other = t.other
  BY DEF Same
<1>3. ASSUME NEW d \in DocIds
      PROVE  VectorsOf(d, Written(t, NoDocuments)[d]) = VectorsOf(d, Written(s, NoDocuments)[d])
  <2>1. Written(s, NoDocuments)[d] = s.own[d] /\ Written(t, NoDocuments)[d] = t.own[d]
    BY RunTypes DEF Written
  <2>2. VectorsOf(d, s.own[d]) = VectorsOf(d, Shown(s, NoDocuments)[d])
    BY ShownVectors
  <2>3. VectorsOf(d, t.own[d]) = VectorsOf(d, Shown(t, NoDocuments)[d])
    BY ShownVectors
  <2> QED
    BY <1>2, <2>1, <2>2, <2>3
<1>4. Exact(s.shards, Written(t, NoDocuments))
  BY <1>1, <1>3, ExactSame
<1>5. s.shards = t.shards
  BY <1>1, <1>4 DEF Exact
<1> QED
  BY <1>1, <1>2, <1>5, ViewIs

-----------------------------------------------------------------------------
(* Jobs and journals.                                                      *)

\* What a writer has prepared.
LEMMA JobFields ==
    ASSUME NEW x \in Job \cup {AtRest}
    PROVE  /\ x.stage \in {"idle", "prepared", "applying"}
           /\ x.stage = "idle" <=> x = AtRest
           /\ x.stage # "idle" =>
                 /\ x \in Job /\ x.batch \in Seq(Mutations) /\ x.next \in Nat /\ x.pend \in Run
                 /\ x.plan # <<>> => x.plan[1] \in Nat
  BY SMT DEF Job, AtRest

\* What happens to it.
LEMMA JobSteps ==
    ASSUME NEW x \in Job
    PROVE  /\ [x EXCEPT !.stage = "applying"] \in Job
           /\ [x EXCEPT !.stage = "applying"].stage = "applying"
           /\ [x EXCEPT !.stage = "applying"].batch = x.batch
           /\ [x EXCEPT !.stage = "applying"].next = x.next
           /\ [x EXCEPT !.stage = "applying"].pend = x.pend
           /\ [x EXCEPT !.stage = "applying"].plan = x.plan
           /\ \A run \in Run :
                 LET y == [x EXCEPT !.next = @ + 1, !.pend = run]
                 IN  /\ y \in Job /\ y.stage = x.stage /\ y.batch = x.batch
                     /\ y.next = x.next + 1 /\ y.pend = run /\ y.plan = x.plan
<1> DEFINE N == x.next + 1
<1>1. /\ x = [stage |-> x.stage, batch |-> x.batch, previous |-> x.previous, next |-> x.next,
              pend |-> x.pend, plan |-> x.plan]
      /\ x.stage \in {"prepared", "applying"} /\ x.batch \in Seq(Mutations)
      /\ x.previous \in Seq(Stored) /\ x.next \in Nat
      /\ x.pend \in Run /\ x.plan \in {<<>>} \cup (Nat \X View1)
  BY SMT DEF Job
<1>2. N \in Nat
  BY SMT, <1>1
<1>3. LET y == [x EXCEPT !.stage = "applying"]
      IN  /\ y = [stage |-> "applying", batch |-> x.batch, previous |-> x.previous, next |-> x.next,
                  pend |-> x.pend, plan |-> x.plan]
          /\ y.stage = "applying" /\ y.batch = x.batch /\ y.next = x.next
          /\ y.pend = x.pend /\ y.plan = x.plan
  <2> DEFINE y == [x EXCEPT !.stage = "applying"]
  <2>1. y = [x EXCEPT !.stage = "applying"]
    OBVIOUS
  <2> HIDE DEF y
  <2>2. y = [stage |-> "applying", batch |-> x.batch, previous |-> x.previous, next |-> x.next,
             pend |-> x.pend, plan |-> x.plan]
    BY <1>1, <2>1
  <2>3. /\ y.stage = "applying" /\ y.batch = x.batch /\ y.next = x.next
        /\ y.pend = x.pend /\ y.plan = x.plan
    BY <2>2
  <2> QED
    BY <2>2, <2>3 DEF y
<1>4. [stage |-> "applying", batch |-> x.batch, previous |-> x.previous, next |-> x.next,
       pend |-> x.pend, plan |-> x.plan] \in Job
  BY <1>1 DEF Job
<1>5. ASSUME NEW run \in Run
      PROVE  LET y == [x EXCEPT !.next = @ + 1, !.pend = run]
             IN  /\ y \in Job /\ y.stage = x.stage /\ y.batch = x.batch
                 /\ y.next = x.next + 1 /\ y.pend = run /\ y.plan = x.plan
  <2> DEFINE y == [x EXCEPT !.next = @ + 1, !.pend = run]
  <2>1. y = [x EXCEPT !.next = N, !.pend = run]
    OBVIOUS
  <2> HIDE DEF N, y
  <2>2. y = [stage |-> x.stage, batch |-> x.batch, previous |-> x.previous, next |-> N,
             pend |-> run, plan |-> x.plan]
    BY <1>1, <2>1
  <2>3. [stage |-> x.stage, batch |-> x.batch, previous |-> x.previous, next |-> N,
         pend |-> run, plan |-> x.plan] \in Job
    BY <1>1, <1>2 DEF Job
  <2>4. y \in Job /\ y.stage = x.stage /\ y.batch = x.batch /\ y.next = N /\ y.pend = run
        /\ y.plan = x.plan
    BY <2>2, <2>3
  <2> QED
    BY <2>4 DEF y, N
<1> QED
  BY <1>3, <1>4, <1>5

\* The journal with a frame more.
Longer(j, batch) == [j EXCEPT !.frames = Append(@, batch)]

\* The states before the frame are the same.
LEMMA LongerRun ==
    ASSUME NEW j, IsGeneration(j), NEW batch \in Seq(Mutations)
    PROVE  LET k == Longer(j, batch)
               n == Len(j.frames)
           IN  /\ IsGeneration(k) /\ n \in Nat /\ Len(k.frames) = n + 1
               /\ k.frames[n + 1] = batch /\ k.frames # <<>>
               /\ k.image = j.image /\ k.served = j.served
               /\ \A i \in 1 .. n : k.frames[i] = j.frames[i]
               /\ \A i \in 0 .. n : Opened(k)[i] = Opened(j)[i]
<1> DEFINE k == Longer(j, batch)
           n == Len(j.frames)
<1>1. /\ j.image \in Image /\ j.served \in BOOLEAN /\ j.frames \in Seq(Seq(Mutations))
      /\ (~j.served => j.image = NoDocuments)
      /\ j = [image |-> j.image, served |-> j.served, frames |-> j.frames]
  BY SMT DEF IsGeneration, Generation
<1>2. k = [image |-> j.image, served |-> j.served, frames |-> Append(j.frames, batch)]
  <2> DEFINE f == Append(j.frames, batch)
  <2>1. k = [j EXCEPT !.frames = f]
    BY DEF Longer
  <2>2. j = [image |-> j.image, served |-> j.served, frames |-> j.frames]
    BY <1>1
  <2> HIDE DEF k, f
  <2>3. k = [image |-> j.image, served |-> j.served, frames |-> f]
    BY <2>1, <2>2
  <2> QED
    BY <2>3 DEF f
<1>3. k.image = j.image /\ k.served = j.served /\ k.frames = Append(j.frames, batch)
  BY SMT, <1>2
<1>4. Append(j.frames, batch) \in Seq(Seq(Mutations))
  BY SMT, <1>1
<1>5. IsGeneration(k)
  <2> DEFINE f == Append(j.frames, batch)
  <2> HIDE DEF f, k
  <2>1. f \in Seq(Seq(Mutations)) /\ k = [image |-> j.image, served |-> j.served, frames |-> f]
    BY <1>2, <1>4 DEF f
  <2>2. k \in Generation
    BY <1>1, <2>1 DEF Generation
  <2> QED
    BY <1>1, <1>3, <2>2 DEF IsGeneration
<1>6. /\ n \in Nat /\ Len(k.frames) = n + 1 /\ k.frames[n + 1] = batch /\ k.frames # <<>>
      /\ \A i \in 1 .. n : k.frames[i] = j.frames[i]
  <2> DEFINE f == j.frames
             h == k.frames
  <2>1. f \in Seq(Seq(Mutations)) /\ h = Append(f, batch)
    BY <1>1, <1>3
  <2> HIDE DEF f, h
  <2>2. /\ Len(f) \in Nat /\ Len(h) = Len(f) + 1 /\ h[Len(f) + 1] = batch /\ h # <<>>
        /\ \A i \in 1 .. Len(f) : h[i] = f[i]
    BY SMT, <2>1
  <2> QED
    BY <2>2 DEF f, h
<1> HIDE DEF k
<1>7. \A i \in 0 .. n : Opened(k)[i] = Opened(j)[i]
  <2>1. n <= Len(k.frames) /\ n <= Len(j.frames)
    BY SMT, <1>6
  <2>2. AlikeTo(k, j, n)
    BY <1>3, <1>6, <2>1 DEF AlikeTo
  <2> HIDE DEF n
  <2> QED
    BY <1>5, <1>6, <2>2, OpenedPrefix
<1> QED
  BY <1>3, <1>5, <1>6, <1>7 DEF k
=============================================================================
