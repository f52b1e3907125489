----------------------------- MODULE MCDurable ------------------------------
(***************************************************************************)
(* One run for four components that keep state on disk and share none with *)
(* each other: the arena, the engine's documents, the server's vector      *)
(* index and the replacement of a tenant's store.  A behaviour is one of   *)
(* one of them, chosen in the initial state: no step of one component      *)
(* reads or writes a variable of another, so nothing is lost, and the      *)
(* state space is the sum of theirs and not the product.                   *)
(*                                                                         *)
(* The arena: a short and a long transaction, segments of six cells that   *)
(* grow by three, so that frames fill a segment exactly, leave room for    *)
(* one more cell, and force growth and rotation.                           *)
(***************************************************************************)
EXTENDS MCArena, Documents, VectorIndex, Restore

VARIABLE chosen     \* the component whose behaviour this is

Document(d, t, m) == [op |-> "document", id |-> d, text |-> t, mode |-> m]
Deletion(d) == [op |-> "delete", id |-> d]

MCChunkCount == [t1 |-> 1, u1 |-> 1, t2 |-> 2]

\* A document replaced by fewer chunks, twice in a batch, deleted and stored
\* again, stored without its vectors, and beside another kind of mutation.
MCBatches ==
    {<<Document("d1", "t2", "encoded")>>,
     <<Document("d1", "u1", "pending")>>,
     <<Document("d2", "t1", "encoded"), Document("d1", "t1", "pending")>>,
     <<Document("d1", "t2", "encoded"), Document("d1", "t1", "encoded")>>,
     <<Deletion("d1"), Document("d1", "u1", "lexical")>>,
     <<Document("d1", "t1", "lexical"), [op |-> "other"]>>}

MCImages == {[d1 |-> [text |-> "t1", mode |-> "lexical", at |-> 0], d2 |-> NoDoc]}

MCVBatches == {<<"a">>, <<"a", "b">>}

durableVars == <<vars, docVars, vindexVars, restoreVars, chosen>>

DurableInit ==
    /\ chosen \in {"arena", "documents", "vindex", "restore"}
    /\ Init /\ DocumentsInit /\ VIndexInit /\ RestoreInit
    /\ chosen # "documents" => journal.image = NoDocuments

DurableNext ==
    \/ /\ chosen = "arena" /\ Next
       /\ UNCHANGED <<docVars, vindexVars, restoreVars, chosen>>
    \/ /\ chosen = "documents" /\ DocumentsNext
       /\ UNCHANGED <<vars, vindexVars, restoreVars, chosen>>
    \/ /\ chosen = "vindex" /\ VIndexNext
       /\ UNCHANGED <<vars, docVars, restoreVars, chosen>>
    \/ /\ chosen = "restore" /\ RestoreNext
       /\ UNCHANGED <<vars, docVars, vindexVars, chosen>>

DurableSpec == DurableInit /\ [][DurableNext]_durableVars
=============================================================================
