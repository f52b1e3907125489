------------------------------- MODULE Ledger -------------------------------
(***************************************************************************)
(* What the engine promises a caller, without journals, generations,       *)
(* leases or crashes: a map of keys changed by atomic writes, each audited *)
(* write owing one audit record, and a trail that receives the owed        *)
(* records once each in the order of the writes.  Store implements it.     *)
(***************************************************************************)
EXTENDS Integers, Sequences

CONSTANTS Key, Absent

VARIABLES docs, owed, trail

vars == <<docs, owed, trail>>

Init == docs = [k \in Key |-> Absent] /\ owed = <<>> /\ trail = <<>>

\* A committed transaction: it changes at most one key and owes at most one record.
Write ==
    /\ UNCHANGED trail
    /\ owed' = owed \/ (Len(owed') = Len(owed) + 1 /\ SubSeq(owed', 1, Len(owed)) = owed)
    /\ LET before == docs
           after  == docs'
       IN  \E k \in Key : after = [before EXCEPT ![k] = after[k]]

\* The oldest record owed reaches the trail.
Record ==
    /\ owed # <<>>
    /\ trail' = Append(trail, Head(owed)) /\ owed' = Tail(owed)
    /\ UNCHANGED docs

Next == Write \/ Record

Spec == Init /\ [][Next]_vars
=============================================================================
