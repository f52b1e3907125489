------------------------------ MODULE MCArena -------------------------------
(***************************************************************************)
(* The arena for TLC: a short and a long transaction, segments of six      *)
(* cells that grow by three, so that frames fill a segment exactly, leave  *)
(* room for one more cell, and force growth and rotation.                  *)
(***************************************************************************)
EXTENDS Arena

CONSTANTS short, long

MCPayLen == [d \in Data |-> IF d = short THEN 1 ELSE 2]
=============================================================================
