----------------------------- MODULE TenantData -----------------------------
(***************************************************************************)
(* What a tenant's data may go through (warm-server/restore.rs): writes    *)
(* extend it, a restore replaces it as a whole.  While a restore is        *)
(* undecided (nobody was told, a crash or a rollback may still bring the   *)
(* previous data back) nothing is written.                                 *)
(***************************************************************************)
CONSTANTS Item, Image, Nothing

VARIABLES
    data,    \* the items of the store
    other    \* the store it may still turn into, or Nothing

dataVars == <<data, other>>

DataInit(d) == data = d /\ other = Nothing

Extend == \E w \in Item : other = Nothing /\ data' = data \cup {w} /\ UNCHANGED other
Replace == other = Nothing /\ data' = Image /\ other' = data
Turn == other # Nothing /\ data' = other /\ other' \in {data, Nothing}
Decide == other' = Nothing /\ UNCHANGED data

DataNext == Extend \/ Replace \/ Turn \/ Decide
DataSpec == (\E d \in SUBSET Item : DataInit(d)) /\ [][DataNext]_dataVars
=============================================================================
