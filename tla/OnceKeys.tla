------------------------------ MODULE OnceKeys ------------------------------
(***************************************************************************)
(* What the idempotency table of the HTTP server promises a client that    *)
(* retries (warm-server/limits.rs): while a key is remembered, the work    *)
(* sent under it takes effect at most once.  A key is forgotten only when  *)
(* it is settled and its retention is over, or when its work ended without *)
(* an effect.                                                              *)
(***************************************************************************)
CONSTANT Key

VARIABLES
    status,    \* "free", "running" or "settled", for every key
    effect     \* keys whose work took effect since they were last free

onceVars == <<status, effect>>

OnceInit ==
    /\ status = [k \in Key |-> "free"]
    /\ effect = {}

\* Settled keys whose retention ended are forgotten, whoever comes next.
Forgotten(F) ==
    /\ \A k \in F : status[k] = "settled"
    /\ effect' = effect \ F

Forget(F) ==
    /\ Forgotten(F)
    /\ status' = [k \in Key |-> IF k \in F THEN "free" ELSE status[k]]

\* Only a free key starts.
Start(k, F) ==
    /\ Forgotten(F)
    /\ status[k] = "free" \/ k \in F
    /\ status' = [j \in Key |-> IF j = k THEN "running"
                                ELSE IF j \in F THEN "free" ELSE status[j]]

\* The one effect of the work that runs under k.
TakeEffect(k) ==
    /\ status[k] = "running"
    /\ k \notin effect
    /\ effect' = effect \cup {k}
    /\ UNCHANGED status

Settle(k) ==
    /\ status[k] = "running"
    /\ status' = [status EXCEPT ![k] = "settled"]
    /\ UNCHANGED effect

\* A key whose work had no effect may be tried again.
GiveBack(k) ==
    /\ status[k] = "running"
    /\ k \notin effect
    /\ status' = [status EXCEPT ![k] = "free"]
    /\ UNCHANGED effect

OnceNext ==
    \/ \E F \in SUBSET Key : Forget(F)
    \/ \E k \in Key :
          \/ \E F \in SUBSET Key : Start(k, F)
          \/ TakeEffect(k)
          \/ Settle(k)
          \/ GiveBack(k)

OnceSpec == OnceInit /\ [][OnceNext]_onceVars
=============================================================================
