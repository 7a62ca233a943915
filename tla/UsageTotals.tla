----------------------------- MODULE UsageTotals -----------------------------
(***************************************************************************)
(* What the usage ledger promises: unless the totals are marked as unsure, *)
(* they show exactly what the observations heard so far amount to,         *)
(* whatever their order and their duplicates; and what has been shown is   *)
(* withdrawn only for a newer account of the same spending.                *)
(***************************************************************************)
EXTENDS UsageObservation

VARIABLES
    heard,    \* the observations delivered
    shown,    \* the ones the totals add up
    unsure    \* the totals are shown as a lower bound

totalsVars == <<heard, shown, unsure>>

Init == heard = {} /\ shown = {} /\ unsure = FALSE

Next ==
    /\ heard \subseteq heard' /\ heard' \subseteq Observations
    /\ shown' \subseteq heard' /\ Improves(shown, shown')
    /\ unsure' \in BOOLEAN /\ (unsure => unsure')
    /\ ~unsure' => shown' = Projection(heard')

Spec == Init /\ [][Next]_totalsVars
=============================================================================
