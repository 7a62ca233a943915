---------------------------- MODULE CatalogBoard ----------------------------
(***************************************************************************)
(* What a gateway provider promises about its model catalog, whatever the  *)
(* interleaving of pi's refreshes, its own background refreshes, the       *)
(* endpoint commands, logins and shutdowns.                                *)
(*                                                                         *)
(* Requests are numbered in the order they are issued.  Only the newest    *)
(* request may be shown, and only while the provider is open; what is      *)
(* saved on disk never goes back to an older request.                      *)
(***************************************************************************)
EXTENDS Naturals

VARIABLES
    issued,   \* the newest request
    shown,    \* the request whose catalog was last put on display
    saved,    \* the request whose catalog is on disk
    open      \* a session is running

boardVars == <<issued, shown, saved, open>>

Init == issued = 0 /\ shown = 0 /\ saved = 0 /\ open = TRUE

(* A refresh begins: it makes every older request obsolete. *)
Issue == issued' \in Nat /\ issued' > issued /\ UNCHANGED <<shown, saved, open>>

(* A catalog is displayed: the newest request's, and only in a session. *)
Show == open /\ shown' = issued /\ UNCHANGED <<issued, saved, open>>

(* A catalog reaches the disk. *)
Save == saved' \in saved .. issued /\ UNCHANGED <<issued, shown, open>>

(* shutdown() and beginSession(). *)
Toggle == open' = ~open /\ UNCHANGED <<issued, shown, saved>>

Next == Issue \/ Show \/ Save \/ Toggle

Spec == Init /\ [][Next]_boardVars
=============================================================================
