-------------------------- MODULE MCCompatProvider --------------------------
(* Small instances of CompatProvider for TLC. *)
EXTENDS CompatProvider, TLC

CONSTANTS c1, c2, c3, u1, u2, t1, t2, t3, p1

(* c1 and c2 are two keys of one gateway, c3 is another gateway. *)
MCUrlOf == [c \in Conns |-> IF c = c3 THEN u2 ELSE u1]

MCSymmetry == Permutations(Tasks)

(* The states of the run about refreshes and logins: either no login is made, and a
   second generation only without a change of the overrides and with two requests;
   or the connection changes, with two requests in the first generation. *)
Refreshes ==
    /\ cred.conn = c1 /\ nextNonce = 1 /\ \A t \in Tasks : task[t].kind # "login"
    /\ gen <= 1 \/ (ov = 0 /\ nextReq <= 3)
Logins == nextReq <= 3 /\ gen <= 1 /\ ov = 0
RefreshesOrLogins == Refreshes \/ Logins
=============================================================================
