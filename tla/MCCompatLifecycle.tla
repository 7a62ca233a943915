------------------------ MODULE MCCompatLifecycle ------------------------
(* Small instances of CompatLifecycle for TLC. *)
EXTENDS CompatLifecycle, TLC

CONSTANTS p1, p2, t1, t2, cleanup

(* What the surroundings of an instance do. *)
Failures    == {"io", "ends", "exits"}
Gaps        == {"ends", "gaps"}
GapsOthers  == Gaps \cup {"others"}
Edits       == {"ends", "batches"}
Relogins    == {"relogin", "ends"}

(* The surroundings a run considers, one at a time. *)
EachAlone   == {Failures, Gaps, Edits, Relogins}
AllGaps     == {GapsOthers}
Quiet       == {{}}

Symmetric == Permutations(Tasks) \cup Permutations(Procs)
=============================================================================
