--------------------------- MODULE UsageObservation ---------------------------
(***************************************************************************)
(* The usage observations of extensions/usage/contract.ts, as far as the   *)
(* ledger tells them apart: what they account for (an execution, one of    *)
(* its calls, a model partition of a snapshot), and how new they are.      *)
(* Amounts follow from the observation and are left out.                   *)
(***************************************************************************)
EXTENDS Naturals

CONSTANTS
    Executions,    \* executionId, with its attempt, producer and package
    Calls, NoCall, \* callId, or none
    Partitions,    \* provider and model of a snapshot's rows
    Observations   \* the observations the sources may deliver

(* phase "running" is running or provisional; "final" is final, failed or aborted. *)
Observation ==
    [kind : {"response", "snapshot", "lifecycle"}, phase : {"running", "final"},
     scope : {"self", "subtree"}, exec : Executions, call : Calls \cup {NoCall},
     part : Partitions, rev : Nat, seq : Nat, at : Nat, usage : BOOLEAN]

(* The rows of one snapshot: its model partitions, in all their revisions. *)
SameGroup(o, p) ==
    /\ o.kind = "snapshot" /\ p.kind = "snapshot"
    /\ o.scope = p.scope /\ o.exec = p.exec

(* One entry of the ledger's map.  A call without an id is known by its sequence. *)
SameIdentity(o, p) ==
    /\ o.kind = p.kind /\ o.exec = p.exec
    /\ o.kind = "snapshot" => o.scope = p.scope /\ o.part = p.part
    /\ o.kind # "snapshot" => /\ o.call = p.call
                              /\ o.call = NoCall => o.seq = p.seq
    /\ o.kind = "lifecycle" => o.phase = p.phase

(* Two accounts of the same spending, of which only the newer one counts. *)
Rivals(o, p) == IF o.kind = "snapshot" THEN SameGroup(o, p) ELSE SameIdentity(o, p)
Beats(p, o) == Rivals(p, o) /\ p.rev > o.rev

Final(S) == {o \in S : o.phase = "final"}
Latest(S) == {o \in S : \A p \in S : ~Beats(p, o)}

(* What a set of observations amounts to, whatever the order they came in. *)
Projection(S) == Final(Latest(S))

(* Nothing that counted is forgotten, except for a newer account of the same. *)
Improves(S, T) == \A o \in S : o \in T \/ \E p \in T : Beats(p, o)

ASSUME ObservationsAssumption == Observations \subseteq Observation /\ NoCall \notin Calls

(* A source does not say two things under one identity and revision ...     *)
ASSUME RevisionAssumption ==
    \A o, p \in Observations : SameIdentity(o, p) /\ o.rev = p.rev => o = p

(* ... and does not call an execution running that it has reported final.   *)
ASSUME PhaseAssumption ==
    \A o, p \in Observations :
        Rivals(o, p) /\ o.phase = "final" /\ p.phase = "running" => p.rev < o.rev
=============================================================================
