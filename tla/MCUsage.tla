-------------------------------- MODULE MCUsage --------------------------------
(***************************************************************************)
(* Small instances of the three parts of the usage accounting.  A          *)
(* behaviour has one scene, the part that runs; the others rest in their   *)
(* initial states, so that one run checks each part as if it were alone.   *)
(*                                                                         *)
(* The ledger hears a pool of observations about one subagent run, e1, one *)
(* live progress report of it and a call without an id, small enough for   *)
(* every order, batch and repetition.  A batch is about one execution, as  *)
(* the collector's are.                                                    *)
(***************************************************************************)
EXTENDS UsageLedger, UsagePersist, SessionRecovery, TLC

CONSTANTS e1, e2, progress, call, none, modelA, modelB, p1, p2, response, group

VARIABLE scene

Observed(kind, phase, scope, exec, callId, part, rev, seq) ==
    [kind |-> kind, phase |-> phase, scope |-> scope, exec |-> exec, call |-> callId,
     part |-> part, rev |-> rev, seq |-> seq, at |-> seq, usage |-> kind # "lifecycle"]

MCExecutions == {e1, e2, progress}
MCObservations ==
    {\* a run of two models, of which the second revision has one
     Observed("snapshot", "final", "self", e1, none, modelA, 1, 1),
     Observed("snapshot", "final", "self", e1, none, modelB, 1, 2),
     Observed("snapshot", "final", "self", e1, none, modelB, 2, 3),
     \* the same run seen from its parent, and one of its calls
     Observed("snapshot", "final", "subtree", e1, none, modelA, 1, 4),
     Observed("response", "final", "self", e1, call, modelA, 5, 5),
     \* reports of a running tool, and a call that is first running
     Observed("snapshot", "running", "self", progress, none, modelA, 1, 6),
     Observed("response", "running", "self", e2, none, modelA, 7, 7),
     Observed("response", "final", "self", e2, none, modelA, 8, 8)}

MCBatches ==
    {B \in SUBSET MCObservations :
        Cardinality(B) \in 1..(PerTick + 1) /\ \A o, p \in B : o.exec = p.exec}

(* The third entry's run was launched by the first. *)
MCOwner == <<0, 0, 1, 0>>
MCSymmetry == Permutations(Collectors)

-----------------------------------------------------------------------------
SceneInit ==
    /\ scene \in {"ledger", "persist", "recovery"}
    /\ Init /\ PersistInit /\ RecoveryInit
    /\ scene # "persist" => ~checkpoint.ok
    /\ scene # "recovery" => log = 0

LedgerStep   == scene = "ledger" /\ Next /\ UNCHANGED <<scene, persistVars, recoveryVars>>
PersistStep  == scene = "persist" /\ PersistNext /\ UNCHANGED <<scene, vars, recoveryVars>>
RecoveryStep == scene = "recovery" /\ RecoveryNext /\ UNCHANGED <<scene, vars, persistVars>>

SceneNext == LedgerStep \/ PersistStep \/ RecoveryStep
SceneSpec == SceneInit /\ [][SceneNext]_<<scene, vars, persistVars, recoveryVars>>

-----------------------------------------------------------------------------
(* The variables of the ledger (usage/ledger.ts), of the persistence and of
   the recovery have the types their code gives them. *)
UsageTypesOK == TypeOK /\ PersistTypeOK /\ RecoveryTypeOK
=============================================================================
