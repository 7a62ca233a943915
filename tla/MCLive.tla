-------------------------------- MODULE MCLive --------------------------------
(***************************************************************************)
(* Small instances for what must come to an end: a call of the file lock,  *)
(* the recovery of a session's usage, an endpoint command and a probe of a *)
(* gateway, each under the fairness its scheduling justifies.  A behaviour *)
(* has one scene, the part that runs; the others rest in their initial     *)
(* states.                                                                 *)
(***************************************************************************)
EXTENDS FileLock, SessionRecovery, EndpointCommands, GatewayRequest, TLC

CONSTANTS p1, c1, c2, none, model1, model2

VARIABLE scene

(* Two calls queue in one process. *)
OneProcess == c1 :> p1 @@ c2 :> p1

(* The second entry's run was launched by the first. *)
MCOwner == <<0, 1>>

MCPublished == <<{model1, model2}, {model1}>>

MCBase == [scheme |-> "https", host |-> "remote", cred |-> FALSE]
MCUrls == [scheme : {"https", "http"}, host : {"remote"}, cred : {FALSE}]

-----------------------------------------------------------------------------
sceneVars == <<scene, vars, recoveryVars, endpointVars, requestVars>>

SceneInit ==
    /\ scene \in {"lock", "recovery", "endpoint", "request"}
    /\ Init /\ RecoveryInit /\ EndpointInit /\ RequestInit
    /\ scene # "recovery" => log = 0
    /\ scene # "endpoint" => current.gateway = 1 /\ current.model = model1

LockStep     == scene = "lock" /\ Next /\ UNCHANGED <<scene, recoveryVars, endpointVars, requestVars>>
RecoveryStep == scene = "recovery" /\ RecoveryNext /\ UNCHANGED <<scene, vars, endpointVars, requestVars>>
EndpointStep == scene = "endpoint" /\ EndpointNext /\ UNCHANGED <<scene, vars, recoveryVars, requestVars>>
RequestStep  == scene = "request" /\ RequestNext /\ UNCHANGED <<scene, vars, recoveryVars, endpointVars>>

SceneNext == LockStep \/ RecoveryStep \/ EndpointStep \/ RequestStep
(* The fairness of the four modules, each for its scene. *)
SceneFairness ==
    /\ \A c \in Calls : WF_vars(scene = "lock" /\ Step(c))
    /\ WF_recoveryVars(scene = "recovery" /\ Initialize)
    /\ WF_recoveryVars(scene = "recovery" /\ Drain)
    /\ WF_recoveryVars(scene = "recovery" /\ DrainStep)
    /\ SF_recoveryVars(scene = "recovery" /\ IdleProbe)
    /\ SF_recoveryVars(scene = "recovery" /\ IntervalPasses)
    /\ WF_recoveryVars(scene = "recovery" /\ StopDrains)
    /\ WF_recoveryVars(scene = "recovery" /\ StopEnds)
    /\ \A c \in Commands : WF_endpointVars(scene = "endpoint" /\ CommandGoesOn(c))
    /\ WF_requestVars(scene = "request" /\ RequestGoesOn)
    /\ WF_requestVars(scene = "request" /\ TimerFires)

SceneSpec == SceneInit /\ [][SceneNext]_sceneVars /\ SceneFairness

-----------------------------------------------------------------------------
(* A probe of the gateway ends though it goes silent at any point (http.ts). *)
ProbeReturns == scene = "request" => ProbeEnds
=============================================================================
