-------------------------------- MODULE MCFiles --------------------------------
(***************************************************************************)
(* Small instances of the files that several processes share: the lock     *)
(* that guards one, and the three that are written without it or around    *)
(* it, the last model, the input history and the prices.  A behaviour has  *)
(* one scene, the part that runs; the others rest in their initial states. *)
(***************************************************************************)
EXTENDS FileLock, LastModel, InputHistory, PricingCache, TLC

CONSTANTS proc1, proc2, call1, call2, call3, nobody, window1, window2, text1, text2, text3,
          session1, session2, priced

VARIABLE scene

(* Two calls queue in one process while another process makes one. *)
TwoProcesses == call1 :> proc1 @@ call2 :> proc1 @@ call3 :> proc2

(* The second model can think harder than the first. *)
MCCeiling == <<1, 2>>

(* Two terminals in one directory, one of which shares all directories'. *)
MCCwd == <<"here", "here">>
MCEnv == <<"none", "global">>

(* Several sessions refresh the same catalog. *)
MCCatalogs == {{priced}}

(* Exchanging the two windows, the two calls of one process and the two sessions,
   all at once: only the part that runs has left its initial state. *)
Exchanged == window1 :> window2 @@ window2 :> window1 @@ call1 :> call2 @@ call2 :> call1
             @@ session1 :> session2 @@ session2 :> session1
MCSymmetry == {f \in Permutations(DOMAIN Exchanged) :
                  f = Exchanged \/ \A v \in DOMAIN Exchanged : f[v] = v}

-----------------------------------------------------------------------------
filesVars == <<scene, vars, lastVars, historyVars, pricingVars>>

SceneInit ==
    /\ scene \in {"lock", "last", "history", "pricing"}
    /\ Init /\ LastInit /\ HistoryInit /\ PricingInit
    /\ settings.model \in IF scene = "last" THEN {0, 1} ELSE {0}
    /\ scene # "pricing" => table = Nothing

LockStep    == scene = "lock" /\ Next /\ UNCHANGED <<scene, lastVars, historyVars, pricingVars>>
LastStep    == scene = "last" /\ LastNext /\ UNCHANGED <<scene, vars, historyVars, pricingVars>>
HistoryStep == scene = "history" /\ HistoryNext /\ UNCHANGED <<scene, vars, lastVars, pricingVars>>
PricingStep == scene = "pricing" /\ PricingNext /\ UNCHANGED <<scene, vars, lastVars, historyVars>>

SceneNext == LockStep \/ LastStep \/ HistoryStep \/ PricingStep
SceneSpec == SceneInit /\ [][SceneNext]_filesVars

-----------------------------------------------------------------------------
(* The variables of the file lock (util.ts), of the last model, of the input
   history and of the price cache have the types their code gives them. *)
FilesTypesOK == TypeOK /\ LastTypeOK /\ HistoryTypeOK /\ PricingTypeOK
=============================================================================
