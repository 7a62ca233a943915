------------------------------ MODULE MCSessions ------------------------------
(***************************************************************************)
(* Small instances of what the sessions of one process do: the session     *)
(* events themselves, a subagent's files, the audit of the models that     *)
(* answered with its observer of the stream, a request to a gateway and    *)
(* the endpoint commands.  A behaviour has one scene, the part that runs;  *)
(* the others rest in their initial states.                                *)
(***************************************************************************)
EXTENDS TpsSession, SubagentIngest, ModelAudit, SseObserver, GatewayRequest, EndpointCommands

CONSTANTS model1, model2

VARIABLE scene

(* A file of the indexless form and one of the indexed form, in two directories. *)
MCFiles == {[dir |-> "a", index |-> "bare"], [dir |-> "b", index |-> "0"]}

(* The API tells where the model is declared. *)
MCRequests == {[api |-> "completions", known |-> TRUE],
               [api |-> "responses", known |-> TRUE],
               [api |-> "responses", known |-> FALSE]}

MCBase == [scheme |-> "https", host |-> "remote", cred |-> FALSE]
MCUrls == [scheme : {"https", "http"}, host : {"remote", "loopback", "private"}, cred : BOOLEAN]

(* Two gateways that publish a model of the same name. *)
MCPublished == <<{model1, model2}, {model1}>>

-----------------------------------------------------------------------------
SceneInit ==
    /\ scene \in {"tps", "ingest", "audit", "observer", "request", "endpoint"}
    /\ TpsInit /\ IngestInit /\ AuditInit /\ ObserverInit /\ RequestInit /\ EndpointInit
    /\ marker["parent"] = IF scene = "audit" THEN Garbage ELSE NoMarker
    /\ scene # "observer" => request = CHOOSE r \in Requests : TRUE
    /\ scene # "endpoint" => current.gateway = 1 /\ current.model = model1

TpsStep ==
    /\ scene = "tps" /\ TpsNext
    /\ UNCHANGED <<scene, ingestVars, auditVars, observerVars, requestVars, endpointVars>>
IngestStep ==
    /\ scene = "ingest" /\ IngestNext
    /\ UNCHANGED <<scene, tpsVars, auditVars, observerVars, requestVars, endpointVars>>
AuditStep ==
    /\ scene = "audit" /\ AuditNext
    /\ UNCHANGED <<scene, tpsVars, ingestVars, observerVars, requestVars, endpointVars>>
ObserverStep ==
    /\ scene = "observer" /\ ObserverNext
    /\ UNCHANGED <<scene, tpsVars, ingestVars, auditVars, requestVars, endpointVars>>
RequestStep ==
    /\ scene = "request" /\ RequestNext
    /\ UNCHANGED <<scene, tpsVars, ingestVars, auditVars, observerVars, endpointVars>>
EndpointStep ==
    /\ scene = "endpoint" /\ EndpointNext
    /\ UNCHANGED <<scene, tpsVars, ingestVars, auditVars, observerVars, requestVars>>

SceneNext == TpsStep \/ IngestStep \/ AuditStep \/ ObserverStep \/ RequestStep \/ EndpointStep
SceneSpec ==
    SceneInit /\ [][SceneNext]_<<scene, tpsVars, ingestVars, auditVars, observerVars,
                                requestVars, endpointVars>>

-----------------------------------------------------------------------------
(* The variables of the six components (tps.ts, tps-subagent.ts, model-audit/,
   http.ts with balance.ts, and the endpoint commands) have the types their
   code gives them. *)
SessionsTypesOK ==
    /\ TpsTypeOK /\ IngestTypeOK /\ AuditTypeOK
    /\ ObserverTypeOK /\ RequestTypeOK /\ EndpointTypeOK
=============================================================================
