--------------------------- MODULE GatewayRequest ---------------------------
(***************************************************************************)
(* A request of JSON from a gateway (http.ts), and the probe of a          *)
(* gateway's balance that makes up to three of them (balance.ts): hops,    *)
(* limits, and three signals, of the caller, of the timer and of the size  *)
(* limit, that race with what the gateway sends.                           *)
(*                                                                         *)
(* A promise is settled in one step and what awaits it goes on in a later  *)
(* one; a signal may fire between.  The gateway is external: it may answer *)
(* anything, at any time or never.                                         *)
(***************************************************************************)
EXTENDS Naturals, Sequences, FiniteSets

CONSTANTS
    Urls,           \* [scheme, host, cred]: what a location may be
    BaseUrl,        \* the gateway's URL, as configured
    BlockPrivate,   \* LLMGATES_BLOCK_PRIVATE_URLS
    MaxHops,        \* MAX_REDIRECTS
    MaxBytes        \* MAX_RESPONSE_BYTES, in chunks

ASSUME RequestAssumption ==
    /\ Urls \subseteq [scheme : {"https", "http", "other"},
                       host : {"remote", "loopback", "private", "any"}, cred : BOOLEAN]
    /\ BaseUrl \in Urls /\ BlockPrivate \in BOOLEAN /\ MaxHops \in Nat /\ MaxBytes \in Nat

VARIABLES
    probe,  \* fetchGatewayBalance()
    http,   \* the request under way
    lit,    \* the signals that have fired
    hops,   \* the URLs fetched by the request
    answers \* ghost: how the request of each route ended

requestVars == <<probe, http, lit, hops, answers>>

Routes == {"subscription", "usage", "balance"}
Broken == {"failed", "limit", "timeout", "aborted"}

NoRequest == [pc |-> "idle", url |-> BaseUrl, redirects |-> 0, bytes |-> 0,
              status |-> "ok", got |-> "pending", loc |-> {}]

RequestInit ==
    /\ probe = [at |-> "subscription", unauthorized |-> FALSE, told |-> "none"]
    /\ http = NoRequest /\ lit = {} /\ hops = <<>>
    /\ answers = [r \in Routes |-> "none"]

-----------------------------------------------------------------------------
(* The connection policy *)

(* assertUrlTransportAllowed() *)
Allowed(u) ==
    /\ ~u.cred /\ u.scheme \in {"https", "http"}
    /\ u.scheme = "http" => u.host = "loopback"
    /\ u.host # "any"
    /\ ~(BlockPrivate /\ u.host = "private")
Origin(u) == <<u.scheme, u.host>>

-----------------------------------------------------------------------------
(* The probe of the balance *)

(* A route that is not served leads to the next; anything else that fails
   surfaces.  That the key is wrong is told only if no other route answered. *)
Probed(p, outcome) ==
    LET wrong == p.unauthorized \/ outcome = "unauthorized" IN
    IF outcome \in Broken THEN [p EXCEPT !.told = outcome]
    ELSE CASE p.at = "subscription" -> [p EXCEPT !.at = IF outcome = "shape" THEN "usage" ELSE "balance",
                                                 !.unauthorized = wrong]
           [] p.at = "usage" -> [p EXCEPT !.told = IF outcome = "shape" THEN "remaining" ELSE "quota"]
           [] p.at = "balance" -> [p EXCEPT !.told = IF outcome = "shape" THEN "remaining"
                                                     ELSE IF wrong THEN "unauthorized" ELSE "unsupported"]

(* The request ends: its timer and size limit are its own, the caller's signal
   is not. *)
EndsWith(outcome) ==
    /\ http' = NoRequest /\ lit' = lit \cap {"caller"} /\ hops' = <<>>
    /\ probe' = Probed(probe, outcome)
    /\ answers' = [answers EXCEPT ![probe.at] = outcome]

(* The caller's abort wins; else an abort with the timer lit is a timeout. *)
AbortOutcome == IF "timer" \in lit /\ "caller" \notin lit THEN "timeout" ELSE "aborted"

-----------------------------------------------------------------------------
(* The request *)

Fetches(r) ==
    IF Allowed(r.url)
    THEN /\ http' = [r EXCEPT !.pc = "fetch", !.got = "pending"] /\ hops' = Append(hops, r.url)
         /\ UNCHANGED <<probe, lit, answers>>
    ELSE EndsWith("failed")

BeginRequest ==
    /\ probe.told = "none" /\ http.pc = "idle"
    /\ IF "caller" \in lit THEN EndsWith("aborted") ELSE Fetches(NoRequest)

(* withAbort(): the promise, or the signal. *)
Raced_Not(r) == r   \* mutant: the promise alone
Raced(r) == IF r.pc # "idle" /\ r.got = "pending" THEN [r EXCEPT !.got = "abort"] ELSE r
Fires(signal) ==
    /\ signal \notin lit /\ lit' = lit \cup {signal}
    /\ http' = Raced(http) /\ UNCHANGED <<probe, hops, answers>>
TimerFires == http.pc # "idle" /\ Fires("timer")
CallerAborts == probe.told = "none" /\ Fires("caller")

(* The gateway answers with a redirect, or with a status and a length that it
   may declare. *)
GatewayAnswers ==
    /\ http.pc = "fetch" /\ http.got = "pending"
    /\ \/ \E to \in {{}} \cup {{u} : u \in Urls} :
            http' = [http EXCEPT !.got = "redirect", !.loc = to]
       \/ \E status \in {"ok", "unauthorized", "status"}, over \in BOOLEAN :
            http' = [http EXCEPT !.got = IF over THEN "over" ELSE "headers", !.status = status]
       \/ http' = [http EXCEPT !.got = "error"]
    /\ UNCHANGED <<probe, lit, hops, answers>>
GatewaySends ==
    /\ http.pc = "read" /\ http.got = "pending"
    /\ \E g \in {"chunk", "done", "error"} : http' = [http EXCEPT !.got = g]
    /\ UNCHANGED <<probe, lit, hops, answers>>

(* What came is taken only while no signal has fired. *)
Aborted_InTime == http.got = "abort"   \* mutant: what came before the signal is taken
Aborted == http.got = "abort" \/ (lit # {} /\ http.got # "error")

(* Where a redirect leads: its location, if there is one that may be followed. *)
Redirected(r) ==
    {u \in r.loc : r.redirects < MaxHops /\ Origin(u) = Origin(r.url) /\ Allowed(u)}
FetchReturns ==
    /\ http.pc = "fetch" /\ http.got # "pending"
    /\ IF Aborted THEN EndsWith(AbortOutcome)
       ELSE CASE http.got = "error" -> EndsWith("failed")
              [] http.got = "over" -> EndsWith("limit")
              [] http.got = "headers" ->
                   /\ http' = [http EXCEPT !.pc = "read", !.got = "pending"]
                   /\ UNCHANGED <<probe, lit, hops, answers>>
              [] http.got = "redirect" ->
                   \/ \E u \in Redirected(http) :
                        Fetches([http EXCEPT !.url = u, !.redirects = @ + 1, !.loc = {}])
                   \/ Redirected(http) = {} /\ EndsWith("failed")

(* The body, chunk by chunk; past the limit the request is aborted. *)
ReadReturns ==
    /\ http.pc = "read" /\ http.got # "pending"
    /\ IF Aborted THEN EndsWith(AbortOutcome)
       ELSE CASE http.got = "error" -> EndsWith("failed")
              [] http.got = "chunk" ->
                   IF http.bytes = MaxBytes THEN EndsWith("limit")
                   ELSE /\ http' = [http EXCEPT !.bytes = @ + 1, !.got = "pending"]
                        /\ UNCHANGED <<probe, lit, hops, answers>>
              [] http.got = "done" ->
                   IF http.status # "ok" THEN EndsWith(http.status)
                   ELSE \E content \in IF http.bytes = 0 THEN {"other"} ELSE {"shape", "other", "html"} :
                          EndsWith(content)

RequestGoesOn == BeginRequest \/ FetchReturns \/ ReadReturns
RequestNext == RequestGoesOn \/ TimerFires \/ CallerAborts \/ GatewayAnswers \/ GatewaySends
RequestSpec == RequestInit /\ [][RequestNext]_requestVars

(* The runtime settles what has come and fires the timer; of the gateway
   nothing is assumed. *)
RequestFairness == WF_requestVars(RequestGoesOn) /\ WF_requestVars(TimerFires)

-----------------------------------------------------------------------------
(* Properties *)

RequestTypeOK ==
    /\ probe.at \in Routes /\ http.bytes \in 0..MaxBytes
    /\ lit \subseteq {"timer", "caller"} /\ http.redirects \in 0..MaxHops
    /\ (http.pc = "idle") = (hops = <<>>)

(* The request, with its headers, goes to the origin it was made for, over an
   allowed transport, and a chain of redirects is bounded. *)
HopsAreBounded ==
    /\ Len(hops) <= MaxHops + 1
    /\ \A k \in DOMAIN hops : Allowed(hops[k]) /\ Origin(hops[k]) = Origin(BaseUrl)

(* Once a signal has fired nothing more is fetched, and what came is not
   believed: the next thing is the end, told as what it was. *)
AbortIsObeyed ==
    [][http.pc # "idle" /\ lit # {} /\ http' # http /\ ~(UNCHANGED probe /\ hops' = hops) =>
         /\ hops' = <<>>
         /\ answers'[probe.at] = "timeout" => "timer" \in lit /\ "caller" \notin lit
         /\ answers'[probe.at] \in {"failed", "timeout", "aborted"}]_requestVars

(* What the user is told is what the gateway's routes said together: that the
   key is wrong only if one said so and none gave a balance; that there is no
   balance only if all were asked and none failed; and a failure always. *)
ProbeIsHonest ==
    LET said(S) == \E r \in Routes : answers[r] \in S IN
    probe.told # "none" =>
        /\ said(Broken) <=> probe.told \in Broken
        /\ probe.told = "unauthorized" => said({"unauthorized"}) /\ ~said({"shape"})
        /\ probe.told = "unsupported" => ~said({"shape", "unauthorized"})
                                         /\ answers["subscription"] # "none" /\ answers["balance"] # "none"
        /\ probe.told \notin Broken /\ said({"shape"}) => probe.told \in {"remaining", "quota"}

(* A probe ends though the gateway goes silent at any point. *)
ProbeEnds == <>(probe.told # "none")

(* Redirects are bounded, a signal is obeyed, and the answer is the routes':
   HopsAreBounded, ProbeIsHonest and AbortIsObeyed. *)
RequestIsSound == [](HopsAreBounded /\ ProbeIsHonest) /\ AbortIsObeyed
==============================================================================
