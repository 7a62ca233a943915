----------------------------- MODULE GatewayProofs -----------------------------
(***************************************************************************)
(* Proofs about GatewayRequest and EndpointCommands, for every gateway,    *)
(* every set of locations and models, every number of commands and limit. *)
(***************************************************************************)
EXTENDS GatewayRequest, EndpointCommands, SequenceTheorems, FiniteSetTheorems,
        WellFoundedInduction, TLAPS

Got == {"pending", "abort", "redirect", "headers", "over", "error", "chunk", "done"}
Outcomes == Broken \cup {"unauthorized", "status", "shape", "other", "html"}
Told == Broken \cup {"none", "remaining", "quota", "unauthorized", "unsupported"}

HttpRecords ==
    [pc : {"idle", "fetch", "read"}, url : Urls, redirects : 0 .. MaxHops, bytes : 0 .. MaxBytes,
     status : {"ok", "unauthorized", "status"}, got : Got, loc : SUBSET Urls]

(* A request at rest has fetched nothing; one under way has fetched one URL  *)
(* more than it followed redirects, all of them allowed and of one origin.   *)
HttpInv ==
    /\ http \in HttpRecords /\ lit \subseteq {"timer", "caller"} /\ hops \in Seq(Urls)
    /\ Len(hops) = IF http.pc = "idle" THEN 0 ELSE http.redirects + 1
    /\ http.pc = "idle" => http = NoRequest
    /\ http.pc = "fetch" => http.got \in {"pending", "abort", "redirect", "headers", "over", "error"}
    /\ http.pc = "read" => http.got \in {"pending", "abort", "chunk", "done", "error"}
    /\ Origin(http.url) = Origin(BaseUrl)
    /\ \A k \in DOMAIN hops : Allowed(hops[k]) /\ Origin(hops[k]) = Origin(BaseUrl)

(* While the probe goes on, the routes before the one it is at have answered,  *)
(* none of them with a failure or a balance, and it remembers a wrong key.     *)
ProbeGoesOn ==
    /\ answers["balance"] = "none" /\ answers["usage"] = "none"
    /\ probe.at = "subscription" => answers["subscription"] = "none"
    /\ probe.at = "usage" => answers["subscription"] = "shape"
    /\ probe.at = "balance" => answers["subscription"] \notin Broken \cup {"none", "shape"}
    /\ probe.unauthorized = (answers["subscription"] = "unauthorized")

ProbeInv ==
    /\ probe \in [at : Routes, unauthorized : BOOLEAN, told : Told]
    /\ answers \in [Routes -> Outcomes \cup {"none"}]
    /\ IF probe.told = "none" THEN ProbeGoesOn ELSE http.pc = "idle" /\ ProbeIsHonest

RequestInv == HttpInv /\ ProbeInv

-----------------------------------------------------------------------------
(* Where the request may end *)

LEMMA BaseIsUrl == NoRequest \in HttpRecords /\ Origin(NoRequest.url) = Origin(BaseUrl)
BY RequestAssumption DEF NoRequest, HttpRecords, Got

(* However a request ends, no request is under way and nothing was fetched for *)
(* the next.                                                                    *)
LEMMA EndKeepsHttp ==
    ASSUME HttpInv, NEW outcome \in Outcomes, EndsWith(outcome)
    PROVE  HttpInv'
<1>1. hops' = <<>> /\ hops' \in Seq(Urls) /\ Len(hops') = 0 /\ DOMAIN hops' = {}
  BY DEF EndsWith
<1>2. http' = NoRequest /\ http'.pc = "idle" /\ lit' \subseteq {"timer", "caller"}
  BY DEF EndsWith, HttpInv, NoRequest
<1>3. QED
  BY <1>1, <1>2, BaseIsUrl DEF HttpInv

(* A route's outcome is taken by the probe, which goes on to a route it has not *)
(* asked, or tells what it has found.                                            *)
LEMMA EndKeepsProbe ==
    ASSUME ProbeInv, probe.told = "none", NEW outcome \in Outcomes, EndsWith(outcome)
    PROVE  ProbeInv'
<1> USE DEF Outcomes, Broken, Told, Routes
<1>1. /\ http'.pc = "idle" /\ probe' = Probed(probe, outcome)
      /\ answers' = [answers EXCEPT ![probe.at] = outcome]
  BY DEF EndsWith, NoRequest
<1>2. ProbeGoesOn /\ probe \in [at : Routes, unauthorized : BOOLEAN, told : Told]
      /\ answers \in [Routes -> Outcomes \cup {"none"}]
  BY DEF ProbeInv
<1>3. answers' \in [Routes -> Outcomes \cup {"none"}]
  BY <1>1, <1>2
<1>4. CASE outcome \in Broken
  <2>1. probe' = [probe EXCEPT !.told = outcome]
    BY <1>1, <1>4 DEF Probed
  <2>2. probe'.told \in Broken /\ answers'[probe.at] \in Broken
    BY <2>1, <1>1, <1>2, <1>4
  <2>3. ProbeIsHonest'
    BY <2>2, <1>2 DEF ProbeIsHonest
  <2>4. QED
    BY <1>1, <1>2, <1>3, <2>1, <2>2, <2>3 DEF ProbeInv
<1>5. CASE outcome \notin Broken /\ probe.at = "subscription"
  <2>1. probe' = [probe EXCEPT !.at = IF outcome = "shape" THEN "usage" ELSE "balance",
                               !.unauthorized = (outcome = "unauthorized")]
    BY <1>1, <1>2, <1>5 DEF Probed, ProbeGoesOn
  <2>2. QED
    BY <1>1, <1>2, <1>3, <1>5, <2>1 DEF ProbeInv, ProbeGoesOn
<1>6. CASE outcome \notin Broken /\ probe.at = "usage"
  <2>1. probe' = [probe EXCEPT !.told = IF outcome = "shape" THEN "remaining" ELSE "quota"]
    BY <1>1, <1>6 DEF Probed
  <2>2. QED
    BY <1>1, <1>2, <1>3, <1>6, <2>1 DEF ProbeInv, ProbeGoesOn, ProbeIsHonest
<1>7. CASE outcome \notin Broken /\ probe.at = "balance"
  <2>1. probe' = [probe EXCEPT !.told =
                      IF outcome = "shape" THEN "remaining"
                      ELSE IF probe.unauthorized \/ outcome = "unauthorized" THEN "unauthorized"
                      ELSE "unsupported"]
    BY <1>1, <1>7 DEF Probed
  <2>2. QED
    BY <1>1, <1>2, <1>3, <1>7, <2>1 DEF ProbeInv, ProbeGoesOn, ProbeIsHonest
<1>8. QED
  BY <1>2, <1>4, <1>5, <1>6, <1>7

-----------------------------------------------------------------------------
(* The request goes on *)

(* A URL is fetched only when the policy allows it; the chain grows by it. *)
LEMMA FetchKeeps ==
    ASSUME RequestInv, probe.told = "none", NEW r \in HttpRecords, Fetches(r),
           r.redirects = Len(hops), Origin(r.url) = Origin(BaseUrl)
    PROVE  RequestInv'
<1>1. CASE Allowed(r.url)
  <2>1. http' = [r EXCEPT !.pc = "fetch", !.got = "pending"] /\ hops' = Append(hops, r.url)
        /\ UNCHANGED <<probe, lit, answers>>
    BY <1>1 DEF Fetches
  <2>2. hops \in Seq(Urls) /\ r.url \in Urls
    BY DEF RequestInv, HttpInv, HttpRecords
  <2>3. /\ hops' \in Seq(Urls) /\ Len(hops') = Len(hops) + 1
        /\ \A k \in DOMAIN hops' : hops'[k] = r.url \/ (k \in DOMAIN hops /\ hops'[k] = hops[k])
    BY <2>1, <2>2, Len(hops) \in Nat, DOMAIN hops = 1 .. Len(hops),
       hops' \in Seq(Urls), DOMAIN hops' = 1 .. Len(hops')
  <2>4. http' \in HttpRecords /\ http'.pc = "fetch" /\ http'.url = r.url
        /\ http'.redirects = r.redirects
    BY <2>1 DEF HttpRecords, Got
  <2>5. HttpInv'
    BY <1>1, <2>1, <2>3, <2>4 DEF RequestInv, HttpInv
  <2>6. ProbeInv'
    BY <2>1 DEF RequestInv, ProbeInv, ProbeGoesOn
  <2>7. QED
    BY <2>5, <2>6 DEF RequestInv
<1>2. CASE ~Allowed(r.url)
  BY <1>2, EndKeepsHttp, EndKeepsProbe DEF RequestInv, Fetches, Outcomes, Broken
<1>3. QED
  BY <1>1, <1>2

(* What arrives, or a signal, changes only what the request was told and how far *)
(* it has read.                                                                   *)
LEMMA ArrivalKeeps ==
    ASSUME RequestInv, http' \in HttpRecords, http.pc # "idle", http'.pc \in {"fetch", "read"},
           http'.pc = "fetch" => http'.got \in {"pending", "abort", "redirect", "headers", "over", "error"},
           http'.pc = "read" => http'.got \in {"pending", "abort", "chunk", "done", "error"},
           http'.url = http.url, http'.redirects = http.redirects, lit' \subseteq {"timer", "caller"},
           UNCHANGED <<probe, hops, answers>>
    PROVE  RequestInv'
<1>1. HttpInv'
  BY DEF RequestInv, HttpInv
<1>2. ProbeInv'
  BY DEF RequestInv, ProbeInv, ProbeGoesOn
<1>3. QED
  BY <1>1, <1>2 DEF RequestInv

LEMMA RequestInvInit == RequestInit => RequestInv
<1> SUFFICES ASSUME RequestInit PROVE RequestInv
  OBVIOUS
<1>1. HttpInv
  <2>1. hops = <<>> /\ http = NoRequest /\ http.pc = "idle" /\ lit = {}
    BY DEF RequestInit, NoRequest
  <2>2. hops \in Seq(Urls) /\ Len(hops) = 0 /\ DOMAIN hops = {}
    BY <2>1
  <2>3. QED
    BY <2>1, <2>2, BaseIsUrl DEF HttpInv
<1>2. ProbeInv
  BY DEF RequestInit, ProbeInv, ProbeGoesOn, Routes, Told, Outcomes, Broken
<1>3. QED
  BY <1>1, <1>2 DEF RequestInv

LEMMA RequestInvStep == RequestInv /\ [RequestNext]_requestVars => RequestInv'
<1> SUFFICES ASSUME RequestInv, [RequestNext]_requestVars PROVE RequestInv'
  OBVIOUS
<1>0. /\ http \in HttpRecords /\ lit \subseteq {"timer", "caller"}
      /\ http.pc # "idle" => probe.told = "none"
  BY DEF RequestInv, HttpInv, ProbeInv
<1>1. ASSUME NEW outcome \in Outcomes, EndsWith(outcome), probe.told = "none" PROVE RequestInv'
  BY <1>1, EndKeepsHttp, EndKeepsProbe DEF RequestInv
<1>2. AbortOutcome \in Outcomes /\ {"failed", "aborted", "limit"} \subseteq Outcomes
  BY DEF AbortOutcome, Outcomes, Broken
<1>3. CASE BeginRequest
  <2>1. NoRequest.redirects = Len(hops)
    BY <1>3 DEF BeginRequest, RequestInv, HttpInv, NoRequest
  <2>2. QED
    BY <1>1, <1>2, <1>3, <2>1, FetchKeeps, BaseIsUrl DEF BeginRequest
<1>4. ASSUME NEW s \in {"timer", "caller"}, Fires(s) PROVE RequestInv'
  <2>1. CASE http.pc = "idle"
    <3>1. http' = http
      BY <1>4, <2>1 DEF Fires, Raced
    <3>2. HttpInv'
      BY <1>4, <2>1, <3>1 DEF Fires, RequestInv, HttpInv
    <3>3. ProbeInv'
      BY <1>4, <3>1 DEF Fires, RequestInv, ProbeInv, ProbeGoesOn, ProbeIsHonest
    <3>4. QED
      BY <3>2, <3>3 DEF RequestInv
  <2>2. CASE http.pc # "idle"
    <3>1. http' \in HttpRecords /\ http'.pc = http.pc /\ http'.url = http.url
          /\ http'.redirects = http.redirects
      BY <1>0, <1>4 DEF Fires, Raced, HttpRecords, Got
    <3>2. http'.got \in {http.got, "abort"} /\ lit' \subseteq {"timer", "caller"}
      BY <1>0, <1>4 DEF Fires, Raced, HttpRecords
    <3>3. http.pc \in {"fetch", "read"}
      BY <1>0, <2>2 DEF HttpRecords
    <3>4. UNCHANGED <<probe, hops, answers>>
      BY <1>4 DEF Fires
    <3>5. QED
      BY <2>2, <3>1, <3>2, <3>3, <3>4, ArrivalKeeps DEF RequestInv, HttpInv
  <2>3. QED
    BY <2>1, <2>2
<1>5. CASE GatewayAnswers \/ GatewaySends
  <2>1. CASE GatewayAnswers
    <3>1. \A to \in {{}} \cup {{u} : u \in Urls} :
             http' = [http EXCEPT !.got = "redirect", !.loc = to] => http' \in HttpRecords
      <4> SUFFICES ASSUME NEW to \in SUBSET Urls,
                          http' = [http EXCEPT !.got = "redirect", !.loc = to]
                   PROVE  http' \in HttpRecords
        <5>1. \A to \in {{}} \cup {{u} : u \in Urls} : to \in SUBSET Urls
          OBVIOUS
        <5>2. QED
          BY <5>1
      <4>1. QED
        BY <1>0 DEF HttpRecords, Got
    <3>2. http' \in HttpRecords
      <4>1. \A status \in {"ok", "unauthorized", "status"}, over \in BOOLEAN :
               http' = [http EXCEPT !.got = IF over THEN "over" ELSE "headers", !.status = status]
                 => http' \in HttpRecords
        BY <1>0 DEF HttpRecords, Got
      <4>2. http' = [http EXCEPT !.got = "error"] => http' \in HttpRecords
        BY <1>0 DEF HttpRecords, Got
      <4>3. QED
        BY <2>1, <3>1, <4>1, <4>2 DEF GatewayAnswers
    <3>3. /\ http.pc = "fetch" /\ http'.pc = "fetch" /\ http'.url = http.url
          /\ http'.redirects = http.redirects
          /\ http'.got \in {"redirect", "headers", "over", "error"}
          /\ UNCHANGED <<probe, lit, hops, answers>>
      BY <1>0, <2>1 DEF GatewayAnswers, HttpRecords
    <3>4. QED
      BY <1>0, <3>2, <3>3, ArrivalKeeps
  <2>2. CASE GatewaySends
    <3>1. http' \in HttpRecords
      BY <1>0, <2>2 DEF GatewaySends, HttpRecords, Got
    <3>2. /\ http.pc = "read" /\ http'.pc = "read" /\ http'.url = http.url
          /\ http'.redirects = http.redirects /\ http'.got \in {"chunk", "done", "error"}
          /\ UNCHANGED <<probe, lit, hops, answers>>
      BY <1>0, <2>2 DEF GatewaySends, HttpRecords
    <3>3. QED
      BY <1>0, <3>1, <3>2, ArrivalKeeps
  <2>3. QED
    BY <1>5, <2>1, <2>2
<1>6. CASE FetchReturns
  <2>1. CASE Aborted \/ http.got \in {"error", "over"}
    BY <1>0, <1>1, <1>2, <1>6, <2>1 DEF FetchReturns
  <2>2. CASE ~Aborted /\ http.got = "headers"
    <3>1. http' = [http EXCEPT !.pc = "read", !.got = "pending"]
          /\ UNCHANGED <<probe, lit, hops, answers>> /\ http.pc = "fetch"
      BY <1>6, <2>2 DEF FetchReturns
    <3>2. QED
      BY <1>0, <3>1, ArrivalKeeps DEF HttpRecords, Got
  <2>3. CASE ~Aborted /\ http.got = "redirect"
    <3>1. CASE Redirected(http) = {}
      BY <1>0, <1>1, <1>2, <1>6, <2>3, <3>1 DEF FetchReturns
    <3>2. ASSUME NEW u \in Redirected(http),
                 Fetches([http EXCEPT !.url = u, !.redirects = @ + 1, !.loc = {}])
          PROVE  RequestInv'
      <4> DEFINE r == [http EXCEPT !.url = u, !.redirects = @ + 1, !.loc = {}]
      <4>1. /\ u \in Urls /\ http.redirects < MaxHops /\ Origin(u) = Origin(http.url)
        BY <1>0, <3>2 DEF Redirected, HttpRecords
      <4>2. http.redirects \in Nat /\ MaxHops \in Nat /\ http.redirects + 1 \in 0 .. MaxHops
        BY <1>0, <4>1, RequestAssumption DEF HttpRecords
      <4>3. r \in HttpRecords /\ r.url = u /\ r.redirects = http.redirects + 1
        BY <1>0, <4>1, <4>2 DEF HttpRecords
      <4>4. r.redirects = Len(hops) /\ Origin(r.url) = Origin(BaseUrl)
        BY <1>6, <4>1, <4>3 DEF RequestInv, HttpInv, FetchReturns
      <4>5. probe.told = "none"
        BY <1>0, <1>6 DEF FetchReturns
      <4> HIDE DEF r
      <4>6. QED
        BY <3>2, <4>3, <4>4, <4>5, FetchKeeps DEF r
    <3>3. QED
      BY <1>6, <2>3, <3>1, <3>2 DEF FetchReturns
  <2>4. http.got \in {"error", "over", "headers", "redirect"} \/ Aborted
    BY <1>6 DEF FetchReturns, RequestInv, HttpInv, Aborted
  <2>5. QED
    BY <2>1, <2>2, <2>3, <2>4
<1>7. CASE ReadReturns
  <2>1. CASE Aborted \/ http.got = "error"
    BY <1>0, <1>1, <1>2, <1>7, <2>1 DEF ReadReturns
  <2>2. CASE ~Aborted /\ http.got = "chunk"
    <3>1. CASE http.bytes = MaxBytes
      BY <1>0, <1>1, <1>2, <1>7, <2>2, <3>1 DEF ReadReturns
    <3>2. CASE http.bytes # MaxBytes
      <4>1. http' = [http EXCEPT !.bytes = @ + 1, !.got = "pending"]
            /\ UNCHANGED <<probe, lit, hops, answers>> /\ http.pc = "read"
        BY <1>7, <2>2, <3>2 DEF ReadReturns
      <4>2. http.bytes + 1 \in 0 .. MaxBytes
        BY <1>0, <3>2, RequestAssumption DEF HttpRecords
      <4>3. QED
        BY <1>0, <4>1, <4>2, ArrivalKeeps DEF HttpRecords, Got
    <3>3. QED
      BY <3>1, <3>2
  <2>3. CASE ~Aborted /\ http.got = "done"
    <3>1. CASE http.status # "ok"
      <4>1. http.status \in Outcomes
        BY <1>0, <3>1 DEF HttpRecords, Outcomes
      <4>2. QED
        BY <1>0, <1>1, <1>7, <2>3, <3>1, <4>1 DEF ReadReturns
    <3>2. CASE http.status = "ok"
      <4>1. PICK content \in {"shape", "other", "html"} : EndsWith(content)
        BY <1>7, <2>3, <3>2 DEF ReadReturns
      <4>2. QED
        BY <1>0, <1>1, <1>7, <4>1 DEF Outcomes, ReadReturns
    <3>3. QED
      BY <3>1, <3>2
  <2>4. http.got \in {"error", "chunk", "done"} \/ Aborted
    BY <1>7 DEF ReadReturns, RequestInv, HttpInv, Aborted
  <2>5. QED
    BY <2>1, <2>2, <2>3, <2>4
<1>8. CASE UNCHANGED requestVars
  BY <1>8 DEF requestVars, RequestInv, HttpInv, ProbeInv, ProbeGoesOn, ProbeIsHonest
<1>9. QED
  BY <1>3, <1>4, <1>5, <1>6, <1>7, <1>8 DEF RequestNext, RequestGoesOn, TimerFires, CallerAborts

-----------------------------------------------------------------------------
(* The chain of redirects stays bounded, of one origin and allowed, and the    *)
(* probe tells what the routes said together (http.ts:60-140, balance.ts).     *)
THEOREM RequestInvariant == RequestSpec => []RequestInv
<1>1. QED
  BY RequestInvInit, RequestInvStep, PTL DEF RequestSpec

LEMMA RequestInvImplies == RequestInv => HopsAreBounded /\ ProbeIsHonest /\ RequestTypeOK
<1> SUFFICES ASSUME RequestInv PROVE HopsAreBounded /\ ProbeIsHonest /\ RequestTypeOK
  OBVIOUS
<1>1. http \in HttpRecords /\ hops \in Seq(Urls) /\ MaxHops \in Nat
  BY RequestAssumption DEF RequestInv, HttpInv
<1>2. HopsAreBounded
  BY <1>1 DEF RequestInv, HttpInv, HopsAreBounded, HttpRecords
<1>3. ProbeIsHonest
  BY DEF RequestInv, ProbeInv, ProbeIsHonest
<1>4. RequestTypeOK
  <2>1. http.redirects + 1 # 0
    BY <1>1 DEF HttpRecords
  <2>2. (http.pc = "idle") = (hops = <<>>)
    BY <1>1, <2>1, EmptySeq DEF RequestInv, HttpInv
  <2>3. QED
    BY <1>1, <2>2 DEF RequestInv, HttpInv, ProbeInv, RequestTypeOK, HttpRecords
<1>5. QED
  BY <1>2, <1>3, <1>4

(* Once a signal has fired the next thing is the end of the request, told as    *)
(* what it was: a timeout only when the caller did not abort.                    *)
LEMMA AbortStep ==
    ASSUME RequestInv, [RequestNext]_requestVars, http.pc # "idle", lit # {},
           http' # http, ~(UNCHANGED probe /\ hops' = hops)
    PROVE  /\ hops' = <<>>
           /\ answers'[probe.at] = "timeout" => "timer" \in lit /\ "caller" \notin lit
           /\ answers'[probe.at] \in {"failed", "timeout", "aborted"}
<1>1. answers \in [Routes -> Outcomes \cup {"none"}] /\ probe.at \in Routes
  BY DEF RequestInv, ProbeInv
<1>2. CASE EndsWith(AbortOutcome)
  BY <1>1, <1>2 DEF EndsWith, AbortOutcome
<1>3. CASE EndsWith("failed")
  BY <1>1, <1>3 DEF EndsWith
<1>4. CASE FetchReturns
  BY <1>2, <1>3, <1>4 DEF FetchReturns, Aborted
<1>5. CASE ReadReturns
  BY <1>2, <1>3, <1>5 DEF ReadReturns, Aborted
<1>6. QED
  BY <1>4, <1>5 DEF RequestNext, RequestGoesOn, BeginRequest, TimerFires, CallerAborts, Fires,
                    GatewayAnswers, GatewaySends, requestVars

(* A request to a gateway is sound: the credential follows no redirect to       *)
(* another origin or transport, an abort is obeyed, and what the probe tells is *)
(* what the routes answered.                                                    *)
THEOREM RequestSound == RequestSpec => RequestIsSound
<1>1. RequestSpec => [](HopsAreBounded /\ ProbeIsHonest)
  BY RequestInvariant, RequestInvImplies, PTL
<1>2. RequestInv /\ [RequestNext]_requestVars =>
        [http.pc # "idle" /\ lit # {} /\ http' # http /\ ~(UNCHANGED probe /\ hops' = hops) =>
           /\ hops' = <<>>
           /\ answers'[probe.at] = "timeout" => "timer" \in lit /\ "caller" \notin lit
           /\ answers'[probe.at] \in {"failed", "timeout", "aborted"}]_requestVars
  BY AbortStep
<1>3. RequestSpec => AbortIsObeyed
  BY <1>2, RequestInvariant, PTL DEF RequestSpec, AbortIsObeyed
<1>4. QED
  BY <1>1, <1>3 DEF RequestIsSound

-----------------------------------------------------------------------------
(* The endpoint commands *)

GroupPcs == {"write", "refresh", "verify"}
Verdicts == {"none", "ok", "partial", "failed", "cancelled", "refused"}
ModelIds == UNION {Published[g] : g \in Gateways}

CmdRecords ==
    [kind : {"none", "endpoint", "setting", "reload"},
     pc : {"new", "pick", "select", "idle", "merge", "refreshing", "rebind", "done"} \cup GroupPcs,
     choice : EndpointChoices, targets : [Gateways -> SUBSET ModelIds],
     bound : [gateway : Gateways \cup {0}, model : ModelIds \cup {0}],
     left : SUBSET Gateways, at : Gateways \cup {0},
     outcome : [Gateways -> {"none", "ok", "partial", "failed"}],
     verdict : Verdicts, wrote : BOOLEAN, seen : Nat]

(* The files, the registry and the current model. *)
TablesInv ==
    /\ EndpointTypeOK
    /\ DOMAIN overrides = Gateways /\ DOMAIN registry = Gateways
    /\ \A g \in Gateways : DOMAIN overrides[g] = Published[g] /\ DOMAIN registry[g] = Published[g]
    /\ current.gateway \in Gateways /\ current.model \in Published[current.gateway]

(* The guard is held by the one command that runs. *)
GuardInv == IF inFlight THEN \E c \in Commands : Running = {c} ELSE Running = {}

(* Before the groups nothing was written; then the groups are handled one after *)
(* another, each once, and a write shows in an outcome that is not a failure.   *)
CommandInv(r) ==
    /\ r \in CmdRecords /\ \A g \in Gateways : r.targets[g] \subseteq Published[g]
    /\ r.pc = "new" => r = NewCommand
    /\ r.pc # "done" => r.verdict = "none"
    /\ r.pc \notin {"new", "done"} => r.kind # "none"
    /\ r.pc \in {"pick", "select", "idle"} =>
         ~r.wrote /\ \A g \in Gateways : r.outcome[g] = "none"
    /\ r.pc \in {"pick", "select"} => r.kind = "setting"
    /\ r.pc = "pick" \/ (r.pc = "idle" /\ r.kind = "endpoint") =>
         r.targets = [g \in Gateways |-> {}]
    /\ r.pc \in {"refreshing", "rebind"} => ~r.wrote
    /\ r.pc \in GroupPcs =>
         /\ r.at \in Gateways \ r.left /\ r.outcome[r.at] = "none"
         /\ r.kind = "endpoint" => r.left = {} /\ (r.pc = "write" => ~r.wrote)
    /\ r.pc \in GroupPcs \cup {"merge"} =>
         /\ \A g \in r.left : r.outcome[g] = "none"
         /\ \A g \in Gateways : r.targets[g] # {} =>
              g \in r.left \/ (r.pc # "merge" /\ g = r.at) \/ r.outcome[g] # "none"
    /\ r.pc = "merge" => r.left = {}
    /\ r.pc \in {"write", "merge"} /\ r.wrote =>
         \E g \in Gateways : r.outcome[g] \in {"ok", "partial"}

(* As long as nothing went wrong or came in between since the command began,    *)
(* what it has done is still so.                                                *)
UndisturbedInv(r) ==
    /\ r.seen <= upsets
    /\ r.pc \in GroupPcs \cup {"merge"} /\ r.seen = upsets =>
         /\ current.gateway = r.bound.gateway /\ current.model = r.bound.model
         /\ r.pc \in {"refresh", "verify"} =>
              \A m \in r.targets[r.at] : overrides[r.at][m] = Entry(r.choice)
         /\ \A g \in Gateways : r.outcome[g] = "ok" => \A m \in r.targets[g] :
              /\ overrides[g][m] = Entry(r.choice) /\ registry[g][m] = Derived(overrides[g][m])
              /\ current.gateway = g /\ current.model = m => current.api = registry[g][m]

CommandsInv ==
    /\ DOMAIN cmd = Commands
    /\ \A c \in Commands : CommandInv(cmd[c]) /\ UndisturbedInv(cmd[c])

EndpointInv == TablesInv /\ GuardInv /\ CommandsInv

-----------------------------------------------------------------------------
(* Lemmas about the groups *)

(* The first of some gateways is one of them. *)
LEMMA FirstIsIn ==
    ASSUME NEW s \in SUBSET Gateways, s # {}
    PROVE  First(s) \in s
<1>1. s \subseteq Nat
  BY EndpointAssumption
<1>2. PICK g \in s : \A h \in s : <<h, g>> \notin OpToRel(<, Nat)
  BY <1>1, NatLessThanWellFounded, WFMin
<1>3. \A h \in s : ~(h < g)
  BY <1>1, <1>2, Zenon DEF OpToRel
<1>4. \A h \in s : g <= h
  BY <1>1, <1>3
<1>5. QED
  BY <1>4 DEF First

(* The next group is one of those that are left; without one, the outcomes are *)
(* merged.                                                                      *)
LEMMA NextGroupGoesOn ==
    ASSUME NEW r \in CmdRecords
    PROVE  /\ NextGroup(r) \in CmdRecords
           /\ \A n : n = NextGroup(r) =>
                /\ n.kind = r.kind /\ n.choice = r.choice /\ n.targets = r.targets
                /\ n.bound = r.bound /\ n.outcome = r.outcome /\ n.verdict = r.verdict
                /\ n.wrote = r.wrote /\ n.seen = r.seen
                /\ IF r.left = {} THEN n.pc = "merge" /\ n.left = {}
                   ELSE n.pc = "write" /\ n.at \in r.left /\ n.left = r.left \ {n.at}
<1>1. r.left \in SUBSET Gateways
  BY DEF CmdRecords
<1>2. CASE r.left = {}
  <2>1. NextGroup(r) = [r EXCEPT !.pc = "merge"]
    BY <1>2 DEF NextGroup
  <2>2. QED
    BY <1>2, <2>1 DEF CmdRecords, GroupPcs
<1>3. CASE r.left # {}
  <2>1. First(r.left) \in r.left
    BY <1>1, <1>3, FirstIsIn
  <2>2. NextGroup(r) = [r EXCEPT !.pc = "write", !.at = First(r.left),
                                 !.left = r.left \ {First(r.left)}]
    BY <1>3 DEF NextGroup
  <2>3. r.left \ {First(r.left)} \in SUBSET Gateways /\ First(r.left) \in Gateways
    BY <1>1, <2>1
  <2> DEFINE n == NextGroup(r)
  <2>4. /\ n.kind = r.kind /\ n.choice = r.choice /\ n.targets = r.targets
        /\ n.bound = r.bound /\ n.outcome = r.outcome /\ n.verdict = r.verdict
        /\ n.wrote = r.wrote /\ n.seen = r.seen
        /\ n.pc = "write" /\ n.at = First(r.left) /\ n.left = r.left \ {First(r.left)}
    BY <2>2 DEF CmdRecords
  <2>5. n \in CmdRecords
    BY <2>2, <2>3 DEF CmdRecords, GroupPcs
  <2>6. QED
    BY <1>3, <2>1, <2>4, <2>5
<1>4. QED
  BY <1>2, <1>3

(* The outcome of a group is recorded once, and the groups go on in order. *)
LEMMA WithOutcomeGoesOn ==
    ASSUME NEW r \in CmdRecords, CommandInv(r), r.pc \in GroupPcs,
           NEW o \in {"ok", "partial", "failed"},
           r.pc = "write" => o = "failed" /\ r.kind # "endpoint",
           r.pc # "write" => o # "failed"
    PROVE  LET n == WithOutcome(r, o) IN
           /\ CommandInv(n)
           /\ n.pc \in {"write", "merge"} /\ n.seen = r.seen /\ n.bound = r.bound
           /\ n.choice = r.choice /\ n.targets = r.targets
           /\ n.outcome = [r.outcome EXCEPT ![r.at] = o]
<1> DEFINE n == WithOutcome(r, o)
           w == [r EXCEPT !.outcome[r.at] = o]
<1>1. r.at \in Gateways \ r.left /\ r.outcome[r.at] = "none"
  BY DEF CommandInv
<1>2. w \in CmdRecords /\ w.outcome = [r.outcome EXCEPT ![r.at] = o]
  BY <1>1 DEF CmdRecords
<1>3. /\ w.kind = r.kind /\ w.choice = r.choice /\ w.targets = r.targets /\ w.left = r.left
      /\ w.bound = r.bound /\ w.verdict = r.verdict /\ w.wrote = r.wrote /\ w.seen = r.seen
  BY DEF CmdRecords
<1>4. n = NextGroup(w)
  BY DEF WithOutcome
<1> HIDE DEF w, n
<1>5. /\ n \in CmdRecords
      /\ n.kind = r.kind /\ n.choice = r.choice /\ n.targets = r.targets
      /\ n.bound = r.bound /\ n.outcome = [r.outcome EXCEPT ![r.at] = o]
      /\ n.verdict = r.verdict /\ n.wrote = r.wrote /\ n.seen = r.seen
      /\ IF r.left = {} THEN n.pc = "merge" /\ n.left = {}
         ELSE n.pc = "write" /\ n.at \in r.left /\ n.left = r.left \ {n.at}
  BY <1>2, <1>3, <1>4, NextGroupGoesOn
<1>6. /\ r.outcome \in [Gateways -> {"none", "ok", "partial", "failed"}]
      /\ n.outcome[r.at] = o /\ \A g \in Gateways : g # r.at => n.outcome[g] = r.outcome[g]
  BY <1>1, <1>5 DEF CmdRecords
<1>7. n.pc = "write" => n.kind # "endpoint"
  BY <1>5 DEF CommandInv
<1>8. n.wrote => \E g \in Gateways : n.outcome[g] \in {"ok", "partial"}
  <2>1. CASE r.pc = "write"
    BY <1>1, <1>5, <1>6, <2>1 DEF CommandInv
  <2>2. CASE r.pc # "write"
    BY <1>1, <1>6, <2>2
  <2>3. QED
    BY <2>1, <2>2
<1>9. /\ \A g \in n.left : n.outcome[g] = "none"
      /\ \A g \in Gateways : n.targets[g] # {} =>
              g \in n.left \/ (n.pc # "merge" /\ g = n.at) \/ n.outcome[g] # "none"
      /\ n.pc = "write" => n.at \in Gateways \ n.left /\ n.outcome[n.at] = "none"
  <2>1. r.left \subseteq Gateways
    BY DEF CmdRecords
  <2>2. QED
    BY <1>1, <1>5, <1>6, <2>1 DEF CommandInv
<1>10. CommandInv(n)
  BY <1>5, <1>7, <1>8, <1>9 DEF CommandInv, GroupPcs
<1>11. QED
  BY <1>5, <1>10 DEF n

-----------------------------------------------------------------------------
(* The steps of a command *)

LEMMA NewIsCommand == CommandInv(NewCommand)
<1>1. NewCommand \in CmdRecords
  BY DEF NewCommand, CmdRecords, GroupPcs, Verdicts, EndpointChoices
<1>2. QED
  BY <1>1 DEF CommandInv, NewCommand, GroupPcs

(* The running command goes on: no other one runs, so that nothing but what it *)
(* has done is at stake.                                                        *)
LEMMA CommandProceeds ==
    ASSUME EndpointInv, NEW c \in Running, NEW r, Proceeds(c, r), r.pc \notin {"new", "done"},
           TablesInv', upsets <= upsets', CommandInv(r), UndisturbedInv(cmd[c])'
    PROVE  EndpointInv'
<1>1. c \in Commands /\ inFlight /\ Running = {c} /\ DOMAIN cmd = Commands
  BY DEF EndpointInv, GuardInv, CommandsInv, Running
<1>2. cmd'[c] = r /\ inFlight' = inFlight /\ DOMAIN cmd' = Commands
      /\ \A d \in Commands : d # c => cmd'[d] = cmd[d]
  BY <1>1 DEF Proceeds
<1>3. \A d \in Commands : d # c => cmd[d].pc \in {"new", "done"}
  BY <1>1 DEF Running
<1>4. GuardInv'
  BY <1>1, <1>2, <1>3 DEF GuardInv, Running
<1>5. \A d \in Commands : d # c => CommandInv(cmd[d])' /\ UndisturbedInv(cmd[d])'
  <2> SUFFICES ASSUME NEW d \in Commands, d # c
               PROVE  CommandInv(cmd[d])' /\ UndisturbedInv(cmd[d])'
    OBVIOUS
  <2>1. CommandInv(cmd[d]) /\ UndisturbedInv(cmd[d]) /\ cmd'[d] = cmd[d]
    BY <1>2 DEF EndpointInv, CommandsInv
  <2>2. cmd'[d].seen <= upsets'
    BY <2>1 DEF CommandInv, CmdRecords, UndisturbedInv, EndpointInv, TablesInv, EndpointTypeOK
  <2>3. QED
    BY <1>3, <2>1, <2>2 DEF CommandInv, UndisturbedInv, GroupPcs
<1>6. CommandInv(cmd[c])'
  BY <1>2 DEF CommandInv
<1>7. QED
  BY <1>1, <1>2, <1>4, <1>5, <1>6 DEF EndpointInv, CommandsInv

(* The running command ends, and gives the guard back. *)
LEMMA CommandEnds ==
    ASSUME EndpointInv, NEW c \in Running, NEW v \in Verdicts, Ends(c, v),
           TablesInv', upsets <= upsets'
    PROVE  EndpointInv'
<1>1. c \in Commands /\ Running = {c} /\ DOMAIN cmd = Commands
  BY DEF EndpointInv, GuardInv, CommandsInv, Running
<1> DEFINE r == [NewCommand EXCEPT !.pc = "done", !.verdict = v]
<1>2. cmd'[c] = r /\ inFlight' = FALSE /\ DOMAIN cmd' = Commands
      /\ \A d \in Commands : d # c => cmd'[d] = cmd[d]
  BY <1>1 DEF Ends
<1>3. \A d \in Commands : d # c => cmd[d].pc \in {"new", "done"}
  BY <1>1 DEF Running
<1>4. r \in CmdRecords /\ r.pc = "done" /\ r.seen = 0 /\ r.targets = [g \in Gateways |-> {}]
  BY NewIsCommand DEF CommandInv, CmdRecords, NewCommand
<1> HIDE DEF r
<1>5. GuardInv'
  BY <1>1, <1>2, <1>3, <1>4 DEF GuardInv, Running
<1>6. CommandInv(cmd[c])' /\ UndisturbedInv(cmd[c])'
  BY <1>2, <1>4, upsets' \in Nat DEF CommandInv, UndisturbedInv, GroupPcs, TablesInv, EndpointTypeOK
<1>7. \A d \in Commands : d # c => CommandInv(cmd[d])' /\ UndisturbedInv(cmd[d])'
  <2> SUFFICES ASSUME NEW d \in Commands, d # c
               PROVE  CommandInv(cmd[d])' /\ UndisturbedInv(cmd[d])'
    OBVIOUS
  <2>1. CommandInv(cmd[d]) /\ UndisturbedInv(cmd[d]) /\ cmd'[d] = cmd[d]
    BY <1>2 DEF EndpointInv, CommandsInv
  <2>2. cmd'[d].seen <= upsets'
    BY <2>1 DEF CommandInv, CmdRecords, UndisturbedInv, EndpointInv, TablesInv, EndpointTypeOK
  <2>3. QED
    BY <1>3, <2>1, <2>2 DEF CommandInv, UndisturbedInv, GroupPcs
<1>8. QED
  BY <1>1, <1>2, <1>5, <1>6, <1>7 DEF EndpointInv, CommandsInv

(* What comes in between, while the commands rest. *)
LEMMA CommandsRest ==
    ASSUME EndpointInv, UNCHANGED <<cmd, inFlight>>, TablesInv',
           \/ upsets' = upsets + 1
           \/ /\ upsets' = upsets /\ \A c \in Commands : UndisturbedInv(cmd[c])'
    PROVE  EndpointInv'
<1>1. GuardInv'
  BY DEF EndpointInv, GuardInv, Running
<1>2. \A c \in Commands : CommandInv(cmd[c])'
  <2> SUFFICES ASSUME NEW c \in Commands PROVE CommandInv(cmd[c])'
    OBVIOUS
  <2>1. CommandInv(cmd[c]) /\ cmd'[c] = cmd[c]
    BY DEF EndpointInv, CommandsInv
  <2>2. QED
    BY <2>1 DEF CommandInv
<1>3. \A c \in Commands : UndisturbedInv(cmd[c])'
  <2> SUFFICES ASSUME NEW c \in Commands, upsets' = upsets + 1 PROVE UndisturbedInv(cmd[c])'
    OBVIOUS
  <2>1. cmd[c].seen \in Nat /\ cmd[c].seen <= upsets /\ upsets \in Nat
    BY DEF EndpointInv, CommandsInv, CommandInv, CmdRecords, UndisturbedInv, TablesInv, EndpointTypeOK
  <2>2. cmd'[c].seen < upsets'
    BY <2>1
  <2>3. QED
    BY <2>1, <2>2 DEF UndisturbedInv
<1>4. QED
  BY <1>1, <1>2, <1>3 DEF EndpointInv, CommandsInv

LEMMA EndpointInvInit == EndpointInit => EndpointInv
<1> SUFFICES ASSUME EndpointInit PROVE EndpointInv
  OBVIOUS
<1>1. TablesInv
  <2>1. EndpointTypeOK
    <3>1. \A g \in Gateways : \A m \in Published[g] :
            overrides[g][m] = "none" /\ registry[g][m] = "own"
      BY DEF EndpointInit
    <3>2. inFlight = FALSE /\ upsets = 0
      BY DEF EndpointInit
    <3>3. QED
      <4>1. inFlight \in BOOLEAN
        BY <3>2
      <4>2. upsets \in 0 .. MaxUpsets
        BY <3>2, EndpointAssumption
      <4>3. QED
        BY <3>1, <4>1, <4>2 DEF EndpointTypeOK
  <2>2. current.gateway \in Gateways /\ current.model \in Published[current.gateway]
    BY DEF EndpointInit
  <2>3. QED
    BY <2>1, <2>2 DEF EndpointInit, TablesInv
<1>2. \A c \in Commands : cmd[c] = NewCommand
  BY DEF EndpointInit
<1>3. NewCommand.pc = "new" /\ NewCommand.seen = 0
  BY DEF NewCommand
<1>4. GuardInv
  BY <1>2, <1>3 DEF EndpointInit, GuardInv, Running
<1>5. CommandsInv
  BY <1>2, <1>3, NewIsCommand, EndpointAssumption
     DEF EndpointInit, CommandsInv, UndisturbedInv, GroupPcs
<1>6. QED
  BY <1>1, <1>4, <1>5 DEF EndpointInv

(* The files, the registry and the current model keep their types. *)
LEMMA TablesKept ==
    ASSUME TablesInv, inFlight' \in BOOLEAN,
           upsets' = upsets \/ Upset,
           UNCHANGED <<overrides, registry, current>>
    PROVE  TablesInv' /\ upsets <= upsets'
BY EndpointAssumption DEF TablesInv, EndpointTypeOK, Upset

LEMMA TablesRefreshed ==
    ASSUME TablesInv, inFlight' \in BOOLEAN, upsets' = upsets \/ Upset, NEW g \in Gateways,
           Refreshed(g) \/ Gone(g), UNCHANGED <<overrides, current>>
    PROVE  TablesInv' /\ upsets <= upsets'
<1>1. upsets' \in 0 .. MaxUpsets /\ upsets <= upsets'
  BY EndpointAssumption DEF TablesInv, EndpointTypeOK, Upset
<1> DEFINE row == [m \in Published[g] |-> Derived(overrides[g][m])]
<1>2. DOMAIN row = Published[g] /\ \A m \in Published[g] : row[m] \in {"own", "chat", "gone"}
  BY DEF Derived
<1>3. /\ DOMAIN Mapped(g) = Gateways /\ Mapped(g)[g] = row
      /\ \A h \in Gateways : h # g => Mapped(g)[h] = registry[h]
  BY DEF Mapped, TablesInv
<1> HIDE DEF row
<1>4. /\ DOMAIN registry' = Gateways /\ DOMAIN registry'[g] = Published[g]
      /\ \A m \in Published[g] : registry'[g][m] \in {"own", "chat", "gone"}
      /\ \A h \in Gateways : h # g => registry'[h] = registry[h]
  <2>1. CASE Refreshed(g)
    BY <1>2, <1>3, <2>1 DEF Refreshed
  <2>2. CASE Gone(g)
    <3>1. PICK m \in Published[g] : registry' = [Mapped(g) EXCEPT ![g][m] = "gone"]
      BY <2>2 DEF Gone
    <3>2. registry' = [Mapped(g) EXCEPT ![g] = [row EXCEPT ![m] = "gone"]]
      BY <1>3, <3>1
    <3>3. QED
      BY <1>2, <1>3, <3>2
  <2>3. QED
    BY <2>1, <2>2
<1>5. QED
  BY <1>1, <1>4 DEF TablesInv, EndpointTypeOK

LEMMA InvokeKeeps == ASSUME EndpointInv, NEW c \in Commands, Invoke(c) PROVE EndpointInv'
<1>1. cmd[c] = NewCommand /\ NewCommand.pc = "new" /\ DOMAIN cmd = Commands /\ upsets \in Nat
  BY EndpointAssumption
     DEF EndpointInv, CommandsInv, CommandInv, Invoke, NewCommand, TablesInv, EndpointTypeOK
<1>2. UNCHANGED <<overrides, registry, current, upsets>> /\ inFlight' \in BOOLEAN
  BY DEF Invoke, EndpointInv, TablesInv, EndpointTypeOK
<1>3. TablesInv'
  BY <1>2, TablesKept DEF EndpointInv
<1>4. \A d \in Commands : d # c => cmd'[d] = cmd[d]
  BY <1>1 DEF Invoke
<1>5. DOMAIN cmd' = Commands
  BY <1>1 DEF Invoke
<1>6. PICK k \in {"endpoint", "setting", "reload"} :
         IF inFlight
         THEN cmd' = [cmd EXCEPT ![c].pc = "done", ![c].verdict = "refused"] /\ UNCHANGED inFlight
         ELSE /\ inFlight' = TRUE
              /\ cmd' = [cmd EXCEPT ![c].kind = k, ![c].pc = IF k = "setting" THEN "pick" ELSE "idle",
                                    ![c].seen = upsets]
  BY DEF Invoke
<1>7. cmd'[c] = IF inFlight THEN [NewCommand EXCEPT !.pc = "done", !.verdict = "refused"]
                ELSE [NewCommand EXCEPT !.kind = k, !.pc = IF k = "setting" THEN "pick" ELSE "idle",
                                        !.seen = upsets]
  <2>1. CASE inFlight
    BY <1>1, <1>6, <2>1 DEF NewCommand
  <2>2. CASE ~inFlight
    BY <1>1, <1>6, <2>2 DEF NewCommand
  <2>3. QED
    BY <2>1, <2>2
<1>8. CommandInv(cmd[c])' /\ UndisturbedInv(cmd[c])'
  <2>1. cmd'[c] \in CmdRecords
    <3>1. NewCommand \in CmdRecords
      BY NewIsCommand DEF CommandInv
    <3>2. CASE inFlight
      BY <1>7, <3>1, <3>2 DEF CmdRecords, Verdicts
    <3>3. CASE ~inFlight
      <4>1. PICK p \in {"pick", "idle"} :
               cmd'[c] = [NewCommand EXCEPT !.kind = k, !.pc = p, !.seen = upsets]
        BY <1>7, <3>3
      <4>2. p \in {"pick", "idle"} /\ upsets \in Nat /\ k \in {"endpoint", "setting", "reload"}
        BY <1>1
      <4>3. QED
        BY <3>1, <4>1, <4>2 DEF CmdRecords
    <3>4. QED
      BY <3>2, <3>3
  <2>2. cmd'[c].pc \in {"done", "pick", "idle"} /\ cmd'[c].seen <= upsets
    BY <1>1, <1>7 DEF NewCommand
  <2>3. /\ cmd'[c].targets = [g \in Gateways |-> {}] /\ ~cmd'[c].wrote
        /\ cmd'[c].outcome = [g \in Gateways |-> "none"]
        /\ cmd'[c].pc # "done" => cmd'[c].verdict = "none" /\ cmd'[c].kind # "none"
        /\ cmd'[c].pc = "pick" => cmd'[c].kind = "setting"
    BY <1>7 DEF NewCommand
  <2>4. CommandInv(cmd[c])'
    BY <2>1, <2>2, <2>3 DEF CommandInv, GroupPcs
  <2>5. QED
    BY <1>2, <2>2, <2>4 DEF UndisturbedInv, GroupPcs
<1>9. \A d \in Commands : d # c => CommandInv(cmd[d])' /\ UndisturbedInv(cmd[d])'
  <2> SUFFICES ASSUME NEW d \in Commands, d # c
               PROVE  CommandInv(cmd[d])' /\ UndisturbedInv(cmd[d])'
    OBVIOUS
  <2>1. CommandInv(cmd[d]) /\ UndisturbedInv(cmd[d]) /\ cmd'[d] = cmd[d]
    BY <1>4 DEF EndpointInv, CommandsInv
  <2>2. QED
    BY <1>2, <2>1 DEF CommandInv, UndisturbedInv
<1>10. GuardInv'
  <2>1. CASE inFlight
    <3>1. inFlight' /\ cmd'[c].pc = "done"
      BY <1>6, <1>7, <2>1 DEF NewCommand
    <3>2. Running' = Running
      BY <1>1, <1>4, <3>1 DEF Running
    <3>3. QED
      BY <2>1, <3>1, <3>2 DEF GuardInv, EndpointInv
  <2>2. CASE ~inFlight
    <3>1. inFlight' /\ cmd'[c].pc \in {"pick", "idle"}
      BY <1>6, <1>7, <2>2 DEF NewCommand
    <3>2. Running = {}
      BY <2>2 DEF GuardInv, EndpointInv
    <3>3. Running' = {c}
      BY <1>4, <3>1, <3>2 DEF Running
    <3>4. QED
      BY <3>1, <3>3 DEF GuardInv
  <2>3. QED
    BY <2>1, <2>2
<1>11. QED
  BY <1>3, <1>5, <1>8, <1>9, <1>10 DEF EndpointInv, CommandsInv

LEMMA DialogsKeep ==
    ASSUME EndpointInv, NEW c \in Commands, PickModels(c) \/ SelectEndpoint(c)
    PROVE  EndpointInv'
<1> DEFINE r == cmd[c]
<1>1. CommandInv(r) /\ UndisturbedInv(r) /\ r \in CmdRecords
  BY DEF EndpointInv, CommandsInv, CommandInv
<1>2. c \in Running /\ r.pc \in {"pick", "select"} /\ ~r.wrote /\ r.kind = "setting"
      /\ r.verdict = "none" /\ \A g \in Gateways : r.outcome[g] = "none"
  BY <1>1 DEF PickModels, SelectEndpoint, Running, CommandInv
<1>3. UNCHANGED <<overrides, registry, current, upsets, inFlight>>
  BY DEF PickModels, SelectEndpoint, Proceeds
<1>4. TablesInv' /\ upsets <= upsets'
  BY <1>3, TablesKept DEF EndpointInv, TablesInv, EndpointTypeOK
<1>5. ASSUME NEW n \in CmdRecords, Proceeds(c, n), n.pc \in {"select", "idle"}, n.seen = r.seen,
             \A g \in Gateways : n.targets[g] \subseteq Published[g],
             n.kind = r.kind, n.verdict = r.verdict, n.wrote = r.wrote, n.outcome = r.outcome
      PROVE  EndpointInv'
  <2>1. CommandInv(n)
    BY <1>2, <1>5 DEF CommandInv, GroupPcs
  <2>2. cmd'[c] = n
    BY <1>5 DEF Proceeds, EndpointInv, CommandsInv
  <2>3. UndisturbedInv(cmd[c])'
    BY <1>1, <1>3, <1>5, <2>2 DEF UndisturbedInv, GroupPcs
  <2>4. QED
    BY <1>2, <1>4, <1>5, <2>1, <2>3, CommandProceeds
<1>6. CASE PickModels(c)
  <2>1. PICK t \in [Gateways -> SUBSET UNION {Published[g] : g \in Gateways}] :
           /\ \A g \in Gateways : t[g] \subseteq Published[g]
           /\ Proceeds(c, [r EXCEPT !.pc = "select", !.targets = t])
    BY <1>6 DEF PickModels
  <2> DEFINE n == [r EXCEPT !.pc = "select", !.targets = t]
  <2>2. n \in CmdRecords
    BY <1>1, <2>1 DEF CmdRecords, ModelIds
  <2>3. /\ n.pc = "select" /\ n.seen = r.seen /\ n.targets = t /\ n.kind = r.kind
        /\ n.verdict = r.verdict /\ n.wrote = r.wrote /\ n.outcome = r.outcome
    BY <1>1 DEF CmdRecords
  <2> HIDE DEF n, r
  <2>4. QED
    BY <1>5, <2>1, <2>2, <2>3 DEF n
<1>7. CASE SelectEndpoint(c)
  <2>1. PICK e \in EndpointChoices : Proceeds(c, [r EXCEPT !.pc = "idle", !.choice = e])
    BY <1>7 DEF SelectEndpoint
  <2> DEFINE n == [r EXCEPT !.pc = "idle", !.choice = e]
  <2>2. n \in CmdRecords
    BY <1>1, <2>1 DEF CmdRecords
  <2>3. /\ n.pc = "idle" /\ n.seen = r.seen /\ n.targets = r.targets /\ n.kind = r.kind
        /\ n.verdict = r.verdict /\ n.wrote = r.wrote /\ n.outcome = r.outcome
    BY <1>1 DEF CmdRecords
  <2>4. \A g \in Gateways : r.targets[g] \subseteq Published[g]
    BY <1>1 DEF CommandInv
  <2> HIDE DEF n, r
  <2>5. QED
    BY <1>5, <2>1, <2>2, <2>3, <2>4 DEF n
<1>8. QED
  BY <1>6, <1>7

LEMMA EndingsKeep ==
    ASSUME EndpointInv, NEW c \in Commands,
           CancelDialog(c) \/ IdleTimesOut(c) \/ MergeOutcomes(c)
    PROVE  EndpointInv'
<1>1. c \in Running
  BY DEF CancelDialog, IdleTimesOut, MergeOutcomes, Running
<1>2. PICK v \in Verdicts : Ends(c, v)
  BY DEF CancelDialog, IdleTimesOut, MergeOutcomes, Verdicts, Verdict
<1>3. inFlight' \in BOOLEAN
  BY <1>2 DEF Ends
<1>4. TablesInv' /\ upsets <= upsets'
  BY <1>3, TablesKept DEF EndpointInv, CancelDialog, IdleTimesOut, MergeOutcomes
<1>5. QED
  BY <1>1, <1>2, <1>4, CommandEnds

(* A command that goes to its first group has written nothing and is bound to  *)
(* the current model.                                                          *)
LEMMA FirstGroupKeeps ==
    ASSUME EndpointInv, NEW c \in Commands, cmd[c].pc = "idle", NEW w \in CmdRecords,
           Proceeds(c, NextGroup(w)), UNCHANGED <<overrides, registry, current, upsets>>,
           w.kind = cmd[c].kind, w.verdict = cmd[c].verdict, w.wrote = cmd[c].wrote,
           w.outcome = cmd[c].outcome, w.seen = cmd[c].seen, w.bound = Bound,
           \A g \in Gateways : w.targets[g] \subseteq Published[g]
                                /\ (w.targets[g] # {} => g \in w.left),
           w.kind = "endpoint" => \E g \in Gateways : w.left = {g}
    PROVE  EndpointInv'
<1> DEFINE n == NextGroup(w)
<1>1. CommandInv(cmd[c]) /\ UndisturbedInv(cmd[c]) /\ cmd[c] \in CmdRecords
  BY DEF EndpointInv, CommandsInv, CommandInv
<1>2. c \in Running /\ ~w.wrote /\ w.kind # "none" /\ w.verdict = "none"
      /\ \A g \in Gateways : w.outcome[g] = "none"
  BY <1>1 DEF Running, CommandInv
<1>3. inFlight' = inFlight /\ cmd'[c] = n
  BY DEF Proceeds, EndpointInv, CommandsInv
<1>4. TablesInv' /\ upsets <= upsets'
  BY <1>3, TablesKept DEF EndpointInv, TablesInv, EndpointTypeOK
<1>5. /\ n \in CmdRecords
      /\ n.kind = w.kind /\ n.choice = w.choice /\ n.targets = w.targets
      /\ n.bound = w.bound /\ n.outcome = w.outcome /\ n.verdict = w.verdict
      /\ n.wrote = w.wrote /\ n.seen = w.seen
      /\ IF w.left = {} THEN n.pc = "merge" /\ n.left = {}
         ELSE n.pc = "write" /\ n.at \in w.left /\ n.left = w.left \ {n.at}
  BY NextGroupGoesOn
<1> HIDE DEF n
<1>6. w.left \subseteq Gateways
  BY DEF CmdRecords
<1>7. CommandInv(n)
  BY <1>2, <1>5, <1>6 DEF CommandInv, GroupPcs
<1>8. UndisturbedInv(cmd[c])'
  <2>1. n.seen <= upsets
    BY <1>1, <1>5 DEF UndisturbedInv
  <2>2. n.bound.gateway = current.gateway /\ n.bound.model = current.model
    BY <1>5 DEF Bound
  <2>3. n.pc \notin {"refresh", "verify"} /\ \A g \in Gateways : n.outcome[g] # "ok"
    BY <1>2, <1>5
  <2>4. QED
    BY <1>3, <2>1, <2>2, <2>3 DEF UndisturbedInv
<1>9. QED
  BY <1>2, <1>4, <1>5, <1>7, <1>8, CommandProceeds DEF n

LEMMA SessionIdleKeeps == ASSUME EndpointInv, NEW c \in Commands, SessionIdle(c) PROVE EndpointInv'
<1> DEFINE r == cmd[c]
<1>1. CommandInv(r) /\ UndisturbedInv(r) /\ r \in CmdRecords
  BY DEF EndpointInv, CommandsInv, CommandInv
<1>2. /\ r.pc = "idle" /\ c \in Running /\ r.kind \in {"endpoint", "setting", "reload"}
      /\ ~r.wrote /\ r.verdict = "none" /\ \A g \in Gateways : r.outcome[g] = "none"
      /\ \A g \in Gateways : r.targets[g] \subseteq Published[g]
  BY <1>1 DEF SessionIdle, Running, CommandInv, CmdRecords
<1>3. UNCHANGED <<overrides, registry, current, upsets>>
  BY DEF SessionIdle
<1>4. Bound \in [gateway : Gateways \cup {0}, model : ModelIds \cup {0}]
  BY DEF Bound, EndpointInv, TablesInv, ModelIds
<1>5. CASE r.kind = "reload"
  <2> DEFINE n == [r EXCEPT !.pc = "refreshing", !.left = Gateways]
  <2>1. Proceeds(c, n)
    BY <1>5 DEF SessionIdle
  <2>2. n \in CmdRecords
    BY <1>1 DEF CmdRecords
  <2>3. /\ n.pc = "refreshing" /\ n.seen = r.seen /\ n.targets = r.targets /\ n.kind = r.kind
        /\ n.verdict = r.verdict /\ n.wrote = r.wrote
    BY <1>1 DEF CmdRecords
  <2> HIDE DEF n
  <2>4. CommandInv(n)
    BY <1>2, <2>2, <2>3 DEF CommandInv, GroupPcs
  <2>5. cmd'[c] = n /\ inFlight' = inFlight
    BY <2>1 DEF Proceeds, EndpointInv, CommandsInv
  <2>6. UndisturbedInv(cmd[c])'
    BY <1>1, <1>3, <2>3, <2>5 DEF UndisturbedInv, GroupPcs
  <2>7. TablesInv' /\ upsets <= upsets'
    BY <1>3, <2>5, TablesKept DEF EndpointInv, TablesInv, EndpointTypeOK
  <2>8. QED
    BY <1>2, <2>1, <2>3, <2>4, <2>6, <2>7, CommandProceeds
<1>6. CASE r.kind = "setting"
  <2> DEFINE l == {g \in Gateways : r.targets[g] # {}}
             w == [r EXCEPT !.left = l, !.bound = Bound]
  <2>1. Proceeds(c, NextGroup(w))
    BY <1>6 DEF SessionIdle
  <2>2. l \subseteq Gateways
    OBVIOUS
  <2>3. w \in CmdRecords
    BY <1>1, <1>4, <2>2 DEF CmdRecords
  <2>4. /\ w.kind = r.kind /\ w.verdict = r.verdict /\ w.wrote = r.wrote /\ w.bound = Bound
        /\ w.outcome = r.outcome /\ w.seen = r.seen /\ w.targets = r.targets /\ w.left = l
    BY <1>1 DEF CmdRecords
  <2>5. \A g \in Gateways : w.targets[g] \subseteq Published[g]
                            /\ (w.targets[g] # {} => g \in w.left)
    BY <1>2, <2>4
  <2> HIDE DEF w, l
  <2>6. QED
    BY <1>2, <1>3, <1>6, <2>1, <2>3, <2>4, <2>5, FirstGroupKeeps
<1>7. CASE r.kind = "endpoint"
  <2>1. CASE Ends(c, "failed")
    <3>1. TablesInv' /\ upsets <= upsets'
      BY <1>3, <2>1, TablesKept DEF EndpointInv, Ends
    <3>2. QED
      BY <1>2, <2>1, <3>1, CommandEnds DEF Verdicts
  <2>2. ASSUME NEW g \in Gateways, NEW e \in EndpointChoices, NEW m \in Published[g],
               Proceeds(c, NextGroup([r EXCEPT !.choice = e, !.targets[g] = {m}, !.left = {g},
                                               !.bound = Bound]))
        PROVE  EndpointInv'
    <3> DEFINE t == [r.targets EXCEPT ![g] = {m}]
               w == [r EXCEPT !.choice = e, !.targets[g] = {m}, !.left = {g}, !.bound = Bound]
    <3>1. r.targets = [h \in Gateways |-> {}]
      BY <1>1, <1>2, <1>7 DEF CommandInv
    <3>2. /\ t \in [Gateways -> SUBSET ModelIds] /\ t[g] = {m}
          /\ \A h \in Gateways : h # g => t[h] = {}
      BY <3>1 DEF ModelIds
    <3>3. w = [r EXCEPT !.choice = e, !.targets = t, !.left = {g}, !.bound = Bound]
      OBVIOUS
    <3>4. {g} \in SUBSET Gateways
      OBVIOUS
    <3> HIDE DEF t, w
    <3>5. w \in CmdRecords
      BY <1>1, <1>4, <3>2, <3>3, <3>4 DEF CmdRecords
    <3>6. /\ w.kind = r.kind /\ w.verdict = r.verdict /\ w.wrote = r.wrote /\ w.bound = Bound
          /\ w.outcome = r.outcome /\ w.seen = r.seen /\ w.targets = t /\ w.left = {g}
      BY <1>1, <3>3 DEF CmdRecords
    <3>7. \A h \in Gateways : w.targets[h] \subseteq Published[h]
                              /\ (w.targets[h] # {} => h \in w.left)
      BY <3>2, <3>6
    <3>8. QED
      BY <1>2, <1>3, <2>2, <3>5, <3>6, <3>7, FirstGroupKeeps DEF w
  <2>3. QED
    BY <1>2, <1>7, <2>1, <2>2 DEF SessionIdle
<1>8. QED
  BY <1>2, <1>5, <1>6, <1>7

LEMMA WriteGroupKeeps == ASSUME EndpointInv, NEW c \in Commands, WriteGroup(c) PROVE EndpointInv'
<1> DEFINE r == cmd[c]
           g == r.at
<1>1. CommandInv(r) /\ UndisturbedInv(r) /\ r \in CmdRecords
  BY DEF EndpointInv, CommandsInv, CommandInv
<1>2. /\ r.pc = "write" /\ c \in Running /\ g \in Gateways /\ r.outcome[g] = "none"
      /\ UNCHANGED <<registry, current>> /\ DOMAIN cmd = Commands
      /\ upsets \in Nat /\ (upsets' = upsets \/ Upset)
  BY <1>1, EndpointAssumption DEF WriteGroup, Running, CommandInv, GroupPcs, EndpointInv, CommandsInv,
                                  TablesInv, EndpointTypeOK, Upset
<1> DEFINE failed == IF r.kind = "endpoint" THEN Ends(c, "failed")
                     ELSE Proceeds(c, WithOutcome(r, "failed"))
           written == [m \in Published[g] |->
                         IF m \in r.targets[g] /\ overrides[g][m] # "unusable" THEN Entry(r.choice)
                         ELSE overrides[g][m]]
<1>3. CASE failed /\ UNCHANGED overrides
  <2>1. TablesInv' /\ upsets <= upsets'
    BY <1>2, <1>3, TablesKept DEF EndpointInv, TablesInv, EndpointTypeOK, Ends, Proceeds
  <2>2. CASE r.kind = "endpoint"
    BY <1>2, <1>3, <2>1, <2>2, CommandEnds DEF Verdicts
  <2>3. CASE r.kind # "endpoint"
    <3> DEFINE n == WithOutcome(r, "failed")
    <3>1. CommandInv(n) /\ n.pc \in {"write", "merge"} /\ n.seen = r.seen /\ n.bound = r.bound
          /\ n.choice = r.choice /\ n.targets = r.targets
          /\ n.outcome = [r.outcome EXCEPT ![g] = "failed"]
      <4>1. r.pc \in GroupPcs
        BY <1>2 DEF GroupPcs
      <4>2. QED
        BY <1>1, <1>2, <2>3, <4>1, WithOutcomeGoesOn
    <3> HIDE DEF n
    <3>2. cmd'[c] = n
      BY <1>2, <1>3, <2>3 DEF Proceeds, n
    <3>3. r.seen \in Nat /\ \A h \in Gateways : n.outcome[h] = "ok" => r.outcome[h] = "ok"
      BY <1>1, <3>1 DEF CmdRecords
    <3>4. UndisturbedInv(cmd[c])'
      <4>1. CASE upsets' = upsets
        <5>1. r.seen <= upsets /\ r.pc \in GroupPcs \cup {"merge"}
          BY <1>1, <1>2 DEF UndisturbedInv, GroupPcs
        <5>2. r.seen = upsets =>
                /\ current.gateway = r.bound.gateway /\ current.model = r.bound.model
                /\ \A h \in Gateways : r.outcome[h] = "ok" => \A m \in r.targets[h] :
                    /\ overrides[h][m] = Entry(r.choice) /\ registry[h][m] = Derived(overrides[h][m])
                    /\ current.gateway = h /\ current.model = m => current.api = registry[h][m]
          BY <1>1, <5>1 DEF UndisturbedInv
        <5>3. r.seen = upsets => \A h \in Gateways : n.outcome[h] = "ok" => \A m \in n.targets[h] :
                 /\ overrides'[h][m] = Entry(n.choice) /\ registry'[h][m] = Derived(overrides'[h][m])
                 /\ current'.gateway = h /\ current'.model = m => current'.api = registry'[h][m]
          BY <1>2, <1>3, <3>1, <3>3, <5>2
        <5>4. QED
          BY <1>2, <1>3, <3>1, <3>2, <4>1, <5>1, <5>2, <5>3 DEF UndisturbedInv
      <4>2. CASE upsets' = upsets + 1
        BY <1>1, <1>2, <3>1, <3>2, <3>3, <4>2 DEF UndisturbedInv
      <4>3. QED
        BY <1>2, <4>1, <4>2 DEF Upset
    <3>5. QED
      BY <1>2, <1>3, <2>1, <2>3, <3>1, <3>4, CommandProceeds DEF n
  <2>4. QED
    BY <2>2, <2>3
<1>4. CASE /\ ~BatchFails(overrides[g], r.targets[g])
           /\ Proceeds(c, [r EXCEPT !.pc = "refresh", !.wrote = TRUE])
           /\ overrides' = [overrides EXCEPT ![g] = written] /\ UNCHANGED upsets
  <2>1. /\ DOMAIN overrides' = Gateways /\ overrides'[g] = written
        /\ \A h \in Gateways : h # g => overrides'[h] = overrides[h]
    BY <1>2, <1>4 DEF EndpointInv, TablesInv
  <2>2. /\ DOMAIN written = Published[g]
        /\ \A m \in Published[g] : written[m] \in {"none", "chat", "unusable"}
    BY <1>2 DEF Entry, EndpointInv, TablesInv, EndpointTypeOK
  <2>3. \A m \in r.targets[g] : written[m] = Entry(r.choice)
    BY <1>1, <1>2, <1>4 DEF CommandInv, BatchFails
  <2>4. inFlight' = inFlight
    BY <1>4 DEF Proceeds
  <2> HIDE DEF written
  <2>5. TablesInv' /\ upsets <= upsets'
    BY <1>2, <1>4, <2>1, <2>2, <2>4 DEF EndpointInv, TablesInv, EndpointTypeOK
  <2> DEFINE n == [r EXCEPT !.pc = "refresh", !.wrote = TRUE]
  <2>6. n \in CmdRecords
    BY <1>1 DEF CmdRecords, GroupPcs
  <2>7. /\ n.pc = "refresh" /\ n.kind = r.kind /\ n.seen = r.seen /\ n.bound = r.bound
        /\ n.choice = r.choice /\ n.targets = r.targets /\ n.outcome = r.outcome /\ n.at = r.at
        /\ n.left = r.left /\ n.verdict = r.verdict
    BY <1>1 DEF CmdRecords
  <2>8. cmd'[c] = n
    BY <1>2, <1>4 DEF Proceeds
  <2> HIDE DEF n
  <2>9. CommandInv(n)
    BY <1>1, <1>2, <2>6, <2>7 DEF CommandInv, GroupPcs
  <2>10. UndisturbedInv(cmd[c])'
    <3> SUFFICES ASSUME r.seen = upsets
                 PROVE  UndisturbedInv(cmd[c])'
      BY <1>1, <1>4, <2>7, <2>8 DEF UndisturbedInv
    <3>1. current.gateway = r.bound.gateway /\ current.model = r.bound.model
          /\ \A h \in Gateways : r.outcome[h] = "ok" => h # g /\ \A m \in r.targets[h] :
              /\ overrides[h][m] = Entry(r.choice) /\ registry[h][m] = Derived(overrides[h][m])
              /\ current.gateway = h /\ current.model = m => current.api = registry[h][m]
      BY <1>1, <1>2 DEF UndisturbedInv, GroupPcs
    <3>2. QED
      BY <1>1, <1>2, <1>4, <2>1, <2>3, <2>7, <2>8, <3>1 DEF UndisturbedInv
  <2>11. QED
    BY <1>2, <1>4, <2>5, <2>7, <2>9, <2>10, CommandProceeds DEF n
<1>5. QED
  BY <1>3, <1>4 DEF WriteGroup

(* A group whose refresh or verification ends with an outcome, or goes on. *)
LEMMA GroupGoesOn ==
    ASSUME EndpointInv, NEW c \in Commands, cmd[c].pc \in {"refresh", "verify"},
           NEW o \in {"ok", "partial"}, Proceeds(c, WithOutcome(cmd[c], o)),
           TablesInv', upsets' = upsets \/ Upset, UNCHANGED <<overrides, registry>>,
           upsets' = upsets /\ o # "ok" => UNCHANGED current,
           o = "ok" /\ upsets' = upsets /\ cmd[c].seen = upsets =>
             /\ current'.gateway = cmd[c].bound.gateway /\ current'.model = cmd[c].bound.model
             /\ current' # current => current'.gateway = cmd[c].at
             /\ \A m \in cmd[c].targets[cmd[c].at] :
                  /\ overrides[cmd[c].at][m] = Entry(cmd[c].choice)
                  /\ registry[cmd[c].at][m] = Derived(overrides[cmd[c].at][m])
                  /\ current'.gateway = cmd[c].at /\ current'.model = m =>
                       current'.api = registry[cmd[c].at][m]
    PROVE  EndpointInv'
<1> DEFINE r == cmd[c]
           n == WithOutcome(r, o)
<1>1. CommandInv(r) /\ UndisturbedInv(r) /\ r \in CmdRecords /\ r.pc \in GroupPcs
  BY DEF EndpointInv, CommandsInv, CommandInv, GroupPcs
<1>2. /\ c \in Running /\ upsets \in Nat /\ (upsets' = upsets \/ upsets' = upsets + 1)
      /\ r.at \in Gateways /\ r.outcome[r.at] = "none" /\ r.seen \in Nat
      /\ r.outcome \in [Gateways -> {"none", "ok", "partial", "failed"}]
  BY <1>1, EndpointAssumption DEF Running, CommandInv, CmdRecords, EndpointInv, TablesInv,
                                  EndpointTypeOK, Upset
<1>3. CommandInv(n) /\ n.pc \in {"write", "merge"} /\ n.seen = r.seen /\ n.bound = r.bound
      /\ n.choice = r.choice /\ n.targets = r.targets /\ n.outcome = [r.outcome EXCEPT ![r.at] = o]
  <2>1. r.pc # "write" /\ o # "failed" /\ o \in {"ok", "partial", "failed"}
    OBVIOUS
  <2> HIDE DEF r
  <2>2. QED
    BY <1>1, <2>1, WithOutcomeGoesOn
<1> HIDE DEF n
<1>4. cmd'[c] = n
  BY DEF Proceeds, EndpointInv, CommandsInv, n
<1>5. UndisturbedInv(cmd[c])'
  <2> SUFFICES ASSUME upsets' = upsets, r.seen = upsets PROVE UndisturbedInv(cmd[c])'
    BY <1>1, <1>2, <1>3, <1>4 DEF UndisturbedInv
  <2>1. /\ current.gateway = r.bound.gateway /\ current.model = r.bound.model
        /\ \A h \in Gateways : r.outcome[h] = "ok" => \A m \in r.targets[h] :
              /\ overrides[h][m] = Entry(r.choice) /\ registry[h][m] = Derived(overrides[h][m])
              /\ current.gateway = h /\ current.model = m => current.api = registry[h][m]
    BY <1>1 DEF UndisturbedInv
  <2>2. CASE o = "ok"
    <3>1. \A h \in Gateways : h # r.at => n.outcome[h] = r.outcome[h]
      BY <1>2, <1>3
    <3>2. \A h \in Gateways : n.outcome[h] = "ok" => \A m \in n.targets[h] :
              /\ overrides'[h][m] = Entry(n.choice) /\ registry'[h][m] = Derived(overrides'[h][m])
              /\ current'.gateway = h /\ current'.model = m => current'.api = registry'[h][m]
      BY <1>3, <2>1, <2>2, <3>1
    <3>3. QED
      BY <1>2, <1>3, <1>4, <2>2, <3>2 DEF UndisturbedInv
  <2>3. CASE o = "partial"
    <3>1. \A h \in Gateways : n.outcome[h] = "ok" => r.outcome[h] = "ok"
      BY <1>2, <1>3, <2>3
    <3>2. QED
      BY <1>2, <1>3, <1>4, <2>1, <2>3, <3>1 DEF UndisturbedInv
  <2>4. QED
    BY <2>2, <2>3
<1>6. upsets <= upsets' /\ n.pc \notin {"new", "done"}
  BY <1>2, <1>3
<1>7. QED
  BY <1>2, <1>3, <1>5, <1>6, CommandProceeds DEF n

LEMMA RefreshGroupKeeps == ASSUME EndpointInv, NEW c \in Commands, RefreshGroup(c) PROVE EndpointInv'
<1> DEFINE r == cmd[c]
           g == r.at
<1>1. CommandInv(r) /\ UndisturbedInv(r) /\ r \in CmdRecords
  BY DEF EndpointInv, CommandsInv, CommandInv
<1>2. /\ r.pc = "refresh" /\ c \in Running /\ g \in Gateways /\ r.outcome[g] = "none"
      /\ UNCHANGED <<overrides, current, inFlight>> /\ DOMAIN cmd = Commands
      /\ upsets \in Nat /\ (upsets' = upsets \/ Upset) /\ inFlight' \in BOOLEAN
  BY <1>1, EndpointAssumption DEF RefreshGroup, Running, CommandInv, GroupPcs, EndpointInv, CommandsInv,
                                  TablesInv, EndpointTypeOK, Upset, Proceeds
<1>3. CASE Upset /\ UNCHANGED registry /\ Proceeds(c, WithOutcome(r, "partial"))
  <2>1. TablesInv'
    BY <1>2, <1>3, TablesKept DEF EndpointInv
  <2>2. QED
    BY <1>2, <1>3, <2>1, GroupGoesOn
<1>4. CASE /\ Proceeds(c, [r EXCEPT !.pc = "verify"])
           /\ (Refreshed(g) /\ UNCHANGED upsets) \/ (Upset /\ Gone(g))
  <2>1. TablesInv' /\ upsets <= upsets'
    BY <1>2, <1>4, TablesRefreshed DEF EndpointInv
  <2> DEFINE n == [r EXCEPT !.pc = "verify"]
  <2>2. n \in CmdRecords
    BY <1>1 DEF CmdRecords, GroupPcs
  <2>3. /\ n.pc = "verify" /\ n.kind = r.kind /\ n.seen = r.seen /\ n.bound = r.bound
        /\ n.choice = r.choice /\ n.targets = r.targets /\ n.outcome = r.outcome /\ n.at = r.at
        /\ n.left = r.left /\ n.verdict = r.verdict /\ n.wrote = r.wrote
    BY <1>1 DEF CmdRecords
  <2>4. cmd'[c] = n
    BY <1>2, <1>4 DEF Proceeds
  <2> HIDE DEF n
  <2>5. CommandInv(n)
    BY <1>1, <1>2, <2>2, <2>3 DEF CommandInv, GroupPcs
  <2>6. r.seen \in Nat /\ r.seen <= upsets
    BY <1>1 DEF CmdRecords, UndisturbedInv
  <2>7. UndisturbedInv(cmd[c])'
    <3> SUFFICES ASSUME r.seen = upsets, Refreshed(g), upsets' = upsets
                 PROVE  UndisturbedInv(cmd[c])'
      BY <1>2, <1>4, <2>3, <2>4, <2>6 DEF UndisturbedInv, Upset
    <3>1. /\ current.gateway = r.bound.gateway /\ current.model = r.bound.model
          /\ \A m \in r.targets[g] : overrides[g][m] = Entry(r.choice)
          /\ \A h \in Gateways : r.outcome[h] = "ok" => h # g /\ \A m \in r.targets[h] :
              /\ overrides[h][m] = Entry(r.choice) /\ registry[h][m] = Derived(overrides[h][m])
              /\ current.gateway = h /\ current.model = m => current.api = registry[h][m]
      BY <1>1, <1>2 DEF UndisturbedInv, GroupPcs
    <3>2. \A h \in Gateways : h # g => registry'[h] = registry[h]
      BY DEF Refreshed, Mapped, EndpointInv, TablesInv
    <3>3. \A h \in Gateways : n.outcome[h] = "ok" => \A m \in n.targets[h] :
             /\ overrides'[h][m] = Entry(n.choice) /\ registry'[h][m] = Derived(overrides'[h][m])
             /\ current'.gateway = h /\ current'.model = m => current'.api = registry'[h][m]
      BY <1>2, <2>3, <3>1, <3>2
    <3>4. QED
      BY <1>2, <2>3, <2>4, <2>6, <3>1, <3>3 DEF UndisturbedInv
  <2>8. n.pc \notin {"new", "done"}
    BY <2>3
  <2>9. QED
    BY <1>2, <1>4, <2>1, <2>5, <2>7, <2>8, CommandProceeds DEF n
<1>5. QED
  BY <1>3, <1>4 DEF RefreshGroup

LEMMA VerifyGroupKeeps == ASSUME EndpointInv, NEW c \in Commands, VerifyGroup(c) PROVE EndpointInv'
<1> DEFINE r == cmd[c]
           g == r.at
           mine == r.bound.gateway = g /\ r.bound.model \in r.targets[g]
<1>1. CommandInv(r) /\ UndisturbedInv(r) /\ r \in CmdRecords
  BY DEF EndpointInv, CommandsInv, CommandInv
<1>2. /\ r.pc = "verify" /\ g \in Gateways /\ r.choice \in EndpointChoices
      /\ r.targets[g] \subseteq Published[g]
      /\ UNCHANGED <<overrides, registry>>
      /\ (upsets' = upsets \/ Upset)
  BY <1>1 DEF VerifyGroup, CommandInv, CmdRecords, GroupPcs
<1>3. ASSUME NEW o \in {"ok", "partial"}, Proceeds(c, WithOutcome(r, o)) PROVE inFlight' \in BOOLEAN
  BY <1>3 DEF Proceeds, EndpointInv, TablesInv, EndpointTypeOK
<1>4. ASSUME Proceeds(c, WithOutcome(r, "partial")), UNCHANGED current PROVE EndpointInv'
  <2>1. TablesInv'
    BY <1>2, <1>3, <1>4, TablesKept DEF EndpointInv
  <2>2. QED
    BY <1>2, <1>4, <2>1, GroupGoesOn
<1>5. NotActive(r) = {} /\ r.seen = upsets => \A m \in r.targets[g] :
        overrides[g][m] = Entry(r.choice) /\ registry[g][m] = Derived(overrides[g][m])
  <2> SUFFICES ASSUME NotActive(r) = {}, r.seen = upsets, NEW m \in r.targets[g]
               PROVE  overrides[g][m] = Entry(r.choice) /\ registry[g][m] = Derived(overrides[g][m])
    OBVIOUS
  <2>1. overrides[g][m] = Entry(r.choice)
    BY <1>1, <1>2 DEF UndisturbedInv, GroupPcs
  <2>2. registry[g][m] = Expected(r, m)
    BY DEF NotActive
  <2>3. QED
    BY <1>2, <2>1, <2>2 DEF Expected, Entry, Derived, EndpointChoices
<1>6. r.seen = upsets => current.gateway = r.bound.gateway /\ current.model = r.bound.model
  BY <1>1, <1>2 DEF UndisturbedInv, GroupPcs
<1>7. CASE NotActive(r) = {} /\ ~mine /\ Proceeds(c, WithOutcome(r, "ok")) /\ UNCHANGED <<current, upsets>>
  <2>1. TablesInv'
    BY <1>2, <1>3, <1>7, TablesKept DEF EndpointInv
  <2>2. QED
    BY <1>2, <1>5, <1>6, <1>7, <2>1, GroupGoesOn
<1>8. CASE /\ NotActive(r) = {} /\ mine /\ current' = Object(g, r.bound.model)
           /\ Proceeds(c, WithOutcome(r, "ok")) /\ UNCHANGED upsets
  <2>1. /\ current'.gateway = g /\ current'.model = r.bound.model /\ current'.model \in Published[g]
        /\ current'.api = registry[g][r.bound.model]
    BY <1>2, <1>8 DEF Object
  <2>2. inFlight' \in BOOLEAN
    BY <1>3, <1>8
  <2>3. TablesInv'
    BY <1>2, <1>8, <2>1, <2>2 DEF EndpointInv, TablesInv, EndpointTypeOK
  <2>4. QED
    BY <1>2, <1>5, <1>6, <1>8, <2>1, <2>3, GroupGoesOn
<1>9. QED
  BY <1>4, <1>7, <1>8 DEF VerifyGroup

LEMMA ReloadKeeps ==
    ASSUME EndpointInv, NEW c \in Commands, NEW g \in Gateways, ReloadOne(c, g)
    PROVE  EndpointInv'
<1> DEFINE r == cmd[c]
           with(o) == [r EXCEPT !.outcome[g] = o, !.left = @ \ {g},
                                !.pc = IF r.left = {g} THEN "rebind" ELSE @]
<1>1. CommandInv(r) /\ UndisturbedInv(r) /\ r \in CmdRecords
  BY DEF EndpointInv, CommandsInv, CommandInv
<1>2. r.pc = "refreshing" /\ c \in Running /\ UNCHANGED <<overrides, current, inFlight>>
      /\ inFlight' \in BOOLEAN /\ DOMAIN cmd = Commands
  BY DEF ReloadOne, Running, Proceeds, EndpointInv, CommandsInv, TablesInv, EndpointTypeOK
<1>3. upsets' = upsets \/ Upset
  BY DEF ReloadOne
<1>4. TablesInv' /\ upsets <= upsets'
  <2>1. CASE UNCHANGED registry
    BY <1>2, <1>3, <2>1, TablesKept DEF EndpointInv
  <2>2. CASE Refreshed(g) \/ Gone(g)
    BY <1>2, <1>3, <2>2, TablesRefreshed DEF EndpointInv
  <2>3. QED
    BY <2>1, <2>2 DEF ReloadOne
<1>5. PICK o \in {"ok", "partial", "failed"} : Proceeds(c, with(o))
  BY DEF ReloadOne
<1> DEFINE n == with(o)
<1>6. n \in CmdRecords /\ n.pc \in {"refreshing", "rebind"}
  <2>1. r.left \ {g} \in SUBSET Gateways
    BY <1>1 DEF CmdRecords
  <2>2. [r.outcome EXCEPT ![g] = o] \in [Gateways -> {"none", "ok", "partial", "failed"}]
    BY <1>1 DEF CmdRecords
  <2>3. QED
    BY <1>1, <1>2, <2>1, <2>2 DEF CmdRecords
<1>7. n.seen = r.seen /\ n.targets = r.targets /\ n.kind = r.kind /\ n.verdict = r.verdict
      /\ n.wrote = r.wrote
  BY <1>1 DEF CmdRecords
<1>8. cmd'[c] = n
  BY <1>2, <1>5 DEF Proceeds
<1> HIDE DEF n
<1>9. CommandInv(n)
  BY <1>1, <1>2, <1>6, <1>7 DEF CommandInv, GroupPcs
<1>10. UndisturbedInv(cmd[c])'
  <2>1. r.seen <= upsets /\ r.seen \in Nat /\ upsets \in Nat /\ upsets' \in Nat
    BY <1>1, <1>4, EndpointAssumption
       DEF UndisturbedInv, CmdRecords, EndpointInv, TablesInv, EndpointTypeOK
  <2>2. QED
    BY <1>4, <1>6, <1>7, <1>8, <2>1 DEF UndisturbedInv, GroupPcs
<1>11. QED
  BY <1>2, <1>4, <1>5, <1>6, <1>9, <1>10, CommandProceeds DEF n

LEMMA RebindKeeps == ASSUME EndpointInv, NEW c \in Commands, ReloadRebinds(c) PROVE EndpointInv'
<1>1. c \in Running /\ UNCHANGED <<overrides, registry>> /\ (upsets' = upsets \/ Upset)
  BY DEF ReloadRebinds, Running
<1>2. PICK v \in Verdicts : Ends(c, v)
  BY DEF ReloadRebinds, Verdict, Verdicts
<1>3. inFlight' \in BOOLEAN
  BY <1>2 DEF Ends
<1>4. \/ UNCHANGED current
      \/ current'.gateway = current.gateway /\ current'.model = current.model
  BY DEF ReloadRebinds, Object
<1>5. TablesInv' /\ upsets <= upsets'
  BY <1>1, <1>3, <1>4, EndpointAssumption DEF EndpointInv, TablesInv, EndpointTypeOK, Upset
<1>6. QED
  BY <1>1, <1>2, <1>5, CommandEnds

LEMMA MeanwhileKeeps ==
    ASSUME EndpointInv,
           \/ EndpointShutdown \/ UserSelects
           \/ \E g \in Gateways : BackgroundRefresh(g) \/ OverrideEdited(g)
    PROVE  EndpointInv'
<1>0. inFlight' = inFlight /\ inFlight' \in BOOLEAN /\ cmd' = cmd /\ upsets \in Nat
  BY EndpointAssumption DEF EndpointShutdown, UserSelects, BackgroundRefresh, OverrideEdited,
                            EndpointInv, TablesInv, EndpointTypeOK
<1>1. CASE EndpointShutdown
  <2>1. TablesInv'
    BY <1>0, <1>1, TablesKept DEF EndpointInv, EndpointShutdown
  <2>2. \A c \in Commands : UndisturbedInv(cmd[c])'
    BY <1>0, <1>1 DEF EndpointShutdown, EndpointInv, CommandsInv, UndisturbedInv
  <2>3. QED
    BY <1>0, <1>1, <2>1, <2>2, CommandsRest DEF EndpointShutdown
<1>2. CASE UserSelects
  <2>1. upsets' = upsets + 1 /\ upsets' \in 0 .. MaxUpsets
    BY <1>0, <1>2, EndpointAssumption DEF UserSelects, Upset
  <2>2. current'.gateway \in Gateways /\ current'.model \in Published[current'.gateway]
    BY <1>2 DEF UserSelects, Object
  <2>3. TablesInv'
    BY <1>0, <1>2, <2>1, <2>2 DEF EndpointInv, TablesInv, EndpointTypeOK, UserSelects
  <2>4. QED
    BY <1>0, <2>1, <2>3, CommandsRest
<1>3. ASSUME NEW g \in Gateways, BackgroundRefresh(g) PROVE EndpointInv'
  <2>1. Refreshed(g) /\ UNCHANGED <<overrides, current, upsets>>
    BY <1>3 DEF BackgroundRefresh
  <2>2. TablesInv'
    BY <1>0, <2>1, TablesRefreshed DEF EndpointInv
  <2>3. /\ \A h \in Gateways : h # g => registry'[h] = registry[h]
        /\ \A m \in Published[g] : registry'[g][m] = Derived(overrides[g][m])
    BY <2>1 DEF Refreshed, Mapped, EndpointInv, TablesInv
  <2>4. ASSUME NEW c \in Commands PROVE UndisturbedInv(cmd[c])'
    <3> DEFINE r == cmd[c]
    <3>1. UndisturbedInv(r) /\ \A h \in Gateways : r.targets[h] \subseteq Published[h]
      BY DEF EndpointInv, CommandsInv, CommandInv
    <3> SUFFICES ASSUME r.pc \in GroupPcs \cup {"merge"}, r.seen = upsets
                 PROVE  UndisturbedInv(cmd[c])'
      BY <1>0, <2>1, <3>1 DEF UndisturbedInv
    <3>2. /\ current.gateway = r.bound.gateway /\ current.model = r.bound.model
          /\ r.pc \in {"refresh", "verify"} =>
               \A m \in r.targets[r.at] : overrides[r.at][m] = Entry(r.choice)
          /\ \A h \in Gateways : r.outcome[h] = "ok" => \A m \in r.targets[h] :
              /\ overrides[h][m] = Entry(r.choice) /\ registry[h][m] = Derived(overrides[h][m])
              /\ current.gateway = h /\ current.model = m => current.api = registry[h][m]
      BY <3>1 DEF UndisturbedInv
    <3>3. \A h \in Gateways : r.outcome[h] = "ok" => \A m \in r.targets[h] :
              registry'[h][m] = Derived(overrides[h][m]) /\ registry'[h][m] = registry[h][m]
      BY <2>3, <3>1, <3>2
    <3>4. QED
      BY <1>0, <2>1, <3>1, <3>2, <3>3 DEF UndisturbedInv
  <2>5. QED
    BY <1>0, <2>1, <2>2, <2>4, CommandsRest
<1>4. ASSUME NEW g \in Gateways, OverrideEdited(g) PROVE EndpointInv'
  <2>1. upsets' = upsets + 1 /\ upsets' \in 0 .. MaxUpsets /\ UNCHANGED <<registry, current>>
    BY <1>0, <1>4, EndpointAssumption DEF OverrideEdited, Upset
  <2>2. PICK m \in Published[g], o \in {"none", "chat", "unusable"} :
           overrides' = [overrides EXCEPT ![g][m] = o]
    BY <1>4 DEF OverrideEdited
  <2>3. /\ DOMAIN overrides' = Gateways /\ overrides'[g] = [overrides[g] EXCEPT ![m] = o]
        /\ \A h \in Gateways : h # g => overrides'[h] = overrides[h]
    BY <2>2 DEF EndpointInv, TablesInv
  <2>4. DOMAIN overrides'[g] = Published[g]
        /\ \A k \in Published[g] : overrides'[g][k] \in {"none", "chat", "unusable"}
    BY <2>2, <2>3 DEF EndpointInv, TablesInv, EndpointTypeOK
  <2>5. \A h \in Gateways : /\ DOMAIN overrides'[h] = Published[h]
                            /\ \A k \in Published[h] : overrides'[h][k] \in {"none", "chat", "unusable"}
    <3> SUFFICES ASSUME NEW h \in Gateways
                 PROVE  /\ DOMAIN overrides'[h] = Published[h]
                        /\ \A k \in Published[h] : overrides'[h][k] \in {"none", "chat", "unusable"}
      OBVIOUS
    <3>1. CASE h = g
      BY <2>4, <3>1
    <3>2. CASE h # g
      BY <2>3, <3>2 DEF EndpointInv, TablesInv, EndpointTypeOK
    <3>3. QED
      BY <3>1, <3>2
  <2>6. TablesInv'
    BY <1>0, <2>1, <2>3, <2>5 DEF EndpointInv, TablesInv, EndpointTypeOK
  <2>7. QED
    BY <1>0, <2>1, <2>6, CommandsRest
<1>5. QED
  BY <1>1, <1>2, <1>3, <1>4

LEMMA EndpointInvStep == EndpointInv /\ [EndpointNext]_endpointVars => EndpointInv'
<1> SUFFICES ASSUME EndpointInv, [EndpointNext]_endpointVars PROVE EndpointInv'
  OBVIOUS
<1>1. ASSUME NEW c \in Commands,
             \/ Invoke(c) \/ PickModels(c) \/ SelectEndpoint(c) \/ CancelDialog(c)
             \/ IdleTimesOut(c) \/ SessionIdle(c) \/ MergeOutcomes(c)
      PROVE  EndpointInv'
  BY <1>1, InvokeKeeps, DialogsKeep, EndingsKeep, SessionIdleKeeps
<1>2. ASSUME NEW c \in Commands,
             \/ WriteGroup(c) \/ RefreshGroup(c) \/ VerifyGroup(c) \/ ReloadRebinds(c)
             \/ \E g \in Gateways : ReloadOne(c, g)
      PROVE  EndpointInv'
  BY <1>2, WriteGroupKeeps, RefreshGroupKeeps, VerifyGroupKeeps, ReloadKeeps, RebindKeeps
<1>3. CASE UNCHANGED endpointVars
  <2>1. UNCHANGED <<inFlight, overrides, registry, current, cmd, upsets>>
    BY <1>3 DEF endpointVars
  <2>2. TablesInv'
    BY <2>1 DEF EndpointInv, TablesInv, EndpointTypeOK
  <2>3. \A c \in Commands : UndisturbedInv(cmd[c])'
    BY <2>1 DEF EndpointInv, CommandsInv, UndisturbedInv
  <2>4. QED
    BY <2>1, <2>2, <2>3, CommandsRest
<1>4. QED
  BY <1>1, <1>2, <1>3, MeanwhileKeeps DEF EndpointNext, CommandGoesOn

-----------------------------------------------------------------------------
(* What the commands promise *)

(* The inductive invariant of the endpoint commands. *)
THEOREM EndpointInvariant == EndpointSpec => []EndpointInv
<1>1. QED
  BY EndpointInvInit, EndpointInvStep, PTL DEF EndpointSpec

(* At any time one command runs, if the guard is taken, or none. *)
LEMMA GuardExact == EndpointInv => GuardIsExact
<1> SUFFICES ASSUME EndpointInv PROVE GuardIsExact
  OBVIOUS
<1>1. CASE inFlight
  <2>1. PICK c \in Commands : Running = {c}
    BY <1>1 DEF EndpointInv, GuardInv
  <2>2. Cardinality({c}) = 1
    BY FS_Singleton
  <2>3. QED
    BY <1>1, <2>1, <2>2 DEF GuardIsExact
<1>2. CASE ~inFlight
  BY <1>2, FS_EmptySet DEF EndpointInv, GuardInv, GuardIsExact
<1>3. QED
  BY <1>1, <1>2

(* A step of command d. *)
CommandSteps(d) ==
    \/ Invoke(d) \/ PickModels(d) \/ SelectEndpoint(d) \/ CancelDialog(d) \/ IdleTimesOut(d)
    \/ SessionIdle(d) \/ WriteGroup(d) \/ RefreshGroup(d) \/ VerifyGroup(d) \/ MergeOutcomes(d)
    \/ \E g \in Gateways : ReloadOne(d, g)
    \/ ReloadRebinds(d)

(* A command changes only by a step of its own. *)
LEMMA OneMoves ==
    ASSUME EndpointInv, [EndpointNext]_endpointVars, NEW c \in Commands, cmd'[c] # cmd[c]
    PROVE  CommandSteps(c)
<1>0. DOMAIN cmd = Commands
  BY DEF EndpointInv, CommandsInv
<1>1. ASSUME NEW d \in Commands, d # c, CommandSteps(d) PROVE FALSE
  <2>1. ASSUME NEW v, Ends(d, v) \/ Proceeds(d, v) PROVE FALSE
    BY <1>0, <1>1, <2>1 DEF Ends, Proceeds
  <2>2. CASE Invoke(d)
    BY <1>0, <1>1, <2>2 DEF Invoke
  <2>3. CASE PickModels(d) \/ SelectEndpoint(d) \/ CancelDialog(d) \/ IdleTimesOut(d) \/ MergeOutcomes(d)
    BY <2>1, <2>3 DEF PickModels, SelectEndpoint, CancelDialog, IdleTimesOut, MergeOutcomes
  <2>4. CASE SessionIdle(d)
    <3>1. cmd[d].kind \in {"reload", "setting", "endpoint"} => FALSE
      BY <2>1, <2>4 DEF SessionIdle
    <3>2. cmd[d].kind \in {"reload", "setting", "endpoint"}
      BY <2>4 DEF SessionIdle, EndpointInv, CommandsInv, CommandInv, CmdRecords
    <3>3. QED
      BY <3>1, <3>2
  <2>5. CASE WriteGroup(d)
    BY <2>1, <2>5 DEF WriteGroup
  <2>6. CASE RefreshGroup(d) \/ VerifyGroup(d)
    BY <2>1, <2>6 DEF RefreshGroup, VerifyGroup
  <2>7. CASE ReloadRebinds(d) \/ \E g \in Gateways : ReloadOne(d, g)
    BY <2>1, <2>7 DEF ReloadRebinds, ReloadOne
  <2>8. QED
    BY <1>1, <2>2, <2>3, <2>4, <2>5, <2>6, <2>7 DEF CommandSteps
<1>2. \/ cmd' = cmd
      \/ \E d \in Commands : CommandSteps(d)
  BY DEF EndpointNext, CommandGoesOn, CommandSteps, EndpointShutdown, UserSelects, BackgroundRefresh,
         OverrideEdited, endpointVars
<1>3. QED
  BY <1>1, <1>2

(* A verdict of success is told when every target has its outcome, and nothing *)
(* came in between; one of failure when nothing was written.                    *)
LEMMA VerdictStep ==
    ASSUME EndpointInv, [EndpointNext]_endpointVars, NEW c \in Commands
    PROVE  LET r == cmd[c] IN
        /\ r.pc = "merge" /\ cmd'[c].verdict = "ok" /\ upsets = r.seen =>
             \A g \in Gateways : \A m \in r.targets[g] :
                 /\ overrides[g][m] = Entry(r.choice) /\ registry[g][m] = Derived(overrides[g][m])
                 /\ current.gateway = g /\ current.model = m => current.api = registry[g][m]
        /\ r.pc # "done" /\ cmd'[c].verdict \in {"failed", "cancelled"} => ~r.wrote
<1> DEFINE r == cmd[c]
<1>1. CommandInv(r) /\ UndisturbedInv(r) /\ r \in CmdRecords /\ DOMAIN cmd = Commands
  BY DEF EndpointInv, CommandsInv, CommandInv
<1>2. CASE r.pc = "merge" /\ Ends(c, Verdict(r))
  <2>1. cmd'[c].verdict = Verdict(r)
    BY <1>1, <1>2 DEF Ends, NewCommand
  <2>2. ASSUME Verdict(r) = "ok", upsets = r.seen
        PROVE  \A g \in Gateways : \A m \in r.targets[g] :
                 /\ overrides[g][m] = Entry(r.choice) /\ registry[g][m] = Derived(overrides[g][m])
                 /\ current.gateway = g /\ current.model = m => current.api = registry[g][m]
    <3>1. {r.outcome[g] : g \in Gateways} \ {"none"} = {"ok"}
      BY <2>2 DEF Verdict
    <3>2. \A g \in Gateways : r.targets[g] # {} => r.outcome[g] = "ok"
      BY <1>1, <1>2, <3>1 DEF CommandInv
    <3>3. QED
      BY <1>1, <1>2, <2>2, <3>2 DEF UndisturbedInv
  <2>3. ASSUME Verdict(r) \in {"failed", "cancelled"} PROVE ~r.wrote
    <3>1. {r.outcome[g] : g \in Gateways} \ {"none"} = {"failed"}
      BY <2>3 DEF Verdict
    <3>2. \A g \in Gateways : r.outcome[g] \notin {"ok", "partial"}
      BY <3>1
    <3>3. QED
      BY <1>1, <1>2, <3>2 DEF CommandInv
  <2>4. QED
    BY <1>2, <2>1, <2>2, <2>3
<1>3. CASE r.pc \in GroupPcs /\ (WriteGroup(c) \/ RefreshGroup(c) \/ VerifyGroup(c))
  <2>1. ASSUME NEW n, n.verdict = "none", Proceeds(c, n) PROVE cmd'[c].verdict = "none"
    BY <1>1, <2>1 DEF Proceeds
  <2>2. [r EXCEPT !.pc = "refresh", !.wrote = TRUE].verdict = "none"
        /\ [r EXCEPT !.pc = "verify"].verdict = "none"
    BY <1>1, <1>3 DEF CommandInv, CmdRecords, GroupPcs
  <2>3. ASSUME NEW o \in {"ok", "partial", "failed"}, Proceeds(c, WithOutcome(r, o)),
               r.pc = "write" => o = "failed" /\ r.kind # "endpoint",
               r.pc # "write" => o # "failed"
        PROVE  cmd'[c].verdict = "none"
    <3>1. CommandInv(WithOutcome(r, o)) /\ WithOutcome(r, o).pc \in {"write", "merge"}
      BY <1>1, <1>3, <2>3, WithOutcomeGoesOn
    <3>2. WithOutcome(r, o).verdict = "none"
      BY <3>1 DEF CommandInv
    <3>3. QED
      BY <2>1, <2>3, <3>2
  <2>4. CASE WriteGroup(c)
    BY <1>1, <1>3, <2>1, <2>2, <2>3, <2>4 DEF WriteGroup, CommandInv, GroupPcs
  <2>5. CASE RefreshGroup(c)
    BY <2>1, <2>2, <2>3, <2>5 DEF RefreshGroup
  <2>6. CASE VerifyGroup(c)
    BY <2>1, <2>3, <2>6 DEF VerifyGroup
  <2>7. QED
    BY <1>3, <2>4, <2>5, <2>6 DEF GroupPcs
<1>4. CASE r.pc \notin GroupPcs \cup {"merge"}
  <2>1. ~NewCommand.wrote
    BY DEF NewCommand
  <2>2. r.pc # "done" => ~r.wrote
    BY <1>1, <1>4, <2>1 DEF CommandInv, CmdRecords, GroupPcs
  <2>3. QED
    BY <1>4, <2>2
<1>5. CASE cmd'[c] = cmd[c]
  BY <1>1, <1>5 DEF CommandInv
<1>6. ASSUME cmd'[c] # cmd[c], r.pc \in GroupPcs \cup {"merge"}
      PROVE  WriteGroup(c) \/ RefreshGroup(c) \/ VerifyGroup(c) \/ MergeOutcomes(c)
  BY <1>1, <1>6, OneMoves DEF GroupPcs, Invoke, PickModels, SelectEndpoint, CancelDialog,
     IdleTimesOut, SessionIdle, ReloadOne, ReloadRebinds, CommandSteps
<1>7. QED
  BY <1>2, <1>3, <1>4, <1>5, <1>6 DEF MergeOutcomes, WriteGroup, RefreshGroup, VerifyGroup, GroupPcs

(* The verdict is as it is told (endpoint-setting.ts:300-420, endpoint.ts). *)
LEMMA VerdictTrue == EndpointSpec => VerdictIsTrue
<1>1. EndpointInv /\ [EndpointNext]_endpointVars =>
        [\A c \in Commands : LET r == cmd[c] IN
          /\ r.pc = "merge" /\ cmd'[c].verdict = "ok" /\ upsets = r.seen =>
               \A g \in Gateways : \A m \in r.targets[g] :
                   /\ overrides[g][m] = Entry(r.choice) /\ registry[g][m] = Derived(overrides[g][m])
                   /\ current.gateway = g /\ current.model = m => current.api = registry[g][m]
          /\ r.pc # "done" /\ cmd'[c].verdict \in {"failed", "cancelled"} => ~r.wrote]_endpointVars
  BY VerdictStep
<1>2. QED
  BY <1>1, EndpointInvariant, PTL DEF EndpointSpec, VerdictIsTrue

(* A write takes every entry of its batch, or the file is left alone. *)
LEMMA BatchStep ==
    ASSUME EndpointInv, [EndpointNext]_endpointVars, NEW c \in Commands,
           cmd[c].pc = "write", cmd'[c].pc # "write", overrides' # overrides
    PROVE  \A m \in cmd[c].targets[cmd[c].at] : overrides'[cmd[c].at][m] = Entry(cmd[c].choice)
<1> DEFINE r == cmd[c]
           g == r.at
           written == [m \in Published[g] |->
                         IF m \in r.targets[g] /\ overrides[g][m] # "unusable" THEN Entry(r.choice)
                         ELSE overrides[g][m]]
<1>1. CommandInv(r) /\ DOMAIN cmd = Commands /\ DOMAIN overrides = Gateways
  BY DEF EndpointInv, CommandsInv, TablesInv
<1>2. WriteGroup(c)
  BY <1>1, OneMoves DEF CommandSteps, Invoke, PickModels, SelectEndpoint, CancelDialog, IdleTimesOut,
     SessionIdle, ReloadOne, ReloadRebinds, RefreshGroup, VerifyGroup, MergeOutcomes
<1>3. ~BatchFails(overrides[g], r.targets[g]) /\ overrides' = [overrides EXCEPT ![g] = written]
  BY <1>2 DEF WriteGroup
<1>4. g \in Gateways /\ r.targets[g] \subseteq Published[g]
  BY <1>1 DEF CommandInv, GroupPcs
<1>5. overrides'[g] = written
  BY <1>1, <1>3, <1>4
<1>6. QED
  BY <1>3, <1>4, <1>5 DEF BatchFails

LEMMA BatchWhole == EndpointSpec => BatchIsWhole
<1>1. EndpointInv /\ [EndpointNext]_endpointVars =>
        [\A c \in Commands : cmd[c].pc = "write" /\ cmd'[c].pc # "write" /\ overrides' # overrides =>
           \A m \in cmd[c].targets[cmd[c].at] :
              overrides'[cmd[c].at][m] = Entry(cmd[c].choice)]_endpointVars
  BY BatchStep
<1>2. QED
  BY <1>1, EndpointInvariant, PTL DEF EndpointSpec, BatchIsWhole

(* The endpoint commands are exact: one at a time, each batch whole, and each   *)
(* verdict true of what was written, published and bound (endpoint.ts,          *)
(* endpoint-setting.ts, llmgates-reload.ts).                                     *)
THEOREM CommandsExact == EndpointSpec => CommandsAreExact
<1>1. EndpointSpec => []GuardIsExact
  BY EndpointInvariant, GuardExact, PTL
<1>2. QED
  BY <1>1, VerdictTrue, BatchWhole DEF CommandsAreExact
=============================================================================
