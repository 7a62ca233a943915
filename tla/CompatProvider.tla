--------------------------- MODULE CompatProvider ---------------------------
(***************************************************************************)
(* One gateway instance provider (extensions/compat/provider.ts, function  *)
(* createCompatProvider) together with the storage contract pi hands to    *)
(* refreshModels (extensions/catalog-store.ts).                            *)
(*                                                                         *)
(* The provider is single threaded JavaScript: a step of this module runs  *)
(* from one await to the next.  The calls in flight are tasks; a task is a *)
(* record with its kind, the await it is suspended at and the locals it    *)
(* carries across it.  The commit chain (withCommit) is the sequence of    *)
(* the owners waiting for their turn; its head is the one whose body runs. *)
(*                                                                         *)
(* A catalog is abstracted to where it came from: which fetch produced it, *)
(* the request that committed it, the connection and the version of the    *)
(* endpoint override file it was mapped with.  The id of a request stands  *)
(* for the time of its commit (checkedAt).                                 *)
(***************************************************************************)
EXTENDS Integers, Sequences, FiniteSets

CONSTANTS
    Tasks,      \* slots for calls in flight
    Pricers,    \* slots for background pricing syncs
    Conns,      \* connections: base URL plus API key
    NoConn,
    Urls,       \* base URLs
    NoUrl,
    UrlOf,      \* the base URL of a connection
    Contract,   \* "publish" (pi >= 0.84) or "legacy" (pi < 0.84)
    Offline,    \* isOfflineMode()
    Others,     \* whether other pi processes log this instance in
    MaxReq,     \* bound: request ids
    MaxPhase,   \* bound: refreshModels calls
    MaxGen,     \* bound: lifecycle generations
    MaxOv,      \* bound: edits of the override file
    MaxNonce    \* bound: completed logins

ASSUME SlotsAssumption == Tasks \cap Pricers = {}
ASSUME ConnAssumption ==
    /\ NoConn \notin Conns
    /\ NoUrl \notin Urls
    /\ UrlOf \in [Conns -> Urls]
ASSUME ContractAssumption ==
    Contract \in {"publish", "legacy"} /\ Offline \in BOOLEAN /\ Others \in BOOLEAN
ASSUME BoundAssumption ==
    /\ MaxReq \in Nat /\ MaxPhase \in Nat /\ MaxGen \in Nat
    /\ MaxOv \in Nat /\ MaxNonce \in Nat

VARIABLES
    \* the provider's closure
    gen,          \* generation
    shut,         \* shutDown
    nextReq,      \* nextRequestId
    latestReq,    \* latestRequestId
    pending,      \* pending login catalog
    scopedStore,  \* the refresh phase whose store handle is kept, 0 = undefined
    ahead,        \* modelsAheadOfStore
    lastConn,     \* lastConnection
    lastChecked,  \* lastCheckedAt, 0 = undefined
    models,       \* what getModels() answers
    live,         \* models is the published catalog object, not a restored copy
    pendingUrl,   \* pendingRegistryBaseUrl
    instUrl,      \* currentInstance.baseUrl
    persistedUrl, \* persistedInstance.baseUrl
    \* calls in flight
    task, pricer, chain,
    sd,           \* the shutdown() call being awaited
    \* pi, the disk and the clock
    cred,         \* this instance's credential in auth.json
    nextNonce,
    phase,        \* refresh phases pi has started
    stored,       \* the catalog in pi's models store
    registry,     \* this instance's base URL in 2api.json
    ov,           \* version of the endpoint override file
    freshSince,   \* commits of requests below this are older than 5 minutes
    \* history, for properties only
    foreign,      \* another process wrote the registry entry since we did
    floor,        \* ov when the latest foreground refresh began
    lastPub       \* the latest request whose catalog was published

providerVars == <<gen, shut, nextReq, latestReq, pending, scopedStore, ahead,
                  lastConn, lastChecked, models, live>>
registryVars == <<pendingUrl, instUrl, persistedUrl, registry, foreign>>
flightVars   == <<task, pricer, chain, sd>>
envVars      == <<cred, nextNonce, phase, stored, ov, freshSince>>
historyVars  == <<floor, lastPub>>
vars == <<providerVars, registryVars, flightVars, envVars, historyVars>>

-----------------------------------------------------------------------------
(* Data *)

NoCatalog == [src |-> "none", n |-> 0, req |-> 0, conn |-> NoConn,
              ov |-> 0, store |-> 0]
NoPending == [nonce |-> 0, conn |-> NoConn, ov |-> 0, gen |-> 0, expired |-> FALSE]
NoTask    == [kind |-> "idle", pc |-> "idle", gen |-> 0, req |-> 0, phase |-> 0,
              conn |-> NoConn, nonce |-> 0, net |-> FALSE, force |-> FALSE,
              changed |-> FALSE, snap |-> NoCatalog, ov |-> 0, res |-> "ok",
              tail |-> FALSE]
NoPricer  == [pc |-> "idle", gen |-> 0, cat |-> NoCatalog]
NoShutdown == [gen |-> 0, owners |-> {}, queued |-> {}]

(* The catalog a task fetched, as the task commits it. *)
Fetched(t) == [src |-> "fetch", n |-> task[t].req, req |-> task[t].req,
               conn |-> task[t].conn, ov |-> task[t].ov, store |-> task[t].phase]
(* The catalog a login validated, as refresh t commits it. *)
LoginCatalog(t) == [src |-> "login", n |-> pending.nonce, req |-> task[t].req,
                    conn |-> pending.conn, ov |-> pending.ov, store |-> task[t].phase]

-----------------------------------------------------------------------------
(* Guards shared by the provider's functions *)

LifecycleMatches(g) == ~shut /\ gen = g

ConnectionStillMatches_Always(c) == TRUE
ConnectionStillMatches(c) == lastConn = NoConn \/ lastConn = c

(* What a refresh checks after each of its awaits. *)
MayContinue(t) == LifecycleMatches(task[t].gen) /\ task[t].req = latestReq

(* catalogIsFresh, of the given lastCheckedAt and models. *)
IsFresh(checked, shown) == checked # 0 /\ checked >= freshSince /\ shown # NoCatalog

(* The handle of phase h still owns the catalog. *)
HandleCurrent(h) == Contract = "legacy" \/ h = phase

PendingMatches(t) == /\ pending.nonce # 0
                     /\ pending.gen = gen
                     /\ ~pending.expired
                     /\ task[t].nonce = pending.nonce
                     /\ task[t].conn = pending.conn

Running(o) == chain # <<>> /\ Head(chain) = o

SdWithout(o, left, ended) ==
    [sd EXCEPT !.queued = IF left THEN @ \ {o} ELSE @,
               !.owners = IF ended THEN @ \ {o} ELSE @]

(* Task t returns or throws; left says that it also leaves the commit chain. *)
EndTask(t, left) ==
    /\ task' = [task EXCEPT ![t] = NoTask]
    /\ chain' = IF left THEN Tail(chain) ELSE chain
    /\ sd' = SdWithout(t, left, TRUE)

(* Task t goes on to its next await, leaving the commit chain or not. *)
Proceed(t, next, left) ==
    /\ task' = [task EXCEPT ![t] = next]
    /\ chain' = IF left THEN Tail(chain) ELSE chain
    /\ sd' = SdWithout(t, left, FALSE)

At(t, pc) == [task[t] EXCEPT !.pc = pc]

(* Task t awaits withCommit(...): its turn comes after those in the chain. *)
Enqueue(t, next) ==
    /\ task' = [task EXCEPT ![t] = next]
    /\ chain' = Append(chain, t)
    /\ UNCHANGED sd

-----------------------------------------------------------------------------
Init ==
    /\ gen = 0 /\ shut = FALSE
    /\ nextReq = 1 /\ latestReq = 0
    /\ pending = NoPending
    /\ scopedStore = 0 /\ ahead = FALSE
    /\ lastConn = NoConn /\ lastChecked = 0
    /\ \E c \in Conns :
          /\ cred = [conn |-> c, nonce |-> 0]
          /\ instUrl = UrlOf[c] /\ persistedUrl = UrlOf[c] /\ registry = UrlOf[c]
          \* a restart, or an instance that login has just added with its catalog
          /\ \/ models = NoCatalog /\ live = FALSE
             \/ models = [NoCatalog EXCEPT !.src = "seed", !.conn = c] /\ live = TRUE
    /\ pendingUrl = NoUrl
    /\ task = [t \in Tasks |-> NoTask]
    /\ pricer = [p \in Pricers |-> NoPricer]
    /\ chain = <<>>
    /\ sd = NoShutdown
    /\ nextNonce = 1 /\ phase = 0 /\ stored = NoCatalog
    /\ ov = 0 /\ freshSince = 1
    /\ foreign = FALSE /\ floor = 0 /\ lastPub = 0

-----------------------------------------------------------------------------
(* refreshModels(context), called by pi *)

(* After the registry step: the legacy contract reads its store, the publish *)
(* contract already holds the snapshot.                                      *)
FirstPc == IF Contract = "legacy" THEN "read" ELSE "restore"

RefreshCall(r, pc, net, force, changed) ==
    [kind |-> "refresh", pc |-> pc, gen |-> gen, req |-> r, phase |-> phase + 1,
     conn |-> cred.conn, nonce |-> cred.nonce, net |-> net, force |-> force,
     changed |-> changed, snap |-> IF Contract = "publish" THEN stored ELSE NoCatalog,
     ov |-> 0, res |-> "ok", tail |-> FALSE]

(* From the call to its first await.  A cache-only refresh does not take the *)
(* latest request identity, it shares it.                                    *)
RefreshStart(t, net, force) ==
    LET c       == cred.conn
        r       == IF net THEN nextReq ELSE latestReq
        changed == lastConn # NoConn /\ lastConn # c
        wanted  == IF UrlOf[c] # instUrl THEN UrlOf[c] ELSE pendingUrl
        persist == wanted = UrlOf[c]
        call    == RefreshCall(r, IF persist THEN "persist" ELSE FirstPc,
                               net, force, changed)
    IN  /\ task[t].kind = "idle"
        /\ ~shut
        /\ phase < MaxPhase
        /\ net => nextReq <= MaxReq
        /\ force => net
        /\ latestReq' = r
        /\ nextReq' = IF net THEN nextReq + 1 ELSE nextReq
        /\ phase' = phase + 1
        /\ scopedStore' = phase + 1
        /\ ahead' = (ahead /\ ~changed)
        /\ lastChecked' = IF changed THEN 0 ELSE lastChecked
        /\ lastConn' = c
        /\ pendingUrl' = wanted
        /\ IF persist THEN Enqueue(t, call) ELSE Proceed(t, call, FALSE)
        /\ UNCHANGED <<gen, shut, pending, models, live, instUrl, persistedUrl,
                       registry, foreign, pricer, cred, nextNonce, stored, ov,
                       freshSince, historyVars>>

(* What refreshModels does after persistInstanceBaseUrl resolved, leaving the *)
(* commit chain: stop when superseded, stale or finished, else restore.       *)
AfterPersist(t, stale) ==
    IF \/ task[t].tail
       \/ stale
       \/ ~MayContinue(t)
    THEN EndTask(t, TRUE)
    ELSE Proceed(t, [At(t, FirstPc) EXCEPT !.res = "ok"], TRUE)

(* persistInstanceBaseUrl: its turn in the chain has come. *)
PersistBegin(t) ==
    /\ Running(t)
    /\ task[t].pc = "persist"
    /\ IF LifecycleMatches(task[t].gen) /\ pendingUrl = UrlOf[task[t].conn]
       THEN Proceed(t, At(t, "persistWrite"), FALSE)
       ELSE AfterPersist(t, FALSE)
    /\ UNCHANGED <<providerVars, registryVars, pricer, envVars, historyVars>>

(* replaceInstanceIfEqual on 2api.json under its file lock: the entry is     *)
(* replaced only while it equals persistedInstance.                          *)
PersistWrite(t) ==
    /\ Running(t)
    /\ task[t].pc = "persistWrite"
    /\ \E res \in {"ok", "stale", "failed"} :
          \* "failed": no such entry, the lock was not obtained, an I/O error
          /\ res = "ok" => registry = persistedUrl
          /\ res = "stale" => registry \notin {persistedUrl, NoUrl}
          /\ registry' = IF res = "ok" THEN UrlOf[task[t].conn] ELSE registry
          /\ foreign' = (foreign /\ res # "ok")
          /\ Proceed(t, [At(t, "persistEnd") EXCEPT !.res = res], FALSE)
    /\ UNCHANGED <<providerVars, pendingUrl, instUrl, persistedUrl, pricer,
                   envVars, historyVars>>

(* The continuation after replaceInstanceIfEqual settled. *)
PersistEnd(t) ==
    /\ Running(t)
    /\ task[t].pc = "persistEnd"
    /\ IF /\ task[t].res = "ok"
          /\ LifecycleMatches(task[t].gen)
          /\ pendingUrl = UrlOf[task[t].conn]
       THEN /\ persistedUrl' = UrlOf[task[t].conn]
            /\ instUrl' = UrlOf[task[t].conn]
            /\ pendingUrl' = NoUrl
       ELSE UNCHANGED <<persistedUrl, instUrl, pendingUrl>>
    /\ AfterPersist(t, task[t].res = "stale")
    /\ UNCHANGED <<providerVars, registry, foreign, pricer, envVars, historyVars>>

(* pi < 0.84: store.read() reads the file; an error leaves nothing to restore. *)
LegacyRead(t) ==
    /\ task[t].pc = "read"
    /\ \E s \in {stored, NoCatalog} :
          Proceed(t, [At(t, "restore") EXCEPT !.snap = s], FALSE)
    /\ UNCHANGED <<providerVars, registryVars, pricer, envVars, historyVars>>

(* restoreFromStore keeps the entries of the connection's base URL.          *)
RestoreAllowed_Ahead(t) ==
    /\ task[t].snap # NoCatalog
    /\ UrlOf[task[t].snap.conn] = UrlOf[task[t].conn]
RestoreAllowed(t) ==
    /\ ~ahead
    /\ task[t].snap # NoCatalog
    /\ UrlOf[task[t].snap.conn] = UrlOf[task[t].conn]

(* A call that fetches: what it still needs once its restore is behind it. *)
FetchCall_OldOverrides(kind, g, r, h, c) ==
    [NoTask EXCEPT !.kind = kind, !.pc = "fetch", !.gen = g, !.req = r,
                   !.phase = h, !.conn = c, !.ov = 0]
FetchCall(kind, g, r, h, c) ==
    [NoTask EXCEPT !.kind = kind, !.pc = "fetch", !.gen = g, !.req = r,
                   !.phase = h, !.conn = c, !.ov = ov]

(* refreshModels from the restore, or from a pending catalog it could not    *)
(* consume, to its next await: return when cache-only, offline, fresh or     *)
(* aborted by pi, else reload the overrides and fetch.                       *)
FetchUnlessFresh(t, fresh, left) ==
    \/ /\ task[t].net
       /\ ~Offline
       /\ task[t].force \/ ~fresh
       /\ Proceed(t, FetchCall("refresh", task[t].gen, task[t].req, task[t].phase,
                               task[t].conn), left)
    \/ EndTask(t, left)

(* The restore and what follows it up to the next await. *)
Restore(t) ==
    LET may     == MayContinue(t)
        applies == may /\ RestoreAllowed(t)
        checked == IF task[t].changed THEN 0
                   ELSE IF applies THEN task[t].snap.req ELSE lastChecked
        shown   == IF applies THEN task[t].snap ELSE models
    IN  /\ task[t].pc = "restore"
        /\ models' = shown
        /\ live' = (live /\ ~applies)
        /\ lastChecked' = IF may THEN checked ELSE lastChecked
        /\ pending' = IF may /\ task[t].net /\ pending.expired /\ pending.gen = gen
                      THEN NoPending ELSE pending
        /\ IF ~may
           THEN EndTask(t, FALSE)
           ELSE IF task[t].net /\ PendingMatches(t)
                THEN Enqueue(t, [At(t, "consume") EXCEPT !.snap = LoginCatalog(t),
                                                         !.changed = FALSE])
                ELSE FetchUnlessFresh(t, IsFresh(checked, shown), FALSE)
        /\ UNCHANGED <<gen, shut, nextReq, latestReq, scopedStore, ahead, lastConn,
                       registryVars, pricer, envVars, historyVars>>

-----------------------------------------------------------------------------
(* Consuming the catalog of a validated login *)

(* The pending catalog is still the one this refresh matched, for this refresh. *)
StillConsumes(t) ==
    /\ MayContinue(t)
    /\ pending.nonce = task[t].nonce

(* The refresh leaves the commit body without having consumed anything. *)
NotConsumed(t) ==
    IF MayContinue(t)
    THEN FetchUnlessFresh(t, IsFresh(lastChecked, models), TRUE)
    ELSE EndTask(t, TRUE)

ConsumeBegin_Takes(t) ==
    /\ Running(t)
    /\ task[t].pc = "consume"
    /\ IF StillConsumes(t)
       THEN Proceed(t, At(t, "consumeWrite"), FALSE) /\ pending' = NoPending
       ELSE NotConsumed(t) /\ UNCHANGED pending
    /\ UNCHANGED <<gen, shut, nextReq, latestReq, scopedStore, ahead, lastConn,
                   lastChecked, models, live, registryVars, pricer, envVars,
                   historyVars>>
ConsumeBegin(t) ==
    /\ Running(t)
    /\ task[t].pc = "consume"
    /\ IF StillConsumes(t)
       THEN Proceed(t, At(t, "consumeWrite"), FALSE)
       ELSE NotConsumed(t)
    /\ UNCHANGED <<providerVars, registryVars, pricer, envVars, historyVars>>

(* store.commit without an update: it answers whether the entry persisted. *)
ConsumeWrite(t) ==
    /\ Running(t)
    /\ task[t].pc = "consumeWrite"
    /\ \E res \in {"ok", "refused", "failed"} :
          /\ res = "ok" => HandleCurrent(task[t].phase)
          /\ res = "refused" => ~HandleCurrent(task[t].phase)
          /\ stored' = IF res = "ok" THEN task[t].snap ELSE stored
          /\ Proceed(t, [At(t, "consumeEnd") EXCEPT !.res = res], FALSE)
    /\ UNCHANGED <<providerVars, registryVars, pricer, cred, nextNonce, phase, ov,
                   freshSince, historyVars>>

(* Publish the login catalog, persisted or not, then go on to persist its base *)
(* URL in the registry, in a commit body of its own.                           *)
ConsumeEnd(t) ==
    LET persisted == task[t].res = "ok" /\ HandleCurrent(task[t].phase)
        url       == UrlOf[task[t].snap.conn]
    IN  /\ Running(t)
        /\ task[t].pc = "consumeEnd"
        /\ IF StillConsumes(t)
           THEN /\ pending' = NoPending
                /\ ahead' = ~persisted
                /\ models' = task[t].snap
                /\ live' = TRUE
                /\ instUrl' = url
                /\ lastConn' = task[t].snap.conn
                /\ lastChecked' = IF persisted THEN task[t].req ELSE lastChecked
                /\ lastPub' = task[t].req
                /\ pendingUrl' = url
                /\ task' = [task EXCEPT ![t] = [At(t, "persist") EXCEPT
                               !.tail = TRUE, !.net = FALSE, !.force = FALSE,
                               !.nonce = 0, !.res = "ok", !.snap = NoCatalog]]
                /\ chain' = Append(Tail(chain), t)
                /\ sd' = SdWithout(t, TRUE, FALSE)
           ELSE /\ NotConsumed(t)
                /\ UNCHANGED <<pending, ahead, models, live, instUrl, lastConn,
                               lastChecked, lastPub, pendingUrl>>
        /\ UNCHANGED <<gen, shut, nextReq, latestReq, scopedStore, persistedUrl,
                       registry, foreign, pricer, envVars, floor>>

-----------------------------------------------------------------------------
(* fetchCatalog, shared by refreshes, logins and the endpoint commands *)

(* schedulePricingSync: a background sync of this catalog's prices. *)
StartPricing(cat) ==
    IF \E p \in Pricers : pricer[p].pc = "idle"
    THEN \E p \in Pricers :
            /\ pricer[p].pc = "idle"
            /\ pricer' = [pricer EXCEPT ![p] = [pc |-> "sync", gen |-> gen, cat |-> cat]]
    ELSE UNCHANGED pricer

(* The models arrived.  A changed lifecycle aborts; otherwise the prices are   *)
(* synced in the background and a refresh that is still the latest commits.    *)
FetchDone(t) ==
    /\ task[t].pc = "fetch"
    /\ task[t].kind # "login"
    /\ IF ~LifecycleMatches(task[t].gen)
       THEN EndTask(t, FALSE) /\ UNCHANGED pricer
       ELSE /\ StartPricing([NoCatalog EXCEPT !.src = "fetch", !.n = task[t].req])
            /\ IF task[t].kind = "refresh" /\ task[t].req # latestReq
               THEN EndTask(t, FALSE)
               ELSE Enqueue(t, At(t, "commit"))
    /\ UNCHANGED <<providerVars, registryVars, envVars, historyVars>>

(* A network error, a timeout, an abort, or an unreadable override file. *)
FetchFail(t) ==
    /\ task[t].pc = "fetch"
    /\ task[t].kind # "login"
    /\ EndTask(t, FALSE)
    /\ UNCHANGED <<providerVars, registryVars, pricer, envVars, historyVars>>

-----------------------------------------------------------------------------
(* commitAndPublish *)

(* The checks made before the write and made again before publishing. *)
MayPublish_NotLatest(t) ==
    LifecycleMatches(task[t].gen) /\ ConnectionStillMatches(task[t].conn)
MayPublish(t) == MayContinue(t) /\ ConnectionStillMatches(task[t].conn)

CommitBegin(t) ==
    /\ Running(t)
    /\ task[t].pc = "commit"
    /\ \/ MayPublish(t) /\ Proceed(t, At(t, "commitWrite"), FALSE)
       \* not the latest, or the caller's signal is aborted (pi's, for a refresh)
       \/ /\ ~MayPublish(t) \/ task[t].kind = "refresh"
          /\ EndTask(t, TRUE)
    /\ UNCHANGED <<providerVars, registryVars, pricer, envVars, historyVars>>

CommitWrite_KeepsTurn(t) ==
    /\ Running(t)
    /\ task[t].pc = "commitWrite"
    /\ \/ /\ HandleCurrent(task[t].phase)
          /\ stored' = Fetched(t)
          /\ Proceed(t, [At(t, "commitApply") EXCEPT !.res = "ok"], FALSE)
       \/ /\ ~HandleCurrent(task[t].phase)
          /\ stored' = stored
          /\ Proceed(t, [At(t, "commitApply") EXCEPT !.res = "refused"], FALSE)
       \/ \* the write throws
          stored' = stored /\ EndTask(t, FALSE)
    /\ UNCHANGED <<providerVars, registryVars, pricer, cred, nextNonce, phase, ov,
                   freshSince, historyVars>>
CommitWrite(t) ==
    /\ Running(t)
    /\ task[t].pc = "commitWrite"
    /\ \/ /\ HandleCurrent(task[t].phase)
          /\ stored' = Fetched(t)
          /\ Proceed(t, [At(t, "commitApply") EXCEPT !.res = "ok"], FALSE)
       \/ /\ ~HandleCurrent(task[t].phase)
          /\ stored' = stored
          /\ Proceed(t, [At(t, "commitApply") EXCEPT !.res = "refused"], FALSE)
       \/ \* the write throws
          stored' = stored /\ EndTask(t, TRUE)
    /\ UNCHANGED <<providerVars, registryVars, pricer, cred, nextNonce, phase, ov,
                   freshSince, historyVars>>

(* publishFetched: in the store's transaction, or in memory when pi refused it. *)
CommitApply(t) ==
    LET persisted == task[t].res = "ok" /\ HandleCurrent(task[t].phase)
    IN  /\ Running(t)
        /\ task[t].pc = "commitApply"
        /\ \/ /\ MayPublish(t)
              /\ ahead' = ~persisted
              /\ models' = Fetched(t)
              /\ live' = TRUE
              /\ lastConn' = IF task[t].kind = "refresh" THEN task[t].conn ELSE lastConn
              /\ lastChecked' = IF persisted THEN task[t].req ELSE lastChecked
              /\ lastPub' = task[t].req
           \/ /\ ~MayPublish(t) \/ task[t].kind = "refresh"
              /\ UNCHANGED <<ahead, models, live, lastConn, lastChecked, lastPub>>
        /\ EndTask(t, TRUE)
        /\ UNCHANGED <<gen, shut, nextReq, latestReq, pending, scopedStore,
                       registryVars, pricer, envVars, floor>>

-----------------------------------------------------------------------------
(* startBackgroundRefresh and refreshEndpointForeground *)

(* A refresh of the provider's own: it commits through the handle pi gave to   *)
(* the last refreshModels call.                                                *)
OwnRefresh(t, kind) ==
    Proceed(t, FetchCall(kind, gen, nextReq, scopedStore, lastConn), FALSE)

BackgroundStart(t, force) ==
    /\ task[t].kind = "idle"
    /\ ~shut /\ ~Offline
    /\ scopedStore # 0 /\ lastConn # NoConn
    /\ force \/ ~IsFresh(lastChecked, models)
    /\ nextReq <= MaxReq
    /\ nextReq' = nextReq + 1
    /\ latestReq' = nextReq
    /\ OwnRefresh(t, "background")
    /\ UNCHANGED <<gen, shut, pending, scopedStore, ahead, lastConn, lastChecked,
                   models, live, registryVars, pricer, envVars, historyVars>>

(* The request identity is taken before any early return. *)
ForegroundStart_Unready(t) ==
    /\ task[t].kind = "idle"
    /\ nextReq <= MaxReq
    /\ nextReq' = nextReq + 1
    /\ latestReq' = nextReq
    /\ floor' = ov
    /\ IF Offline \/ shut
       THEN UNCHANGED <<task, chain, sd>>
       ELSE OwnRefresh(t, "foreground")
    /\ UNCHANGED <<gen, shut, pending, scopedStore, ahead, lastConn, lastChecked,
                   models, live, registryVars, pricer, envVars, lastPub>>
ForegroundStart(t) ==
    /\ task[t].kind = "idle"
    /\ nextReq <= MaxReq
    /\ nextReq' = nextReq + 1
    /\ latestReq' = nextReq
    /\ floor' = ov
    /\ IF Offline \/ shut \/ scopedStore = 0 \/ lastConn = NoConn
       THEN UNCHANGED <<task, chain, sd>>
       ELSE OwnRefresh(t, "foreground")
    /\ UNCHANGED <<gen, shut, pending, scopedStore, ahead, lastConn, lastChecked,
                   models, live, registryVars, pricer, envVars, lastPub>>

-----------------------------------------------------------------------------
(* login *)

LoginStart(t) ==
    /\ task[t].kind = "idle"
    /\ \A u \in Tasks : task[u].kind # "login"     \* pi shows one login dialog
    /\ ~shut
    /\ nextNonce <= MaxNonce
    /\ pending' = NoPending
    /\ Proceed(t, [NoTask EXCEPT !.kind = "login", !.pc = "prompt", !.gen = gen], FALSE)
    /\ UNCHANGED <<gen, shut, nextReq, latestReq, scopedStore, ahead, lastConn,
                   lastChecked, models, live, registryVars, pricer, envVars,
                   historyVars>>

(* The user answers the prompts, or cancels them; a changed lifecycle aborts. *)
LoginAnswer(t) ==
    /\ task[t].pc = "prompt"
    /\ \/ /\ LifecycleMatches(task[t].gen)
          /\ \E c \in Conns :
                Proceed(t, [At(t, "fetch") EXCEPT !.conn = c, !.ov = ov], FALSE)
       \/ EndTask(t, FALSE)
    /\ UNCHANGED <<providerVars, registryVars, pricer, envVars, historyVars>>

(* The gateway validated the connection: its catalog waits for the refresh that *)
(* pi makes with the credential returned.                                       *)
LoginFetched(t) ==
    /\ task[t].pc = "fetch"
    /\ task[t].kind = "login"
    /\ LifecycleMatches(task[t].gen)
    /\ pending' = [nonce |-> nextNonce, conn |-> task[t].conn, ov |-> task[t].ov,
                   gen |-> gen, expired |-> FALSE]
    /\ nextNonce' = nextNonce + 1
    /\ StartPricing([NoCatalog EXCEPT !.src = "login", !.n = nextNonce])
    /\ Proceed(t, [At(t, "returned") EXCEPT !.nonce = nextNonce], FALSE)
    /\ UNCHANGED <<gen, shut, nextReq, latestReq, scopedStore, ahead, lastConn,
                   lastChecked, models, live, registryVars, cred, phase, stored, ov,
                   freshSince, historyVars>>

(* The gateway refused and the user is asked again, or the login gives up or is *)
(* aborted.                                                                     *)
LoginFetchFail(t) ==
    /\ task[t].pc = "fetch"
    /\ task[t].kind = "login"
    /\ \/ Proceed(t, At(t, "prompt"), FALSE) /\ UNCHANGED pending
       \/ EndTask(t, FALSE) /\ pending' = NoPending
    /\ UNCHANGED <<gen, shut, nextReq, latestReq, scopedStore, ahead, lastConn,
                   lastChecked, models, live, registryVars, pricer, envVars,
                   historyVars>>

(* pi writes the credential login returned to auth.json. *)
PiStoresCredential(t) ==
    /\ task[t].pc = "returned"
    /\ cred' = [conn |-> task[t].conn, nonce |-> task[t].nonce]
    /\ EndTask(t, FALSE)
    /\ UNCHANGED <<providerVars, registryVars, pricer, nextNonce, phase, stored, ov,
                   freshSince, historyVars>>

-----------------------------------------------------------------------------
(* schedulePricingSync's background task *)

EndPricer(p, left) ==
    /\ pricer' = [pricer EXCEPT ![p] = NoPricer]
    /\ chain' = IF left THEN Tail(chain) ELSE chain
    /\ sd' = SdWithout(p, left, TRUE)
    /\ UNCHANGED task

(* The catalog on display is the very object pricer p is pricing. *)
Displays(p) == /\ live
               /\ models.src = pricer[p].cat.src
               /\ models.n = pricer[p].cat.n

(* refreshModelPricing settled: the prices are patched in a commit body. *)
PriceSynced_Unqueued(p) ==
    /\ pricer[p].pc = "sync"
    /\ pricer' = [pricer EXCEPT ![p].pc = "priceWrite", ![p].cat = models]
    /\ UNCHANGED <<task, chain, sd>>
    /\ UNCHANGED <<providerVars, registryVars, envVars, historyVars>>
PriceSynced(p) ==
    /\ pricer[p].pc = "sync"
    /\ pricer' = [pricer EXCEPT ![p].pc = "price"]
    /\ chain' = Append(chain, p)
    /\ UNCHANGED <<task, sd>>
    /\ UNCHANGED <<providerVars, registryVars, envVars, historyVars>>

PriceAborted(p) ==
    /\ pricer[p].pc = "sync"
    /\ EndPricer(p, FALSE)
    /\ UNCHANGED <<providerVars, registryVars, envVars, historyVars>>

(* The priced catalog is rewritten only when it is the one displayed and still  *)
(* belongs to the latest request and to the latest store handle.                *)
Rewrites(p) ==
    /\ LifecycleMatches(pricer[p].gen)
    /\ Displays(p)
    /\ models.store # 0 /\ models.store = scopedStore
    /\ models.req = latestReq

PriceBegin(p) ==
    /\ Running(p)
    /\ pricer[p].pc = "price"
    /\ IF Rewrites(p)
       THEN /\ pricer' = [pricer EXCEPT ![p].pc = "priceWrite", ![p].cat = models]
            /\ UNCHANGED <<task, chain, sd>>
       ELSE EndPricer(p, TRUE)
    /\ UNCHANGED <<providerVars, registryVars, envVars, historyVars>>

PriceWrite(p) ==
    /\ Running(p)
    /\ pricer[p].pc = "priceWrite"
    /\ \/ /\ HandleCurrent(pricer[p].cat.store)
          /\ stored' = pricer[p].cat
          /\ pricer' = [pricer EXCEPT ![p].pc = "priceEnd"]
          /\ UNCHANGED <<task, chain, sd, ahead>>
       \/ /\ ~HandleCurrent(pricer[p].cat.store)
          /\ ahead' = TRUE
          /\ EndPricer(p, TRUE)
          /\ UNCHANGED stored
       \/ \* the write throws
          EndPricer(p, TRUE) /\ UNCHANGED <<stored, ahead>>
    /\ UNCHANGED <<gen, shut, nextReq, latestReq, pending, scopedStore, lastConn,
                   lastChecked, models, live, registryVars, cred, nextNonce, phase,
                   ov, freshSince, historyVars>>

(* pi answers false when it superseded the handle after the write. *)
PriceEnd(p) ==
    /\ Running(p)
    /\ pricer[p].pc = "priceEnd"
    /\ ahead' = (ahead \/ ~HandleCurrent(pricer[p].cat.store))
    /\ EndPricer(p, TRUE)
    /\ UNCHANGED <<gen, shut, nextReq, latestReq, pending, scopedStore, lastConn,
                   lastChecked, models, live, registryVars, envVars, historyVars>>

-----------------------------------------------------------------------------
(* shutdown and beginSession *)

(* shutdown awaits the tracked tasks and the commit chain as it is now. *)
Tracked == {t \in Tasks : task[t].kind \in {"background", "foreground"}}
              \cup {p \in Pricers : pricer[p].pc # "idle"}
Queued_None == {}
Queued == {chain[i] : i \in DOMAIN chain}

ShutdownStart ==
    /\ sd = NoShutdown
    /\ gen < MaxGen
    /\ shut' = TRUE
    /\ gen' = gen + 1
    /\ pending' = NoPending
    /\ sd' = [gen |-> gen + 1, owners |-> Tracked, queued |-> Queued]
    /\ UNCHANGED <<nextReq, latestReq, scopedStore, ahead, lastConn, lastChecked,
                   models, live, registryVars, task, pricer, chain, envVars,
                   historyVars>>

(* Nothing is left to await; a session begun meanwhile keeps its connection. *)
ShutdownEnd ==
    LET mine == gen = sd.gen /\ shut
    IN  /\ sd # NoShutdown
        /\ sd.owners = {} /\ sd.queued = {}
        /\ sd' = NoShutdown
        /\ scopedStore' = IF mine THEN 0 ELSE scopedStore
        /\ lastConn' = IF mine THEN NoConn ELSE lastConn
        /\ UNCHANGED <<gen, shut, nextReq, latestReq, pending, ahead, lastChecked,
                       models, live, registryVars, task, pricer, chain, envVars,
                       historyVars>>

BeginSession ==
    /\ gen < MaxGen
    /\ gen' = gen + 1
    /\ shut' = FALSE
    /\ pending' = IF shut THEN NoPending ELSE pending
    /\ scopedStore' = IF shut THEN 0 ELSE scopedStore
    /\ ahead' = (ahead /\ ~shut)
    /\ lastConn' = IF shut THEN NoConn ELSE lastConn
    /\ lastChecked' = IF shut THEN 0 ELSE lastChecked
    /\ UNCHANGED <<nextReq, latestReq, models, live, registryVars, flightVars,
                   envVars, historyVars>>

-----------------------------------------------------------------------------
(* The user, the clock and other pi processes *)

(* The override file is edited, by /endpoint or by hand. *)
OverrideEdit ==
    /\ ov < MaxOv
    /\ ov' = ov + 1
    /\ UNCHANGED <<providerVars, registryVars, flightVars, cred, nextNonce, phase,
                   stored, freshSince, historyVars>>

(* Another process logs this instance in again: its entry ... *)
OtherReplaces(u) ==
    /\ Others /\ ~foreign
    /\ u # registry
    /\ registry' = u
    /\ foreign' = TRUE
    /\ UNCHANGED <<providerVars, pendingUrl, instUrl, persistedUrl, flightVars,
                   envVars, historyVars>>

(* ... and its credential. *)
OtherLogsIn(c) ==
    /\ Others
    /\ c # cred.conn
    /\ cred' = [conn |-> c, nonce |-> 0]
    /\ UNCHANGED <<providerVars, registryVars, flightVars, nextNonce, phase, stored,
                   ov, freshSince, historyVars>>

(* More than CATALOG_BACKGROUND_REFRESH_MS passes. *)
TimePasses ==
    /\ freshSince < nextReq
    /\ freshSince' = nextReq
    /\ UNCHANGED <<providerVars, registryVars, flightVars, cred, nextNonce, phase,
                   stored, ov, historyVars>>

(* More than PENDING_TTL_MS passes after a login. *)
PendingExpires ==
    /\ pending # NoPending /\ ~pending.expired
    /\ pending' = [pending EXCEPT !.expired = TRUE]
    /\ UNCHANGED <<gen, shut, nextReq, latestReq, scopedStore, ahead, lastConn,
                   lastChecked, models, live, registryVars, flightVars, envVars,
                   historyVars>>

-----------------------------------------------------------------------------
(* What the event loop runs on by itself ... *)
TaskStep(t) ==
    \/ PersistBegin(t) \/ PersistWrite(t) \/ PersistEnd(t)
    \/ LegacyRead(t) \/ Restore(t)
    \/ ConsumeBegin(t) \/ ConsumeWrite(t) \/ ConsumeEnd(t)
    \/ FetchDone(t) \/ FetchFail(t)
    \/ CommitBegin(t) \/ CommitWrite(t) \/ CommitApply(t)
    \/ LoginFetched(t) \/ LoginFetchFail(t)
    \/ PiStoresCredential(t)

PricerStep(p) ==
    \/ PriceSynced(p) \/ PriceAborted(p)
    \/ PriceBegin(p) \/ PriceWrite(p) \/ PriceEnd(p)

(* ... and what pi, the user and the environment start. *)
CallStep(t) ==
    \/ \E net \in BOOLEAN, force \in BOOLEAN : RefreshStart(t, net, force)
    \/ \E force \in BOOLEAN : BackgroundStart(t, force)
    \/ ForegroundStart(t)
    \/ LoginStart(t) \/ LoginAnswer(t)

EnvironmentStep ==
    \/ ShutdownStart \/ BeginSession
    \/ OverrideEdit \/ TimePasses \/ PendingExpires
    \/ \E u \in Urls \cup {NoUrl} : OtherReplaces(u)
    \/ \E c \in Conns : OtherLogsIn(c)

Next ==
    \/ \E t \in Tasks : TaskStep(t) \/ CallStep(t)
    \/ \E p \in Pricers : PricerStep(p)
    \/ ShutdownEnd
    \/ EnvironmentStep

(* A promise that can settle settles: requests time out, file operations return *)
(* and continuations run.  Nobody is obliged to answer a prompt.                *)
Fairness ==
    /\ \A t \in Tasks : WF_vars(TaskStep(t))
    /\ \A p \in Pricers : WF_vars(PricerStep(p))
    /\ WF_vars(ShutdownEnd)

Spec == Init /\ [][Next]_vars /\ Fairness

-----------------------------------------------------------------------------
(* Types *)

Catalogs == [src : {"none", "seed", "fetch", "login"}, n : Nat, req : Nat,
             conn : Conns \cup {NoConn}, ov : Nat, store : Nat]

TaskPcs == {"idle", "persist", "persistWrite", "persistEnd", "read", "restore",
            "consume", "consumeWrite", "consumeEnd", "fetch", "commit",
            "commitWrite", "commitApply", "prompt", "returned"}

Results == {"ok", "stale", "failed", "refused"}

TaskRecords ==
    [kind : {"idle", "refresh", "background", "foreground", "login"},
     pc : TaskPcs,
     gen : Nat, req : Nat, phase : Nat, conn : Conns \cup {NoConn}, nonce : Nat,
     net : BOOLEAN, force : BOOLEAN, changed : BOOLEAN, snap : Catalogs,
     ov : Nat, res : Results, tail : BOOLEAN]

PricerRecords == [pc : {"idle", "sync", "price", "priceWrite", "priceEnd"},
                  gen : Nat, cat : Catalogs]

ProviderTypeOK ==
    /\ gen \in Nat /\ shut \in BOOLEAN
    /\ nextReq \in Nat /\ latestReq \in Nat
    /\ pending \in [nonce : Nat, conn : Conns \cup {NoConn}, ov : Nat, gen : Nat,
                    expired : BOOLEAN]
    /\ scopedStore \in Nat /\ ahead \in BOOLEAN
    /\ lastConn \in Conns \cup {NoConn} /\ lastChecked \in Nat
    /\ models \in Catalogs /\ live \in BOOLEAN

RegistryTypeOK ==
    /\ pendingUrl \in Urls \cup {NoUrl}
    /\ instUrl \in Urls
    /\ persistedUrl \in Urls
    /\ registry \in Urls \cup {NoUrl}
    /\ foreign \in BOOLEAN

(* A call past its prompts has a connection, and so has the login catalog that *)
(* a refresh consumes.                                                         *)
HasConnection(call) ==
    /\ call.pc \notin {"idle", "prompt"} => call.conn \in Conns
    /\ call.pc \in {"consume", "consumeWrite", "consumeEnd"} => call.snap.conn \in Conns

FlightTypeOK ==
    /\ task \in [Tasks -> TaskRecords]
    /\ pricer \in [Pricers -> PricerRecords]
    /\ \A t \in Tasks : HasConnection(task[t])
    /\ chain \in Seq(Tasks \cup Pricers)
    /\ sd \in [gen : Nat, owners : SUBSET (Tasks \cup Pricers),
               queued : SUBSET (Tasks \cup Pricers)]

EnvTypeOK ==
    /\ cred \in [conn : Conns, nonce : Nat]
    /\ nextNonce \in Nat /\ phase \in Nat
    /\ stored \in Catalogs
    /\ ov \in Nat /\ freshSince \in Nat
    /\ floor \in Nat /\ lastPub \in Nat

(* Every variable, and every local a suspended call carries, has its type. *)
TypeOK == ProviderTypeOK /\ RegistryTypeOK /\ FlightTypeOK /\ EnvTypeOK

-----------------------------------------------------------------------------
(* Safety *)

(* The pcs of a task, and of a pricer, inside a withCommit body. *)
BodyPcs == {"persistWrite", "persistEnd", "consumeWrite", "consumeEnd",
            "commitWrite", "commitApply", "priceWrite", "priceEnd"}

(* The commit chain is a lock: a body that is suspended at one of its awaits *)
(* is the head of the chain, so no two bodies ever interleave (withCommit).  *)
OneBodyAtATime ==
    /\ \A t \in Tasks : task[t].pc \in BodyPcs => Running(t)
    /\ \A p \in Pricers : pricer[p].pc \in BodyPcs => Running(p)

(* lastCheckedAt starts the 5-minute window only for a catalog that reached   *)
(* the disk: the gate in startBackgroundRefresh and refreshModels never skips *)
(* a fetch on account of a check whose catalog was lost.                      *)
FreshMeansStored == lastChecked <= stored.req

(* A call about to write, or that has written, is in order with the store, and *)
(* with the newest request.                                                    *)
CallInOrder(call, saved, latest) ==
    /\ call.req <= latest
    /\ call.pc \in {"persist", "persistWrite", "persistEnd", "restore"}
          => call.snap.req <= saved
    /\ call.pc \in {"consume", "consumeWrite"} => call.snap.req = call.req
    /\ call.pc \in {"commitWrite", "consumeWrite"} => saved <= call.req
    /\ call.pc \in {"commitApply", "consumeEnd"} /\ call.res = "ok" => saved = call.req

(* Why the store never goes back: a body about to write, or that has written, *)
(* carries a request at least as new as what is stored, and no request is     *)
(* newer than the latest.  A snapshot that a refresh may restore is no newer  *)
(* than the store (commitAndPublish, schedulePricingSync, refreshModels).     *)
WriteOrder ==
    /\ latestReq < nextReq
    /\ stored.req <= latestReq
    /\ FreshMeansStored
    /\ \A t \in Tasks : CallInOrder(task[t], stored.req, latestReq)
    /\ \A p \in Pricers :
          pricer[p].pc = "priceWrite" => pricer[p].cat.req \in stored.req .. latestReq

(* The commit chain does what it is there for: one body at a time, each in    *)
(* order with what is stored (withCommit).                                    *)
CommitsInTurn == OneBodyAtATime /\ WriteOrder

(* A catalog is put on display only for the connection that is current: the   *)
(* one of a login that completed during the fetch is never overwritten by the *)
(* models of the gateway or key it replaced (connectionStillMatches).         *)
PublishedConnIsCurrent ==
    [][models' # models /\ live' => models'.conn = lastConn']_vars

(* Once /endpoint has asked for a refresh, no fetched catalog mapped with the *)
(* override file of before the command is put on display                      *)
(* (runEndpointForeground takes the request identity before it returns).      *)
EndpointChangeSticks ==
    [][models' # models /\ live' /\ models'.src = "fetch"
         => models'.ov >= floor']_vars

(* An endpoint change that is on display is not undone: no catalog, those that *)
(* a login validated included, brings back the override file of before.       *)
EndpointChangeIsNotUndone ==
    [][models' # models /\ live' /\ floor > 0 /\ models.ov >= floor
         => models'.ov >= floor]_vars

(* A validated login's catalog is not lost: within a session it goes away by  *)
(* being displayed, by expiring, or by another login (pending).               *)
PendingKept ==
    [][\/ pending = NoPending \/ pending.expired \/ pending' # NoPending
       \/ gen' # gen
       \/ \E t \in Tasks : task[t].kind = "idle" /\ task'[t].kind = "login"
       \/ \E t \in Tasks : task[t].kind = "login" /\ task'[t].kind = "idle"
       \/ live' /\ models'.src = "login" /\ models'.n = pending.nonce]_vars

(* After shutdown() has returned, and until a session begins, the provider    *)
(* changes neither the catalog on display, nor pi's store, nor the registry.  *)
QuietAfterShutdown ==
    [][shut /\ shut' /\ sd = NoShutdown
         => /\ UNCHANGED <<models, stored>>
            /\ registry' # registry => foreign']_vars

(* A restore never takes the place of a newer catalog, be it safe on disk or  *)
(* only in memory (modelsAheadOfStore): the snapshot a refresh carries is     *)
(* older than the store only when the refresh is obsolete.                    *)
RestoreNotOlder ==
    [][models' # models /\ ~live' /\ (ahead \/ models.req <= stored.req)
         => models'.req >= models.req]_vars

(* persistInstanceBaseUrl reports "stale", and the refresh is dropped, only   *)
(* when somebody else wrote the registry entry.                               *)
StaleMeansForeign ==
    \A t \in Tasks : task[t].pc = "persistEnd" /\ task[t].res = "stale" => foreign

(* A catalog that a foreground refresh could only display is not held back    *)
(* from the disk: the freshness window does not skip the next refresh.        *)
MemoryOnlyIsNotFresh ==
    [][\A t \in Tasks :
         /\ task[t].kind = "foreground" /\ task[t].pc = "commitApply"
         /\ lastPub' = task[t].req /\ lastPub' # lastPub
         /\ ahead'
         => ~IsFresh(lastChecked, models)']_vars

-----------------------------------------------------------------------------
(* What the provider promises about its catalog. *)
Board == INSTANCE CatalogBoard WITH
            issued <- latestReq, shown <- lastPub, saved <- stored.req, open <- ~shut

(* The newest request wins, whatever the order answers arrive in; nothing is  *)
(* displayed after shutdown; the store never goes back to an older request.   *)
ImplementsBoard == Board!Spec

-----------------------------------------------------------------------------
(* Liveness *)

(* shutdown() returns: it cannot wait for ever for a tracked task, nor for a  *)
(* commit body that waits for another (the chain has no deadlock).            *)
ShutdownReturns == sd # NoShutdown ~> sd = NoShutdown

(* Whoever waits in the commit chain gets its turn and leaves it. *)
EveryCommitLeaves ==
    \A o \in Tasks \cup Pricers :
        (\E i \in DOMAIN chain : chain[i] = o)
            ~> ~(\E i \in DOMAIN chain : chain[i] = o)

(* Nobody waits for ever for a commit: ShutdownReturns and EveryCommitLeaves. *)
CommitsEnd == ShutdownReturns /\ EveryCommitLeaves
=============================================================================
