------------------------ MODULE CompatProviderProofs ------------------------
(***************************************************************************)
(* Proofs about CompatProvider, for every number of calls in flight, of    *)
(* connections and of requests, and for both storage contracts.            *)
(***************************************************************************)
EXTENDS CompatProvider, TLAPS

Owners == Tasks \cup Pricers

-----------------------------------------------------------------------------
(* Typing of the operators that move calls along *)

(* The records the model starts from are of their types. *)
LEMMA ConstantsTyped ==
    /\ NoCatalog \in Catalogs
    /\ NoTask \in TaskRecords
    /\ HasConnection(NoTask)
    /\ NoPricer \in PricerRecords
    /\ NoShutdown \in [gen : Nat, owners : SUBSET Owners, queued : SUBSET Owners]
BY DEF NoCatalog, Catalogs, NoTask, TaskRecords, TaskPcs, Results, HasConnection,
       NoPricer, PricerRecords, NoShutdown

(* A typed call and the locals the invariants speak of. *)
IsCall(call, kind, pc, req, conn, snap, res) ==
    /\ call \in TaskRecords
    /\ call.kind = kind /\ call.pc = pc /\ call.req = req
    /\ call.conn = conn /\ call.snap = snap /\ call.res = res

(* What a call is after one of its locals was assigned. *)
LEMMA CallUpdates ==
    ASSUME NEW call \in TaskRecords
    PROVE  /\ \A pc \in TaskPcs :
                 IsCall([call EXCEPT !.pc = pc],
                        call.kind, pc, call.req, call.conn, call.snap, call.res)
           /\ \A res \in Results :
                 IsCall([call EXCEPT !.res = res],
                        call.kind, call.pc, call.req, call.conn, call.snap, res)
           /\ \A snap \in Catalogs :
                 IsCall([call EXCEPT !.snap = snap],
                        call.kind, call.pc, call.req, call.conn, snap, call.res)
           /\ \A conn \in Conns, v \in Nat :
                 IsCall([call EXCEPT !.conn = conn, !.ov = v],
                        call.kind, call.pc, call.req, conn, call.snap, call.res)
           /\ \A n \in Nat :
                 IsCall([call EXCEPT !.nonce = n],
                        call.kind, call.pc, call.req, call.conn, call.snap, call.res)
           /\ \A snap \in Catalogs :
                 IsCall([call EXCEPT !.snap = snap, !.changed = FALSE],
                        call.kind, call.pc, call.req, call.conn, snap, call.res)
           /\ \A snap \in Catalogs :
                 IsCall([call EXCEPT !.tail = TRUE, !.net = FALSE, !.force = FALSE,
                                     !.nonce = 0, !.res = "ok", !.snap = snap],
                        call.kind, call.pc, call.req, call.conn, snap, "ok")
BY ZenonT(60) DEF TaskRecords, IsCall, Results

(* The suspended calls are typed, and stay so when they move to a new await. *)
LEMMA AtTyped ==
    ASSUME FlightTypeOK, NEW t \in Tasks, NEW pc \in TaskPcs
    PROVE  /\ task[t] \in TaskRecords
           /\ IsCall(At(t, pc), task[t].kind, pc, task[t].req, task[t].conn,
                     task[t].snap, task[t].res)
           /\ \A res \in Results :
                 IsCall([At(t, pc) EXCEPT !.res = res], task[t].kind, pc, task[t].req,
                        task[t].conn, task[t].snap, res)
           /\ \A snap \in Catalogs :
                 /\ IsCall([At(t, pc) EXCEPT !.snap = snap], task[t].kind, pc,
                           task[t].req, task[t].conn, snap, task[t].res)
                 /\ IsCall([At(t, pc) EXCEPT !.snap = snap, !.changed = FALSE],
                           task[t].kind, pc, task[t].req, task[t].conn, snap,
                           task[t].res)
                 /\ IsCall([At(t, pc) EXCEPT !.tail = TRUE, !.net = FALSE,
                               !.force = FALSE, !.nonce = 0, !.res = "ok",
                               !.snap = snap],
                           task[t].kind, pc, task[t].req, task[t].conn, snap, "ok")
           /\ \A conn \in Conns, v \in Nat :
                 IsCall([At(t, pc) EXCEPT !.conn = conn, !.ov = v], task[t].kind, pc,
                        task[t].req, conn, task[t].snap, task[t].res)
           /\ \A n \in Nat :
                 IsCall([At(t, pc) EXCEPT !.nonce = n], task[t].kind, pc, task[t].req,
                        task[t].conn, task[t].snap, task[t].res)
<1>1. task[t] \in TaskRecords
  BY DEF FlightTypeOK
<1>2. IsCall(At(t, pc), task[t].kind, pc, task[t].req, task[t].conn, task[t].snap,
             task[t].res)
  BY <1>1, CallUpdates DEF At
<1> HIDE DEF At
<1>3. At(t, pc) \in TaskRecords
  BY <1>2 DEF IsCall
<1> QED
  <2> DEFINE a == At(t, pc)
  <2>1. /\ a \in TaskRecords /\ a.kind = task[t].kind /\ a.pc = pc
        /\ a.req = task[t].req /\ a.conn = task[t].conn /\ a.snap = task[t].snap
        /\ a.res = task[t].res
    BY <1>2 DEF IsCall
  <2> HIDE DEF a
  <2> QED BY <1>1, <1>2, <2>1, CallUpdates DEF a

(* A new call that starts with a fetch, and a new login. *)
LEMMA FetchCallTyped ==
    ASSUME ov \in Nat,
           NEW kind \in {"refresh", "background", "foreground"}, NEW g \in Nat,
           NEW r \in Nat, NEW h \in Nat, NEW c \in Conns
    PROVE  IsCall(FetchCall(kind, g, r, h, c), kind, "fetch", r, c, NoCatalog, "ok")
BY ConstantsTyped DEF FetchCall, IsCall, NoTask, TaskRecords, TaskPcs, Results

LEMMA RefreshCallTyped ==
    ASSUME TypeOK, NEW r \in Nat, NEW pc \in TaskPcs, NEW net \in BOOLEAN,
           NEW force \in BOOLEAN, NEW changed \in BOOLEAN
    PROVE  IsCall(RefreshCall(r, pc, net, force, changed), "refresh", pc, r, cred.conn,
                  IF Contract = "publish" THEN stored ELSE NoCatalog, "ok")
<1>1. /\ gen \in Nat /\ phase \in Nat /\ cred.conn \in Conns
      /\ cred.nonce \in Nat /\ stored \in Catalogs
  BY DEF TypeOK, ProviderTypeOK, EnvTypeOK
<1> DEFINE snap == IF Contract = "publish" THEN stored ELSE NoCatalog
<1>2. snap \in Catalogs
  BY <1>1, ConstantsTyped
<1> HIDE DEF snap
<1>3. "refresh" \in {"idle", "refresh", "background", "foreground", "login"} /\ "ok" \in Results
  BY DEF Results
<1> QED BY <1>1, <1>2, <1>3 DEF IsCall, TaskRecords, RefreshCall, snap

LEMMA LoginCallTyped ==
    ASSUME NEW g \in Nat
    PROVE  IsCall([NoTask EXCEPT !.kind = "login", !.pc = "prompt", !.gen = g],
                  "login", "prompt", 0, NoConn, NoCatalog, "ok")
BY ConstantsTyped DEF IsCall, NoTask, TaskRecords, TaskPcs, Results

(* A call with these locals may be put into the task table. *)
LEMMA CallTyped ==
    ASSUME NEW call, NEW kind, NEW pc, NEW req, NEW conn, NEW snap, NEW res,
           IsCall(call, kind, pc, req, conn, snap, res),
           pc \notin {"idle", "prompt"} => conn \in Conns,
           pc \in {"consume", "consumeWrite", "consumeEnd"} => snap.conn \in Conns
    PROVE  call \in TaskRecords /\ HasConnection(call)
BY DEF IsCall, HasConnection

(* A suspended call has a connection, unless it is prompting for one. *)
LEMMA ConnTyped ==
    ASSUME FlightTypeOK, NEW t \in Tasks, task[t].pc \notin {"idle", "prompt"}
    PROVE  /\ task[t].conn \in Conns
           /\ task[t].pc \in {"consume", "consumeWrite", "consumeEnd"}
                 => task[t].snap.conn \in Conns
           /\ ConnAssumption => UrlOf[task[t].conn] \in Urls
BY DEF FlightTypeOK, HasConnection, ConnAssumption

(* Joining and leaving the chain keeps it a sequence of owners. *)
LEMMA ChainTyped ==
    ASSUME chain \in Seq(Owners), NEW o \in Owners
    PROVE  /\ Append(chain, o) \in Seq(Owners)
           /\ chain # <<>> => Tail(chain) \in Seq(Owners)
OBVIOUS

(* An owner leaving keeps the shutdown record typed. *)
LEMMA ShutdownTyped ==
    ASSUME FlightTypeOK, NEW o, NEW left, NEW ended
    PROVE  SdWithout(o, left, ended)
              \in [gen : Nat, owners : SUBSET Owners, queued : SUBSET Owners]
BY DEF FlightTypeOK, SdWithout, Owners

(* A call that goes on with a typed record. *)
LEMMA ProceedTyped ==
    ASSUME FlightTypeOK, NEW t \in Tasks, NEW next \in TaskRecords, NEW left \in BOOLEAN,
           HasConnection(next), left => chain # <<>>,
           Proceed(t, next, left),
           pricer' = pricer \/ pricer' \in [Pricers -> PricerRecords]
    PROVE  FlightTypeOK'
<1>1. sd' \in [gen : Nat, owners : SUBSET Owners, queued : SUBSET Owners]
  BY ShutdownTyped DEF Proceed
<1>2. chain' \in Seq(Owners)
  BY ChainTyped DEF Proceed, FlightTypeOK, Owners
<1>3. task' \in [Tasks -> TaskRecords] /\ \A u \in Tasks : HasConnection(task'[u])
  BY DEF Proceed, FlightTypeOK
<1> QED BY <1>1, <1>2, <1>3 DEF FlightTypeOK, Owners, HasConnection

(* A call that waits for its turn. *)
LEMMA EnqueueTyped ==
    ASSUME FlightTypeOK, NEW t \in Tasks, NEW next \in TaskRecords, HasConnection(next),
           Enqueue(t, next), pricer' \in [Pricers -> PricerRecords]
    PROVE  FlightTypeOK'
<1>1. chain' \in Seq(Owners)
  BY ChainTyped DEF Enqueue, FlightTypeOK, Owners
<1>2. task' \in [Tasks -> TaskRecords] /\ \A u \in Tasks : HasConnection(task'[u])
  BY DEF Enqueue, FlightTypeOK
<1> QED BY <1>1, <1>2 DEF FlightTypeOK, Enqueue, Owners, HasConnection

(* A call that ends. *)
LEMMA EndTaskTyped ==
    ASSUME FlightTypeOK, NEW t \in Tasks, NEW left \in BOOLEAN, left => chain # <<>>,
           EndTask(t, left), pricer' \in [Pricers -> PricerRecords]
    PROVE  FlightTypeOK'
<1>1. sd' \in [gen : Nat, owners : SUBSET Owners, queued : SUBSET Owners]
  BY ShutdownTyped DEF EndTask
<1>2. chain' \in Seq(Owners)
  BY ChainTyped DEF EndTask, FlightTypeOK, Owners
<1>3. task' \in [Tasks -> TaskRecords] /\ \A u \in Tasks : HasConnection(task'[u])
  BY ConstantsTyped DEF EndTask, FlightTypeOK
<1> QED BY <1>1, <1>2, <1>3 DEF FlightTypeOK, Owners, HasConnection

(* A pricing sync that ends. *)
LEMMA EndPricerTyped ==
    ASSUME FlightTypeOK, NEW p \in Pricers, NEW left \in BOOLEAN, left => chain # <<>>,
           EndPricer(p, left)
    PROVE  FlightTypeOK'
<1>1. sd' \in [gen : Nat, owners : SUBSET Owners, queued : SUBSET Owners]
  BY ShutdownTyped DEF EndPricer
<1>2. chain' \in Seq(Owners)
  BY ChainTyped DEF EndPricer, FlightTypeOK, Owners
<1>3. pricer' \in [Pricers -> PricerRecords]
  BY ConstantsTyped DEF EndPricer, FlightTypeOK
<1> QED BY <1>1, <1>2, <1>3 DEF FlightTypeOK, Owners, HasConnection, EndPricer

-----------------------------------------------------------------------------
(* Each step keeps every variable typed *)

LEMMA RefreshStartTyped ==
    ASSUME TypeOK, NEW t \in Tasks, NEW net \in BOOLEAN, NEW force \in BOOLEAN,
           RefreshStart(t, net, force)
    PROVE  TypeOK'
<1> USE ConnAssumption, ContractAssumption
<1> DEFINE first == IF Contract = "legacy" THEN "read" ELSE "restore"
           changed == lastConn # NoConn /\ lastConn # cred.conn
           wanted == IF UrlOf[cred.conn] # instUrl THEN UrlOf[cred.conn] ELSE pendingUrl
           persist == wanted = UrlOf[cred.conn]
           r == IF net THEN nextReq ELSE latestReq
           call == RefreshCall(r, IF persist THEN "persist" ELSE first, net, force,
                               changed)
<1>1. UrlOf[cred.conn] \in Urls
  BY DEF TypeOK, EnvTypeOK
<1>2. r \in Nat
  BY DEF TypeOK, ProviderTypeOK
<1>3. call \in TaskRecords /\ HasConnection(call)
  <2>1. /\ gen \in Nat /\ phase + 1 \in Nat /\ cred.conn \in Conns
        /\ cred.nonce \in Nat /\ stored \in Catalogs
    BY DEF TypeOK, ProviderTypeOK, EnvTypeOK
  <2> DEFINE pc == IF persist THEN "persist" ELSE first
  <2>2. pc \in TaskPcs /\ pc \notin {"consume", "consumeWrite", "consumeEnd"}
    BY DEF TaskPcs
  <2>3. changed \in BOOLEAN
    OBVIOUS
  <2> HIDE DEF pc, r, changed
  <2>4. IsCall(RefreshCall(r, pc, net, force, changed), "refresh", pc, r, cred.conn,
               IF Contract = "publish" THEN stored ELSE NoCatalog, "ok")
    BY <1>2, <2>2, <2>3, RefreshCallTyped
  <2> QED BY <2>1, <2>2, <2>4, CallTyped DEF pc
<1>4. ProviderTypeOK'
  BY <1>1, <1>2 DEF RefreshStart, TypeOK, ProviderTypeOK, EnvTypeOK
<1>5. RegistryTypeOK'
  BY <1>1 DEF RefreshStart, TypeOK, RegistryTypeOK
<1>6. EnvTypeOK'
  BY DEF RefreshStart, TypeOK, EnvTypeOK, historyVars
<1>7. FlightTypeOK'
  <2>1. IF persist THEN Enqueue(t, call) ELSE Proceed(t, call, FALSE)
    BY DEF RefreshStart, FirstPc
  <2>2. pricer' = pricer
    BY DEF RefreshStart
  <2>3. CASE persist
    BY <1>3, <2>1, <2>2, <2>3, EnqueueTyped DEF TypeOK, FlightTypeOK
  <2>4. CASE ~persist
    BY <1>3, <2>1, <2>2, <2>4, ProceedTyped DEF TypeOK
  <2> QED BY <2>3, <2>4
<1> QED BY <1>4, <1>5, <1>6, <1>7 DEF TypeOK

LEMMA AfterPersistTyped ==
    ASSUME TypeOK, NEW t \in Tasks, NEW stale \in BOOLEAN, Running(t),
           task[t].pc \notin {"idle", "prompt"},
           AfterPersist(t, stale), UNCHANGED pricer
    PROVE  FlightTypeOK'
<1> DEFINE next == [At(t, FirstPc) EXCEPT !.res = "ok"]
<1>1. FirstPc \in {"read", "restore"} /\ FirstPc \in TaskPcs /\ "ok" \in Results
  BY DEF FirstPc, TaskPcs, Results
<1>2. IsCall(next, task[t].kind, FirstPc, task[t].req, task[t].conn, task[t].snap, "ok")
  BY <1>1, AtTyped DEF TypeOK
<1> HIDE DEF next
<1>3. next \in TaskRecords /\ HasConnection(next)
  BY <1>1, <1>2, ConnTyped, CallTyped DEF TypeOK
<1>4. chain # <<>>
  BY DEF Running
<1>5. CASE EndTask(t, TRUE)
  BY <1>4, <1>5, EndTaskTyped DEF TypeOK, FlightTypeOK
<1>6. CASE Proceed(t, next, TRUE)
  BY <1>3, <1>4, <1>6, ProceedTyped DEF TypeOK
<1> QED BY <1>5, <1>6 DEF AfterPersist, next

LEMMA PersistTyped ==
    ASSUME TypeOK, NEW t \in Tasks,
           PersistBegin(t) \/ PersistWrite(t) \/ PersistEnd(t)
    PROVE  TypeOK'
<1> USE ConnAssumption
<1>1. /\ task[t].pc \in {"persist", "persistWrite", "persistEnd"}
      /\ task[t].conn \in Conns /\ UrlOf[task[t].conn] \in Urls
  BY ConnTyped DEF PersistBegin, PersistWrite, PersistEnd, TypeOK
<1>2. CASE PersistBegin(t)
  <2>1. ProviderTypeOK' /\ RegistryTypeOK' /\ EnvTypeOK'
    BY <1>2 DEF PersistBegin, TypeOK, ProviderTypeOK, RegistryTypeOK, EnvTypeOK,
       providerVars, registryVars, envVars, historyVars
  <2>2. At(t, "persistWrite") \in TaskRecords /\ HasConnection(At(t, "persistWrite"))
    <3>1. IsCall(At(t, "persistWrite"), task[t].kind, "persistWrite", task[t].req,
                 task[t].conn, task[t].snap, task[t].res)
      BY AtTyped DEF TypeOK, TaskPcs
    <3> QED BY <1>1, <3>1, CallTyped
  <2>3. CASE Proceed(t, At(t, "persistWrite"), FALSE)
    <3>1. pricer' = pricer
      BY <1>2 DEF PersistBegin
    <3> QED BY <2>1, <2>2, <2>3, <3>1, ProceedTyped DEF TypeOK
  <2>4. CASE AfterPersist(t, FALSE)
    <3>1. pricer' = pricer /\ Running(t)
      BY <1>2 DEF PersistBegin
    <3> QED BY <1>1, <2>1, <2>4, <3>1, AfterPersistTyped DEF TypeOK
  <2> QED BY <1>2, <2>1, <2>3, <2>4 DEF PersistBegin, TypeOK
<1>3. CASE PersistWrite(t)
  <2>1. PICK res \in {"ok", "stale", "failed"} :
          /\ registry' = IF res = "ok" THEN UrlOf[task[t].conn] ELSE registry
          /\ foreign' = (foreign /\ res # "ok")
          /\ Proceed(t, [At(t, "persistEnd") EXCEPT !.res = res], FALSE)
    BY <1>3 DEF PersistWrite
  <2>2. ProviderTypeOK' /\ RegistryTypeOK' /\ EnvTypeOK'
    BY <1>1, <1>3, <2>1 DEF PersistWrite, TypeOK, ProviderTypeOK, RegistryTypeOK,
       EnvTypeOK, providerVars, envVars, historyVars
  <2> DEFINE next == [At(t, "persistEnd") EXCEPT !.res = res]
  <2>3. IsCall(next, task[t].kind, "persistEnd", task[t].req, task[t].conn,
               task[t].snap, res)
    BY AtTyped DEF TypeOK, TaskPcs, Results
  <2> HIDE DEF next
  <2>4. next \in TaskRecords /\ HasConnection(next)
    BY <1>1, <2>3, CallTyped
  <2>5. FlightTypeOK'
    BY <1>3, <2>1, <2>4, ProceedTyped DEF PersistWrite, TypeOK, next
  <2> QED BY <2>2, <2>5 DEF TypeOK
<1>4. CASE PersistEnd(t)
  <2>1. ProviderTypeOK' /\ RegistryTypeOK' /\ EnvTypeOK'
    BY <1>1, <1>4 DEF PersistEnd, TypeOK, ProviderTypeOK, RegistryTypeOK, EnvTypeOK,
       providerVars, envVars, historyVars
  <2>2. FlightTypeOK'
    BY <1>1, <1>4, AfterPersistTyped DEF PersistEnd
  <2> QED BY <2>1, <2>2 DEF TypeOK
<1> QED BY <1>2, <1>3, <1>4

LEMMA LegacyReadTyped ==
    ASSUME TypeOK, NEW t \in Tasks, LegacyRead(t)
    PROVE  TypeOK'
<1>1. PICK s \in {stored, NoCatalog} :
         Proceed(t, [At(t, "restore") EXCEPT !.snap = s], FALSE)
  BY DEF LegacyRead
<1> DEFINE next == [At(t, "restore") EXCEPT !.snap = s]
<1>2. s \in Catalogs
  BY ConstantsTyped DEF TypeOK, EnvTypeOK
<1>3. IsCall(next, task[t].kind, "restore", task[t].req, task[t].conn, s, task[t].res)
  BY <1>2, AtTyped DEF TypeOK, TaskPcs
<1> HIDE DEF next
<1>4. next \in TaskRecords /\ HasConnection(next)
  BY <1>3, ConnTyped, CallTyped DEF LegacyRead, TypeOK
<1>5. FlightTypeOK'
  BY <1>1, <1>4, ProceedTyped DEF LegacyRead, TypeOK, next
<1> QED BY <1>5 DEF LegacyRead, TypeOK, ProviderTypeOK, RegistryTypeOK, EnvTypeOK,
           providerVars, registryVars, envVars, historyVars

(* What a call does once its restore is behind it: it fetches or it ends. *)
LEMMA FetchUnlessFreshTyped ==
    ASSUME TypeOK, NEW t \in Tasks, NEW fresh, NEW left \in BOOLEAN,
           task[t].pc \notin {"idle", "prompt"}, left => chain # <<>>,
           FetchUnlessFresh(t, fresh, left), UNCHANGED pricer
    PROVE  FlightTypeOK'
<1> DEFINE next == FetchCall("refresh", task[t].gen, task[t].req, task[t].phase,
                             task[t].conn)
<1>1. /\ task[t].gen \in Nat /\ task[t].req \in Nat /\ task[t].phase \in Nat
      /\ task[t].conn \in Conns /\ ov \in Nat
  <2>1. task[t] \in TaskRecords
    BY DEF TypeOK, FlightTypeOK
  <2> QED BY <2>1, ConnTyped DEF TypeOK, EnvTypeOK, TaskRecords
<1>2. next \in TaskRecords /\ HasConnection(next)
  <2>1. IsCall(next, "refresh", "fetch", task[t].req, task[t].conn, NoCatalog, "ok")
    BY <1>1, FetchCallTyped
  <2> QED BY <1>1, <2>1, CallTyped
<1> HIDE DEF next
<1>3. CASE EndTask(t, left)
  BY <1>3, EndTaskTyped DEF TypeOK, FlightTypeOK
<1>4. CASE Proceed(t, next, left)
  BY <1>2, <1>4, ProceedTyped DEF TypeOK
<1> QED BY <1>3, <1>4 DEF FetchUnlessFresh, next

LEMMA NotConsumedTyped ==
    ASSUME TypeOK, NEW t \in Tasks, Running(t), task[t].pc \notin {"idle", "prompt"},
           NotConsumed(t), UNCHANGED pricer
    PROVE  FlightTypeOK'
<1>1. chain # <<>>
  BY DEF Running
<1>2. CASE EndTask(t, TRUE)
  BY <1>1, <1>2, EndTaskTyped DEF TypeOK, FlightTypeOK
<1>3. CASE FetchUnlessFresh(t, IsFresh(lastChecked, models), TRUE)
  BY <1>1, <1>3, FetchUnlessFreshTyped
<1> QED BY <1>2, <1>3 DEF NotConsumed

(* The catalogs that calls build. *)
LEMMA CatalogsTyped ==
    ASSUME TypeOK, NEW t \in Tasks
    PROVE  /\ Fetched(t) \in Catalogs
           /\ LoginCatalog(t) \in Catalogs
           /\ LoginCatalog(t).req = task[t].req
           /\ LoginCatalog(t).conn = pending.conn
           /\ Fetched(t).req = task[t].req
<1>1. task[t] \in TaskRecords
  BY DEF TypeOK, FlightTypeOK
<1>2. /\ task[t].req \in Nat /\ task[t].conn \in Conns \cup {NoConn}
      /\ task[t].ov \in Nat /\ task[t].phase \in Nat
  BY <1>1 DEF TaskRecords
<1>3. /\ pending.nonce \in Nat /\ pending.conn \in Conns \cup {NoConn}
      /\ pending.ov \in Nat
  BY DEF TypeOK, ProviderTypeOK
<1> QED BY <1>2, <1>3 DEF Fetched, LoginCatalog, Catalogs

LEMMA RestoreTyped ==
    ASSUME TypeOK, NEW t \in Tasks, Restore(t)
    PROVE  TypeOK'
<1>1. /\ task[t].pc = "restore" /\ task[t].snap \in Catalogs
      /\ task[t].snap.req \in Nat /\ task[t].conn \in Conns
  <2>1. task[t] \in TaskRecords /\ task[t].pc = "restore"
    BY DEF TypeOK, FlightTypeOK, Restore
  <2> QED BY <2>1, ConnTyped DEF TypeOK, TaskRecords, Catalogs
<1>2. NoPending \in [nonce : Nat, conn : Conns \cup {NoConn}, ov : Nat, gen : Nat,
                     expired : BOOLEAN]
  BY DEF NoPending
<1>3. ProviderTypeOK' /\ RegistryTypeOK' /\ EnvTypeOK'
  BY <1>1, <1>2 DEF Restore, TypeOK, ProviderTypeOK, RegistryTypeOK, EnvTypeOK,
     registryVars, envVars, historyVars
<1>4. pricer' = pricer
  BY DEF Restore
<1> DEFINE next == [At(t, "consume") EXCEPT !.snap = LoginCatalog(t),
                                            !.changed = FALSE]
<1>5. PICK fresh : \/ EndTask(t, FALSE)
                   \/ PendingMatches(t) /\ Enqueue(t, next)
                   \/ FetchUnlessFresh(t, fresh, FALSE)
  BY DEF Restore
<1>6. CASE EndTask(t, FALSE)
  BY <1>3, <1>4, <1>6, EndTaskTyped DEF TypeOK, FlightTypeOK
<1>7. CASE PendingMatches(t) /\ Enqueue(t, next)
  <2>1. pending.conn \in Conns
    BY <1>1, <1>7 DEF PendingMatches
  <2>2. IsCall(next, task[t].kind, "consume", task[t].req, task[t].conn,
               LoginCatalog(t), task[t].res)
    BY AtTyped, CatalogsTyped DEF TypeOK, TaskPcs
  <2> HIDE DEF next
  <2>3. next \in TaskRecords /\ HasConnection(next)
    BY <1>1, <2>1, <2>2, CatalogsTyped, CallTyped
  <2> QED BY <1>3, <1>4, <1>7, <2>3, EnqueueTyped DEF TypeOK, FlightTypeOK
<1>8. CASE FetchUnlessFresh(t, fresh, FALSE)
  BY <1>1, <1>3, <1>4, <1>8, FetchUnlessFreshTyped DEF TypeOK
<1> QED BY <1>5, <1>6, <1>7, <1>8

LEMMA ConsumeTyped ==
    ASSUME TypeOK, NEW t \in Tasks,
           ConsumeBegin(t) \/ ConsumeWrite(t) \/ ConsumeEnd(t)
    PROVE  TypeOK'
<1>1. /\ task[t].pc \in {"consume", "consumeWrite", "consumeEnd"} /\ Running(t)
      /\ task[t].conn \in Conns /\ task[t].snap.conn \in Conns
      /\ task[t].snap \in Catalogs /\ task[t].req \in Nat /\ chain # <<>>
  <2>1. task[t].pc \in {"consume", "consumeWrite", "consumeEnd"} /\ Running(t)
    BY DEF ConsumeBegin, ConsumeWrite, ConsumeEnd
  <2>2. task[t] \in TaskRecords
    BY DEF TypeOK, FlightTypeOK
  <2>3. task[t].snap \in Catalogs /\ task[t].req \in Nat
    BY <2>2 DEF TaskRecords
  <2> QED BY <2>1, <2>3, ConnTyped DEF TypeOK, Running
<1>2. UrlOf[task[t].snap.conn] \in Urls
  BY <1>1, ConnAssumption
<1>3. CASE ConsumeBegin(t)
  <2>1. ProviderTypeOK' /\ RegistryTypeOK' /\ EnvTypeOK' /\ pricer' = pricer
    BY <1>3 DEF ConsumeBegin, TypeOK, ProviderTypeOK, RegistryTypeOK, EnvTypeOK,
       providerVars, registryVars, envVars, historyVars
  <2>2. IsCall(At(t, "consumeWrite"), task[t].kind, "consumeWrite", task[t].req,
               task[t].conn, task[t].snap, task[t].res)
    BY AtTyped DEF TypeOK, TaskPcs
  <2>3. At(t, "consumeWrite") \in TaskRecords /\ HasConnection(At(t, "consumeWrite"))
    BY <1>1, <2>2, CallTyped
  <2>4. CASE Proceed(t, At(t, "consumeWrite"), FALSE)
    BY <2>1, <2>3, <2>4, ProceedTyped DEF TypeOK
  <2>5. CASE NotConsumed(t)
    BY <1>1, <2>1, <2>5, NotConsumedTyped DEF TypeOK
  <2> QED BY <1>3, <2>4, <2>5 DEF ConsumeBegin
<1>4. CASE ConsumeWrite(t)
  <2>1. PICK res \in {"ok", "refused", "failed"} :
           /\ stored' = IF res = "ok" THEN task[t].snap ELSE stored
           /\ Proceed(t, [At(t, "consumeEnd") EXCEPT !.res = res], FALSE)
    BY <1>4 DEF ConsumeWrite
  <2>2. ProviderTypeOK' /\ RegistryTypeOK' /\ EnvTypeOK' /\ pricer' = pricer
    BY <1>1, <1>4, <2>1 DEF ConsumeWrite, TypeOK, ProviderTypeOK, RegistryTypeOK,
       EnvTypeOK, providerVars, registryVars, historyVars
  <2> DEFINE next == [At(t, "consumeEnd") EXCEPT !.res = res]
  <2>3. IsCall(next, task[t].kind, "consumeEnd", task[t].req, task[t].conn,
               task[t].snap, res)
    BY AtTyped DEF TypeOK, TaskPcs, Results
  <2> HIDE DEF next
  <2>4. next \in TaskRecords /\ HasConnection(next)
    BY <1>1, <2>3, CallTyped
  <2> QED BY <2>1, <2>2, <2>4, ProceedTyped DEF TypeOK, next
<1>5. CASE ConsumeEnd(t)
  <2>1. ProviderTypeOK' /\ RegistryTypeOK' /\ EnvTypeOK' /\ pricer' = pricer
    <3> DEFINE persisted == task[t].res = "ok" /\ HandleCurrent(task[t].phase)
    <3>1. persisted \in BOOLEAN
      OBVIOUS
    <3> HIDE DEF persisted
    <3>2. CASE StillConsumes(t)
      <4>1. /\ pending' = NoPending /\ ahead' = ~persisted /\ live' = TRUE
            /\ models' = task[t].snap /\ lastConn' = task[t].snap.conn
            /\ lastChecked' = IF persisted THEN task[t].req ELSE lastChecked
            /\ lastPub' = task[t].req
            /\ instUrl' = UrlOf[task[t].snap.conn]
            /\ pendingUrl' = UrlOf[task[t].snap.conn]
        BY <1>5, <3>2 DEF ConsumeEnd, persisted
      <4> QED BY <1>1, <1>2, <1>5, <3>1, <4>1 DEF ConsumeEnd, TypeOK, ProviderTypeOK,
              RegistryTypeOK, EnvTypeOK, envVars, NoPending
    <3>3. CASE ~StillConsumes(t)
      BY <1>5, <3>3 DEF ConsumeEnd, TypeOK, ProviderTypeOK, RegistryTypeOK,
         EnvTypeOK, envVars
    <3> QED BY <3>2, <3>3
  <2> DEFINE next == [At(t, "persist") EXCEPT !.tail = TRUE, !.net = FALSE,
                         !.force = FALSE, !.nonce = 0, !.res = "ok",
                         !.snap = NoCatalog]
  <2>2. IsCall(next, task[t].kind, "persist", task[t].req, task[t].conn, NoCatalog,
               "ok")
    BY AtTyped, ConstantsTyped DEF TypeOK, TaskPcs
  <2> HIDE DEF next
  <2>3. next \in TaskRecords /\ HasConnection(next)
    BY <1>1, <2>2, CallTyped
  <2>4. CASE StillConsumes(t)
    <3>1. /\ task' = [task EXCEPT ![t] = next]
          /\ chain' = Append(Tail(chain), t)
          /\ sd' = SdWithout(t, TRUE, FALSE)
      BY <1>5, <2>4 DEF ConsumeEnd, next
    <3>2. chain' \in Seq(Owners)
      BY <1>1, <3>1 DEF TypeOK, FlightTypeOK, Owners
    <3>3. sd' \in [gen : Nat, owners : SUBSET Owners, queued : SUBSET Owners]
      BY <3>1, ShutdownTyped DEF TypeOK
    <3>4. task' \in [Tasks -> TaskRecords] /\ \A u \in Tasks : HasConnection(task'[u])
      BY <2>3, <3>1 DEF TypeOK, FlightTypeOK
    <3> QED BY <2>1, <3>2, <3>3, <3>4 DEF TypeOK, FlightTypeOK, Owners, HasConnection
  <2>5. CASE ~StillConsumes(t)
    BY <1>1, <1>5, <2>1, <2>5, NotConsumedTyped DEF ConsumeEnd, TypeOK
  <2> QED BY <2>4, <2>5
<1> QED BY <1>3, <1>4, <1>5

(* A background pricing sync has a slot of its own. *)
LEMMA StartPricingTyped ==
    ASSUME TypeOK, NEW cat \in Catalogs, StartPricing(cat)
    PROVE  pricer' \in [Pricers -> PricerRecords]
<1>1. pricer \in [Pricers -> PricerRecords] /\ gen \in Nat
  BY DEF TypeOK, ProviderTypeOK, FlightTypeOK
<1>2. [pc |-> "sync", gen |-> gen, cat |-> cat] \in PricerRecords
  BY <1>1 DEF PricerRecords
<1> QED BY <1>1, <1>2 DEF StartPricing

LEMMA FetchTyped ==
    ASSUME TypeOK, NEW t \in Tasks, FetchDone(t) \/ FetchFail(t)
    PROVE  TypeOK'
<1>1. task[t].pc = "fetch" /\ task[t].conn \in Conns /\ task[t].req \in Nat
  <2>1. task[t].pc = "fetch" /\ task[t] \in TaskRecords
    BY DEF FetchDone, FetchFail, TypeOK, FlightTypeOK
  <2> QED BY <2>1, ConnTyped DEF TypeOK, TaskRecords
<1>2. ProviderTypeOK' /\ RegistryTypeOK' /\ EnvTypeOK'
  BY DEF FetchDone, FetchFail, TypeOK, ProviderTypeOK, RegistryTypeOK, EnvTypeOK,
     providerVars, registryVars, envVars, historyVars
<1>3. pricer' \in [Pricers -> PricerRecords]
  <2> DEFINE cat == [NoCatalog EXCEPT !.src = "fetch", !.n = task[t].req]
  <2>1. cat \in Catalogs
    BY <1>1, ConstantsTyped DEF Catalogs
  <2> HIDE DEF cat
  <2>2. pricer' = pricer \/ StartPricing(cat)
    BY DEF FetchDone, FetchFail, cat
  <2> QED BY <2>1, <2>2, StartPricingTyped DEF TypeOK, FlightTypeOK
<1>4. CASE EndTask(t, FALSE)
  BY <1>2, <1>3, <1>4, EndTaskTyped DEF TypeOK
<1>5. CASE Enqueue(t, At(t, "commit"))
  <2>1. IsCall(At(t, "commit"), task[t].kind, "commit", task[t].req, task[t].conn,
               task[t].snap, task[t].res)
    BY AtTyped DEF TypeOK, TaskPcs
  <2>2. At(t, "commit") \in TaskRecords /\ HasConnection(At(t, "commit"))
    BY <1>1, <2>1, CallTyped
  <2> QED BY <1>2, <1>3, <1>5, <2>2, EnqueueTyped DEF TypeOK
<1> QED BY <1>4, <1>5 DEF FetchDone, FetchFail

LEMMA CommitTyped ==
    ASSUME TypeOK, NEW t \in Tasks,
           CommitBegin(t) \/ CommitWrite(t) \/ CommitApply(t)
    PROVE  TypeOK'
<1>1. /\ task[t].pc \in {"commit", "commitWrite", "commitApply"} /\ Running(t)
      /\ task[t].conn \in Conns /\ task[t].req \in Nat /\ chain # <<>>
  <2>1. task[t].pc \in {"commit", "commitWrite", "commitApply"} /\ Running(t)
    BY DEF CommitBegin, CommitWrite, CommitApply
  <2>2. task[t] \in TaskRecords
    BY DEF TypeOK, FlightTypeOK
  <2> QED BY <2>1, <2>2, ConnTyped DEF TypeOK, Running, TaskRecords
<1>2. RegistryTypeOK' /\ pricer' = pricer
  BY DEF CommitBegin, CommitWrite, CommitApply, TypeOK, RegistryTypeOK, registryVars
<1>3. ProviderTypeOK' /\ EnvTypeOK'
  <2>1. CASE CommitBegin(t)
    BY <2>1 DEF CommitBegin, TypeOK, ProviderTypeOK, EnvTypeOK, providerVars, envVars,
       historyVars
  <2>2. CASE CommitWrite(t)
    BY <2>2, CatalogsTyped DEF CommitWrite, TypeOK, ProviderTypeOK, EnvTypeOK,
       providerVars, historyVars
  <2>3. CASE CommitApply(t)
    <3> DEFINE persisted == task[t].res = "ok" /\ HandleCurrent(task[t].phase)
    <3>1. persisted \in BOOLEAN
      OBVIOUS
    <3> HIDE DEF persisted
    <3>2. \/ /\ ahead' = ~persisted /\ live' = TRUE /\ models' = Fetched(t)
             /\ lastConn' = IF task[t].kind = "refresh" THEN task[t].conn ELSE lastConn
             /\ lastChecked' = IF persisted THEN task[t].req ELSE lastChecked
             /\ lastPub' = task[t].req
          \/ UNCHANGED <<ahead, models, live, lastConn, lastChecked, lastPub>>
      BY <2>3 DEF CommitApply, persisted
    <3> QED BY <1>1, <2>3, <3>1, <3>2, CatalogsTyped
            DEF CommitApply, TypeOK, ProviderTypeOK, EnvTypeOK, envVars
  <2> QED BY <2>1, <2>2, <2>3
<1>4. CASE EndTask(t, TRUE)
  BY <1>1, <1>2, <1>3, <1>4, EndTaskTyped DEF TypeOK, FlightTypeOK
<1>5. CASE Proceed(t, At(t, "commitWrite"), FALSE)
  <2>1. IsCall(At(t, "commitWrite"), task[t].kind, "commitWrite", task[t].req,
               task[t].conn, task[t].snap, task[t].res)
    BY AtTyped DEF TypeOK, TaskPcs
  <2>2. At(t, "commitWrite") \in TaskRecords /\ HasConnection(At(t, "commitWrite"))
    BY <1>1, <2>1, CallTyped
  <2> QED BY <1>2, <1>3, <1>5, <2>2, ProceedTyped DEF TypeOK
<1>6. ASSUME NEW res \in {"ok", "refused"},
             Proceed(t, [At(t, "commitApply") EXCEPT !.res = res], FALSE)
      PROVE  TypeOK'
  <2> DEFINE next == [At(t, "commitApply") EXCEPT !.res = res]
  <2>1. IsCall(next, task[t].kind, "commitApply", task[t].req, task[t].conn,
               task[t].snap, res)
    BY AtTyped DEF TypeOK, TaskPcs, Results
  <2> HIDE DEF next
  <2>2. next \in TaskRecords /\ HasConnection(next)
    BY <1>1, <2>1, CallTyped
  <2> QED BY <1>2, <1>3, <1>6, <2>2, ProceedTyped DEF TypeOK, next
<1> QED BY <1>4, <1>5, <1>6 DEF CommitBegin, CommitWrite, CommitApply

LEMMA OwnRefreshTyped ==
    ASSUME TypeOK, NEW t \in Tasks, NEW force \in BOOLEAN,
           BackgroundStart(t, force) \/ ForegroundStart(t)
    PROVE  TypeOK'
<1>1. ProviderTypeOK' /\ RegistryTypeOK' /\ EnvTypeOK' /\ pricer' = pricer
  BY DEF BackgroundStart, ForegroundStart, TypeOK, ProviderTypeOK, RegistryTypeOK,
     EnvTypeOK, registryVars, envVars, historyVars
<1>2. ASSUME NEW kind \in {"background", "foreground"}, OwnRefresh(t, kind),
             lastConn # NoConn
      PROVE  FlightTypeOK'
  <2> DEFINE next == FetchCall(kind, gen, nextReq, scopedStore, lastConn)
  <2>1. /\ gen \in Nat /\ nextReq \in Nat /\ scopedStore \in Nat
        /\ lastConn \in Conns /\ ov \in Nat
    BY <1>2 DEF TypeOK, ProviderTypeOK, EnvTypeOK
  <2>2. IsCall(next, kind, "fetch", nextReq, lastConn, NoCatalog, "ok")
    BY <2>1, FetchCallTyped
  <2> HIDE DEF next
  <2>3. next \in TaskRecords /\ HasConnection(next)
    BY <2>1, <2>2, CallTyped
  <2> QED BY <1>1, <1>2, <2>3, ProceedTyped DEF TypeOK, OwnRefresh, next
<1>3. CASE BackgroundStart(t, force)
  BY <1>1, <1>2, <1>3 DEF BackgroundStart, TypeOK
<1>4. CASE ForegroundStart(t)
  <2>1. CASE Offline \/ shut \/ scopedStore = 0 \/ lastConn = NoConn
    BY <1>1, <1>4, <2>1 DEF ForegroundStart, TypeOK, FlightTypeOK, HasConnection
  <2>2. CASE ~(Offline \/ shut \/ scopedStore = 0 \/ lastConn = NoConn)
    BY <1>1, <1>2, <1>4, <2>2 DEF ForegroundStart, TypeOK
  <2> QED BY <2>1, <2>2
<1> QED BY <1>3, <1>4

(* Dropping the pending login catalog keeps it typed. *)
LEMMA PendingTyped ==
    ASSUME TypeOK, pending' = pending \/ pending' = NoPending
    PROVE  pending' \in [nonce : Nat, conn : Conns \cup {NoConn}, ov : Nat, gen : Nat,
                         expired : BOOLEAN]
<1>1. NoPending \in [nonce : Nat, conn : Conns \cup {NoConn}, ov : Nat, gen : Nat,
                     expired : BOOLEAN]
  BY DEF NoPending
<1> QED BY <1>1 DEF TypeOK, ProviderTypeOK

LEMMA LoginTyped ==
    ASSUME TypeOK, NEW t \in Tasks,
           \/ LoginStart(t) \/ LoginAnswer(t) \/ LoginFetched(t)
           \/ LoginFetchFail(t) \/ PiStoresCredential(t)
    PROVE  TypeOK'
<1>1. CASE LoginStart(t)
  <2>1. ProviderTypeOK' /\ RegistryTypeOK' /\ EnvTypeOK' /\ pricer' = pricer
    BY <1>1 DEF LoginStart, TypeOK, ProviderTypeOK, RegistryTypeOK, EnvTypeOK,
       NoPending, registryVars, envVars, historyVars
  <2> DEFINE next == [NoTask EXCEPT !.kind = "login", !.pc = "prompt", !.gen = gen]
  <2>2. IsCall(next, "login", "prompt", 0, NoConn, NoCatalog, "ok")
    BY LoginCallTyped DEF TypeOK, ProviderTypeOK
  <2> HIDE DEF next
  <2>3. next \in TaskRecords /\ HasConnection(next)
    BY <2>2, CallTyped
  <2> QED BY <1>1, <2>1, <2>3, ProceedTyped DEF LoginStart, TypeOK, next
<1>2. CASE LoginAnswer(t)
  <2>1. ProviderTypeOK' /\ RegistryTypeOK' /\ EnvTypeOK' /\ pricer' = pricer
    BY <1>2 DEF LoginAnswer, TypeOK, ProviderTypeOK, RegistryTypeOK, EnvTypeOK,
       providerVars, registryVars, envVars, historyVars
  <2>2. CASE EndTask(t, FALSE)
    BY <2>1, <2>2, EndTaskTyped DEF TypeOK, FlightTypeOK
  <2>3. ASSUME NEW c \in Conns,
               Proceed(t, [At(t, "fetch") EXCEPT !.conn = c, !.ov = ov], FALSE)
        PROVE  TypeOK'
    <3> DEFINE next == [At(t, "fetch") EXCEPT !.conn = c, !.ov = ov]
    <3>1. IsCall(next, task[t].kind, "fetch", task[t].req, c, task[t].snap,
                 task[t].res)
      BY AtTyped DEF TypeOK, EnvTypeOK, TaskPcs
    <3> HIDE DEF next
    <3>2. next \in TaskRecords /\ HasConnection(next)
      BY <3>1, CallTyped
    <3> QED BY <2>1, <2>3, <3>2, ProceedTyped DEF TypeOK, next
  <2> QED BY <1>2, <2>2, <2>3 DEF LoginAnswer
<1>3. CASE LoginFetched(t)
  <2>1. /\ task[t].pc = "fetch" /\ task[t].conn \in Conns /\ task[t].ov \in Nat
        /\ nextNonce \in Nat /\ gen \in Nat
    <3>1. task[t] \in TaskRecords /\ task[t].pc = "fetch"
      BY <1>3 DEF LoginFetched, TypeOK, FlightTypeOK
    <3> QED BY <3>1, ConnTyped DEF TypeOK, ProviderTypeOK, EnvTypeOK, TaskRecords
  <2>2. ProviderTypeOK' /\ RegistryTypeOK' /\ EnvTypeOK'
    BY <1>3, <2>1 DEF LoginFetched, TypeOK, ProviderTypeOK, RegistryTypeOK, EnvTypeOK,
       registryVars, historyVars
  <2> DEFINE cat == [NoCatalog EXCEPT !.src = "login", !.n = nextNonce]
  <2>3. cat \in Catalogs
    BY <2>1, ConstantsTyped DEF Catalogs
  <2> HIDE DEF cat
  <2>4. pricer' \in [Pricers -> PricerRecords]
    BY <1>3, <2>3, StartPricingTyped DEF LoginFetched, cat
  <2> DEFINE next == [At(t, "returned") EXCEPT !.nonce = nextNonce]
  <2>5. IsCall(next, task[t].kind, "returned", task[t].req, task[t].conn,
               task[t].snap, task[t].res)
    BY <2>1, AtTyped DEF TypeOK, TaskPcs
  <2> HIDE DEF next
  <2>6. next \in TaskRecords /\ HasConnection(next)
    BY <2>1, <2>5, CallTyped
  <2> QED BY <1>3, <2>2, <2>4, <2>6, ProceedTyped DEF LoginFetched, TypeOK, next
<1>4. CASE LoginFetchFail(t)
  <2>1. ProviderTypeOK' /\ RegistryTypeOK' /\ EnvTypeOK' /\ pricer' = pricer
    <3>1. pending' = pending \/ pending' = NoPending
      BY <1>4 DEF LoginFetchFail
    <3>2. ProviderTypeOK'
      BY <1>4, <3>1, PendingTyped DEF LoginFetchFail, TypeOK, ProviderTypeOK
    <3> QED BY <1>4, <3>2 DEF LoginFetchFail, TypeOK, RegistryTypeOK, EnvTypeOK,
            registryVars, envVars, historyVars
  <2>2. CASE EndTask(t, FALSE)
    BY <2>1, <2>2, EndTaskTyped DEF TypeOK, FlightTypeOK
  <2>3. CASE Proceed(t, At(t, "prompt"), FALSE)
    <3>1. IsCall(At(t, "prompt"), task[t].kind, "prompt", task[t].req, task[t].conn,
                 task[t].snap, task[t].res)
      BY AtTyped DEF TypeOK, TaskPcs
    <3>2. At(t, "prompt") \in TaskRecords /\ HasConnection(At(t, "prompt"))
      BY <3>1, CallTyped
    <3> QED BY <2>1, <2>3, <3>2, ProceedTyped DEF TypeOK
  <2> QED BY <1>4, <2>2, <2>3 DEF LoginFetchFail
<1>5. CASE PiStoresCredential(t)
  <2>1. task[t].conn \in Conns /\ task[t].nonce \in Nat
    <3>1. task[t] \in TaskRecords /\ task[t].pc = "returned"
      BY <1>5 DEF PiStoresCredential, TypeOK, FlightTypeOK
    <3> QED BY <3>1, ConnTyped DEF TypeOK, TaskRecords
  <2>2. ProviderTypeOK' /\ RegistryTypeOK' /\ EnvTypeOK' /\ pricer' = pricer
    BY <1>5, <2>1 DEF PiStoresCredential, TypeOK, ProviderTypeOK, RegistryTypeOK,
       EnvTypeOK, providerVars, registryVars, historyVars
  <2> QED BY <1>5, <2>2, EndTaskTyped DEF PiStoresCredential, TypeOK, FlightTypeOK
<1> QED BY <1>1, <1>2, <1>3, <1>4, <1>5

LEMMA PricerTyped ==
    ASSUME TypeOK, NEW p \in Pricers, PricerStep(p)
    PROVE  TypeOK'
<1>1. pricer[p] \in PricerRecords /\ pricer[p].cat \in Catalogs /\ models \in Catalogs
  BY DEF TypeOK, FlightTypeOK, ProviderTypeOK, PricerRecords
<1>2. RegistryTypeOK'
  BY DEF PricerStep, PriceSynced, PriceAborted, PriceBegin, PriceWrite, PriceEnd,
     TypeOK, RegistryTypeOK, registryVars
<1>3. ProviderTypeOK' /\ EnvTypeOK'
  <2>1. CASE PriceSynced(p) \/ PriceAborted(p) \/ PriceBegin(p)
    BY <2>1 DEF PriceSynced, PriceAborted, PriceBegin, TypeOK, ProviderTypeOK,
       EnvTypeOK, providerVars, envVars, historyVars
  <2>2. CASE PriceWrite(p)
    BY <1>1, <2>2 DEF PriceWrite, TypeOK, ProviderTypeOK, EnvTypeOK, historyVars
  <2>3. CASE PriceEnd(p)
    <3> DEFINE lost == ahead \/ ~HandleCurrent(pricer[p].cat.store)
    <3>1. lost \in BOOLEAN /\ ahead' = lost
      BY <2>3 DEF PriceEnd
    <3> HIDE DEF lost
    <3> QED BY <2>3, <3>1 DEF PriceEnd, TypeOK, ProviderTypeOK, EnvTypeOK, envVars,
            historyVars
  <2> QED BY <2>1, <2>2, <2>3 DEF PricerStep
<1>4. FlightTypeOK'
  <2>1. CASE \E left \in BOOLEAN : EndPricer(p, left) /\ (left => Running(p))
    BY <2>1, EndPricerTyped DEF TypeOK, Running
  <2>2. CASE PriceSynced(p)
    <3>1. [pricer[p] EXCEPT !.pc = "price"] \in PricerRecords
      BY <1>1 DEF PricerRecords
    <3>2. pricer' \in [Pricers -> PricerRecords]
      BY <2>2, <3>1 DEF PriceSynced, TypeOK, FlightTypeOK
    <3>3. chain' \in Seq(Owners)
      BY <2>2, ChainTyped DEF PriceSynced, TypeOK, FlightTypeOK, Owners
    <3> QED BY <2>2, <3>2, <3>3 DEF PriceSynced, TypeOK, FlightTypeOK, Owners,
            HasConnection
  <2>3. ASSUME UNCHANGED <<task, chain, sd>>,
               \/ pricer' = [pricer EXCEPT ![p].pc = "priceEnd"]
               \/ pricer' = [pricer EXCEPT ![p].pc = "priceWrite", ![p].cat = models]
        PROVE  FlightTypeOK'
    <3>1. /\ [pricer[p] EXCEPT !.pc = "priceEnd"] \in PricerRecords
          /\ [pricer[p] EXCEPT !.pc = "priceWrite", !.cat = models] \in PricerRecords
      BY <1>1 DEF PricerRecords
    <3>2. pricer' \in [Pricers -> PricerRecords]
      BY <2>3, <3>1 DEF TypeOK, FlightTypeOK
    <3> QED BY <2>3, <3>2 DEF TypeOK, FlightTypeOK, HasConnection
  <2> QED BY <2>1, <2>2, <2>3 DEF PricerStep, PriceAborted, PriceBegin, PriceWrite,
          PriceEnd
<1> QED BY <1>2, <1>3, <1>4 DEF TypeOK

LEMMA LifecycleTyped ==
    ASSUME TypeOK, ShutdownStart \/ ShutdownEnd \/ BeginSession
    PROVE  TypeOK'
<1>1. CASE ShutdownStart
  <2>1. Tracked \in SUBSET Owners /\ Queued \in SUBSET Owners
    BY DEF Tracked, Queued, Owners, TypeOK, FlightTypeOK
  <2>2. sd' \in [gen : Nat, owners : SUBSET Owners, queued : SUBSET Owners]
    BY <1>1, <2>1 DEF ShutdownStart, TypeOK, ProviderTypeOK
  <2> QED BY <1>1, <2>2 DEF ShutdownStart, TypeOK, ProviderTypeOK, RegistryTypeOK,
          FlightTypeOK, EnvTypeOK, Owners, NoPending, registryVars, envVars,
          historyVars, HasConnection
<1>2. CASE ShutdownEnd
  BY <1>2, ConstantsTyped DEF ShutdownEnd, TypeOK, ProviderTypeOK, RegistryTypeOK,
     FlightTypeOK, EnvTypeOK, Owners, registryVars, envVars, historyVars,
     HasConnection
<1>3. CASE BeginSession
  <2>1. ProviderTypeOK'
    <3>1. pending' \in [nonce : Nat, conn : Conns \cup {NoConn}, ov : Nat, gen : Nat,
                        expired : BOOLEAN]
      BY <1>3, PendingTyped DEF BeginSession
    <3>2. ahead' \in BOOLEAN
      BY <1>3 DEF BeginSession
    <3>3. lastConn' \in Conns \cup {NoConn} /\ scopedStore' \in Nat /\ lastChecked' \in Nat
      BY <1>3 DEF BeginSession, TypeOK, ProviderTypeOK
    <3>4. gen' \in Nat
      BY <1>3 DEF BeginSession, TypeOK, ProviderTypeOK
    <3>5. shut' \in BOOLEAN
      BY <1>3 DEF BeginSession
    <3> QED BY <1>3, <3>1, <3>2, <3>3, <3>4, <3>5 DEF BeginSession, TypeOK, ProviderTypeOK
  <2>2. RegistryTypeOK' /\ EnvTypeOK'
    BY <1>3 DEF BeginSession, TypeOK, RegistryTypeOK, EnvTypeOK, registryVars, envVars,
       historyVars
  <2>3. FlightTypeOK'
    BY <1>3 DEF BeginSession, TypeOK, FlightTypeOK, flightVars, HasConnection
  <2> QED BY <2>1, <2>2, <2>3 DEF TypeOK
<1> QED BY <1>1, <1>2, <1>3

LEMMA EnvironmentTyped ==
    ASSUME TypeOK, EnvironmentStep
    PROVE  TypeOK'
<1>1. CASE ShutdownStart \/ BeginSession
  BY <1>1, LifecycleTyped
<1>2. CASE OverrideEdit \/ TimePasses
  <2>1. ProviderTypeOK' /\ RegistryTypeOK' /\ EnvTypeOK'
    BY <1>2 DEF OverrideEdit, TimePasses, TypeOK, ProviderTypeOK, RegistryTypeOK,
       EnvTypeOK, providerVars, registryVars, historyVars
  <2>2. FlightTypeOK'
    BY <1>2 DEF OverrideEdit, TimePasses, TypeOK, FlightTypeOK, flightVars,
       HasConnection
  <2> QED BY <2>1, <2>2 DEF TypeOK
<1>3. CASE PendingExpires
  BY <1>3 DEF PendingExpires, TypeOK, ProviderTypeOK, RegistryTypeOK, FlightTypeOK,
     EnvTypeOK, registryVars, flightVars, envVars, historyVars, HasConnection
<1>4. CASE \E u \in Urls \cup {NoUrl} : OtherReplaces(u)
  BY <1>4 DEF OtherReplaces, TypeOK, ProviderTypeOK, RegistryTypeOK, FlightTypeOK,
     EnvTypeOK, providerVars, flightVars, envVars, historyVars, HasConnection
<1>5. CASE \E c \in Conns : OtherLogsIn(c)
  BY <1>5 DEF OtherLogsIn, TypeOK, ProviderTypeOK, RegistryTypeOK, FlightTypeOK,
     EnvTypeOK, providerVars, registryVars, flightVars, historyVars, HasConnection
<1> QED BY <1>1, <1>2, <1>3, <1>4, <1>5 DEF EnvironmentStep

-----------------------------------------------------------------------------
LEMMA InitTyped == Init => TypeOK
<1> SUFFICES ASSUME Init PROVE TypeOK
  OBVIOUS
<1>1. PICK c \in Conns :
        /\ cred = [conn |-> c, nonce |-> 0]
        /\ instUrl = UrlOf[c] /\ persistedUrl = UrlOf[c] /\ registry = UrlOf[c]
        /\ \/ models = NoCatalog /\ live = FALSE
           \/ models = [NoCatalog EXCEPT !.src = "seed", !.conn = c] /\ live = TRUE
  BY DEF Init
<1>2. models \in Catalogs
  <2>1. [NoCatalog EXCEPT !.src = "seed", !.conn = c] \in Catalogs
    BY ConstantsTyped DEF Catalogs
  <2> QED BY <1>1, <2>1, ConstantsTyped
<1>3. ProviderTypeOK
  BY <1>1, <1>2 DEF Init, ProviderTypeOK, NoPending
<1>4. RegistryTypeOK
  BY <1>1, ConnAssumption DEF Init, RegistryTypeOK
<1>5. FlightTypeOK
  <2>1. /\ task = [t \in Tasks |-> NoTask] /\ pricer = [p \in Pricers |-> NoPricer]
        /\ chain = <<>> /\ sd = NoShutdown
    BY DEF Init
  <2> QED BY <2>1, ConstantsTyped DEF FlightTypeOK, Owners
<1>6. EnvTypeOK
  BY <1>1, ConstantsTyped DEF Init, EnvTypeOK
<1> QED BY <1>3, <1>4, <1>5, <1>6 DEF TypeOK

LEMMA NextTyped == TypeOK /\ [Next]_vars => TypeOK'
<1> SUFFICES ASSUME TypeOK, [Next]_vars PROVE TypeOK'
  OBVIOUS
<1>1. CASE UNCHANGED vars
  BY <1>1 DEF vars, providerVars, registryVars, flightVars, envVars, historyVars,
     TypeOK, ProviderTypeOK, RegistryTypeOK, FlightTypeOK, EnvTypeOK, HasConnection
<1>2. ASSUME NEW t \in Tasks, TaskStep(t)
      PROVE  TypeOK'
  BY <1>2, PersistTyped, LegacyReadTyped, RestoreTyped, ConsumeTyped, FetchTyped,
     CommitTyped, LoginTyped DEF TaskStep
<1>3. ASSUME NEW t \in Tasks, CallStep(t)
      PROVE  TypeOK'
  BY <1>3, RefreshStartTyped, OwnRefreshTyped, LoginTyped DEF CallStep
<1> QED BY <1>1, <1>2, <1>3, PricerTyped, LifecycleTyped, EnvironmentTyped DEF Next

(* Whatever the calls in flight, every variable of the provider, and every     *)
(* local a suspended call carries across an await, keeps its type.             *)
THEOREM TypeCorrect == Spec => []TypeOK
BY InitTyped, NextTyped, PTL DEF Spec

-----------------------------------------------------------------------------
(* One body at a time *)

(* No pricing sync enters a body. *)
PricersStay == \A p \in Pricers : pricer'[p].pc \in BodyPcs => pricer'[p].pc = pricer[p].pc

LEMMA ProceedKeepsTurns ==
    ASSUME TypeOK, OneBodyAtATime, NEW t \in Tasks, NEW next, NEW left \in BOOLEAN,
           Proceed(t, next, left), PricersStay, left => Running(t),
           next.pc \in BodyPcs => Running(t) /\ ~left
    PROVE  OneBodyAtATime'
<1>1. /\ task \in [Tasks -> TaskRecords] /\ chain \in Seq(Owners)
      /\ t \notin Pricers
  BY SlotsAssumption DEF TypeOK, FlightTypeOK, Owners
<1>2. /\ task' = [task EXCEPT ![t] = next]
      /\ chain' = IF left THEN Tail(chain) ELSE chain
  BY DEF Proceed
<1>3. CASE left
  <2>1. Running(t) /\ next.pc \notin BodyPcs
    BY <1>3
  <2>2. \A u \in Tasks : task'[u].pc \notin BodyPcs
    BY <1>1, <1>2, <2>1 DEF OneBodyAtATime, Running
  <2>3. \A p \in Pricers : pricer'[p].pc \notin BodyPcs
    BY <1>1, <2>1 DEF OneBodyAtATime, Running, PricersStay
  <2> QED BY <2>2, <2>3 DEF OneBodyAtATime
<1>4. CASE ~left
  BY <1>1, <1>2, <1>4 DEF OneBodyAtATime, Running, PricersStay
<1> QED BY <1>3, <1>4

LEMMA EnqueueKeepsTurns ==
    ASSUME TypeOK, OneBodyAtATime, NEW t \in Tasks, NEW next, Enqueue(t, next),
           PricersStay, next.pc \notin BodyPcs
    PROVE  OneBodyAtATime'
<1>1. /\ task \in [Tasks -> TaskRecords] /\ chain \in Seq(Owners) /\ t \in Owners
      /\ task' = [task EXCEPT ![t] = next] /\ chain' = Append(chain, t)
  BY DEF TypeOK, FlightTypeOK, Owners, Enqueue
<1>2. chain # <<>> => chain' # <<>> /\ Head(chain') = Head(chain)
  BY <1>1
<1> QED BY <1>1, <1>2 DEF OneBodyAtATime, Running, PricersStay

LEMMA EndTaskKeepsTurns ==
    ASSUME TypeOK, OneBodyAtATime, NEW t \in Tasks, NEW left \in BOOLEAN,
           EndTask(t, left), PricersStay, left => Running(t)
    PROVE  OneBodyAtATime'
<1>2. /\ task \in [Tasks -> TaskRecords] /\ t \notin Pricers
      /\ task' = [task EXCEPT ![t] = NoTask]
      /\ chain' = IF left THEN Tail(chain) ELSE chain
      /\ NoTask.pc \notin BodyPcs
  BY SlotsAssumption DEF TypeOK, FlightTypeOK, EndTask, NoTask, BodyPcs
<1>3. CASE left
  <2>1. \A u \in Tasks : task'[u].pc \notin BodyPcs
    BY <1>2, <1>3 DEF OneBodyAtATime, Running
  <2>2. \A p \in Pricers : pricer'[p].pc \notin BodyPcs
    BY <1>2, <1>3 DEF OneBodyAtATime, Running, PricersStay
  <2> QED BY <2>1, <2>2 DEF OneBodyAtATime
<1>4. CASE ~left
  BY <1>2, <1>4 DEF OneBodyAtATime, Running, PricersStay
<1> QED BY <1>3, <1>4

LEMMA EndPricerKeepsTurns ==
    ASSUME TypeOK, OneBodyAtATime, NEW p \in Pricers, NEW left \in BOOLEAN,
           EndPricer(p, left), left => Running(p)
    PROVE  OneBodyAtATime'
<1>1. /\ pricer \in [Pricers -> PricerRecords] /\ p \notin Tasks /\ task' = task
      /\ pricer' = [pricer EXCEPT ![p] = NoPricer]
      /\ chain' = IF left THEN Tail(chain) ELSE chain
      /\ NoPricer.pc \notin BodyPcs
  BY SlotsAssumption DEF TypeOK, FlightTypeOK, EndPricer, NoPricer, BodyPcs
<1>2. CASE left
  <2>1. \A u \in Tasks : task'[u].pc \notin BodyPcs
    BY <1>1, <1>2 DEF OneBodyAtATime, Running
  <2>2. \A q \in Pricers : pricer'[q].pc \notin BodyPcs
    BY <1>1, <1>2 DEF OneBodyAtATime, Running
  <2> QED BY <2>1, <2>2 DEF OneBodyAtATime
<1>3. CASE ~left
  BY <1>1, <1>3 DEF OneBodyAtATime, Running
<1> QED BY <1>2, <1>3

LEMMA TaskKeepsTurns ==
    ASSUME TypeOK, OneBodyAtATime, NEW t \in Tasks, TaskStep(t) \/ CallStep(t)
    PROVE  OneBodyAtATime'
<1>1. PricersStay
  <2>1. ASSUME NEW cat, StartPricing(cat)
        PROVE  PricersStay
    BY <2>1 DEF StartPricing, PricersStay, BodyPcs, TypeOK, FlightTypeOK
  <2>2. pricer' = pricer \/ \E cat : StartPricing(cat)
    BY DEF TaskStep, CallStep, PersistBegin, PersistWrite, PersistEnd, LegacyRead,
       Restore, ConsumeBegin, ConsumeWrite, ConsumeEnd, FetchDone, FetchFail,
       CommitBegin, CommitWrite, CommitApply, LoginFetched, LoginFetchFail,
       PiStoresCredential, RefreshStart, BackgroundStart, ForegroundStart,
       LoginStart, LoginAnswer
  <2> QED BY <2>1, <2>2 DEF PricersStay
<1>2. /\ \A pc \in TaskPcs :
            /\ At(t, pc).pc = pc
            /\ \A res \in Results : [At(t, pc) EXCEPT !.res = res].pc = pc
            /\ \A c \in Catalogs : [At(t, pc) EXCEPT !.snap = c].pc = pc
            /\ \A c \in Catalogs :
                  [At(t, pc) EXCEPT !.snap = c, !.changed = FALSE].pc = pc
            /\ \A c \in Conns, v \in Nat : [At(t, pc) EXCEPT !.conn = c, !.ov = v].pc = pc
            /\ \A n \in Nat : [At(t, pc) EXCEPT !.nonce = n].pc = pc
      /\ \A kind, g, r, h, c : FetchCall(kind, g, r, h, c).pc = "fetch"
      /\ \A r, pc, net, force, changed :
            RefreshCall(r, pc, net, force, changed).pc = pc
      /\ [NoTask EXCEPT !.kind = "login", !.pc = "prompt", !.gen = gen].pc = "prompt"
  BY AtTyped, ZenonT(60) DEF TypeOK, IsCall, FetchCall, RefreshCall, NoTask
<1>3. ASSUME NEW next, NEW left \in BOOLEAN, Proceed(t, next, left), left => Running(t),
             next.pc \notin BodyPcs \/ (Running(t) /\ ~left)
      PROVE  OneBodyAtATime'
  BY <1>1, <1>3, ProceedKeepsTurns
<1>4. ASSUME NEW next, Enqueue(t, next), next.pc \notin BodyPcs
      PROVE  OneBodyAtATime'
  BY <1>1, <1>4, EnqueueKeepsTurns
<1>5. ASSUME NEW left \in BOOLEAN, EndTask(t, left), left => Running(t)
      PROVE  OneBodyAtATime'
  BY <1>1, <1>5, EndTaskKeepsTurns
<1>6. ASSUME NEW fresh, NEW left \in BOOLEAN, FetchUnlessFresh(t, fresh, left),
             left => Running(t)
      PROVE  OneBodyAtATime'
  <2> DEFINE next == FetchCall("refresh", task[t].gen, task[t].req, task[t].phase,
                               task[t].conn)
  <2>1. next.pc \notin BodyPcs
    BY <1>2 DEF BodyPcs
  <2> HIDE DEF next
  <2>2. EndTask(t, left) \/ Proceed(t, next, left)
    BY <1>6 DEF FetchUnlessFresh, next
  <2> QED BY <1>3, <1>5, <1>6, <2>1, <2>2
<1>7. CASE PersistBegin(t) \/ PersistWrite(t) \/ PersistEnd(t)
  <2>1. ASSUME NEW stale \in BOOLEAN, AfterPersist(t, stale), Running(t)
        PROVE  OneBodyAtATime'
    <3> DEFINE next == [At(t, FirstPc) EXCEPT !.res = "ok"]
    <3>1. next.pc \notin BodyPcs
      BY <1>2 DEF FirstPc, BodyPcs, TaskPcs, Results
    <3> HIDE DEF next
    <3>2. EndTask(t, TRUE) \/ Proceed(t, next, TRUE)
      BY <2>1 DEF AfterPersist, next
    <3> QED BY <1>3, <1>5, <2>1, <3>1, <3>2
  <2>2. CASE PersistBegin(t)
    BY <1>3, <2>1, <2>2 DEF PersistBegin
  <2>3. CASE PersistWrite(t)
    BY <1>3, <2>3 DEF PersistWrite
  <2>4. CASE PersistEnd(t)
    BY <2>1, <2>4 DEF PersistEnd
  <2> QED BY <1>7, <2>2, <2>3, <2>4
<1>8. CASE LegacyRead(t)
  <2>1. PICK s \in {stored, NoCatalog} :
          Proceed(t, [At(t, "restore") EXCEPT !.snap = s], FALSE)
    BY <1>8 DEF LegacyRead
  <2>2. s \in Catalogs /\ "restore" \in TaskPcs
    BY ConstantsTyped DEF TypeOK, EnvTypeOK, TaskPcs
  <2>3. [At(t, "restore") EXCEPT !.snap = s].pc = "restore"
    BY <1>2, <2>2
  <2> QED BY <1>3, <2>1, <2>3 DEF BodyPcs
<1>9. CASE Restore(t)
  <2>1. "consume" \in TaskPcs /\ LoginCatalog(t) \in Catalogs
    BY CatalogsTyped DEF TaskPcs
  <2>2. [At(t, "consume") EXCEPT !.snap = LoginCatalog(t), !.changed = FALSE].pc
          = "consume"
    BY <1>2, <2>1
  <2> QED BY <1>4, <1>5, <1>6, <1>9, <2>2 DEF Restore, BodyPcs
<1>10. ASSUME NotConsumed(t), Running(t)
       PROVE  OneBodyAtATime'
  BY <1>5, <1>6, <1>10 DEF NotConsumed
<1>11. CASE ConsumeBegin(t) \/ ConsumeWrite(t)
  BY <1>3, <1>10, <1>11 DEF ConsumeBegin, ConsumeWrite
<1>12. CASE ConsumeEnd(t)
  <2>1. CASE StillConsumes(t)
    <3> DEFINE next == [At(t, "persist") EXCEPT !.tail = TRUE, !.net = FALSE,
                           !.force = FALSE, !.nonce = 0, !.res = "ok",
                           !.snap = NoCatalog]
    <3>1. next.pc = "persist"
      <4>1. IsCall(next, task[t].kind, "persist", task[t].req, task[t].conn,
                   NoCatalog, "ok")
        BY AtTyped, ConstantsTyped DEF TypeOK, TaskPcs
      <4> QED BY <4>1 DEF IsCall
    <3> HIDE DEF next
    <3>2. task' = [task EXCEPT ![t] = next] /\ pricer' = pricer /\ Running(t)
      BY <1>12, <2>1 DEF ConsumeEnd, next
    <3>3. t \notin Pricers /\ task \in [Tasks -> TaskRecords]
      BY SlotsAssumption DEF TypeOK, FlightTypeOK
    <3>4. \A u \in Tasks : task'[u].pc \notin BodyPcs
      BY <3>1, <3>2, <3>3 DEF OneBodyAtATime, Running, BodyPcs
    <3>5. \A p \in Pricers : pricer'[p].pc \notin BodyPcs
      BY <3>2, <3>3 DEF OneBodyAtATime, Running
    <3> QED BY <3>4, <3>5 DEF OneBodyAtATime
  <2>2. CASE ~StillConsumes(t)
    BY <1>10, <1>12, <2>2 DEF ConsumeEnd
  <2> QED BY <2>1, <2>2
<1>13. CASE FetchDone(t) \/ FetchFail(t)
  <2>1. At(t, "commit").pc \notin BodyPcs
    BY <1>2 DEF TaskPcs, BodyPcs
  <2> QED BY <1>4, <1>5, <1>13, <2>1 DEF FetchDone, FetchFail
<1>14. CASE CommitBegin(t) \/ CommitWrite(t) \/ CommitApply(t)
  BY <1>3, <1>5, <1>14 DEF CommitBegin, CommitWrite, CommitApply
<1>15. CASE LoginFetched(t) \/ LoginFetchFail(t) \/ PiStoresCredential(t)
  <2>1. /\ [At(t, "returned") EXCEPT !.nonce = nextNonce].pc \notin BodyPcs
        /\ At(t, "prompt").pc \notin BodyPcs
    BY <1>2 DEF TaskPcs, BodyPcs, TypeOK, EnvTypeOK
  <2> QED BY <1>3, <1>5, <1>15, <2>1 DEF LoginFetched, LoginFetchFail, PiStoresCredential
<1>16. CASE LoginStart(t) \/ LoginAnswer(t)
  <2>1. /\ \A c \in Conns : [At(t, "fetch") EXCEPT !.conn = c, !.ov = ov].pc \notin BodyPcs
        /\ [NoTask EXCEPT !.kind = "login", !.pc = "prompt", !.gen = gen].pc \notin BodyPcs
    BY <1>2 DEF TaskPcs, BodyPcs, TypeOK, EnvTypeOK
  <2> QED BY <1>3, <1>5, <1>16, <2>1 DEF LoginStart, LoginAnswer
<1>17. ASSUME NEW net \in BOOLEAN, NEW force \in BOOLEAN, RefreshStart(t, net, force)
       PROVE  OneBodyAtATime'
  <2>1. PICK r, pc, changed :
          /\ \/ Enqueue(t, RefreshCall(r, pc, net, force, changed))
             \/ Proceed(t, RefreshCall(r, pc, net, force, changed), FALSE)
          /\ pc \in {"persist", "read", "restore"}
    BY <1>17 DEF RefreshStart, FirstPc
  <2>2. RefreshCall(r, pc, net, force, changed).pc \notin BodyPcs
    BY <1>2, <2>1 DEF BodyPcs
  <2> QED BY <1>3, <1>4, <2>1, <2>2
<1>18. ASSUME NEW force \in BOOLEAN, BackgroundStart(t, force) \/ ForegroundStart(t)
       PROVE  OneBodyAtATime'
  <2>1. CASE UNCHANGED <<task, chain, pricer>>
    BY <2>1 DEF OneBodyAtATime, Running
  <2>2. CASE \E kind : OwnRefresh(t, kind)
    BY <1>2, <1>3, <2>2 DEF OwnRefresh, BodyPcs
  <2> QED BY <1>18, <2>1, <2>2 DEF BackgroundStart, ForegroundStart
<1> QED BY <1>7, <1>8, <1>9, <1>11, <1>12, <1>13, <1>14, <1>15, <1>16, <1>17, <1>18
        DEF TaskStep, CallStep

LEMMA PricerKeepsTurns ==
    ASSUME TypeOK, OneBodyAtATime, NEW p \in Pricers, PricerStep(p)
    PROVE  OneBodyAtATime'
<1>1. CASE \E left \in BOOLEAN : EndPricer(p, left) /\ (left => Running(p))
  BY <1>1, EndPricerKeepsTurns
<1>2. CASE PriceSynced(p)
  <2>1. /\ chain \in Seq(Owners) /\ p \in Owners /\ chain' = Append(chain, p)
        /\ task' = task /\ pricer' = [pricer EXCEPT ![p].pc = "price"]
        /\ pricer \in [Pricers -> PricerRecords]
    BY <1>2 DEF PriceSynced, TypeOK, FlightTypeOK, Owners
  <2>2. chain # <<>> => chain' # <<>> /\ Head(chain') = Head(chain)
    BY <2>1
  <2>3. \A q \in Pricers : pricer'[q].pc \in BodyPcs => pricer'[q].pc = pricer[q].pc
    BY <2>1 DEF BodyPcs, PricerRecords
  <2> QED BY <2>1, <2>2, <2>3 DEF OneBodyAtATime, Running
<1>3. ASSUME Running(p), UNCHANGED <<task, chain>>,
             \A q \in Pricers \ {p} : pricer'[q] = pricer[q]
      PROVE  OneBodyAtATime'
  BY <1>3 DEF OneBodyAtATime, Running
<1>4. CASE PriceBegin(p) \/ PriceWrite(p)
  <2>1. pricer \in [Pricers -> PricerRecords]
    BY DEF TypeOK, FlightTypeOK
  <2> QED BY <1>1, <1>3, <1>4, <2>1 DEF PriceBegin, PriceWrite
<1> QED BY <1>1, <1>2, <1>4 DEF PricerStep, PriceAborted, PriceEnd

LEMMA OneBodyInductive == TypeOK /\ OneBodyAtATime /\ [Next]_vars => OneBodyAtATime'
<1> SUFFICES ASSUME TypeOK, OneBodyAtATime, [Next]_vars PROVE OneBodyAtATime'
  OBVIOUS
<1>1. CASE UNCHANGED <<task, pricer, chain>>
  BY <1>1 DEF OneBodyAtATime, Running
<1>2. CASE UNCHANGED vars \/ ShutdownEnd \/ EnvironmentStep
  BY <1>1, <1>2 DEF vars, flightVars, ShutdownEnd, EnvironmentStep, ShutdownStart,
     BeginSession, OverrideEdit, TimePasses, PendingExpires, OtherReplaces, OtherLogsIn
<1> QED BY <1>2, TaskKeepsTurns, PricerKeepsTurns DEF Next

(* The commit chain is a mutual exclusion: for any number of calls, no two      *)
(* bodies of withCommit are ever suspended between their checks and their ends. *)
THEOREM CommitBodiesExclude == Spec => []OneBodyAtATime
<1>1. Init => OneBodyAtATime
  BY DEF Init, OneBodyAtATime, NoTask, NoPricer, BodyPcs
<1> QED BY <1>1, InitTyped, NextTyped, OneBodyInductive, PTL DEF Spec

-----------------------------------------------------------------------------
(* The store never goes back *)

(* What the provider's commits rely on, as one inductive invariant. *)
CommitInv == TypeOK /\ OneBodyAtATime /\ WriteOrder

(* A call that does not move stays in order while requests are issued, and     *)
(* while the store advances, unless it is in a commit body itself.             *)
LEMMA CallStaysInOrder ==
    ASSUME NEW call \in TaskRecords,
           NEW saved \in Nat, NEW saved2 \in Nat, NEW latest \in Nat, NEW latest2 \in Nat,
           CallInOrder(call, saved, latest), saved <= saved2, latest <= latest2,
           saved2 = saved \/ call.pc \notin BodyPcs
    PROVE  CallInOrder(call, saved2, latest2)
<1>1. call.req \in Nat /\ call.snap.req \in Nat
  BY DEF TaskRecords, Catalogs
<1> QED BY <1>1 DEF CallInOrder, BodyPcs

LEMMA RequestsTyped ==
    ASSUME TypeOK
    PROVE  /\ stored.req \in Nat /\ latestReq \in Nat /\ nextReq \in Nat
           /\ lastChecked \in Nat /\ models.req \in Nat
           /\ \A t \in Tasks : /\ task[t] \in TaskRecords
                               /\ task[t].req \in Nat /\ task[t].snap.req \in Nat
           /\ \A p \in Pricers : pricer[p].cat.req \in Nat
BY DEF TypeOK, ProviderTypeOK, EnvTypeOK, FlightTypeOK, TaskRecords, PricerRecords,
   Catalogs

(* A call moves: the order is kept if the call itself is in order afterwards,  *)
(* and if only the call whose turn it is advances the store.                   *)
LEMMA MoveKeepsOrder ==
    ASSUME CommitInv, TypeOK', NEW t \in Tasks, NEW next,
           task' = [task EXCEPT ![t] = next],
           \A p \in Pricers : pricer'[p] = pricer[p] \/ pricer'[p].pc # "priceWrite",
           latestReq <= latestReq', latestReq' < nextReq',
           \/ stored'.req = stored.req
           \/ Running(t) /\ stored.req <= stored'.req /\ stored'.req <= latestReq',
           lastChecked' <= stored'.req,
           CallInOrder(next, stored'.req, latestReq')
    PROVE  WriteOrder'
<1>1. /\ stored.req \in Nat /\ stored'.req \in Nat /\ latestReq \in Nat
      /\ latestReq' \in Nat
  BY DEF CommitInv, TypeOK, ProviderTypeOK, EnvTypeOK, Catalogs
<1>2. stored.req <= latestReq
  BY DEF CommitInv, WriteOrder
<1>3. task \in [Tasks -> TaskRecords] /\ t \notin Pricers
  BY SlotsAssumption DEF CommitInv, TypeOK, FlightTypeOK
<1>4. ASSUME NEW u \in Tasks
      PROVE  CallInOrder(task'[u], stored'.req, latestReq')
  <2>1. CASE u = t
    BY <1>3, <2>1
  <2>2. CASE u # t
    <3>1. stored'.req = stored.req \/ task[u].pc \notin BodyPcs
      BY <2>2 DEF CommitInv, OneBodyAtATime, Running
    <3>2. CallInOrder(task[u], stored.req, latestReq) /\ task[u] \in TaskRecords
      BY <1>3 DEF CommitInv, WriteOrder
    <3>3. task'[u] = task[u]
      BY <1>3, <2>2
    <3> QED BY <1>1, <3>1, <3>2, <3>3, CallStaysInOrder
  <2> QED BY <2>1, <2>2
<1>5. ASSUME NEW p \in Pricers, pricer'[p].pc = "priceWrite"
      PROVE  pricer'[p].cat.req \in stored'.req .. latestReq'
  <2>1. stored'.req = stored.req
    BY <1>3, <1>5 DEF CommitInv, OneBodyAtATime, Running, BodyPcs
  <2>2. pricer[p].cat.req \in stored.req .. latestReq /\ pricer'[p] = pricer[p]
    BY <1>5 DEF CommitInv, WriteOrder
  <2> QED BY <1>1, <2>1, <2>2, RequestsTyped DEF CommitInv
<1>6. stored'.req <= latestReq'
  BY <1>1, <1>2
<1> QED BY <1>4, <1>5, <1>6 DEF WriteOrder, FreshMeansStored

(* A pricing sync starting leaves the others alone. *)
LEMMA StartPricingKeepsOthers ==
    ASSUME TypeOK, NEW cat, StartPricing(cat) \/ pricer' = pricer
    PROVE  \A p \in Pricers : pricer'[p] = pricer[p] \/ pricer'[p].pc # "priceWrite"
BY DEF StartPricing, TypeOK, FlightTypeOK

(* The order of a call from its locals. *)
LEMMA OrderFromLocals ==
    ASSUME NEW call, NEW kind, NEW pc, NEW req, NEW conn, NEW snap, NEW res,
           NEW saved, NEW latest,
           IsCall(call, kind, pc, req, conn, snap, res),
           req <= latest,
           pc \in {"persist", "persistWrite", "persistEnd", "restore"} => snap.req <= saved,
           pc \in {"consume", "consumeWrite"} => snap.req = req,
           pc \in {"commitWrite", "consumeWrite"} => saved <= req,
           pc \in {"commitApply", "consumeEnd"} /\ res = "ok" => saved = req
    PROVE  CallInOrder(call, saved, latest)
BY DEF CallInOrder, IsCall

(* The steps that only move a call, its request and the store as they were. *)
LEMMA QuietMoveKeepsOrder ==
    ASSUME CommitInv, TypeOK', NEW t \in Tasks, NEW next,
           task' = [task EXCEPT ![t] = next],
           UNCHANGED <<latestReq, nextReq>>, stored' = stored,
           lastChecked' <= stored.req,
           \/ pricer' = pricer
           \/ \E cat : StartPricing(cat),
           CallInOrder(next, stored.req, latestReq)
    PROVE  WriteOrder'
<1>1. latestReq <= latestReq' /\ latestReq' < nextReq'
  BY RequestsTyped DEF CommitInv, WriteOrder
<1>2. \A p \in Pricers : pricer'[p] = pricer[p] \/ pricer'[p].pc # "priceWrite"
  BY StartPricingKeepsOthers DEF CommitInv
<1> QED BY <1>1, <1>2, MoveKeepsOrder

(* A call that has ended is in order, and so is one that fetches. *)
LEMMA FetchUnlessFreshKeepsOrder ==
    ASSUME CommitInv, TypeOK', NEW t \in Tasks, NEW fresh, NEW left \in BOOLEAN,
           EndTask(t, left) \/ FetchUnlessFresh(t, fresh, left),
           task[t].pc \notin {"idle", "prompt"},
           UNCHANGED <<latestReq, nextReq>>, stored' = stored,
           lastChecked' <= stored.req,
           pricer' = pricer \/ \E cat : StartPricing(cat)
    PROVE  WriteOrder'
<1>1. /\ task[t].gen \in Nat /\ task[t].req \in Nat /\ task[t].phase \in Nat
      /\ task[t].conn \in Conns /\ ov \in Nat /\ stored.req \in Nat
      /\ latestReq \in Nat /\ task[t].req <= latestReq
  <2>1. task[t] \in TaskRecords
    BY RequestsTyped DEF CommitInv
  <2>2. task[t].req <= latestReq
    BY DEF CommitInv, WriteOrder, CallInOrder
  <2> QED BY <2>1, <2>2, ConnTyped, RequestsTyped DEF CommitInv, TypeOK, EnvTypeOK, TaskRecords
<1>2. CASE EndTask(t, left)
  <2>1. CallInOrder(NoTask, stored.req, latestReq)
    BY <1>1 DEF CallInOrder, NoTask
  <2> QED BY <1>2, <2>1, QuietMoveKeepsOrder DEF EndTask
<1>3. CASE FetchUnlessFresh(t, fresh, left) /\ ~EndTask(t, left)
  <2> DEFINE next == FetchCall("refresh", task[t].gen, task[t].req, task[t].phase,
                               task[t].conn)
  <2>1. IsCall(next, "refresh", "fetch", task[t].req, task[t].conn, NoCatalog, "ok")
    BY <1>1, FetchCallTyped
  <2> HIDE DEF next
  <2>2. CallInOrder(next, stored.req, latestReq)
    BY <1>1, <2>1, OrderFromLocals
  <2> QED BY <1>3, <2>2, QuietMoveKeepsOrder DEF FetchUnlessFresh, Proceed, next
<1> QED BY <1>2, <1>3

LEMMA PersistKeepsOrder ==
    ASSUME CommitInv, TypeOK', NEW t \in Tasks,
           PersistBegin(t) \/ PersistWrite(t) \/ PersistEnd(t) \/ LegacyRead(t)
    PROVE  WriteOrder'
<1>1. /\ UNCHANGED <<latestReq, nextReq, pricer>> /\ stored' = stored
      /\ lastChecked' = lastChecked
  BY DEF PersistBegin, PersistWrite, PersistEnd, LegacyRead, providerVars, envVars
<1>2. /\ lastChecked' <= stored.req /\ task[t].req <= latestReq
      /\ task[t].pc \in {"persist", "persistWrite", "persistEnd"}
            => task[t].snap.req <= stored.req
  BY <1>1 DEF CommitInv, WriteOrder, FreshMeansStored, CallInOrder
<1>3. TypeOK /\ FlightTypeOK
  BY DEF CommitInv, TypeOK
<1>4. ASSUME NEW next, NEW pc, NEW snap, NEW res, NEW left,
             IsCall(next, task[t].kind, pc, task[t].req, task[t].conn, snap, res),
             pc \in {"persistWrite", "persistEnd", "read", "restore"},
             snap.req <= stored.req, Proceed(t, next, left)
      PROVE  WriteOrder'
  <2>1. CallInOrder(next, stored.req, latestReq)
    BY <1>2, <1>4, OrderFromLocals
  <2> QED BY <1>1, <1>2, <1>4, <2>1, QuietMoveKeepsOrder DEF Proceed
<1>5. ASSUME NEW stale, AfterPersist(t, stale),
             task[t].pc \in {"persist", "persistWrite", "persistEnd"}
      PROVE  WriteOrder'
  <2>1. CASE EndTask(t, TRUE)
    BY <1>1, <1>2, <1>5, <2>1, FetchUnlessFreshKeepsOrder
  <2> DEFINE next == [At(t, FirstPc) EXCEPT !.res = "ok"]
  <2>2. FirstPc \in {"read", "restore"} /\ FirstPc \in TaskPcs /\ "ok" \in Results
    BY DEF FirstPc, TaskPcs, Results
  <2>3. IsCall(next, task[t].kind, FirstPc, task[t].req, task[t].conn, task[t].snap, "ok")
    BY <1>3, <2>2, AtTyped
  <2> HIDE DEF next
  <2>4. CASE Proceed(t, next, TRUE)
    BY <1>2, <1>4, <1>5, <2>2, <2>3, <2>4
  <2> QED BY <1>5, <2>1, <2>4 DEF AfterPersist, next
<1>6. CASE PersistBegin(t)
  <2>1. IsCall(At(t, "persistWrite"), task[t].kind, "persistWrite", task[t].req,
               task[t].conn, task[t].snap, task[t].res)
    BY <1>3, AtTyped DEF TaskPcs
  <2> QED BY <1>2, <1>4, <1>5, <1>6, <2>1 DEF PersistBegin
<1>7. CASE PersistWrite(t)
  <2>1. PICK res \in {"ok", "stale", "failed"} :
          Proceed(t, [At(t, "persistEnd") EXCEPT !.res = res], FALSE)
    BY <1>7 DEF PersistWrite
  <2> DEFINE next == [At(t, "persistEnd") EXCEPT !.res = res]
  <2>2. IsCall(next, task[t].kind, "persistEnd", task[t].req, task[t].conn,
               task[t].snap, res)
    BY <1>3, AtTyped DEF TaskPcs, Results
  <2> HIDE DEF next
  <2>3. Proceed(t, next, FALSE) /\ task[t].pc = "persistWrite"
    BY <1>7, <2>1 DEF PersistWrite, next
  <2> QED BY <1>2, <1>4, <2>2, <2>3
<1>8. CASE PersistEnd(t)
  BY <1>5, <1>8 DEF PersistEnd
<1>9. CASE LegacyRead(t)
  <2>1. PICK s \in {stored, NoCatalog} :
          Proceed(t, [At(t, "restore") EXCEPT !.snap = s], FALSE)
    BY <1>9 DEF LegacyRead
  <2>2. s \in Catalogs /\ s.req <= stored.req
    BY ConstantsTyped, RequestsTyped, <1>3 DEF TypeOK, EnvTypeOK, NoCatalog
  <2> DEFINE next == [At(t, "restore") EXCEPT !.snap = s]
  <2>3. IsCall(next, task[t].kind, "restore", task[t].req, task[t].conn, s, task[t].res)
    BY <1>3, <2>2, AtTyped DEF TaskPcs
  <2> HIDE DEF next
  <2> QED BY <1>4, <2>1, <2>2, <2>3 DEF next
<1> QED BY <1>6, <1>7, <1>8, <1>9

LEMMA RestoreKeepsOrder ==
    ASSUME CommitInv, TypeOK', NEW t \in Tasks, Restore(t)
    PROVE  WriteOrder'
<1>1. /\ UNCHANGED <<latestReq, nextReq, pricer>> /\ stored' = stored
      /\ task[t].pc = "restore"
  BY DEF Restore, envVars
<1>2. /\ task[t].snap.req <= stored.req /\ task[t].req <= latestReq
      /\ lastChecked <= stored.req /\ stored.req \in Nat
  BY <1>1, RequestsTyped DEF CommitInv, WriteOrder, FreshMeansStored, CallInOrder
<1>3. lastChecked' <= stored.req
  BY <1>2 DEF Restore
<1> DEFINE next == [At(t, "consume") EXCEPT !.snap = LoginCatalog(t),
                                            !.changed = FALSE]
<1>4. PICK fresh : \/ EndTask(t, FALSE)
                   \/ Enqueue(t, next)
                   \/ FetchUnlessFresh(t, fresh, FALSE)
  BY DEF Restore
<1>5. CASE Enqueue(t, next)
  <2>1. IsCall(next, task[t].kind, "consume", task[t].req, task[t].conn,
               LoginCatalog(t), task[t].res)
    BY AtTyped, CatalogsTyped DEF CommitInv, TypeOK, TaskPcs
  <2> HIDE DEF next
  <2>2. CallInOrder(next, stored.req, latestReq)
    BY <1>2, <2>1, CatalogsTyped, OrderFromLocals DEF CommitInv
  <2> QED BY <1>1, <1>3, <1>5, <2>2, QuietMoveKeepsOrder DEF Enqueue
<1>6. CASE EndTask(t, FALSE) \/ FetchUnlessFresh(t, fresh, FALSE)
  BY <1>1, <1>3, <1>6, FetchUnlessFreshKeepsOrder
<1> QED BY <1>4, <1>5, <1>6

LEMMA ConsumeKeepsOrder ==
    ASSUME CommitInv, TypeOK', NEW t \in Tasks,
           ConsumeBegin(t) \/ ConsumeWrite(t) \/ ConsumeEnd(t)
    PROVE  WriteOrder'
<1>1. /\ UNCHANGED <<latestReq, nextReq, pricer>> /\ Running(t)
      /\ task[t].pc \in {"consume", "consumeWrite", "consumeEnd"}
  BY DEF ConsumeBegin, ConsumeWrite, ConsumeEnd, providerVars
<1>2. /\ task[t].req <= latestReq /\ stored.req <= latestReq
      /\ latestReq < nextReq /\ lastChecked <= stored.req
      /\ stored.req \in Nat /\ latestReq \in Nat /\ task[t].req \in Nat
      /\ lastChecked \in Nat /\ nextReq \in Nat
      /\ CallInOrder(task[t], stored.req, latestReq)
  BY RequestsTyped DEF CommitInv, WriteOrder, FreshMeansStored, CallInOrder
<1>3. TypeOK /\ FlightTypeOK
  BY DEF CommitInv, TypeOK
<1>4. ASSUME NotConsumed(t), stored' = stored, lastChecked' = lastChecked
      PROVE  WriteOrder'
  BY <1>1, <1>2, <1>4, FetchUnlessFreshKeepsOrder DEF NotConsumed
<1>5. CASE ConsumeBegin(t)
  <2>1. stored' = stored /\ lastChecked' = lastChecked
    BY <1>5 DEF ConsumeBegin, providerVars, envVars
  <2>2. CASE StillConsumes(t) /\ Proceed(t, At(t, "consumeWrite"), FALSE)
    <3>1. task[t].req = latestReq /\ task[t].snap.req = task[t].req
      BY <1>2, <1>5, <2>2 DEF StillConsumes, MayContinue, ConsumeBegin, CallInOrder
    <3>2. IsCall(At(t, "consumeWrite"), task[t].kind, "consumeWrite", task[t].req,
                 task[t].conn, task[t].snap, task[t].res)
      BY <1>3, AtTyped DEF TaskPcs
    <3>3. CallInOrder(At(t, "consumeWrite"), stored.req, latestReq)
      BY <1>2, <3>1, <3>2, OrderFromLocals
    <3> QED BY <1>1, <1>2, <2>1, <2>2, <3>3, QuietMoveKeepsOrder DEF Proceed
  <2>3. CASE NotConsumed(t)
    BY <1>4, <2>1, <2>3
  <2> QED BY <1>5, <2>2, <2>3 DEF ConsumeBegin
<1>6. CASE ConsumeWrite(t)
  <2>1. PICK res \in {"ok", "refused", "failed"} :
           /\ stored' = IF res = "ok" THEN task[t].snap ELSE stored
           /\ Proceed(t, [At(t, "consumeEnd") EXCEPT !.res = res], FALSE)
    BY <1>6 DEF ConsumeWrite
  <2>2. /\ task[t].snap.req = task[t].req /\ stored.req <= task[t].req
        /\ lastChecked' = lastChecked
    BY <1>2, <1>6 DEF ConsumeWrite, CallInOrder, providerVars
  <2> DEFINE next == [At(t, "consumeEnd") EXCEPT !.res = res]
  <2>3. IsCall(next, task[t].kind, "consumeEnd", task[t].req, task[t].conn,
               task[t].snap, res)
    BY <1>3, AtTyped DEF TaskPcs, Results
  <2> HIDE DEF next
  <2>4. CallInOrder(next, stored'.req, latestReq')
    BY <1>1, <1>2, <2>1, <2>2, <2>3, OrderFromLocals
  <2>5. task' = [task EXCEPT ![t] = next]
    BY <2>1 DEF Proceed, next
  <2>6. /\ stored.req <= stored'.req /\ stored'.req <= latestReq'
        /\ lastChecked' <= stored'.req /\ latestReq <= latestReq' /\ latestReq' < nextReq'
    BY <1>1, <1>2, <2>1, <2>2
  <2> QED BY <1>1, <2>4, <2>5, <2>6, MoveKeepsOrder
<1>7. CASE ConsumeEnd(t)
  <2>1. stored' = stored
    BY <1>7 DEF ConsumeEnd, envVars
  <2>2. CASE StillConsumes(t)
    <3> DEFINE next == [At(t, "persist") EXCEPT !.tail = TRUE, !.net = FALSE,
                           !.force = FALSE, !.nonce = 0, !.res = "ok",
                           !.snap = NoCatalog]
    <3>1. IsCall(next, task[t].kind, "persist", task[t].req, task[t].conn,
                 NoCatalog, "ok")
      BY <1>3, AtTyped, ConstantsTyped DEF TaskPcs
    <3> HIDE DEF next
    <3>2. task' = [task EXCEPT ![t] = next]
      BY <1>7, <2>2 DEF ConsumeEnd, next
    <3>3. lastChecked' = lastChecked \/ (task[t].res = "ok" /\ lastChecked' = task[t].req)
      BY <1>7, <2>2 DEF ConsumeEnd
    <3>4. task[t].res = "ok" => stored.req = task[t].req
      BY <1>2, <1>7 DEF ConsumeEnd, CallInOrder
    <3>5. CallInOrder(next, stored.req, latestReq)
      BY <1>2, <3>1, OrderFromLocals DEF NoCatalog
    <3>6. lastChecked' <= stored.req
      BY <1>2, <3>3, <3>4
    <3> QED BY <1>1, <2>1, <3>2, <3>5, <3>6, QuietMoveKeepsOrder
  <2>3. CASE ~StillConsumes(t)
    BY <1>4, <1>7, <2>1, <2>3 DEF ConsumeEnd
  <2> QED BY <2>2, <2>3
<1> QED BY <1>5, <1>6, <1>7

LEMMA FetchKeepsOrder ==
    ASSUME CommitInv, TypeOK', NEW t \in Tasks, FetchDone(t) \/ FetchFail(t)
    PROVE  WriteOrder'
<1>1. /\ UNCHANGED <<latestReq, nextReq>> /\ stored' = stored
      /\ lastChecked' = lastChecked /\ task[t].pc = "fetch"
      /\ pricer' = pricer \/ \E cat : StartPricing(cat)
  BY DEF FetchDone, FetchFail, providerVars, envVars
<1>2. /\ lastChecked' <= stored.req /\ task[t].req <= latestReq
  BY <1>1 DEF CommitInv, WriteOrder, FreshMeansStored, CallInOrder
<1>3. CASE EndTask(t, FALSE)
  BY <1>1, <1>2, <1>3, FetchUnlessFreshKeepsOrder
<1>4. CASE Enqueue(t, At(t, "commit"))
  <2>1. IsCall(At(t, "commit"), task[t].kind, "commit", task[t].req, task[t].conn,
               task[t].snap, task[t].res)
    BY AtTyped DEF CommitInv, TypeOK, TaskPcs
  <2>2. CallInOrder(At(t, "commit"), stored.req, latestReq)
    BY <1>2, <2>1, OrderFromLocals
  <2> QED BY <1>1, <1>2, <1>4, <2>2, QuietMoveKeepsOrder DEF Enqueue
<1> QED BY <1>3, <1>4 DEF FetchDone, FetchFail

LEMMA CommitKeepsOrder ==
    ASSUME CommitInv, TypeOK', NEW t \in Tasks,
           CommitBegin(t) \/ CommitWrite(t) \/ CommitApply(t)
    PROVE  WriteOrder'
<1>1. /\ UNCHANGED <<latestReq, nextReq, pricer>> /\ Running(t)
      /\ task[t].pc \in {"commit", "commitWrite", "commitApply"}
  BY DEF CommitBegin, CommitWrite, CommitApply, providerVars
<1>2. /\ task[t].req <= latestReq /\ stored.req <= latestReq
      /\ latestReq < nextReq /\ lastChecked <= stored.req
      /\ stored.req \in Nat /\ latestReq \in Nat /\ task[t].req \in Nat
      /\ lastChecked \in Nat /\ nextReq \in Nat
      /\ CallInOrder(task[t], stored.req, latestReq)
  BY RequestsTyped DEF CommitInv, WriteOrder, FreshMeansStored, CallInOrder
<1>3. TypeOK /\ FlightTypeOK
  BY DEF CommitInv, TypeOK
<1>4. ASSUME EndTask(t, TRUE), stored' = stored, lastChecked' <= stored.req
      PROVE  WriteOrder'
  BY <1>1, <1>4, FetchUnlessFreshKeepsOrder
<1>5. CASE CommitBegin(t)
  <2>1. stored' = stored /\ lastChecked' = lastChecked
    BY <1>5 DEF CommitBegin, providerVars, envVars
  <2>2. CASE MayPublish(t) /\ Proceed(t, At(t, "commitWrite"), FALSE)
    <3>1. task[t].req = latestReq
      BY <2>2 DEF MayPublish, MayContinue
    <3>2. IsCall(At(t, "commitWrite"), task[t].kind, "commitWrite", task[t].req,
                 task[t].conn, task[t].snap, task[t].res)
      BY <1>3, AtTyped DEF TaskPcs
    <3>3. CallInOrder(At(t, "commitWrite"), stored.req, latestReq)
      BY <1>2, <3>1, <3>2, OrderFromLocals
    <3> QED BY <1>1, <1>2, <2>1, <2>2, <3>3, QuietMoveKeepsOrder DEF Proceed
  <2>3. CASE EndTask(t, TRUE)
    BY <1>2, <1>4, <2>1, <2>3
  <2> QED BY <1>5, <2>2, <2>3 DEF CommitBegin
<1>6. CASE CommitWrite(t)
  <2>1. lastChecked' = lastChecked /\ stored.req <= task[t].req
    BY <1>2, <1>6 DEF CommitWrite, CallInOrder, providerVars
  <2>2. ASSUME NEW res \in {"ok", "refused"},
               Proceed(t, [At(t, "commitApply") EXCEPT !.res = res], FALSE),
               stored' = IF res = "ok" THEN Fetched(t) ELSE stored
        PROVE  WriteOrder'
    <3> DEFINE next == [At(t, "commitApply") EXCEPT !.res = res]
    <3>1. IsCall(next, task[t].kind, "commitApply", task[t].req, task[t].conn,
                 task[t].snap, res)
      BY <1>3, AtTyped DEF TaskPcs, Results
    <3> HIDE DEF next
    <3>2. stored'.req = IF res = "ok" THEN task[t].req ELSE stored.req
      BY <1>3, <2>2, CatalogsTyped
    <3>3. CallInOrder(next, stored'.req, latestReq')
      BY <1>1, <1>2, <3>1, <3>2, OrderFromLocals
    <3>4. task' = [task EXCEPT ![t] = next]
      BY <2>2 DEF Proceed, next
    <3>5. /\ stored.req <= stored'.req /\ stored'.req <= latestReq'
          /\ lastChecked' <= stored'.req /\ latestReq <= latestReq'
          /\ latestReq' < nextReq'
      BY <1>1, <1>2, <2>1, <3>2
    <3> QED BY <1>1, <3>3, <3>4, <3>5, MoveKeepsOrder
  <2>3. CASE stored' = stored /\ EndTask(t, TRUE)
    BY <1>2, <1>4, <2>1, <2>3
  <2> QED BY <1>6, <2>2, <2>3 DEF CommitWrite
<1>7. CASE CommitApply(t)
  <2>1. stored' = stored /\ EndTask(t, TRUE)
    BY <1>7 DEF CommitApply, envVars
  <2>2. lastChecked' = lastChecked \/ (task[t].res = "ok" /\ lastChecked' = task[t].req)
    BY <1>7 DEF CommitApply
  <2>3. task[t].res = "ok" => stored.req = task[t].req
    BY <1>2, <1>7 DEF CommitApply, CallInOrder
  <2>4. lastChecked' <= stored.req
    BY <1>2, <2>2, <2>3
  <2> QED BY <1>4, <2>1, <2>4
<1> QED BY <1>5, <1>6, <1>7

LEMMA LoginKeepsOrder ==
    ASSUME CommitInv, TypeOK', NEW t \in Tasks,
           \/ LoginStart(t) \/ LoginAnswer(t) \/ LoginFetched(t)
           \/ LoginFetchFail(t) \/ PiStoresCredential(t)
    PROVE  WriteOrder'
<1>1. /\ UNCHANGED <<latestReq, nextReq>> /\ stored' = stored
      /\ lastChecked' = lastChecked
      /\ pricer' = pricer \/ \E cat : StartPricing(cat)
  BY DEF LoginStart, LoginAnswer, LoginFetched, LoginFetchFail, PiStoresCredential,
     providerVars, envVars
<1>2. /\ lastChecked' <= stored.req /\ task[t].req <= latestReq /\ 0 <= latestReq
      /\ stored.req \in Nat /\ latestReq \in Nat
  BY <1>1, RequestsTyped DEF CommitInv, WriteOrder, FreshMeansStored, CallInOrder
<1>3. TypeOK /\ FlightTypeOK
  BY DEF CommitInv, TypeOK
<1>4. ASSUME NEW next, NEW kind, NEW pc \in {"prompt", "fetch", "returned"}, NEW req,
             NEW conn, NEW snap, NEW res,
             IsCall(next, kind, pc, req, conn, snap, res), req <= latestReq,
             Proceed(t, next, FALSE)
      PROVE  WriteOrder'
  <2>1. CallInOrder(next, stored.req, latestReq)
    BY <1>4, OrderFromLocals
  <2> QED BY <1>1, <1>2, <1>4, <2>1, QuietMoveKeepsOrder DEF Proceed
<1>5. CASE EndTask(t, FALSE)
  <2>1. CallInOrder(NoTask, stored.req, latestReq)
    BY <1>2 DEF CallInOrder, NoTask
  <2> QED BY <1>1, <1>2, <1>5, <2>1, QuietMoveKeepsOrder DEF EndTask
<1>6. CASE LoginStart(t)
  <2> DEFINE next == [NoTask EXCEPT !.kind = "login", !.pc = "prompt", !.gen = gen]
  <2>1. IsCall(next, "login", "prompt", 0, NoConn, NoCatalog, "ok")
    BY <1>3, LoginCallTyped DEF TypeOK, ProviderTypeOK
  <2> HIDE DEF next
  <2>2. Proceed(t, next, FALSE)
    BY <1>6 DEF LoginStart, next
  <2> QED BY <1>2, <1>4, <2>1, <2>2
<1>7. CASE LoginAnswer(t)
  <2>1. ASSUME NEW c \in Conns,
               Proceed(t, [At(t, "fetch") EXCEPT !.conn = c, !.ov = ov], FALSE)
        PROVE  WriteOrder'
    <3> DEFINE next == [At(t, "fetch") EXCEPT !.conn = c, !.ov = ov]
    <3>1. IsCall(next, task[t].kind, "fetch", task[t].req, c, task[t].snap, task[t].res)
      BY <1>3, AtTyped DEF TypeOK, EnvTypeOK, TaskPcs
    <3> HIDE DEF next
    <3> QED BY <1>2, <1>4, <2>1, <3>1 DEF next
  <2> QED BY <1>5, <1>7, <2>1 DEF LoginAnswer
<1>8. CASE LoginFetched(t)
  <2> DEFINE next == [At(t, "returned") EXCEPT !.nonce = nextNonce]
  <2>1. IsCall(next, task[t].kind, "returned", task[t].req, task[t].conn,
               task[t].snap, task[t].res)
    BY <1>3, AtTyped DEF TypeOK, EnvTypeOK, TaskPcs
  <2> HIDE DEF next
  <2>2. Proceed(t, next, FALSE)
    BY <1>8 DEF LoginFetched, next
  <2> QED BY <1>2, <1>4, <2>1, <2>2
<1>9. CASE LoginFetchFail(t)
  <2>1. IsCall(At(t, "prompt"), task[t].kind, "prompt", task[t].req, task[t].conn,
               task[t].snap, task[t].res)
    BY <1>3, AtTyped DEF TaskPcs
  <2> QED BY <1>2, <1>4, <1>5, <1>9, <2>1 DEF LoginFetchFail
<1>10. CASE PiStoresCredential(t)
  BY <1>5, <1>10 DEF PiStoresCredential
<1> QED BY <1>6, <1>7, <1>8, <1>9, <1>10

(* A request is issued: it is newer than all the others, and than the store. *)
LEMMA StartKeepsOrder ==
    ASSUME CommitInv, TypeOK', NEW t \in Tasks, CallStep(t)
    PROVE  WriteOrder'
<1>1. /\ latestReq < nextReq /\ stored.req <= latestReq /\ lastChecked <= stored.req
      /\ stored.req \in Nat /\ latestReq \in Nat /\ nextReq \in Nat
      /\ lastChecked \in Nat
  BY RequestsTyped DEF CommitInv, WriteOrder, FreshMeansStored
<1>2. TypeOK
  BY DEF CommitInv
<1>3. ASSUME NEW next, NEW kind, NEW pc \in {"persist", "read", "restore", "fetch"},
             NEW conn, NEW snap, NEW res,
             IsCall(next, kind, pc, latestReq', conn, snap, res),
             snap.req <= stored.req,
             task' = [task EXCEPT ![t] = next], pricer' = pricer, stored' = stored,
             lastChecked' <= stored.req,
             \/ UNCHANGED <<latestReq, nextReq>>
             \/ latestReq' = nextReq /\ nextReq' = nextReq + 1
      PROVE  WriteOrder'
  <2>1. /\ latestReq <= latestReq' /\ latestReq' < nextReq' /\ latestReq' \in Nat
    BY <1>1, <1>3
  <2>2. CallInOrder(next, stored'.req, latestReq')
    BY <1>3, <2>1, OrderFromLocals
  <2> QED BY <1>3, <2>1, <2>2, MoveKeepsOrder
<1>4. ASSUME NEW net \in BOOLEAN, NEW force \in BOOLEAN, RefreshStart(t, net, force)
      PROVE  WriteOrder'
  <2> DEFINE r == IF net THEN nextReq ELSE latestReq
  <2>1. PICK pc \in {"persist", "read", "restore"}, changed \in BOOLEAN :
          \/ Enqueue(t, RefreshCall(r, pc, net, force, changed))
          \/ Proceed(t, RefreshCall(r, pc, net, force, changed), FALSE)
    BY <1>4 DEF RefreshStart, FirstPc
  <2>2. /\ latestReq' = r /\ nextReq' = IF net THEN nextReq + 1 ELSE nextReq
        /\ pricer' = pricer /\ stored' = stored
        /\ lastChecked' = 0 \/ lastChecked' = lastChecked
    BY <1>4 DEF RefreshStart
  <2>3. r \in Nat /\ pc \in TaskPcs
    BY <1>1, <2>1 DEF TaskPcs
  <2> DEFINE next == RefreshCall(r, pc, net, force, changed)
             snap == IF Contract = "publish" THEN stored ELSE NoCatalog
  <2>4. IsCall(next, "refresh", pc, r, cred.conn, snap, "ok")
    BY <1>2, <2>3, RefreshCallTyped
  <2>5. snap.req <= stored.req
    BY <1>1 DEF NoCatalog
  <2>6. task' = [task EXCEPT ![t] = next]
    BY <2>1 DEF Enqueue, Proceed
  <2>7. lastChecked' <= stored.req
    BY <1>1, <2>2
  <2>8. \/ UNCHANGED <<latestReq, nextReq>>
        \/ latestReq' = nextReq /\ nextReq' = nextReq + 1
    BY <2>2
  <2> HIDE DEF next, snap, r
  <2>9. IsCall(next, "refresh", pc, latestReq', cred.conn, snap, "ok")
    BY <2>2, <2>4
  <2> QED BY <1>3, <2>2, <2>5, <2>6, <2>7, <2>8, <2>9
<1>5. ASSUME NEW force \in BOOLEAN, BackgroundStart(t, force) \/ ForegroundStart(t)
      PROVE  WriteOrder'
  <2>1. /\ latestReq' = nextReq /\ nextReq' = nextReq + 1 /\ pricer' = pricer
        /\ stored' = stored /\ lastChecked' = lastChecked
    BY <1>5 DEF BackgroundStart, ForegroundStart, envVars
  <2>2. ASSUME NEW kind \in {"background", "foreground"}, OwnRefresh(t, kind),
               lastConn # NoConn
        PROVE  WriteOrder'
    <3> DEFINE next == FetchCall(kind, gen, nextReq, scopedStore, lastConn)
    <3>1. /\ gen \in Nat /\ nextReq \in Nat /\ scopedStore \in Nat
          /\ lastConn \in Conns /\ ov \in Nat
      BY <1>2, <2>2 DEF TypeOK, ProviderTypeOK, EnvTypeOK
    <3>2. IsCall(next, kind, "fetch", nextReq, lastConn, NoCatalog, "ok")
      BY <3>1, FetchCallTyped
    <3> HIDE DEF next
    <3>3. NoCatalog.req <= stored.req
      BY <1>1 DEF NoCatalog
    <3>4. task' = [task EXCEPT ![t] = next]
      BY <2>2 DEF OwnRefresh, Proceed, next
    <3> QED BY <1>1, <1>3, <2>1, <3>2, <3>3, <3>4
  <2>3. CASE task' = task
    <3>1. task' = [task EXCEPT ![t] = task[t]]
      BY <1>2, <2>3 DEF TypeOK, FlightTypeOK
    <3>2. CallInOrder(task[t], stored'.req, latestReq')
      <4>1. CallInOrder(task[t], stored.req, latestReq) /\ task[t] \in TaskRecords
        BY RequestsTyped DEF CommitInv, WriteOrder
      <4>2. latestReq' \in Nat /\ latestReq <= latestReq'
        BY <1>1, <2>1
      <4> QED BY <1>1, <2>1, <4>1, <4>2, CallStaysInOrder
    <3>3. /\ latestReq <= latestReq' /\ latestReq' < nextReq'
          /\ lastChecked' <= stored'.req /\ stored'.req = stored.req
      BY <1>1, <2>1
    <3>4. \A p \in Pricers : pricer'[p] = pricer[p] \/ pricer'[p].pc # "priceWrite"
      BY <2>1
    <3> DEFINE next == task[t]
    <3> HIDE DEF next
    <3>5. task' = [task EXCEPT ![t] = next] /\ CallInOrder(next, stored'.req, latestReq')
      BY <3>1, <3>2 DEF next
    <3> QED BY <3>3, <3>4, <3>5, MoveKeepsOrder
  <2> QED BY <1>5, <2>2, <2>3 DEF BackgroundStart, ForegroundStart
<1> QED BY <1>4, <1>5, LoginKeepsOrder DEF CallStep

(* A pricing sync writes only after it has begun. *)
LEMMA PricerUpdates ==
    ASSUME TypeOK, NEW p \in Pricers
    PROVE  /\ [pricer EXCEPT ![p] = NoPricer][p].pc = "idle"
           /\ \A pc : [pricer EXCEPT ![p].pc = pc][p].pc = pc
<1>1. pricer[p] \in PricerRecords /\ pricer \in [Pricers -> PricerRecords]
  BY DEF TypeOK, FlightTypeOK
<1>2. \A pc : [pricer[p] EXCEPT !.pc = pc].pc = pc
  BY <1>1 DEF PricerRecords
<1> QED BY <1>1, <1>2 DEF NoPricer

LEMMA PricerKeepsOrder ==
    ASSUME CommitInv, TypeOK', NEW p \in Pricers, PricerStep(p)
    PROVE  WriteOrder'
<1>1. /\ latestReq < nextReq /\ stored.req <= latestReq /\ lastChecked <= stored.req
      /\ stored.req \in Nat /\ latestReq \in Nat /\ nextReq \in Nat
      /\ lastChecked \in Nat /\ p \notin Tasks
      /\ pricer \in [Pricers -> PricerRecords]
      /\ \A t \in Tasks : /\ CallInOrder(task[t], stored.req, latestReq)
                          /\ task[t] \in TaskRecords
  BY RequestsTyped, SlotsAssumption
     DEF CommitInv, WriteOrder, FreshMeansStored, TypeOK, FlightTypeOK
<1>2. UNCHANGED <<latestReq, nextReq, lastChecked, task>>
  BY DEF PricerStep, PriceSynced, PriceAborted, PriceBegin, PriceWrite, PriceEnd,
     EndPricer, providerVars
<1>3. CASE stored' = stored
  <2>1. \A q \in Pricers \ {p} : pricer'[q] = pricer[q]
    BY <1>1 DEF PricerStep, PriceSynced, PriceAborted, PriceBegin, PriceWrite,
       PriceEnd, EndPricer
  <2>2. pricer'[p].pc = "priceWrite" => pricer'[p].cat.req \in stored.req .. latestReq
    <3>1. CASE PriceBegin(p) /\ Rewrites(p)
      <4>1. models.req = latestReq
        BY <3>1 DEF Rewrites
      <4>2. pricer'[p].cat = models
        BY <1>1, <3>1 DEF PriceBegin, PricerRecords
      <4> QED BY <1>1, <4>1, <4>2
    <3>2. CASE ~(PriceBegin(p) /\ Rewrites(p))
      <4>1. pricer'[p].pc # "priceWrite"
        <5>1. TypeOK
          BY DEF CommitInv
        <5>2. CASE PriceSynced(p)
          BY <5>1, <5>2, PricerUpdates DEF PriceSynced
        <5>3. CASE PriceAborted(p)
          BY <5>1, <5>3, PricerUpdates DEF PriceAborted, EndPricer
        <5>4. CASE PriceBegin(p) /\ ~Rewrites(p)
          BY <5>1, <5>4, PricerUpdates DEF PriceBegin, EndPricer
        <5>5. CASE PriceWrite(p)
          BY <5>1, <5>5, PricerUpdates DEF PriceWrite, EndPricer
        <5>6. CASE PriceEnd(p)
          BY <5>1, <5>6, PricerUpdates DEF PriceEnd, EndPricer
        <5> QED BY <3>2, <5>2, <5>3, <5>4, <5>5, <5>6 DEF PricerStep
      <4> QED BY <4>1
    <3> QED BY <3>1, <3>2
  <2> QED BY <1>1, <1>2, <1>3, <2>1, <2>2 DEF CommitInv, WriteOrder, FreshMeansStored
<1>4. CASE PriceWrite(p) /\ stored' = pricer[p].cat
  <2>1. Running(p) /\ pricer[p].pc = "priceWrite"
    BY <1>4 DEF PriceWrite
  <2>2. stored'.req \in stored.req .. latestReq
    BY <1>4, <2>1 DEF CommitInv, WriteOrder
  <2>3. \A t \in Tasks : task[t].pc \notin BodyPcs
    BY <1>1, <2>1 DEF CommitInv, OneBodyAtATime, Running
  <2>4. \A t \in Tasks : CallInOrder(task'[t], stored'.req, latestReq')
    <3>1. stored'.req \in Nat /\ stored.req <= stored'.req
      BY <1>1, <2>2
    <3> QED BY <1>1, <1>2, <2>3, <3>1, CallStaysInOrder
  <2>5. \A q \in Pricers : pricer'[q].pc # "priceWrite"
    <3>1. \A q \in Pricers \ {p} : pricer[q].pc # "priceWrite"
      BY <2>1 DEF CommitInv, OneBodyAtATime, Running, BodyPcs
    <3>2. \A q \in Pricers \ {p} : pricer'[q] = pricer[q]
      BY <1>1, <1>4 DEF PriceWrite, EndPricer
    <3>3. pricer'[p].pc # "priceWrite"
      <4>1. TypeOK
        BY DEF CommitInv
      <4> QED BY <1>4, <4>1, PricerUpdates DEF PriceWrite, EndPricer
    <3> QED BY <3>1, <3>2, <3>3
  <2> QED BY <1>1, <1>2, <2>2, <2>4, <2>5 DEF WriteOrder, FreshMeansStored
<1>5. stored' = stored \/ (PriceWrite(p) /\ stored' = pricer[p].cat)
  BY DEF PricerStep, PriceSynced, PriceAborted, PriceBegin, PriceWrite, PriceEnd,
     envVars
<1> QED BY <1>3, <1>4, <1>5

LEMMA CommitInvInductive == CommitInv /\ [Next]_vars => CommitInv'
<1> SUFFICES ASSUME CommitInv, [Next]_vars PROVE CommitInv'
  OBVIOUS
<1>1. TypeOK' /\ OneBodyAtATime'
  BY NextTyped, OneBodyInductive DEF CommitInv
<1>2. CASE UNCHANGED vars \/ ShutdownEnd \/ EnvironmentStep
  <2>1. /\ UNCHANGED <<latestReq, nextReq, stored, task, pricer>>
        /\ lastChecked' = lastChecked \/ lastChecked' = 0
    BY <1>2 DEF vars, providerVars, flightVars, envVars, ShutdownEnd, EnvironmentStep,
       ShutdownStart, BeginSession, OverrideEdit, TimePasses, PendingExpires,
       OtherReplaces, OtherLogsIn
  <2> QED BY <1>1, <2>1, RequestsTyped DEF CommitInv, WriteOrder, FreshMeansStored
<1>3. ASSUME NEW t \in Tasks, TaskStep(t)
      PROVE  WriteOrder'
  BY <1>1, <1>3, PersistKeepsOrder, RestoreKeepsOrder, ConsumeKeepsOrder,
     FetchKeepsOrder, CommitKeepsOrder, LoginKeepsOrder DEF TaskStep
<1> QED BY <1>1, <1>2, <1>3, StartKeepsOrder, PricerKeepsOrder DEF Next, CommitInv

LEMMA InitCommitInv == Init => CommitInv
<1> SUFFICES ASSUME Init PROVE CommitInv
  OBVIOUS
<1>1. TypeOK
  BY InitTyped
<1>2. OneBodyAtATime
  BY DEF Init, OneBodyAtATime, NoTask, NoPricer, BodyPcs
<1>3. WriteOrder
  BY DEF Init, WriteOrder, FreshMeansStored, CallInOrder, NoTask, NoPricer, NoCatalog
<1> QED BY <1>1, <1>2, <1>3 DEF CommitInv

(* Every commit writes in the order of the requests: no call that is suspended  *)
(* around its write can put an older catalog over a newer one.                  *)
THEOREM CommitsInOrder == Spec => []WriteOrder
<1>1. CommitInv => WriteOrder
  BY DEF CommitInv
<1> QED BY <1>1, InitCommitInv, CommitInvInductive, PTL DEF Spec

(* The freshness window always stands for a catalog that is on disk. *)
THEOREM FreshnessIsDurable == Spec => []FreshMeansStored
<1>1. CommitInv => FreshMeansStored
  BY DEF CommitInv, WriteOrder
<1> QED BY <1>1, InitCommitInv, CommitInvInductive, PTL DEF Spec

-----------------------------------------------------------------------------
(* The provider implements the board *)

BoardStep == [Board!Next]_(Board!boardVars)

LEMMA TaskImplementsBoard ==
    ASSUME CommitInv, CommitInv', NEW t \in Tasks, TaskStep(t)
    PROVE  BoardStep
<1>1. /\ stored.req \in Nat /\ latestReq \in Nat /\ task[t].req \in Nat
      /\ stored.req <= latestReq /\ task[t].req <= latestReq
      /\ CallInOrder(task[t], stored.req, latestReq)
  BY RequestsTyped DEF CommitInv, WriteOrder, CallInOrder
<1>2. latestReq' = latestReq /\ shut' = shut
  BY DEF TaskStep, PersistBegin, PersistWrite, PersistEnd, LegacyRead, Restore,
     ConsumeBegin, ConsumeWrite, ConsumeEnd, FetchDone, FetchFail, CommitBegin,
     CommitWrite, CommitApply, LoginFetched, LoginFetchFail, PiStoresCredential,
     providerVars
<1>3. CASE ConsumeEnd(t) \/ CommitApply(t)
  <2>1. stored' = stored
    BY <1>3 DEF ConsumeEnd, CommitApply, envVars
  <2>2. lastPub' = lastPub \/ (MayContinue(t) /\ lastPub' = task[t].req)
    BY <1>3 DEF ConsumeEnd, CommitApply, StillConsumes, MayPublish
  <2> QED BY <1>2, <2>1, <2>2 DEF BoardStep, Board!Next, Board!Show, Board!boardVars,
          MayContinue, LifecycleMatches
<1>4. CASE ConsumeWrite(t) \/ CommitWrite(t)
  <2>1. lastPub' = lastPub
    BY <1>4 DEF ConsumeWrite, CommitWrite, historyVars
  <2>2. stored' = stored \/ stored'.req = task[t].req
    BY <1>1, <1>4, CatalogsTyped DEF ConsumeWrite, CommitWrite, CallInOrder, CommitInv
  <2>3. stored.req <= task[t].req
    BY <1>1, <1>4 DEF ConsumeWrite, CommitWrite, CallInOrder
  <2> QED BY <1>1, <1>2, <2>1, <2>2, <2>3 DEF BoardStep, Board!Next, Board!Save,
          Board!boardVars
<1>5. CASE ~(ConsumeEnd(t) \/ CommitApply(t) \/ ConsumeWrite(t) \/ CommitWrite(t))
  <2>1. stored' = stored /\ lastPub' = lastPub
    BY <1>5 DEF TaskStep, PersistBegin, PersistWrite, PersistEnd, LegacyRead, Restore,
       ConsumeBegin, FetchDone, FetchFail, CommitBegin, LoginFetched, LoginFetchFail,
       PiStoresCredential, envVars, historyVars
  <2> QED BY <1>2, <2>1 DEF BoardStep, Board!boardVars
<1> QED BY <1>3, <1>4, <1>5

LEMMA CallImplementsBoard ==
    ASSUME CommitInv, CommitInv', NEW t \in Tasks, CallStep(t)
    PROVE  BoardStep
<1>1. /\ latestReq < nextReq /\ nextReq \in Nat /\ latestReq \in Nat
  BY RequestsTyped DEF CommitInv, WriteOrder
<1>2. /\ stored' = stored /\ lastPub' = lastPub /\ shut' = shut
      /\ latestReq' = latestReq \/ latestReq' = nextReq
  BY DEF CallStep, RefreshStart, BackgroundStart, ForegroundStart, LoginStart,
     LoginAnswer, providerVars, envVars, historyVars
<1> QED BY <1>1, <1>2 DEF BoardStep, Board!Next, Board!Issue, Board!boardVars

LEMMA PricerImplementsBoard ==
    ASSUME CommitInv, CommitInv', NEW p \in Pricers, PricerStep(p)
    PROVE  BoardStep
<1>1. latestReq' = latestReq /\ shut' = shut /\ lastPub' = lastPub
  BY DEF PricerStep, PriceSynced, PriceAborted, PriceBegin, PriceWrite, PriceEnd,
     providerVars, historyVars
<1>2. stored' = stored \/ stored'.req \in stored.req .. latestReq
  BY DEF PricerStep, PriceSynced, PriceAborted, PriceBegin, PriceWrite, PriceEnd,
     envVars, CommitInv, WriteOrder
<1> QED BY <1>1, <1>2 DEF BoardStep, Board!Next, Board!Save, Board!boardVars

LEMMA LifecycleImplementsBoard ==
    ASSUME CommitInv, CommitInv', ShutdownEnd \/ EnvironmentStep
    PROVE  BoardStep
<1>1. latestReq' = latestReq /\ stored' = stored /\ lastPub' = lastPub
  BY DEF ShutdownEnd, EnvironmentStep, ShutdownStart, BeginSession, OverrideEdit,
     TimePasses, PendingExpires, OtherReplaces, OtherLogsIn, providerVars, envVars,
     historyVars
<1>2. shut \in BOOLEAN /\ shut' \in BOOLEAN
  BY DEF CommitInv, TypeOK, ProviderTypeOK
<1>3. CASE shut' = shut
  BY <1>1, <1>3 DEF BoardStep, Board!boardVars
<1>4. CASE shut' = ~shut
  BY <1>1, <1>4 DEF BoardStep, Board!Next, Board!Toggle, Board!boardVars
<1> QED BY <1>2, <1>3, <1>4

(* The provider keeps its promise for any number of calls, connections and     *)
(* requests and under both contracts: only the newest request is shown, only   *)
(* in a session, and the catalog on disk never goes back to an older request.  *)
THEOREM ProviderImplementsBoard == Spec => ImplementsBoard
<1>1. Init => Board!Init
  BY DEF Init, Board!Init, NoCatalog
<1>2. CommitInv /\ CommitInv' /\ [Next]_vars => BoardStep
  <2> SUFFICES ASSUME CommitInv, CommitInv', [Next]_vars PROVE BoardStep
    OBVIOUS
  <2>1. CASE UNCHANGED vars
    BY <2>1 DEF vars, providerVars, envVars, historyVars, BoardStep, Board!boardVars
  <2> QED BY <2>1, TaskImplementsBoard, CallImplementsBoard, PricerImplementsBoard,
          LifecycleImplementsBoard DEF Next
<1> QED BY <1>1, <1>2, InitCommitInv, CommitInvInductive, PTL
        DEF Spec, ImplementsBoard, Board!Spec, BoardStep

(* The commit chain runs one body at a time, and each is in order with what is *)
(* stored.                                                                     *)
THEOREM CommitsTakeTurns == Spec => []CommitsInTurn
BY CommitBodiesExclude, CommitsInOrder, PTL DEF CommitsInTurn

-----------------------------------------------------------------------------
(* What a call carries from one await to the next *)

FetchPcs   == {"fetch", "commit", "commitWrite", "commitApply"}
ConsumePcs == {"consume", "consumeWrite", "consumeEnd"}
PersistPcs == {"persist", "persistWrite", "persistEnd"}

(* A call whose restore is before it, and one that may write to the store. *)
Carries(c) == c.pc \in PersistPcs \cup {"restore"} /\ ~c.tail
Writes(c)  == c.net \/ (c.pc \in FetchPcs \cup ConsumePcs /\ c.kind # "login")

(* A kind has its awaits; only the registry step of a consumed login is a tail. *)
KindOk(c) ==
    /\ c.kind = "idle" => c.pc = "idle"
    /\ c.kind = "login" => c.pc \in {"prompt", "fetch", "returned"}
    /\ c.pc \in {"prompt", "returned"} => c.kind = "login"
    /\ c.pc \in PersistPcs \cup ConsumePcs \cup {"read", "restore"} => c.kind = "refresh"
    /\ c.tail => c.pc \in PersistPcs

SameCall(n, c) == n.kind = c.kind /\ n.gen = c.gen /\ n.req = c.req /\ n.phase = c.phase

(* What a step of call c that leaves it as n may do. *)
Moved(c, n) ==
    /\ n = NoTask \/ SameCall(n, c)
    /\ KindOk(n)
    /\ Writes(n) => Writes(c)
    /\ Contract = "publish" =>
          /\ n.pc # "read"
          /\ Carries(n) => Carries(c) /\ n.snap = c.snap
    /\ n.pc \in FetchPcs /\ n.kind # "login" => n.ov = ov \/ (c.pc \in FetchPcs /\ n.ov = c.ov)
    /\ n.pc \in ConsumePcs =>
          \/ c.pc \in ConsumePcs /\ n.snap = c.snap /\ n.nonce = c.nonce
          \/ n.snap.src = "login" /\ n.snap.n = n.nonce /\ n.snap.store = n.phase
    /\ n.pc \in BodyPcs /\ shut => c.pc \in BodyPcs

(* A step of task t moves it, and no other; it stays in the commit chain as far as a
   shutdown that waits for the chain is concerned, or leaves its body. *)
Moves(t) ==
    /\ \A u \in Tasks : u # t => task'[u] = task[u]
    /\ Moved(task[t], task'[t])
    /\ sd.queued \ {t} \subseteq sd'.queued
    /\ task'[t].pc \in BodyPcs => sd'.queued = sd.queued

(* A call that only its await and its result tell from c. *)
IsAt(n, c, pc) ==
    /\ n \in TaskRecords /\ n.pc = pc /\ SameCall(n, c) /\ n.net = c.net /\ n.tail = c.tail
    /\ n.snap = c.snap /\ n.ov = c.ov /\ n.nonce = c.nonce /\ n.conn = c.conn

LEMMA AtIs ==
    ASSUME TypeOK, NEW t \in Tasks, NEW pc \in TaskPcs
    PROVE  /\ IsAt(At(t, pc), task[t], pc)
           /\ \A r \in Results : IsAt([At(t, pc) EXCEPT !.res = r], task[t], pc)
<1> DEFINE c == task[t]
<1>1. c \in TaskRecords
  BY DEF TypeOK, FlightTypeOK
<1>2. At(t, pc) = [c EXCEPT !.pc = pc]
  BY DEF At
<1> HIDE DEF c
<1>3. IsAt([c EXCEPT !.pc = pc], c, pc)
  BY <1>1 DEF TaskRecords, SameCall, IsAt
<1>4. \A r \in Results : IsAt([[c EXCEPT !.pc = pc] EXCEPT !.res = r], c, pc)
  BY <1>1 DEF TaskRecords, SameCall, IsAt
<1>5. QED
  BY <1>2, <1>3, <1>4 DEF c

LEMMA NoTaskIs ==
    /\ KindOk(NoTask) /\ ~Writes(NoTask) /\ ~Carries(NoTask) /\ NoTask.pc = "idle" /\ NoTask.phase = 0
    /\ NoTask.gen = 0 /\ NoTask.kind = "idle" /\ NoTask.req = 0
BY DEF NoTask, KindOk, Writes, Carries, FetchPcs, ConsumePcs, PersistPcs

LEMMA PcsAre ==
    /\ FetchPcs \cup ConsumePcs \cup PersistPcs \cup BodyPcs \cup {"restore"} \subseteq
          TaskPcs \cup {"priceWrite", "priceEnd"}
    /\ "read" \in TaskPcs
BY DEF FetchPcs, ConsumePcs, PersistPcs, BodyPcs, TaskPcs

(* A task that ends. *)
LEMMA EndMoves ==
    ASSUME TypeOK, NEW t \in Tasks, NEW left \in BOOLEAN, EndTask(t, left)
    PROVE  Moves(t)
<1>1. /\ task'[t] = NoTask /\ \A u \in Tasks : u # t => task'[u] = task[u]
  BY DEF EndTask, TypeOK, FlightTypeOK
<1>2. sd.queued \ {t} \subseteq sd'.queued
  BY DEF EndTask, SdWithout, TypeOK, FlightTypeOK
<1>3. Moved(task[t], NoTask)
  BY NoTaskIs DEF Moved, FetchPcs, ConsumePcs, BodyPcs
<1>4. QED
  BY <1>1, <1>2, <1>3, NoTaskIs DEF Moves, BodyPcs

(* A task that goes on as a call that its step may leave. *)
LEMMA ProceedMoves ==
    ASSUME TypeOK, NEW t \in Tasks, NEW n, NEW left \in BOOLEAN, Proceed(t, n, left),
           Moved(task[t], n), left => n.pc \notin BodyPcs
    PROVE  Moves(t)
<1>1. /\ task'[t] = n /\ \A u \in Tasks : u # t => task'[u] = task[u]
  BY DEF Proceed, TypeOK, FlightTypeOK
<1>2. /\ sd.queued \ {t} \subseteq sd'.queued
      /\ ~left => sd'.queued = sd.queued
  BY DEF Proceed, SdWithout, TypeOK, FlightTypeOK
<1>3. QED
  BY <1>1, <1>2 DEF Moves

LEMMA EnqueueMoves ==
    ASSUME TypeOK, NEW t \in Tasks, NEW n, Enqueue(t, n), Moved(task[t], n)
    PROVE  Moves(t)
BY DEF Enqueue, TypeOK, FlightTypeOK, Moves

(* A step to the next await with all locals kept. *)
LEMMA AtMoves ==
    ASSUME TypeOK, NEW t \in Tasks, NEW pc \in TaskPcs, NEW r \in Results, KindOk(task[t]),
           LET c == task[t] IN
             /\ c.kind = "login" => pc \in {"prompt", "fetch", "returned"}
             /\ pc \in {"prompt", "returned"} => c.kind = "login"
             /\ c.kind # "idle"
             /\ c.tail => pc \in PersistPcs
             /\ pc \in FetchPcs => c.pc \in FetchPcs
             /\ pc \in ConsumePcs => c.pc \in ConsumePcs
             /\ pc \in PersistPcs \cup {"read", "restore"} => c.kind = "refresh"
             /\ Contract = "publish" => /\ pc # "read"
                                        /\ pc \in PersistPcs \cup {"restore"} => c.pc \in PersistPcs
             /\ shut /\ pc \in BodyPcs => c.pc \in BodyPcs
    PROVE  Moved(task[t], At(t, pc)) /\ Moved(task[t], [At(t, pc) EXCEPT !.res = r])
<1>1. \A n : IsAt(n, task[t], pc) => Moved(task[t], n)
  BY DEF IsAt, Moved, KindOk, Carries, Writes, SameCall
<1>2. QED
  BY <1>1, AtIs

LEMMA FetchCallIs ==
    ASSUME TypeOK, NEW kind, NEW g, NEW r, NEW h, NEW c
    PROVE  LET n == FetchCall(kind, g, r, h, c) IN
             /\ n.kind = kind /\ n.pc = "fetch" /\ n.gen = g /\ n.req = r /\ n.phase = h
             /\ n.conn = c /\ n.ov = ov /\ ~n.net /\ ~n.tail
BY DEF FetchCall, NoTask

KindsOk == \A t \in Tasks : KindOk(task[t])

(* The registry step of a refresh. *)
LEMMA AfterPersistMoves ==
    ASSUME TypeOK, KindsOk, NEW t \in Tasks, NEW stale \in BOOLEAN,
           task[t].pc \in PersistPcs, AfterPersist(t, stale)
    PROVE  Moves(t)
<1>1. KindOk(task[t]) /\ FirstPc \in TaskPcs /\ FirstPc \notin BodyPcs /\ "ok" \in Results
  BY DEF KindsOk, FirstPc, TaskPcs, BodyPcs, Results
<1>2. ASSUME ~task[t].tail PROVE Moved(task[t], [At(t, FirstPc) EXCEPT !.res = "ok"])
  BY <1>1, <1>2, AtMoves DEF KindOk, FirstPc, PersistPcs, FetchPcs, ConsumePcs, BodyPcs
<1>3. CASE EndTask(t, TRUE)
  BY <1>3, EndMoves
<1>4. CASE Proceed(t, [At(t, FirstPc) EXCEPT !.res = "ok"], TRUE) /\ ~task[t].tail
  <2>1. [At(t, FirstPc) EXCEPT !.res = "ok"].pc = FirstPc
    BY <1>1, AtIs DEF IsAt
  <2>2. QED
    BY <1>1, <1>2, <1>4, <2>1, ProceedMoves
<1>5. QED
  BY <1>3, <1>4 DEF AfterPersist

LEMMA PersistMoves ==
    ASSUME TypeOK, KindsOk, NEW t \in Tasks,
           PersistBegin(t) \/ PersistWrite(t) \/ PersistEnd(t) \/ LegacyRead(t),
           Contract = "publish" => task[t].pc # "read"
    PROVE  Moves(t)
<1>1. KindOk(task[t]) /\ task[t] \in TaskRecords
  BY DEF KindsOk, TypeOK, FlightTypeOK
<1>2. CASE PersistBegin(t)
  <2>1. task[t].pc = "persist"
    BY <1>2 DEF PersistBegin
  <2>2. CASE AfterPersist(t, FALSE)
    BY <2>1, <2>2, AfterPersistMoves DEF PersistPcs
  <2>3. CASE Proceed(t, At(t, "persistWrite"), FALSE) /\ ~shut
    <3>1. Moved(task[t], At(t, "persistWrite"))
      BY <1>1, <2>1, <2>3, AtMoves DEF KindOk, PersistPcs, FetchPcs, ConsumePcs, TaskPcs, Results
    <3>2. QED
      BY <2>3, <3>1, ProceedMoves
  <2>4. QED
    BY <1>2, <2>2, <2>3 DEF PersistBegin, LifecycleMatches
<1>3. CASE PersistWrite(t)
  <2>1. PICK res \in {"ok", "stale", "failed"} :
                 Proceed(t, [At(t, "persistEnd") EXCEPT !.res = res], FALSE)
    BY <1>3 DEF PersistWrite
  <2>2. Moved(task[t], [At(t, "persistEnd") EXCEPT !.res = res])
    BY <1>1, <1>3, AtMoves DEF PersistWrite, KindOk, PersistPcs, FetchPcs, ConsumePcs, TaskPcs,
       Results, BodyPcs
  <2>3. QED
    BY <2>1, <2>2, ProceedMoves
<1>4. CASE PersistEnd(t)
  BY <1>4, AfterPersistMoves DEF PersistEnd, PersistPcs
<1>5. CASE LegacyRead(t)
  <2>1. PICK s \in {stored, NoCatalog} : Proceed(t, [At(t, "restore") EXCEPT !.snap = s], FALSE)
    BY <1>5 DEF LegacyRead
  <2> DEFINE n == [At(t, "restore") EXCEPT !.snap = s]
  <2>2. /\ n.pc = "restore" /\ SameCall(n, task[t]) /\ n.net = task[t].net /\ n.tail = task[t].tail
    BY <1>1 DEF At, TaskRecords, SameCall
  <2>3. task[t].pc = "read" /\ Contract # "publish"
    BY <1>5 DEF LegacyRead
  <2> HIDE DEF n
  <2>4. Moved(task[t], n)
    BY <1>1, <2>2, <2>3 DEF Moved, KindOk, Writes, SameCall, PersistPcs, FetchPcs, ConsumePcs, BodyPcs
  <2>5. QED
    BY <2>1, <2>4, ProceedMoves DEF n
<1>6. QED
  BY <1>2, <1>3, <1>4, <1>5

(* What follows a restore, or a login's catalog that could not be consumed. *)
LEMMA FetchUnlessFreshMoves ==
    ASSUME TypeOK, KindsOk, NEW t \in Tasks, NEW fresh, NEW left \in BOOLEAN,
           task[t].kind = "refresh", FetchUnlessFresh(t, fresh, left)
    PROVE  Moves(t)
<1>1. CASE EndTask(t, left)
  BY <1>1, EndMoves
<1> DEFINE n == FetchCall("refresh", task[t].gen, task[t].req, task[t].phase, task[t].conn)
<1>2. CASE task[t].net /\ Proceed(t, n, left)
  <2>1. /\ n.kind = "refresh" /\ n.pc = "fetch" /\ n.gen = task[t].gen /\ n.req = task[t].req
        /\ n.phase = task[t].phase /\ n.ov = ov /\ ~n.net /\ ~n.tail
    BY FetchCallIs
  <2> HIDE DEF n
  <2>2. Moved(task[t], n) /\ n.pc \notin BodyPcs
    BY <1>2, <2>1 DEF Moved, KindOk, Writes, Carries, SameCall, PersistPcs, FetchPcs, ConsumePcs, BodyPcs
  <2>3. QED
    BY <1>2, <2>2, ProceedMoves
<1>3. QED
  BY <1>1, <1>2 DEF FetchUnlessFresh

LEMMA RestoreMoves ==
    ASSUME TypeOK, KindsOk, NEW t \in Tasks, Restore(t)
    PROVE  Moves(t)
<1>1. KindOk(task[t]) /\ task[t] \in TaskRecords /\ task[t].pc = "restore" /\ task[t].kind = "refresh"
  BY DEF KindsOk, KindOk, TypeOK, FlightTypeOK, Restore
<1>2. CASE EndTask(t, FALSE)
  BY <1>2, EndMoves
<1>3. CASE \E fresh : FetchUnlessFresh(t, fresh, FALSE)
  BY <1>1, <1>3, FetchUnlessFreshMoves
<1> DEFINE n == [At(t, "consume") EXCEPT !.snap = LoginCatalog(t), !.changed = FALSE]
<1>4. CASE task[t].net /\ PendingMatches(t) /\ Enqueue(t, n)
  <2>1. /\ n.pc = "consume" /\ SameCall(n, task[t]) /\ n.net = task[t].net /\ n.tail = task[t].tail
        /\ n.snap = LoginCatalog(t) /\ n.nonce = task[t].nonce
    BY <1>1 DEF At, TaskRecords, SameCall
  <2>2. /\ LoginCatalog(t).src = "login" /\ LoginCatalog(t).n = task[t].nonce
        /\ LoginCatalog(t).store = task[t].phase
    BY <1>4 DEF LoginCatalog, PendingMatches
  <2> HIDE DEF n
  <2>3. Moved(task[t], n)
    BY <1>1, <1>4, <2>1, <2>2 DEF Moved, KindOk, Writes, Carries, SameCall, PersistPcs, FetchPcs,
       ConsumePcs, BodyPcs
  <2>4. QED
    BY <1>4, <2>3, EnqueueMoves
<1>5. QED
  BY <1>2, <1>3, <1>4 DEF Restore

LEMMA ConsumeMoves ==
    ASSUME TypeOK, KindsOk, NEW t \in Tasks, ConsumeBegin(t) \/ ConsumeWrite(t) \/ ConsumeEnd(t)
    PROVE  Moves(t)
<1>1. KindOk(task[t]) /\ task[t] \in TaskRecords /\ task[t].kind = "refresh" /\ task[t].pc \in ConsumePcs
      /\ ~task[t].tail
  BY DEF KindsOk, KindOk, TypeOK, FlightTypeOK, ConsumePcs, PersistPcs, ConsumeBegin, ConsumeWrite, ConsumeEnd
<1>2. ASSUME NotConsumed(t) PROVE Moves(t)
  <2>1. CASE EndTask(t, TRUE)
    BY <2>1, EndMoves
  <2>2. CASE FetchUnlessFresh(t, IsFresh(lastChecked, models), TRUE)
    BY <1>1, <2>2, FetchUnlessFreshMoves
  <2>3. QED
    BY <1>2, <2>1, <2>2 DEF NotConsumed
<1>3. CASE ConsumeBegin(t)
  <2>1. CASE StillConsumes(t) /\ Proceed(t, At(t, "consumeWrite"), FALSE)
    <3>1. ~shut
      BY <2>1 DEF StillConsumes, MayContinue, LifecycleMatches
    <3>2. Moved(task[t], At(t, "consumeWrite"))
      BY <1>1, <3>1, AtMoves DEF KindOk, PersistPcs, FetchPcs, ConsumePcs, TaskPcs, Results
    <3>3. QED
      BY <2>1, <3>2, ProceedMoves
  <2>2. QED
    BY <1>2, <1>3, <2>1 DEF ConsumeBegin
<1>4. CASE ConsumeWrite(t)
  <2>1. PICK res \in {"ok", "refused", "failed"} :
                 Proceed(t, [At(t, "consumeEnd") EXCEPT !.res = res], FALSE)
    BY <1>4 DEF ConsumeWrite
  <2>2. Moved(task[t], [At(t, "consumeEnd") EXCEPT !.res = res])
    BY <1>1, <1>4, AtMoves DEF ConsumeWrite, KindOk, PersistPcs, FetchPcs, ConsumePcs, TaskPcs,
       Results, BodyPcs
  <2>3. QED
    BY <2>1, <2>2, ProceedMoves
<1>5. CASE ConsumeEnd(t)
  <2> DEFINE n == [At(t, "persist") EXCEPT
                       !.tail = TRUE, !.net = FALSE, !.force = FALSE,
                       !.nonce = 0, !.res = "ok", !.snap = NoCatalog]
  <2>1. CASE task' = [task EXCEPT ![t] = n] /\ sd' = SdWithout(t, TRUE, FALSE)
    <3>1. n.pc = "persist" /\ SameCall(n, task[t]) /\ ~n.net /\ n.tail
      BY <1>1 DEF At, TaskRecords, SameCall
    <3> HIDE DEF n
    <3>2. Moved(task[t], n)
      BY <1>1, <3>1 DEF Moved, KindOk, Writes, Carries, SameCall, PersistPcs, FetchPcs, ConsumePcs, BodyPcs
    <3>3. /\ task'[t] = n /\ \A u \in Tasks : u # t => task'[u] = task[u]
          /\ sd.queued \ {t} \subseteq sd'.queued
      BY <2>1 DEF TypeOK, FlightTypeOK, SdWithout
    <3>4. QED
      BY <3>1, <3>2, <3>3 DEF Moves, BodyPcs
  <2>2. QED
    BY <1>2, <1>5, <2>1 DEF ConsumeEnd
<1>6. QED
  BY <1>3, <1>4, <1>5

LEMMA FetchMoves ==
    ASSUME TypeOK, KindsOk, NEW t \in Tasks, FetchDone(t) \/ FetchFail(t)
    PROVE  Moves(t)
<1>1. KindOk(task[t]) /\ task[t].pc = "fetch" /\ task[t].kind # "login"
  BY DEF KindsOk, FetchDone, FetchFail
<1>2. CASE EndTask(t, FALSE)
  BY <1>2, EndMoves
<1>3. CASE Enqueue(t, At(t, "commit"))
  <2>1. Moved(task[t], At(t, "commit"))
    BY <1>1, AtMoves DEF KindOk, PersistPcs, FetchPcs, ConsumePcs, BodyPcs, TaskPcs, Results
  <2>2. QED
    BY <1>3, <2>1, EnqueueMoves
<1>4. QED
  BY <1>2, <1>3 DEF FetchDone, FetchFail

LEMMA CommitMoves ==
    ASSUME TypeOK, KindsOk, NEW t \in Tasks, CommitBegin(t) \/ CommitWrite(t) \/ CommitApply(t)
    PROVE  Moves(t)
<1>1. KindOk(task[t]) /\ task[t].kind # "login" /\ task[t].pc \in FetchPcs /\ task[t].pc # "fetch"
  BY DEF KindsOk, KindOk, FetchPcs, CommitBegin, CommitWrite, CommitApply
<1>2. CASE EndTask(t, TRUE)
  BY <1>2, EndMoves
<1>3. CASE CommitBegin(t) /\ MayPublish(t) /\ Proceed(t, At(t, "commitWrite"), FALSE)
  <2>1. ~shut
    BY <1>3 DEF MayPublish, MayContinue, LifecycleMatches
  <2>2. Moved(task[t], At(t, "commitWrite"))
    BY <1>1, <2>1, AtMoves DEF KindOk, PersistPcs, FetchPcs, ConsumePcs, TaskPcs, Results
  <2>3. QED
    BY <1>3, <2>2, ProceedMoves
<1>4. ASSUME CommitWrite(t), NEW r \in {"ok", "refused"},
             Proceed(t, [At(t, "commitApply") EXCEPT !.res = r], FALSE)
      PROVE  Moves(t)
  <2>1. Moved(task[t], [At(t, "commitApply") EXCEPT !.res = r])
    BY <1>1, <1>4, AtMoves DEF CommitWrite, KindOk, PersistPcs, FetchPcs, ConsumePcs, BodyPcs, TaskPcs,
       Results
  <2>2. QED
    BY <1>4, <2>1, ProceedMoves
<1>5. QED
  BY <1>2, <1>3, <1>4 DEF CommitBegin, CommitWrite, CommitApply

LEMMA LoginMoves ==
    ASSUME TypeOK, KindsOk, NEW t \in Tasks,
           LoginAnswer(t) \/ LoginFetched(t) \/ LoginFetchFail(t) \/ PiStoresCredential(t)
    PROVE  Moves(t)
<1>1. KindOk(task[t]) /\ task[t].kind = "login" /\ task[t] \in TaskRecords
  BY DEF KindsOk, KindOk, TypeOK, FlightTypeOK, LoginAnswer, LoginFetched, LoginFetchFail, PiStoresCredential
<1>2. CASE EndTask(t, FALSE)
  BY <1>2, EndMoves
<1>3. ASSUME NEW n, NEW left \in BOOLEAN, Proceed(t, n, left), SameCall(n, task[t]),
             n.pc \in {"prompt", "fetch", "returned"}, n.net = task[t].net, n.tail = task[t].tail
      PROVE  Moves(t)
  <2>1. Moved(task[t], n) /\ n.pc \notin BodyPcs
    BY <1>1, <1>3 DEF Moved, KindOk, Writes, Carries, SameCall, PersistPcs, FetchPcs, ConsumePcs, BodyPcs
  <2>2. QED
    BY <1>3, <2>1, ProceedMoves
<1>4. CASE \E c \in Conns : Proceed(t, [At(t, "fetch") EXCEPT !.conn = c, !.ov = ov], FALSE)
  <2>1. PICK c \in Conns : Proceed(t, [At(t, "fetch") EXCEPT !.conn = c, !.ov = ov], FALSE)
    BY <1>4
  <2> DEFINE n == [At(t, "fetch") EXCEPT !.conn = c, !.ov = ov]
  <2>2. SameCall(n, task[t]) /\ n.pc = "fetch" /\ n.net = task[t].net /\ n.tail = task[t].tail
    BY <1>1 DEF At, SameCall, TaskRecords
  <2> HIDE DEF n
  <2>3. QED
    BY <1>3, <2>1, <2>2 DEF n
<1>5. CASE Proceed(t, [At(t, "returned") EXCEPT !.nonce = nextNonce], FALSE)
  <2> DEFINE n == [At(t, "returned") EXCEPT !.nonce = nextNonce]
  <2>2. SameCall(n, task[t]) /\ n.pc = "returned" /\ n.net = task[t].net /\ n.tail = task[t].tail
    BY <1>1 DEF At, SameCall, TaskRecords
  <2> HIDE DEF n
  <2>3. QED
    BY <1>3, <1>5, <2>2 DEF n
<1>6. CASE Proceed(t, At(t, "prompt"), FALSE)
  <2>1. SameCall(At(t, "prompt"), task[t]) /\ At(t, "prompt").pc = "prompt"
        /\ At(t, "prompt").net = task[t].net /\ At(t, "prompt").tail = task[t].tail
    BY <1>1 DEF At, SameCall, TaskRecords
  <2>2. QED
    BY <1>3, <1>6, <2>1
<1>7. QED
  BY <1>2, <1>4, <1>5, <1>6 DEF LoginAnswer, LoginFetched, LoginFetchFail, PiStoresCredential

(* Every step of a call that is under way moves it and no other, and leaves alone which
   session is running, which request is the newest, and what was asked for last. *)
GoesOn(t) == TaskStep(t) \/ LoginAnswer(t)

LEMMA TaskMoves ==
    ASSUME TypeOK, KindsOk, NEW t \in Tasks, GoesOn(t), Contract = "publish" => task[t].pc # "read"
    PROVE  /\ Moves(t)
           /\ UNCHANGED <<gen, shut, nextReq, latestReq, scopedStore, phase, ov, floor>>
           /\ lastConn' \in {lastConn} \cup Conns
<1>1. Moves(t)
  BY PersistMoves, RestoreMoves, ConsumeMoves, FetchMoves, CommitMoves, LoginMoves DEF GoesOn, TaskStep
<1>2. UNCHANGED <<gen, shut, nextReq, latestReq, scopedStore, phase, ov, floor>>
  BY DEF GoesOn, TaskStep, PersistBegin, PersistWrite, PersistEnd, LegacyRead, Restore, ConsumeBegin,
     ConsumeWrite, ConsumeEnd, FetchDone, FetchFail, CommitBegin, CommitWrite, CommitApply, LoginAnswer,
     LoginFetched, LoginFetchFail, PiStoresCredential, providerVars, envVars, historyVars
<1>3. UNCHANGED lastConn \/ ConsumeEnd(t) \/ CommitApply(t)
  BY DEF GoesOn, TaskStep, PersistBegin, PersistWrite, PersistEnd, LegacyRead, Restore, ConsumeBegin,
     ConsumeWrite, FetchDone, FetchFail, CommitBegin, CommitWrite, LoginAnswer,
     LoginFetched, LoginFetchFail, PiStoresCredential, providerVars, envVars, historyVars
<1>4. HasConnection(task[t])
  BY DEF TypeOK, FlightTypeOK
<1>5. QED
  BY <1>1, <1>2, <1>3, <1>4 DEF HasConnection, ConsumeEnd, CommitApply

-----------------------------------------------------------------------------
(* The inductive invariant of the flow *)

(* A call belongs to a session and a phase that began; a refresh of the provider's own has a
   connection to compare with; what the newest request fetches was mapped with the overrides
   as the last foreground refresh found them, or newer; and what a refresh consumes is the
   catalog of the login whose credential it was called with. *)
CallFlow(t) ==
    LET c == task[t] IN
    /\ c.gen <= gen /\ c.phase <= phase
    /\ c.kind \in {"background", "foreground"} /\ ~shut /\ gen = c.gen => lastConn # NoConn
    /\ c.pc \in FetchPcs /\ c.kind # "login" /\ c.req = latestReq => c.ov >= floor
    /\ c.pc \in ConsumePcs => c.snap.src = "login" /\ c.snap.n = c.nonce /\ c.snap.store = c.phase

FlowInv ==
    /\ KindsOk
    /\ Contract = "publish" => \A t \in Tasks : task[t].pc # "read"
    /\ floor <= ov /\ scopedStore <= phase
    /\ \A t \in Tasks : CallFlow(t)

LEMMA FlowTypes ==
    ASSUME TypeOK
    PROVE  /\ gen \in Nat /\ phase \in Nat /\ scopedStore \in Nat /\ ov \in Nat /\ floor \in Nat
           /\ latestReq \in Nat /\ nextReq \in Nat /\ lastConn \in Conns \cup {NoConn} /\ cred.conn \in Conns
           /\ \A t \in Tasks : /\ task[t] \in TaskRecords /\ task[t].gen \in Nat /\ task[t].phase \in Nat
                               /\ task[t].req \in Nat /\ task[t].ov \in Nat
BY DEF TypeOK, ProviderTypeOK, FlightTypeOK, EnvTypeOK, TaskRecords

LEMMA FlowInit == Init => FlowInv
<1> SUFFICES ASSUME Init PROVE FlowInv
  OBVIOUS
<1>1. /\ \A t \in Tasks : task[t] = NoTask
      /\ gen = 0 /\ phase = 0 /\ ov = 0 /\ floor = 0 /\ scopedStore = 0
  BY DEF Init
<1>2. \A t \in Tasks : CallFlow(t)
  BY <1>1, NoTaskIs DEF CallFlow, FetchPcs, ConsumePcs
<1>3. QED
  BY <1>1, <1>2, NoTaskIs DEF FlowInv, KindsOk

LEMMA FlowTask ==
    ASSUME TypeOK, FlowInv, NEW t \in Tasks, GoesOn(t)
    PROVE  FlowInv'
<1>1. /\ Moves(t)
      /\ UNCHANGED <<gen, shut, nextReq, latestReq, scopedStore, phase, ov, floor>>
      /\ lastConn' \in {lastConn} \cup Conns
  BY TaskMoves DEF FlowInv
<1>2. Moved(task[t], task'[t]) /\ \A u \in Tasks : u # t => task'[u] = task[u]
  BY <1>1 DEF Moves
<1>3. lastConn # NoConn => lastConn' # NoConn
  BY <1>1, ConnAssumption
<1>4. \A u \in Tasks : u # t => CallFlow(u)'
  BY <1>1, <1>2, <1>3 DEF CallFlow, FlowInv
<1>5. CallFlow(t)'
  <2>1. CallFlow(t) /\ floor <= ov
    BY DEF FlowInv
  <2>2. CASE task'[t] = NoTask
    BY <1>1, <1>2, <2>2, NoTaskIs, FlowTypes DEF CallFlow, FetchPcs, ConsumePcs
  <2>3. CASE SameCall(task'[t], task[t])
    BY <1>1, <1>2, <1>3, <2>1, <2>3, FlowTypes DEF CallFlow, Moved, SameCall
  <2>4. QED
    BY <1>2, <2>2, <2>3 DEF Moved
<1>6. KindsOk' /\ (Contract = "publish" => \A u \in Tasks : task'[u].pc # "read")
  BY <1>2 DEF FlowInv, KindsOk, Moved
<1>7. QED
  BY <1>1, <1>4, <1>5, <1>6 DEF FlowInv

(* A call that starts. *)
LEMMA FlowCall ==
    ASSUME CommitInv, FlowInv, NEW t \in Tasks, \A u \in Tasks : u # t => task'[u] = task[u],
           KindOk(task'[t]), CallFlow(t)', Contract = "publish" => task'[t].pc # "read",
           UNCHANGED <<gen, shut>>, lastConn # NoConn => lastConn' # NoConn,
           phase <= phase', phase' \in Nat, scopedStore' <= phase', floor' <= ov',
           floor' # floor => latestReq' # latestReq,
           latestReq' # latestReq => latestReq' > latestReq /\ latestReq' \in Nat
    PROVE  FlowInv'
<1>1. ASSUME NEW u \in Tasks, u # t PROVE CallFlow(u)'
  <2>1. task'[u] = task[u] /\ CallFlow(u)
    BY <1>1 DEF FlowInv
  <2>2. TypeOK /\ task[u].req <= latestReq
    BY DEF CommitInv, WriteOrder, CallInOrder
  <2>3. /\ task[u].req \in Nat /\ latestReq \in Nat /\ task[u].phase \in Nat /\ phase \in Nat
    BY <2>2, FlowTypes
  <2>4. task[u].req = latestReq' => latestReq' = latestReq /\ floor' = floor
    BY <2>2, <2>3
  <2>5. QED
    BY <2>1, <2>3, <2>4 DEF CallFlow
<1>2. QED
  BY <1>1 DEF FlowInv, KindsOk

LEMMA RefreshCallIs ==
    ASSUME NEW r, NEW pc, NEW net, NEW force, NEW changed
    PROVE  LET n == RefreshCall(r, pc, net, force, changed) IN
             /\ n.kind = "refresh" /\ n.pc = pc /\ n.gen = gen /\ n.req = r /\ n.phase = phase + 1
             /\ n.net = net /\ ~n.tail /\ n.conn = cred.conn /\ n.nonce = cred.nonce
             /\ n.snap = IF Contract = "publish" THEN stored ELSE NoCatalog
BY DEF RefreshCall

(* What refreshModels does before its first await. *)
LEMMA RefreshStarts ==
    ASSUME TypeOK, NEW t \in Tasks, NEW net \in BOOLEAN, NEW force \in BOOLEAN, RefreshStart(t, net, force)
    PROVE  /\ task'[t].kind = "refresh" /\ task'[t].gen = gen /\ task'[t].req = latestReq'
           /\ task'[t].phase = phase + 1 /\ ~task'[t].tail /\ task'[t].net = net
           /\ task'[t].pc \in {"persist", FirstPc}
           /\ Contract = "publish" => task'[t].snap = stored
           /\ task[t].kind = "idle" /\ ~shut
           /\ \A u \in Tasks : u # t => task'[u] = task[u]
           /\ latestReq' = (IF net THEN nextReq ELSE latestReq) /\ lastConn' = cred.conn
           /\ phase' = phase + 1 /\ scopedStore' = phase + 1
           /\ UNCHANGED <<gen, shut, models, live, pricer, stored, ov, floor, pending, registry>>
           /\ sd'.queued = sd.queued
<1> DEFINE c       == cred.conn
           r       == IF net THEN nextReq ELSE latestReq
           changed == lastConn # NoConn /\ lastConn # c
           wanted  == IF UrlOf[c] # instUrl THEN UrlOf[c] ELSE pendingUrl
           pc      == IF wanted = UrlOf[c] THEN "persist" ELSE FirstPc
           call    == RefreshCall(r, pc, net, force, changed)
<1>1. task' = [task EXCEPT ![t] = call] /\ (sd' = sd \/ sd' = SdWithout(t, FALSE, FALSE))
  BY DEF RefreshStart, Enqueue, Proceed
<1>2. /\ r = latestReq' /\ latestReq' = (IF net THEN nextReq ELSE latestReq)
      /\ task[t].kind = "idle" /\ ~shut
      /\ lastConn' = cred.conn /\ phase' = phase + 1 /\ scopedStore' = phase + 1
      /\ UNCHANGED <<gen, shut, models, live, pricer, stored, ov, floor, pending, registry>>
  BY DEF RefreshStart, historyVars
<1>3. pc \in {"persist", FirstPc}
  OBVIOUS
<1>4. task'[t] = call /\ \A u \in Tasks : u # t => task'[u] = task[u]
  BY <1>1 DEF TypeOK, FlightTypeOK
<1>5. sd'.queued = sd.queued
  BY <1>1 DEF SdWithout, TypeOK, FlightTypeOK
<1> HIDE DEF r, pc, changed
<1>6. /\ call.kind = "refresh" /\ call.gen = gen /\ call.req = r /\ call.phase = phase + 1 /\ ~call.tail
      /\ call.net = net /\ call.pc = pc /\ (Contract = "publish" => call.snap = stored)
  BY RefreshCallIs
<1>7. QED
  BY <1>2, <1>3, <1>4, <1>5, <1>6

LEMMA FlowRefresh ==
    ASSUME CommitInv, FlowInv, NEW t \in Tasks, NEW net \in BOOLEAN, NEW force \in BOOLEAN,
           RefreshStart(t, net, force)
    PROVE  FlowInv'
<1>1. TypeOK /\ latestReq < nextReq
  BY DEF CommitInv, WriteOrder
<1>2. /\ task'[t].kind = "refresh" /\ task'[t].gen = gen
      /\ task'[t].phase = phase + 1 /\ ~task'[t].tail
      /\ task'[t].pc \in {"persist", FirstPc}
      /\ \A u \in Tasks : u # t => task'[u] = task[u]
      /\ latestReq' = (IF net THEN nextReq ELSE latestReq) /\ lastConn' = cred.conn
      /\ phase' = phase + 1 /\ scopedStore' = phase + 1
      /\ UNCHANGED <<gen, shut, ov, floor>>
  BY <1>1, RefreshStarts
<1>3. task'[t].pc \in {"persist", "restore", "read"} /\ (Contract = "publish" => task'[t].pc # "read")
  BY <1>2 DEF FirstPc
<1>4. /\ cred.conn # NoConn /\ phase \in Nat /\ latestReq \in Nat /\ nextReq \in Nat /\ gen \in Nat
      /\ floor <= ov
  BY <1>1, FlowTypes, ConnAssumption DEF FlowInv
<1>5. KindOk(task'[t]) /\ CallFlow(t)'
  BY <1>2, <1>3, <1>4 DEF KindOk, CallFlow, FetchPcs, ConsumePcs, PersistPcs
<1>6. QED
  BY <1>1, <1>2, <1>3, <1>4, <1>5, FlowCall

(* What a refresh of the provider's own does before its first await. *)
LEMMA OwnStarts ==
    ASSUME TypeOK, NEW t \in Tasks,
           \/ \E force \in BOOLEAN : BackgroundStart(t, force)
           \/ ForegroundStart(t)
    PROVE  /\ latestReq' = nextReq /\ floor' \in {floor, ov}
           /\ UNCHANGED <<gen, shut, pending, scopedStore, lastConn, models, live, registry, pricer,
                          phase, stored, ov>>
           /\ sd'.queued = sd.queued
           /\ \A u \in Tasks : u # t => task'[u] = task[u]
           /\ \/ task'[t] = task[t] /\ task[t].kind = "idle"
              \/ /\ task'[t].kind \in {"background", "foreground"} /\ task'[t].pc = "fetch"
                 /\ task'[t].gen = gen /\ task'[t].req = nextReq /\ task'[t].phase = scopedStore
                 /\ task'[t].ov = ov /\ ~task'[t].tail /\ ~shut /\ lastConn # NoConn
<1>1. /\ latestReq' = nextReq /\ floor' \in {floor, ov}
      /\ UNCHANGED <<gen, shut, pending, scopedStore, lastConn, models, live, registry, pricer,
                     phase, stored, ov>>
  BY DEF BackgroundStart, ForegroundStart, registryVars, envVars, historyVars
<1>2. ASSUME NEW kind \in {"background", "foreground"}, OwnRefresh(t, kind)
      PROVE  /\ task'[t].kind = kind /\ task'[t].pc = "fetch" /\ sd'.queued = sd.queued
             /\ task'[t].gen = gen /\ task'[t].req = nextReq /\ task'[t].phase = scopedStore
             /\ task'[t].ov = ov /\ ~task'[t].tail
             /\ \A u \in Tasks : u # t => task'[u] = task[u]
  <2> DEFINE n == FetchCall(kind, gen, nextReq, scopedStore, lastConn)
  <2>1. Proceed(t, n, FALSE)
    BY <1>2 DEF OwnRefresh
  <2>2. /\ n.kind = kind /\ n.pc = "fetch" /\ n.gen = gen /\ n.req = nextReq /\ n.phase = scopedStore
        /\ n.ov = ov /\ ~n.tail
    BY FetchCallIs
  <2> HIDE DEF n
  <2>3. /\ task'[t] = n /\ sd'.queued = sd.queued /\ \A u \in Tasks : u # t => task'[u] = task[u]
    BY <2>1 DEF Proceed, SdWithout, TypeOK, FlightTypeOK
  <2>4. QED
    BY <2>2, <2>3
<1>3. CASE \E force \in BOOLEAN : BackgroundStart(t, force)
  <2>1. OwnRefresh(t, "background") /\ ~shut /\ lastConn # NoConn
    BY <1>3 DEF BackgroundStart
  <2>2. QED
    BY <1>1, <1>2, <2>1
<1>4. CASE ForegroundStart(t)
  <2>1. \/ UNCHANGED <<task, chain, sd>> /\ task[t].kind = "idle"
        \/ OwnRefresh(t, "foreground") /\ ~shut /\ lastConn # NoConn
    BY <1>4 DEF ForegroundStart
  <2>2. QED
    BY <1>1, <1>2, <2>1
<1>5. QED
  BY <1>3, <1>4

LEMMA FlowOwn ==
    ASSUME CommitInv, FlowInv, NEW t \in Tasks,
           \/ \E force \in BOOLEAN : BackgroundStart(t, force)
           \/ ForegroundStart(t)
    PROVE  FlowInv'
<1>1. TypeOK /\ latestReq < nextReq
  BY DEF CommitInv, WriteOrder
<1>2. /\ latestReq' = nextReq /\ floor' \in {floor, ov}
      /\ UNCHANGED <<gen, shut, scopedStore, lastConn, phase, ov>>
      /\ \A u \in Tasks : u # t => task'[u] = task[u]
  BY <1>1, OwnStarts
<1>3. /\ phase \in Nat /\ latestReq \in Nat /\ nextReq \in Nat /\ gen \in Nat /\ ov \in Nat
      /\ floor \in Nat /\ floor <= ov /\ scopedStore <= phase
  BY <1>1, FlowTypes DEF FlowInv
<1>4. floor' <= ov'
  BY <1>2, <1>3
<1>5. CASE task'[t] = task[t] /\ task[t].kind = "idle"
  <2>1. KindOk(task[t]) /\ CallFlow(t)
    BY DEF FlowInv, KindsOk
  <2>2. KindOk(task'[t]) /\ CallFlow(t)' /\ task'[t].pc # "read"
    BY <1>2, <1>5, <2>1 DEF KindOk, CallFlow, FetchPcs, ConsumePcs
  <2>3. QED
    BY <1>1, <1>2, <1>3, <1>4, <2>2, FlowCall
<1>6. CASE /\ task'[t].kind \in {"background", "foreground"} /\ task'[t].pc = "fetch"
           /\ task'[t].gen = gen /\ task'[t].phase = scopedStore
           /\ task'[t].ov = ov /\ ~task'[t].tail /\ lastConn # NoConn
  <2>1. KindOk(task'[t]) /\ CallFlow(t)' /\ task'[t].pc # "read"
    BY <1>2, <1>3, <1>4, <1>6 DEF KindOk, CallFlow, FetchPcs, ConsumePcs, PersistPcs
  <2>2. QED
    BY <1>1, <1>2, <1>3, <1>4, <2>1, FlowCall
<1>7. QED
  BY <1>1, <1>5, <1>6, OwnStarts

LEMMA LoginStarts ==
    ASSUME TypeOK, NEW t \in Tasks, LoginStart(t)
    PROVE  /\ task'[t] = [NoTask EXCEPT !.kind = "login", !.pc = "prompt", !.gen = gen]
           /\ task[t].kind = "idle"
           /\ \A u \in Tasks : u # t => task'[u] = task[u]
           /\ UNCHANGED <<gen, shut, latestReq, scopedStore, lastConn, models, live, registry, pricer,
                          phase, stored, ov, floor>>
           /\ sd'.queued = sd.queued
BY DEF LoginStart, Proceed, SdWithout, TypeOK, FlightTypeOK, registryVars, envVars, historyVars

LEMMA FlowLogin ==
    ASSUME CommitInv, FlowInv, NEW t \in Tasks, LoginStart(t)
    PROVE  FlowInv'
<1>1. TypeOK
  BY DEF CommitInv
<1> DEFINE n == [NoTask EXCEPT !.kind = "login", !.pc = "prompt", !.gen = gen]
<1>2. n.kind = "login" /\ n.pc = "prompt" /\ n.gen = gen /\ n.phase = 0 /\ ~n.tail
  BY DEF NoTask
<1>3. task'[t] = n
  BY <1>1, LoginStarts
<1> HIDE DEF n
<1>4. /\ \A u \in Tasks : u # t => task'[u] = task[u]
      /\ UNCHANGED <<gen, shut, latestReq, scopedStore, lastConn, phase, ov, floor>>
  BY <1>1, LoginStarts
<1>5. /\ phase \in Nat /\ gen \in Nat /\ floor <= ov /\ scopedStore <= phase
  BY <1>1, FlowTypes DEF FlowInv
<1>6. KindOk(task'[t]) /\ CallFlow(t)' /\ task'[t].pc # "read"
  BY <1>2, <1>3, <1>4, <1>5 DEF KindOk, CallFlow, FetchPcs, ConsumePcs, PersistPcs
<1>7. QED
  BY <1>1, <1>4, <1>5, <1>6, FlowCall

(* A session that ends or begins makes the calls of the one before its own. *)
LEMMA FlowEnvironment ==
    ASSUME TypeOK, FlowInv, ShutdownEnd \/ EnvironmentStep
    PROVE  FlowInv'
<1>1. UNCHANGED <<task, phase, floor, latestReq>>
  BY DEF ShutdownEnd, EnvironmentStep, ShutdownStart, BeginSession, OverrideEdit, TimePasses, PendingExpires,
     OtherReplaces, OtherLogsIn, envVars, flightVars, providerVars, historyVars
<1>2. gen \in Nat /\ phase \in Nat /\ floor \in Nat /\ ov \in Nat /\ scopedStore \in Nat
      /\ \A t \in Tasks : task[t].gen \in Nat
  BY FlowTypes
<1>3. floor <= ov /\ scopedStore <= phase
  BY DEF FlowInv
<1>4. ov' \in {ov, ov + 1} /\ scopedStore' \in {scopedStore, 0}
  BY DEF ShutdownEnd, EnvironmentStep, ShutdownStart, BeginSession, OverrideEdit, TimePasses, PendingExpires,
     OtherReplaces, OtherLogsIn, envVars, flightVars, providerVars, historyVars
<1>5. \/ UNCHANGED <<gen, shut, lastConn>>
      \/ gen' = gen + 1
      \/ UNCHANGED <<gen, shut>> /\ shut
      \/ UNCHANGED <<gen, shut>> /\ lastConn' = lastConn
  BY DEF ShutdownEnd, EnvironmentStep, ShutdownStart, BeginSession, OverrideEdit, TimePasses, PendingExpires,
     OtherReplaces, OtherLogsIn, envVars, flightVars, providerVars, historyVars
<1>6. \A t \in Tasks : CallFlow(t)'
  BY <1>1, <1>2, <1>5 DEF CallFlow, FlowInv
<1>7. QED
  BY <1>1, <1>2, <1>3, <1>4, <1>6 DEF FlowInv, KindsOk

LEMMA PricerLeaves ==
    ASSUME NEW p \in Pricers, PricerStep(p)
    PROVE  UNCHANGED <<task, gen, shut, phase, lastConn, latestReq, floor, ov, scopedStore, models, live,
                       registry, pending>>
BY DEF PricerStep, PriceSynced, PriceAborted, PriceBegin, PriceWrite, PriceEnd, EndPricer, providerVars,
       registryVars, envVars, historyVars

LEMMA FlowInductive ==
    CommitInv /\ FlowInv /\ [Next]_vars => FlowInv'
<1> SUFFICES ASSUME CommitInv, FlowInv, [Next]_vars PROVE FlowInv'
  OBVIOUS
<1>1. TypeOK
  BY DEF CommitInv
<1>2. CASE UNCHANGED vars
  BY <1>2 DEF vars, providerVars, flightVars, envVars, historyVars, FlowInv, KindsOk, CallFlow
<1>3. ASSUME NEW p \in Pricers, PricerStep(p) PROVE FlowInv'
  BY <1>3, PricerLeaves DEF FlowInv, KindsOk, CallFlow
<1>4. ASSUME NEW t \in Tasks, TaskStep(t) \/ CallStep(t) PROVE FlowInv'
  BY <1>1, <1>4, FlowTask, FlowRefresh, FlowOwn, FlowLogin DEF GoesOn, CallStep
<1>5. CASE ShutdownEnd \/ EnvironmentStep
  BY <1>1, <1>5, FlowEnvironment
<1>6. QED
  BY <1>2, <1>3, <1>4, <1>5 DEF Next

-----------------------------------------------------------------------------
(* Who changes the catalog on display, and the one in pi's store *)

RestoreShows(t) ==
    /\ task[t].pc = "restore" /\ MayContinue(t) /\ RestoreAllowed(t)
    /\ models' = task[t].snap /\ ~live'
ConsumeShows(t) ==
    /\ task[t].pc = "consumeEnd" /\ StillConsumes(t)
    /\ models' = task[t].snap /\ live' /\ lastConn' = task[t].snap.conn
CommitShows(t) ==
    /\ task[t].pc = "commitApply" /\ MayPublish(t)
    /\ models' = Fetched(t) /\ live'
    /\ lastConn' = IF task[t].kind = "refresh" THEN task[t].conn ELSE lastConn

LEMMA TaskShows ==
    ASSUME NEW t \in Tasks, GoesOn(t)
    PROVE  models' = models \/ RestoreShows(t) \/ ConsumeShows(t) \/ CommitShows(t)
<1>1. CASE Restore(t)
  BY <1>1 DEF Restore, RestoreShows
<1>2. CASE ConsumeEnd(t)
  BY <1>2 DEF ConsumeEnd, ConsumeShows
<1>3. CASE CommitApply(t)
  BY <1>3 DEF CommitApply, CommitShows
<1>4. ASSUME ~Restore(t), ~ConsumeEnd(t), ~CommitApply(t) PROVE models' = models
  BY <1>4 DEF GoesOn, TaskStep, PersistBegin, PersistWrite, PersistEnd, LegacyRead, ConsumeBegin,
     ConsumeWrite, FetchDone, FetchFail, CommitBegin, CommitWrite, LoginAnswer,
     LoginFetched, LoginFetchFail, PiStoresCredential, providerVars
<1>5. QED
  BY <1>1, <1>2, <1>3, <1>4

(* A call writes to the store in its body, and with the handle that pi holds current. *)
TaskStores(t) ==
    /\ task[t].pc \in {"consumeWrite", "commitWrite"}
    /\ HandleCurrent(task[t].phase) /\ stored'.store = task[t].phase
    /\ Writes(task[t])

LEMMA TaskSaves ==
    ASSUME TypeOK, FlowInv, NEW t \in Tasks, GoesOn(t)
    PROVE  stored' = stored \/ TaskStores(t)
<1>1. KindOk(task[t]) /\ CallFlow(t)
  BY DEF FlowInv, KindsOk
<1>2. CASE ConsumeWrite(t)
  <2>1. task[t].pc = "consumeWrite" /\ task[t].snap.store = task[t].phase /\ Writes(task[t])
    BY <1>1, <1>2 DEF ConsumeWrite, CallFlow, KindOk, Writes, ConsumePcs
  <2>2. QED
    BY <1>2, <2>1 DEF ConsumeWrite, TaskStores
<1>3. CASE CommitWrite(t)
  <2>1. task[t].pc = "commitWrite" /\ Writes(task[t])
    BY <1>1, <1>3 DEF CommitWrite, KindOk, Writes, FetchPcs
  <2>2. Fetched(t).store = task[t].phase
    BY DEF Fetched
  <2>3. QED
    BY <1>3, <2>1, <2>2 DEF CommitWrite, TaskStores
<1>4. ASSUME ~ConsumeWrite(t), ~CommitWrite(t) PROVE stored' = stored
  BY <1>4 DEF GoesOn, TaskStep, PersistBegin, PersistWrite, PersistEnd, LegacyRead, ConsumeBegin, Restore,
     ConsumeEnd, FetchDone, FetchFail, CommitBegin, CommitApply, LoginAnswer,
     LoginFetched, LoginFetchFail, PiStoresCredential, envVars
<1>5. QED
  BY <1>2, <1>3, <1>4

(* A call starts a pricing sync and moves no other. *)
LEMMA TaskPrices ==
    ASSUME TypeOK, NEW t \in Tasks, GoesOn(t)
    PROVE  \A p \in Pricers : pricer'[p] = pricer[p] \/ pricer'[p].pc \notin BodyPcs
<1>1. pricer' = pricer \/ \E cat : StartPricing(cat)
  BY DEF GoesOn, TaskStep, PersistBegin, PersistWrite, PersistEnd, LegacyRead, Restore, ConsumeBegin,
     ConsumeWrite, ConsumeEnd, FetchDone, FetchFail, CommitBegin, CommitWrite, CommitApply, LoginAnswer,
     LoginFetched, LoginFetchFail, PiStoresCredential
<1>2. ASSUME NEW cat, StartPricing(cat)
      PROVE  \A p \in Pricers : pricer'[p] = pricer[p] \/ pricer'[p].pc \notin BodyPcs
  BY <1>2 DEF StartPricing, TypeOK, FlightTypeOK, BodyPcs
<1>3. QED
  BY <1>1, <1>2

(* A pricing sync that moves: alone, into a body only in a session. *)
LEMMA PricerMoves ==
    ASSUME TypeOK, NEW p \in Pricers, PricerStep(p)
    PROVE  /\ \A q \in Pricers : q # p => pricer'[q] = pricer[q]
           /\ sd.queued \ {p} \subseteq sd'.queued
           /\ pricer'[p].pc \in BodyPcs =>
                 /\ sd'.queued = sd.queued
                 /\ pricer[p].pc \in BodyPcs \/ ~shut
           /\ pricer'[p].pc = "priceWrite" => pricer'[p].cat = models
           /\ \/ stored' = stored
              \/ pricer[p].pc = "priceWrite" /\ HandleCurrent(pricer[p].cat.store) /\ stored' = pricer[p].cat
<1>1. pricer \in [Pricers -> PricerRecords] /\ pricer[p] \in PricerRecords
  BY DEF TypeOK, FlightTypeOK
<1>2. ASSUME NEW left \in BOOLEAN, EndPricer(p, left)
      PROVE  /\ \A q \in Pricers : q # p => pricer'[q] = pricer[q]
             /\ sd.queued \ {p} \subseteq sd'.queued
             /\ pricer'[p].pc = "idle"
  BY <1>1, <1>2 DEF EndPricer, SdWithout, TypeOK, FlightTypeOK, NoPricer
<1>3. CASE PriceSynced(p)
  BY <1>1, <1>3 DEF PriceSynced, PricerRecords, BodyPcs, envVars
<1>4. CASE PriceAborted(p)
  BY <1>2, <1>4 DEF PriceAborted, BodyPcs, envVars
<1>5. CASE PriceBegin(p)
  <2>1. stored' = stored
    BY <1>5 DEF PriceBegin, envVars
  <2>2. CASE EndPricer(p, TRUE)
    BY <1>2, <2>1, <2>2 DEF BodyPcs
  <2>3. CASE /\ Rewrites(p) /\ UNCHANGED sd
             /\ pricer' = [pricer EXCEPT ![p].pc = "priceWrite", ![p].cat = models]
    BY <1>1, <2>1, <2>3 DEF Rewrites, LifecycleMatches, PricerRecords
  <2>4. QED
    BY <1>5, <2>2, <2>3 DEF PriceBegin
<1>6. CASE PriceWrite(p)
  <2>1. CASE EndPricer(p, TRUE) /\ stored' = stored
    BY <1>2, <2>1 DEF BodyPcs
  <2>2. CASE /\ HandleCurrent(pricer[p].cat.store) /\ stored' = pricer[p].cat /\ UNCHANGED sd
             /\ pricer' = [pricer EXCEPT ![p].pc = "priceEnd"]
    BY <1>1, <1>6, <2>2 DEF PriceWrite, PricerRecords, BodyPcs
  <2>3. QED
    BY <1>6, <2>1, <2>2 DEF PriceWrite
<1>7. CASE PriceEnd(p)
  BY <1>2, <1>7 DEF PriceEnd, BodyPcs, envVars
<1>8. QED
  BY <1>3, <1>4, <1>5, <1>6, <1>7 DEF PricerStep

(* What pi, the user and the environment start or end changes neither catalog. *)
LEMMA EnvironmentLeaves ==
    ASSUME ShutdownEnd \/ EnvironmentStep
    PROVE  UNCHANGED <<task, pricer, models, live, stored, phase, latestReq>>
BY DEF ShutdownEnd, EnvironmentStep, ShutdownStart, BeginSession, OverrideEdit, TimePasses, PendingExpires,
       OtherReplaces, OtherLogsIn, envVars, flightVars, providerVars, historyVars

-----------------------------------------------------------------------------
(* After a shutdown nothing is left in a body *)

QuietInv ==
    shut => /\ \A t \in Tasks : task[t].pc \in BodyPcs => t \in sd.queued
            /\ \A p \in Pricers : pricer[p].pc \in BodyPcs => p \in sd.queued

LEMMA QuietTask ==
    ASSUME TypeOK, FlowInv, QuietInv, NEW t \in Tasks, GoesOn(t)
    PROVE  QuietInv'
<1>1. Moves(t) /\ shut' = shut
  BY TaskMoves DEF FlowInv
<1>2. /\ \A u \in Tasks : u # t => task'[u] = task[u]
      /\ sd.queued \ {t} \subseteq sd'.queued
      /\ task'[t].pc \in BodyPcs => sd'.queued = sd.queued
      /\ task'[t].pc \in BodyPcs /\ shut => task[t].pc \in BodyPcs
  BY <1>1 DEF Moves, Moved
<1>3. \A p \in Pricers : p # t /\ (pricer'[p] = pricer[p] \/ pricer'[p].pc \notin BodyPcs)
  BY TaskPrices, SlotsAssumption
<1>4. QED
  BY <1>1, <1>2, <1>3 DEF QuietInv

LEMMA QuietPricer ==
    ASSUME TypeOK, QuietInv, NEW p \in Pricers, PricerStep(p)
    PROVE  QuietInv'
<1>1. UNCHANGED <<task, shut>>
  BY PricerLeaves
<1>2. /\ \A q \in Pricers : q # p => pricer'[q] = pricer[q]
      /\ sd.queued \ {p} \subseteq sd'.queued
      /\ pricer'[p].pc \in BodyPcs => sd'.queued = sd.queued /\ (pricer[p].pc \in BodyPcs \/ ~shut)
  BY PricerMoves
<1>3. \A t \in Tasks : t # p
  BY SlotsAssumption
<1>4. QED
  BY <1>1, <1>2, <1>3 DEF QuietInv

LEMMA QuietStart ==
    ASSUME TypeOK, FlowInv, QuietInv, NEW t \in Tasks, CallStep(t), ~LoginAnswer(t)
    PROVE  QuietInv'
<1>1. ASSUME UNCHANGED <<shut, pricer>>, sd'.queued = sd.queued,
             \A u \in Tasks : u # t => task'[u] = task[u],
             task'[t].pc \notin BodyPcs
      PROVE  QuietInv'
  BY <1>1 DEF QuietInv
<1>2. ASSUME NEW net \in BOOLEAN, NEW force \in BOOLEAN, RefreshStart(t, net, force) PROVE QuietInv'
  <2>1. task'[t].pc \in {"persist", FirstPc}
    BY <1>2, RefreshStarts
  <2>2. task'[t].pc \notin BodyPcs
    BY <2>1 DEF FirstPc, BodyPcs
  <2>3. QED
    BY <1>1, <1>2, <2>2, RefreshStarts
<1>3. CASE (\E force \in BOOLEAN : BackgroundStart(t, force)) \/ ForegroundStart(t)
  <2>1. task'[t].pc \in {"fetch", "idle"}
    BY <1>3, OwnStarts DEF FlowInv, KindsOk, KindOk
  <2>2. QED
    BY <1>1, <1>3, <2>1, OwnStarts DEF BodyPcs
<1>4. CASE LoginStart(t)
  <2>1. task'[t] = [NoTask EXCEPT !.kind = "login", !.pc = "prompt", !.gen = gen]
    BY <1>4, LoginStarts
  <2>2. task'[t].pc = "prompt"
    BY <2>1 DEF NoTask
  <2>3. QED
    BY <1>1, <1>4, <2>2, LoginStarts DEF BodyPcs
<1>5. QED
  BY <1>2, <1>3, <1>4 DEF CallStep

(* A shutdown waits for whoever is in the chain, so for every body. *)
LEMMA QuietEnvironment ==
    ASSUME TypeOK, OneBodyAtATime, QuietInv, ShutdownEnd \/ EnvironmentStep
    PROVE  QuietInv'
<1>1. UNCHANGED <<task, pricer>>
  BY EnvironmentLeaves
<1>2. CASE ShutdownStart
  <2>1. sd'.queued = Queued
    BY <1>2 DEF ShutdownStart
  <2>2. ASSUME NEW o, Running(o) PROVE o \in Queued
    <3>1. chain # <<>> /\ Head(chain) = o /\ chain \in Seq(Owners)
      BY <2>2 DEF Running, TypeOK, FlightTypeOK, Owners
    <3>2. 1 \in DOMAIN chain /\ chain[1] = o
      BY <3>1
    <3>3. QED
      BY <3>2 DEF Queued
  <2>3. QED
    BY <1>1, <2>1, <2>2 DEF QuietInv, OneBodyAtATime
<1>3. CASE ShutdownEnd
  <2>1. sd.queued = {} /\ shut' = shut
    BY <1>3 DEF ShutdownEnd
  <2>2. QED
    BY <1>1, <2>1 DEF QuietInv
<1>4. CASE BeginSession
  BY <1>4 DEF BeginSession, QuietInv
<1>5. ASSUME ~ShutdownStart, ~ShutdownEnd, ~BeginSession PROVE UNCHANGED <<sd, shut>>
  BY <1>5 DEF EnvironmentStep, OverrideEdit, TimePasses, PendingExpires,
     OtherReplaces, OtherLogsIn, flightVars, providerVars
<1>6. QED
  BY <1>1, <1>2, <1>3, <1>4, <1>5 DEF QuietInv

LEMMA QuietInductive ==
    CommitInv /\ FlowInv /\ QuietInv /\ [Next]_vars => QuietInv'
<1> SUFFICES ASSUME CommitInv, FlowInv, QuietInv, [Next]_vars PROVE QuietInv'
  OBVIOUS
<1>1. TypeOK /\ OneBodyAtATime
  BY DEF CommitInv
<1>2. CASE UNCHANGED vars
  BY <1>2 DEF vars, providerVars, flightVars, QuietInv
<1>3. ASSUME NEW t \in Tasks, TaskStep(t) \/ CallStep(t) PROVE QuietInv'
  BY <1>1, <1>3, QuietTask, QuietStart DEF GoesOn, CallStep
<1>4. QED
  BY <1>1, <1>2, <1>3, QuietPricer, QuietEnvironment DEF Next

-----------------------------------------------------------------------------
(* What a restore brings back under the publish contract *)

(* The snapshot of a refresh that no newer request made obsolete is what pi has stored, and
   nobody can change that while it is carried: whatever may still be written belongs to an
   earlier refresh phase, and pi refuses its handle. *)
Newest(t) == Carries(task[t]) /\ task[t].req = latestReq

OnlyEarlier(t) ==
    /\ task[t].snap = stored
    /\ models.store < task[t].phase /\ stored.store < task[t].phase
    /\ \A p \in Pricers : pricer[p].pc = "priceWrite" => pricer[p].cat.store < task[t].phase
    /\ \A u \in Tasks : u # t /\ Writes(task[u]) => task[u].phase < task[t].phase

StoresKnown ==
    /\ models.store <= phase /\ stored.store <= phase
    /\ \A p \in Pricers : pricer[p].pc = "priceWrite" => pricer[p].cat.store <= phase

SnapInv == StoresKnown /\ \A t \in Tasks : Newest(t) => OnlyEarlier(t)

LEMMA SnapTypes ==
    ASSUME TypeOK
    PROVE  /\ models.store \in Nat /\ stored.store \in Nat /\ phase \in Nat
           /\ \A t \in Tasks : task[t].phase \in Nat /\ task[t].req \in Nat
           /\ \A p \in Pricers : pricer[p].cat.store \in Nat
BY DEF TypeOK, ProviderTypeOK, FlightTypeOK, EnvTypeOK, Catalogs, TaskRecords, PricerRecords

(* What a step of call t displays comes from its own phase, or from a snapshot that is the
   stored catalog. *)
LEMMA ShowsKnown ==
    ASSUME TypeOK, FlowInv, SnapInv, NEW t \in Tasks, GoesOn(t)
    PROVE  \/ models' = models
           \/ Newest(t) /\ models' = stored
           \/ Writes(task[t]) /\ ~Carries(task[t]) /\ models'.store = task[t].phase
<1>1. KindOk(task[t]) /\ CallFlow(t)
  BY DEF FlowInv, KindsOk
<1>2. CASE RestoreShows(t)
  <2>1. Newest(t)
    BY <1>1, <1>2 DEF RestoreShows, MayContinue, Newest, Carries, KindOk, PersistPcs
  <2>2. QED
    BY <1>2, <2>1 DEF RestoreShows, SnapInv, OnlyEarlier
<1>3. CASE ConsumeShows(t)
  BY <1>1, <1>3 DEF ConsumeShows, CallFlow, KindOk, Writes, Carries, ConsumePcs, PersistPcs
<1>4. CASE CommitShows(t)
  <2>1. Fetched(t).store = task[t].phase
    BY DEF Fetched
  <2>2. QED
    BY <1>1, <1>4, <2>1 DEF CommitShows, KindOk, Writes, Carries, FetchPcs, PersistPcs
<1>5. QED
  BY <1>2, <1>3, <1>4, TaskShows

LEMMA SnapTask ==
    ASSUME Contract = "publish", TypeOK, TypeOK', FlowInv, SnapInv, NEW t \in Tasks, GoesOn(t)
    PROVE  SnapInv'
<1>1. Moves(t) /\ phase' = phase /\ latestReq' = latestReq
  BY TaskMoves DEF FlowInv
<1>2. /\ \A u \in Tasks : u # t => task'[u] = task[u]
      /\ Moved(task[t], task'[t])
  BY <1>1 DEF Moves
<1>3. \A p \in Pricers : pricer'[p] = pricer[p] \/ pricer'[p].pc # "priceWrite"
  BY TaskPrices DEF BodyPcs
<1>4. \/ models' = models
      \/ Newest(t) /\ models' = stored
      \/ Writes(task[t]) /\ ~Carries(task[t]) /\ models'.store = task[t].phase
  BY ShowsKnown
<1>5. stored' = stored \/ TaskStores(t)
  BY TaskSaves
<1>6. task[t].phase <= phase
  BY DEF FlowInv, CallFlow
<1>7. StoresKnown'
  BY <1>1, <1>3, <1>4, <1>5, <1>6, SnapTypes DEF SnapInv, StoresKnown, TaskStores, Newest
<1>8. \A u \in Tasks : Newest(u)' => Newest(u)
  BY <1>1, <1>2, NoTaskIs DEF Newest, Moved, SameCall
<1>9. \A u \in Tasks : Newest(u)' => task'[u].snap = task[u].snap /\ task'[u].phase = task[u].phase
  BY <1>1, <1>2, NoTaskIs DEF Newest, Moved, SameCall
<1>10. \A u \in Tasks : Writes(task'[u]) => Writes(task[u]) /\ task'[u].phase = task[u].phase
  BY <1>2, NoTaskIs DEF Moved, SameCall
<1>11. ASSUME NEW u \in Tasks, Newest(u)' PROVE OnlyEarlier(u)'
  <2>1. Newest(u) /\ OnlyEarlier(u) /\ task[u].phase <= phase
    BY <1>8, <1>11 DEF SnapInv, FlowInv, CallFlow
  <2>2. stored' = stored
    <3>1. CASE TaskStores(t)
      <4>1. u # t
        BY <2>1, <3>1 DEF TaskStores, Newest, Carries, PersistPcs
      <4>2. task[t].phase < task[u].phase /\ task[t].phase = phase
        BY <2>1, <3>1, <4>1 DEF TaskStores, OnlyEarlier, HandleCurrent
      <4>3. QED
        BY <2>1, <4>2, SnapTypes
    <3>2. QED
      BY <1>5, <3>1
  <2>3. models'.store < task[u].phase
    <3>1. CASE models' = models \/ models' = stored
      BY <2>1, <3>1 DEF OnlyEarlier
    <3>2. CASE Writes(task[t]) /\ ~Carries(task[t]) /\ models'.store = task[t].phase
      BY <2>1, <3>2 DEF OnlyEarlier, Newest
    <3>3. QED
      BY <1>4, <3>1, <3>2
  <2>4. QED
    BY <1>3, <1>9, <1>10, <1>11, <2>1, <2>2, <2>3 DEF OnlyEarlier
<1>12. QED
  BY <1>7, <1>11 DEF SnapInv

LEMMA SnapPricer ==
    ASSUME Contract = "publish", TypeOK, FlowInv, SnapInv, NEW p \in Pricers, PricerStep(p)
    PROVE  SnapInv'
<1>1. UNCHANGED <<task, phase, latestReq, models>>
  BY PricerLeaves
<1>2. /\ \A q \in Pricers : q # p => pricer'[q] = pricer[q]
      /\ pricer'[p].pc = "priceWrite" => pricer'[p].cat = models
      /\ \/ stored' = stored
         \/ pricer[p].pc = "priceWrite" /\ HandleCurrent(pricer[p].cat.store) /\ stored' = pricer[p].cat
  BY PricerMoves
<1>3. StoresKnown'
  BY <1>1, <1>2 DEF SnapInv, StoresKnown
<1>4. ASSUME NEW u \in Tasks, Newest(u)' PROVE OnlyEarlier(u)'
  <2>1. OnlyEarlier(u) /\ task[u].phase <= phase
    BY <1>1, <1>4 DEF SnapInv, FlowInv, CallFlow, Newest
  <2>2. stored' = stored
    BY <1>2, <2>1, SnapTypes DEF OnlyEarlier, HandleCurrent
  <2>3. QED
    BY <1>1, <1>2, <2>1, <2>2 DEF OnlyEarlier
<1>5. QED
  BY <1>3, <1>4 DEF SnapInv

(* A refresh takes its snapshot in a phase of its own, later than all before it. *)
LEMMA SnapRefresh ==
    ASSUME Contract = "publish", CommitInv, FlowInv, SnapInv, NEW t \in Tasks,
           NEW net \in BOOLEAN, NEW force \in BOOLEAN, RefreshStart(t, net, force)
    PROVE  SnapInv'
<1>1. TypeOK /\ latestReq < nextReq /\ \A u \in Tasks : task[u].req <= latestReq
  BY DEF CommitInv, WriteOrder, CallInOrder
<1>2. /\ task'[t].phase = phase + 1 /\ task'[t].net = net /\ task'[t].snap = stored
      /\ task'[t].pc \in {"persist", FirstPc}
      /\ \A u \in Tasks : u # t => task'[u] = task[u]
      /\ latestReq' = (IF net THEN nextReq ELSE latestReq)
      /\ phase' = phase + 1
      /\ UNCHANGED <<models, pricer, stored>>
  BY <1>1, RefreshStarts
<1>3. /\ models.store \in Nat /\ stored.store \in Nat /\ phase \in Nat
      /\ latestReq \in Nat /\ nextReq \in Nat
      /\ \A u \in Tasks : task[u].phase \in Nat /\ task[u].req \in Nat
      /\ \A p \in Pricers : pricer[p].cat.store \in Nat
  BY <1>1, SnapTypes, FlowTypes
<1>4. Writes(task'[t]) <=> net
  BY <1>2 DEF Writes, FirstPc, FetchPcs, ConsumePcs
<1>5. StoresKnown'
  BY <1>2, <1>3 DEF SnapInv, StoresKnown
<1>6. \A u \in Tasks : task[u].phase <= phase
  BY DEF FlowInv, CallFlow
<1>7. OnlyEarlier(t)'
  BY <1>2, <1>3, <1>6 DEF OnlyEarlier, SnapInv, StoresKnown
<1>8. ASSUME NEW u \in Tasks, u # t, Newest(u)' PROVE OnlyEarlier(u)'
  <2>1. ~net
    BY <1>1, <1>2, <1>3, <1>8 DEF Newest
  <2>2. OnlyEarlier(u)
    BY <1>2, <1>8, <2>1 DEF Newest, SnapInv
  <2>3. QED
    BY <1>2, <1>4, <1>8, <2>1, <2>2 DEF OnlyEarlier
<1>9. QED
  BY <1>5, <1>7, <1>8 DEF SnapInv

(* A call that fetches without a restore makes every restore under way obsolete, and a login
   writes nothing. *)
LEMMA SnapStart ==
    ASSUME CommitInv, FlowInv, SnapInv, NEW t \in Tasks,
           \/ \E force \in BOOLEAN : BackgroundStart(t, force)
           \/ ForegroundStart(t)
           \/ LoginStart(t)
    PROVE  SnapInv'
<1>1. TypeOK /\ latestReq < nextReq /\ \A u \in Tasks : task[u].req <= latestReq /\ KindOk(task[u])
  BY DEF CommitInv, WriteOrder, CallInOrder, FlowInv, KindsOk
<1>2. latestReq \in Nat /\ nextReq \in Nat /\ \A u \in Tasks : task[u].req \in Nat
  BY <1>1, FlowTypes
<1>3. CASE (\E force \in BOOLEAN : BackgroundStart(t, force)) \/ ForegroundStart(t)
  <2>1. /\ latestReq' = nextReq /\ UNCHANGED <<models, stored, phase, pricer>>
        /\ \A u \in Tasks : u # t => task'[u] = task[u]
        /\ task'[t].pc \in {"idle", "fetch"}
    BY <1>1, <1>3, OwnStarts DEF KindOk
  <2>2. \A u \in Tasks : ~Newest(u)'
    BY <1>1, <1>2, <2>1 DEF Newest, Carries, PersistPcs
  <2>3. QED
    BY <2>1, <2>2 DEF SnapInv, StoresKnown
<1>4. CASE LoginStart(t)
  <2>1. /\ UNCHANGED <<latestReq, models, stored, phase, pricer>>
        /\ \A u \in Tasks : u # t => task'[u] = task[u]
        /\ task'[t] = [NoTask EXCEPT !.kind = "login", !.pc = "prompt", !.gen = gen]
    BY <1>1, <1>4, LoginStarts
  <2>2. task'[t].pc = "prompt" /\ ~task'[t].net
    BY <2>1 DEF NoTask
  <2>3. ~Newest(t)' /\ ~Writes(task'[t])
    BY <2>2 DEF Newest, Carries, Writes, PersistPcs, FetchPcs, ConsumePcs
  <2>4. \A u \in Tasks : Newest(u)' => u # t /\ Newest(u)
    BY <2>1, <2>3 DEF Newest
  <2>5. \A u \in Tasks : Newest(u)' => OnlyEarlier(u)'
    BY <2>1, <2>3, <2>4 DEF SnapInv, OnlyEarlier
  <2>6. QED
    BY <2>1, <2>5 DEF SnapInv, StoresKnown
<1>5. QED
  BY <1>3, <1>4

LEMMA SnapInductive ==
    ASSUME Contract = "publish"
    PROVE  CommitInv /\ FlowInv /\ SnapInv /\ [Next]_vars => SnapInv'
<1> SUFFICES ASSUME CommitInv, FlowInv, SnapInv, [Next]_vars PROVE SnapInv'
  OBVIOUS
<1>1. TypeOK /\ TypeOK'
  BY NextTyped DEF CommitInv
<1>2. CASE UNCHANGED vars \/ ShutdownEnd \/ EnvironmentStep
  <2>1. UNCHANGED <<task, pricer, models, stored, phase, latestReq>>
    BY <1>2, EnvironmentLeaves DEF vars, providerVars, flightVars, envVars
  <2>2. QED
    BY <2>1 DEF SnapInv, StoresKnown, Newest, OnlyEarlier
<1>3. ASSUME NEW t \in Tasks, TaskStep(t) \/ CallStep(t) PROVE SnapInv'
  BY <1>1, <1>3, SnapTask, SnapRefresh, SnapStart DEF GoesOn, CallStep
<1>4. QED
  BY <1>1, <1>2, <1>3, SnapPricer DEF Next

-----------------------------------------------------------------------------
(* What the invariants say of every step *)

LEMMA FlowInvariant == Spec => [](CommitInv /\ FlowInv /\ QuietInv)
<1>1. Init => QuietInv
  BY DEF Init, QuietInv
<1>2. QED
  BY <1>1, InitCommitInv, FlowInit, CommitInvInductive, FlowInductive, QuietInductive, PTL DEF Spec

(* The catalog on display is changed by the calls, and by nobody else. *)
LEMMA ShowsAre ==
    ASSUME CommitInv, FlowInv, [Next]_vars
    PROVE  \/ models' = models
           \/ \E t \in Tasks : GoesOn(t) /\ (RestoreShows(t) \/ ConsumeShows(t) \/ CommitShows(t))
<1>1. TypeOK
  BY DEF CommitInv
<1>2. CASE UNCHANGED vars \/ ShutdownEnd \/ EnvironmentStep
  BY <1>2, EnvironmentLeaves DEF vars, providerVars
<1>3. ASSUME NEW t \in Tasks, CallStep(t), ~LoginAnswer(t) PROVE models' = models
  BY <1>1, <1>3, RefreshStarts, OwnStarts, LoginStarts DEF CallStep
<1>4. QED
  BY <1>2, <1>3, TaskShows, PricerLeaves DEF Next, GoesOn

(* A catalog is displayed only for the connection that is current: a refresh of the
   provider's own compares its connection, which nobody forgets within its session. *)
THEOREM DisplayedForTheConnection == Spec => PublishedConnIsCurrent
<1>1. ASSUME CommitInv, FlowInv, [Next]_vars PROVE models' # models /\ live' => models'.conn = lastConn'
  <2> SUFFICES ASSUME NEW t \in Tasks, ConsumeShows(t) \/ CommitShows(t) PROVE models'.conn = lastConn'
    BY <1>1, ShowsAre DEF RestoreShows
  <2>1. KindOk(task[t]) /\ CallFlow(t)
    BY <1>1 DEF FlowInv, KindsOk
  <2>2. CASE CommitShows(t)
    <3>1. models'.conn = task[t].conn
      BY <2>2 DEF CommitShows, Fetched
    <3>2. task[t].kind \in {"refresh", "background", "foreground"}
      <4>1. task[t] \in TaskRecords
        BY <1>1 DEF CommitInv, TypeOK, FlightTypeOK
      <4>2. QED
        BY <2>1, <2>2, <4>1 DEF CommitShows, KindOk, TaskRecords
    <3>3. QED
      BY <2>1, <2>2, <3>1, <3>2 DEF CommitShows, MayPublish, MayContinue, LifecycleMatches,
         ConnectionStillMatches, CallFlow
  <2>3. QED
    BY <2>2 DEF ConsumeShows
<1>2. QED
  BY <1>1, FlowInvariant, PTL DEF Spec, PublishedConnIsCurrent

(* After a command has asked for a refresh no fetched catalog brings back the overrides of
   before: the command took the request identity, and later requests read the overrides later. *)
THEOREM EndpointChangesStick == Spec => EndpointChangeSticks
<1>1. ASSUME CommitInv, FlowInv, [Next]_vars
      PROVE  models' # models /\ live' /\ models'.src = "fetch" => models'.ov >= floor'
  <2> SUFFICES ASSUME NEW t \in Tasks, GoesOn(t), ConsumeShows(t) \/ CommitShows(t), models'.src = "fetch"
               PROVE  models'.ov >= floor'
    BY <1>1, ShowsAre DEF RestoreShows
  <2>1. KindOk(task[t]) /\ CallFlow(t)
    BY <1>1 DEF FlowInv, KindsOk
  <2>2. floor' = floor
    BY <1>1, TaskMoves DEF CommitInv, FlowInv
  <2>3. CASE ConsumeShows(t)
    BY <2>1, <2>3 DEF ConsumeShows, CallFlow, ConsumePcs
  <2>4. CASE CommitShows(t)
    <3>1. models'.ov = task[t].ov
      BY <2>4 DEF CommitShows, Fetched
    <3>2. QED
      BY <2>1, <2>2, <2>4, <3>1 DEF CommitShows, MayPublish, MayContinue, CallFlow, KindOk, FetchPcs
  <2>5. QED
    BY <2>3, <2>4
<1>2. QED
  BY <1>1, FlowInvariant, PTL DEF Spec, EndpointChangeSticks

(* Under the publish contract a restore takes the place of no newer catalog. *)
THEOREM RestoresAreNotOlder ==
    ASSUME Contract = "publish"
    PROVE  Spec => RestoreNotOlder
<1>1. Init => SnapInv
  <2> SUFFICES ASSUME Init PROVE SnapInv
    OBVIOUS
  <2>1. \A t \in Tasks : task[t] = NoTask
    BY DEF Init
  <2>2. \A p \in Pricers : pricer[p].pc = "idle"
    BY DEF Init, NoPricer
  <2>3. models.store = 0 /\ stored.store = 0 /\ phase = 0
    <3>1. NoCatalog.store = 0 /\ \A c : [NoCatalog EXCEPT !.src = "seed", !.conn = c].store = 0
      BY DEF NoCatalog
    <3>2. /\ stored = NoCatalog /\ phase = 0
          /\ models = NoCatalog \/ \E c : models = [NoCatalog EXCEPT !.src = "seed", !.conn = c]
      BY DEF Init
    <3>3. QED
      BY <3>1, <3>2
  <2>4. QED
    BY <2>1, <2>2, <2>3, NoTaskIs DEF SnapInv, StoresKnown, Newest
<1>2. ASSUME CommitInv, FlowInv, SnapInv, [Next]_vars
      PROVE  models' # models /\ ~live' /\ (ahead \/ models.req <= stored.req) => models'.req >= models.req
  <2> SUFFICES ASSUME NEW t \in Tasks, GoesOn(t), RestoreShows(t), ahead \/ models.req <= stored.req
               PROVE  models'.req >= models.req
    BY <1>2, ShowsAre DEF ConsumeShows, CommitShows
  <2>1. Newest(t)
    BY <1>2 DEF FlowInv, KindsOk, KindOk, RestoreShows, MayContinue, Newest, Carries, PersistPcs
  <2>2. models' = stored
    BY <1>2, <2>1 DEF RestoreShows, SnapInv, OnlyEarlier
  <2>3. ~ahead
    BY DEF RestoreShows, RestoreAllowed
  <2>4. models.req \in Nat /\ stored.req \in Nat
    BY <1>2 DEF CommitInv, TypeOK, ProviderTypeOK, EnvTypeOK, Catalogs
  <2>5. QED
    BY <2>2, <2>3, <2>4
<1>3. QED
  BY <1>1, <1>2, FlowInvariant, SnapInductive, PTL DEF Spec, RestoreNotOlder

(* Once shutdown() has returned, nothing the provider started changes the display, pi's store
   or the registry: it waited for every body in the chain, and none begins without a session. *)
THEOREM QuietOnceShutDown == Spec => QuietAfterShutdown
<1>1. ASSUME CommitInv, FlowInv, QuietInv, [Next]_vars, shut, shut', sd = NoShutdown
      PROVE  UNCHANGED <<models, stored>> /\ (registry' # registry => foreign')
  <2>1. TypeOK /\ \A t \in Tasks : task[t].pc \notin BodyPcs
    BY <1>1 DEF CommitInv, QuietInv, NoShutdown
  <2>2. \A p \in Pricers : pricer[p].pc \notin BodyPcs
    BY <1>1 DEF QuietInv, NoShutdown
  <2>3. models' = models
    BY <1>1, ShowsAre DEF RestoreShows, ConsumeShows, CommitShows, StillConsumes, MayPublish, MayContinue,
       LifecycleMatches
  <2>4. CASE UNCHANGED vars \/ ShutdownEnd \/ EnvironmentStep
    <3>1. stored' = stored
      BY <2>4, EnvironmentLeaves DEF vars, envVars
    <3>2. registry' # registry => foreign'
      BY <2>4 DEF vars, ShutdownEnd, EnvironmentStep, ShutdownStart, BeginSession, OverrideEdit, TimePasses,
         PendingExpires, OtherReplaces, OtherLogsIn, registryVars
    <3>3. QED
      BY <2>3, <3>1, <3>2
  <2>5. ASSUME NEW t \in Tasks, GoesOn(t) PROVE UNCHANGED <<stored, registry>>
    <3>1. stored' = stored
      BY <1>1, <2>1, <2>5, TaskSaves DEF TaskStores, BodyPcs
    <3>2. ~PersistWrite(t)
      BY <2>1 DEF PersistWrite, BodyPcs
    <3>3. registry' = registry
      BY <2>5, <3>2 DEF GoesOn, TaskStep, PersistBegin, PersistEnd, LegacyRead, Restore, ConsumeBegin,
         ConsumeWrite, ConsumeEnd, FetchDone, FetchFail, CommitBegin, CommitWrite, CommitApply, LoginAnswer,
         LoginFetched, LoginFetchFail, PiStoresCredential, registryVars
    <3>4. QED
      BY <3>1, <3>3
  <2>6. ASSUME NEW p \in Pricers, PricerStep(p) PROVE UNCHANGED <<stored, registry>>
    BY <2>1, <2>2, <2>6, PricerMoves, PricerLeaves DEF BodyPcs
  <2>7. ASSUME NEW t \in Tasks, CallStep(t), ~LoginAnswer(t) PROVE UNCHANGED <<stored, registry>>
    BY <2>1, <2>7, RefreshStarts, OwnStarts, LoginStarts DEF CallStep
  <2>8. QED
    BY <1>1, <2>3, <2>4, <2>5, <2>6, <2>7 DEF Next, GoesOn
<1>2. QED
  BY <1>1, FlowInvariant, PTL DEF Spec, QuietAfterShutdown

(* A validated login's catalog goes away by being displayed, by expiring, with its session,
   or for another login. *)
PendingStep ==
    \/ pending = NoPending \/ pending.expired \/ pending' # NoPending
    \/ gen' # gen
    \/ \E t \in Tasks : task[t].kind = "idle" /\ task'[t].kind = "login"
    \/ \E t \in Tasks : task[t].kind = "login" /\ task'[t].kind = "idle"
    \/ live' /\ models'.src = "login" /\ models'.n = pending.nonce

THEOREM PendingIsKept == Spec => PendingKept
<1>1. ASSUME CommitInv, FlowInv, [Next]_vars PROVE PendingStep
  <2> SUFFICES ASSUME pending # NoPending, ~pending.expired PROVE PendingStep
    BY DEF PendingStep
  <2>1. TypeOK
    BY <1>1 DEF CommitInv
  <2>2. pending' = pending => PendingStep
    BY DEF PendingStep
  <2>3. gen' = gen + 1 => PendingStep
    BY <2>1 DEF PendingStep, TypeOK, ProviderTypeOK
  <2>4. CASE UNCHANGED vars \/ ShutdownEnd \/ EnvironmentStep
    <3>1. CASE PendingExpires
      <4>1. pending'.expired
        BY <2>1, <3>1 DEF PendingExpires, TypeOK, ProviderTypeOK
      <4>2. QED
        BY <4>1 DEF PendingStep, NoPending
    <3>2. QED
      BY <2>2, <2>3, <2>4, <3>1 DEF vars, providerVars, ShutdownEnd, EnvironmentStep, ShutdownStart,
         BeginSession, OverrideEdit, TimePasses, OtherReplaces, OtherLogsIn
  <2>5. ASSUME NEW p \in Pricers, PricerStep(p) PROVE PendingStep
    BY <2>2, <2>5, PricerLeaves
  <2>6. ASSUME NEW t \in Tasks, TaskStep(t) \/ CallStep(t) PROVE PendingStep
    <3>2. CASE LoginStart(t)
      <4>1. /\ task'[t] = [NoTask EXCEPT !.kind = "login", !.pc = "prompt", !.gen = gen]
            /\ task[t].kind = "idle"
        BY <2>1, <3>2, LoginStarts
      <4>2. task'[t].kind = "login"
        BY <4>1 DEF NoTask
      <4>3. QED
        BY <4>1, <4>2 DEF PendingStep
    <3>3. CASE LoginFetched(t)
      <4>1. pending'.conn = task[t].conn /\ task[t].pc = "fetch"
        BY <3>3 DEF LoginFetched
      <4>2. task[t].conn # NoConn
        BY <2>1, <4>1, ConnAssumption DEF TypeOK, FlightTypeOK, HasConnection
      <4>3. QED
        BY <4>1, <4>2 DEF PendingStep, NoPending
    <3>4. CASE LoginFetchFail(t)
      <4>1. \/ pending' = pending
            \/ EndTask(t, FALSE) /\ task[t].kind = "login"
        BY <3>4 DEF LoginFetchFail
      <4>2. EndTask(t, FALSE) => task'[t].kind = "idle"
        BY <2>1, NoTaskIs DEF EndTask, TypeOK, FlightTypeOK
      <4>3. QED
        BY <2>2, <4>1, <4>2 DEF PendingStep
    <3>5. CASE Restore(t)
      BY <2>2, <3>5 DEF Restore
    <3>6. CASE ConsumeEnd(t)
      <4>1. pending' = pending \/ (ConsumeShows(t) /\ pending.nonce = task[t].nonce)
        BY <3>6 DEF ConsumeEnd, ConsumeShows, StillConsumes
      <4>2. CallFlow(t)
        BY <1>1 DEF FlowInv
      <4>3. QED
        BY <2>2, <4>1, <4>2 DEF PendingStep, ConsumeShows, CallFlow, ConsumePcs
    <3>7. ASSUME ~LoginStart(t), ~LoginFetched(t), ~LoginFetchFail(t), ~Restore(t), ~ConsumeEnd(t)
          PROVE  pending' = pending
      BY <2>6, <3>7 DEF TaskStep, CallStep, PersistBegin, PersistWrite, PersistEnd, LegacyRead, ConsumeBegin,
         ConsumeWrite, FetchDone, FetchFail, CommitBegin, CommitWrite, CommitApply, LoginAnswer,
         PiStoresCredential, RefreshStart, BackgroundStart, ForegroundStart, providerVars
    <3>8. QED
      BY <2>2, <3>2, <3>3, <3>4, <3>5, <3>6, <3>7
  <2>7. QED
    BY <1>1, <2>4, <2>5, <2>6 DEF Next
<1>2. QED
  BY <1>1, FlowInvariant, PTL DEF Spec, PendingKept, PendingStep
=============================================================================
