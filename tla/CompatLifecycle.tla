--------------------------- MODULE CompatLifecycle ---------------------------
(***************************************************************************)
(* The life of one gateway instance id across the pi processes of a user   *)
(* (extensions/compat/index.ts, compat/storage.ts): adding it by a login,  *)
(* removing it by /llmgates remove, cleaning up after pi's own /logout.    *)
(*                                                                         *)
(* Four places must agree about the id: the registry 2api.json, pi's       *)
(* auth.json, the instance's endpoint override file, and in every process  *)
(* the provider that is registered with pi.  Each login makes a new        *)
(* incarnation of the id; incarnations tell whose data a place holds.      *)
(*                                                                         *)
(* A locked read-modify-write of a file is one step (module FileLock says  *)
(* why); the awaits between them are where other actors come in.           *)
(***************************************************************************)
EXTENDS Naturals, Sequences

CONSTANTS
    Procs,          \* pi processes
    Tasks,          \* transactions of logins and removals in flight at once
    Cleanup,        \* the logout cleanup, as a member of a transaction queue
    MaxIncs,        \* bound on the logins
    MaxStamp,       \* bound on the changes others make to auth.json
    MaxRetries,     \* ORPHAN_CLEANUP_MAX_RETRIES
    Watchers,       \* how watching auth.json may turn out: "off", "on", "deaf" (silent)
    Worlds          \* the surroundings to consider, each a set of Deeds

Deeds ==
    {"io",        \* a file or runtime operation fails
     "gaps",      \* auth.json is missing or half written for a while
     "others",    \* transactions of other instance ids touch auth.json
     "batches",   \* an endpoint batch is edited meanwhile
     "relogin",   \* pi's /login of a registered id stores a new credential
     "ends",      \* sessions end, and others start
     "exits"}     \* a process ends at any point

ASSUME LifecycleBounds ==
    /\ MaxIncs \in Nat \ {0} /\ MaxStamp \in Nat /\ MaxRetries \in Nat
    /\ Worlds \subseteq SUBSET Deeds /\ Watchers \subseteq {"off", "on", "deaf"}
    /\ Cleanup \notin Tasks /\ "nobody" \notin Procs

VARIABLES
    \* disk
    entry,       \* incarnation in the registry, 0 when the id is not there
    auth,        \* state of auth.json, credential of the id in it, change stamp
    overrides,   \* incarnations whose endpoint overrides the file of the id holds
    \* memory of each process
    up,          \* the extension is loaded
    session,     \* "new", "running", "stopping", "stopped": session events seen
    provider,    \* providers: incarnation of the provider in the map, or 0
    runtime,     \* incarnation of the provider registered with pi, or 0
    open,        \* providers of the process that are not shut down
    refreshing,  \* providers whose refresh will re-register them when it ends
    queue,       \* idTransactions: transactions of the id, the running one first
    task,        \* logins and removals in flight
    batch,       \* incarnation an /endpoint-setting dialog was opened for, or 0
    \* logout cleanup of each process
    loop,        \* orphanCleanup: where its loop is
    requested,   \* orphanCleanupRequested
    victim,      \* incarnation the cleanup last decided to remove
    retry,       \* orphanCleanupRetryTimer is armed
    retries,     \* orphanCleanupRetryCount
    watcher,     \* "off", "on", or "deaf": established but silent
    event,       \* a watch event is waiting to be delivered
    poll,        \* authCleanupPollTimer is armed
    seen,        \* lastAuthFingerprint
    \* the deeds the surroundings do in this behaviour
    world,
    \* history
    made,        \* incarnations so far
    loggedOut,   \* incarnations whose credential was deleted, and not stored again since
    late,        \* incarnations whose overrides were written after their removal
    early,       \* incarnations whose credential was gone before their entry was added
    partial      \* a removal or cleanup was left half-done: it partial, or its process ended

diskVars    == <<entry, auth, overrides>>
procVars    == <<up, session, provider, runtime, open, refreshing, batch>>
cleanupVars == <<loop, requested, victim, retry, retries>>
wakeVars    == <<watcher, event, poll, seen>>
ghostVars   == <<made, loggedOut, late, early, partial>>
vars == <<diskVars, procVars, queue, task, cleanupVars, wakeVars, ghostVars, world>>

Incs == 0 .. MaxIncs
TaskRecords ==
    [kind : {"none", "login", "remove"}, proc : Procs \cup {"nobody"}, inc : Incs,
     pc : {"free", "queued", "assert", "credential", "entry", "undo", "register", "abandon",
           "shutdown", "registry", "auth", "overrides"}]

TypeOK ==
    /\ entry \in Incs
    /\ auth \in [state : {"ok", "missing", "garbled"}, cred : Incs, stamp : Nat]
    /\ overrides \subseteq Incs
    /\ up \in [Procs -> BOOLEAN]
    /\ session \in [Procs -> {"new", "running", "stopping", "stopped"}]
    /\ provider \in [Procs -> Incs] /\ runtime \in [Procs -> Incs]
    /\ open \in [Procs -> SUBSET Incs] /\ refreshing \in [Procs -> SUBSET Incs]
    /\ \A p \in Procs : \A i \in DOMAIN queue[p] : queue[p][i] \in Tasks \cup {Cleanup}
    /\ task \in [Tasks -> TaskRecords]
    /\ batch \in [Procs -> Incs]
    /\ loop \in [Procs -> {"none", "test", "queued", "retire", "registry", "overrides", "end"}]
    /\ requested \in [Procs -> BOOLEAN]
    /\ victim \in [Procs -> Incs]
    /\ retry \in [Procs -> BOOLEAN] /\ retries \in [Procs -> 0 .. MaxRetries]
    /\ watcher \in [Procs -> {"off", "on", "deaf"}] /\ event \in [Procs -> BOOLEAN]
    /\ poll \in [Procs -> BOOLEAN] /\ seen \in [Procs -> Nat]
    /\ world \in Worlds
    /\ made \in Incs /\ {loggedOut, late, early} \subseteq SUBSET Incs /\ partial \in BOOLEAN

NoTask == [kind |-> "none", proc |-> "nobody", inc |-> 0, pc |-> "free"]

(* The id is free, or its first incarnation was added before; the processes are not up. *)
Init ==
    /\ world \in Worlds
    /\ made \in {0, 1} /\ entry = made
    /\ auth = [state |-> "ok", cred |-> made, stamp |-> 1]
    /\ overrides \in SUBSET ({made} \ {0})
    /\ up = [p \in Procs |-> FALSE] /\ session = [p \in Procs |-> "new"]
    /\ provider = [p \in Procs |-> 0] /\ runtime = [p \in Procs |-> 0]
    /\ open = [p \in Procs |-> {}] /\ refreshing = [p \in Procs |-> {}]
    /\ queue = [p \in Procs |-> <<>>]
    /\ task = [t \in Tasks |-> NoTask]
    /\ batch = [p \in Procs |-> 0]
    /\ loop = [p \in Procs |-> "none"] /\ requested = [p \in Procs |-> FALSE]
    /\ victim = [p \in Procs |-> 0]
    /\ retry = [p \in Procs |-> FALSE] /\ retries = [p \in Procs |-> 0]
    /\ watcher = [p \in Procs |-> "off"] /\ event = [p \in Procs |-> FALSE]
    /\ poll = [p \in Procs |-> FALSE] /\ seen = [p \in Procs |-> 0]
    /\ loggedOut = {} /\ late = {} /\ early = {} /\ partial = FALSE

-----------------------------------------------------------------------------
(* Files *)

(* auth.json is replaced: its metadata change, and watchers that hear are told. *)
AuthBecomes(state, cred) ==
    /\ auth' = [state |-> state, cred |-> cred, stamp |-> auth.stamp + 1]
    /\ event' = [p \in Procs |-> event[p] \/ watcher[p] = "on"]

(* Whose credential a new version of the file no longer holds. *)
CredDeleted == loggedOut' = loggedOut \cup ({auth.cred} \ {0})

(* hasAuthEntry of a file that was read. *)
LoggedIn == auth.state = "ok" /\ auth.cred # 0

(* readAuthFingerprint: file metadata, or a sentinel for a missing file. *)
Fingerprint == IF auth.state = "missing" THEN 0 ELSE auth.stamp

-----------------------------------------------------------------------------
(* Transactions of the id: withIdTransaction *)

Enter(p, who) == queue' = [queue EXCEPT ![p] = Append(@, who)]
MayRun(p, who) == queue[p] # <<>> /\ Head(queue[p]) = who
Leave(p) == queue' = [queue EXCEPT ![p] = Tail(@)]

Move(t, pc) == task' = [task EXCEPT ![t].pc = pc]

(* Mutant: a transaction that ends does not let the next one run. *)
EndTask_KeepsTurn(t) == task' = [task EXCEPT ![t] = NoTask] /\ UNCHANGED queue

EndTask(t) == task' = [task EXCEPT ![t] = NoTask] /\ Leave(task[t].proc)

(* A step of the running transaction of t that is at pc. *)
Running(t, pc) == task[t].pc = pc /\ MayRun(task[t].proc, t)

(* A step that works, fails with its effects undone, or is reported as a partial one. *)
Works == UNCHANGED partial
Refuses == "io" \in world /\ UNCHANGED partial
Fails == "io" \in world /\ partial' = TRUE

-----------------------------------------------------------------------------
(* A login adds the id: persistValidated *)

LoginBegin(t, p) ==
    /\ task[t].kind = "none" /\ session[p] = "running" /\ made < MaxIncs
    /\ made' = made + 1
    /\ task' = [task EXCEPT ![t] = [kind |-> "login", proc |-> p, inc |-> made', pc |-> "queued"]]
    /\ Enter(p, t)
    /\ UNCHANGED <<world, diskVars, procVars, cleanupVars, wakeVars, loggedOut, late, early,
                   partial>>

(* listInstances: the id must not be in the registry. *)
LoginCheck(t) ==
    /\ task[t].kind = "login" /\ Running(t, "queued")
    /\ IF entry = 0 THEN Move(t, "assert") /\ UNCHANGED queue ELSE EndTask(t)
    /\ UNCHANGED <<world, diskVars, procVars, cleanupVars, wakeVars, ghostVars>>

(* assertAuthEntryAbsent creates a missing auth.json. *)
LoginAssert(t) ==
    /\ Running(t, "assert")
    /\ IF auth.state = "garbled" \/ LoggedIn
       THEN EndTask(t)
       ELSE Move(t, "credential") /\ UNCHANGED queue
    /\ IF auth.state = "missing" THEN AuthBecomes("ok", 0) ELSE UNCHANGED <<auth, event>>
    /\ UNCHANGED <<world, entry, overrides, procVars, cleanupVars, watcher, poll, seen, ghostVars>>

(* Mutant: the credential is written without looking again under the lock. *)
LoginCredential_Unchecked(t) ==
    /\ Running(t, "credential")
    /\ \/ /\ auth.state # "garbled"
          /\ AuthBecomes("ok", task[t].inc)
          /\ Move(t, "entry") /\ UNCHANGED queue
          /\ Works
       \/ /\ auth.state = "garbled"
          /\ EndTask(t)
          /\ UNCHANGED <<auth, event, partial>>
       \/ /\ Refuses
          /\ EndTask(t)
          /\ UNCHANGED <<auth, event>>
    /\ UNCHANGED <<world, entry, overrides, procVars, cleanupVars, watcher, poll, seen,
                   made, loggedOut, late, early>>

(* writeProviderOAuthCredential, which checks again under its lock. *)
LoginCredential(t) ==
    /\ Running(t, "credential")
    /\ \/ /\ auth.state # "garbled" /\ ~LoggedIn
          /\ AuthBecomes("ok", task[t].inc)
          /\ Move(t, "entry") /\ UNCHANGED queue
          /\ Works
       \/ /\ auth.state = "garbled" \/ LoggedIn
          /\ EndTask(t)
          /\ UNCHANGED <<auth, event, partial>>
       \/ /\ Refuses
          /\ EndTask(t)
          /\ UNCHANGED <<auth, event>>
    /\ UNCHANGED <<world, entry, overrides, procVars, cleanupVars, watcher, poll, seen,
                   made, loggedOut, late, early>>

(* Mutant: a failed registry write leaves the credential behind. *)
LoginEntry_NotUndone(t) ==
    /\ Running(t, "entry")
    /\ \/ /\ entry = 0
          /\ entry' = task[t].inc
          /\ early' = IF auth.cred = task[t].inc THEN early ELSE early \cup {task[t].inc}
          /\ Move(t, "register") /\ UNCHANGED queue
          /\ Works
       \/ /\ (entry # 0 /\ Works) \/ Refuses
          /\ EndTask(t)
          /\ UNCHANGED <<entry, early>>
    /\ UNCHANGED <<world, auth, overrides, procVars, cleanupVars, wakeVars, made, loggedOut, late>>

(* addInstance. *)
LoginEntry(t) ==
    /\ Running(t, "entry")
    /\ \/ /\ entry = 0
          /\ entry' = task[t].inc
          /\ early' = IF auth.cred = task[t].inc THEN early ELSE early \cup {task[t].inc}
          /\ Move(t, "register")
          /\ Works
       \/ /\ (entry # 0 /\ Works) \/ Refuses
          /\ Move(t, "undo")
          /\ UNCHANGED <<entry, early>>
    /\ UNCHANGED <<world, auth, overrides, queue, procVars, cleanupVars, wakeVars, made,
                   loggedOut, late>>

(* deleteProviderAuthEntryIfEqual compensates the failed registry write. *)
LoginUndo(t) ==
    /\ Running(t, "undo")
    /\ EndTask(t)
    /\ \/ /\ auth.state = "ok" /\ auth.cred = task[t].inc
          /\ AuthBecomes("ok", 0) /\ CredDeleted
          /\ Works
       \/ /\ auth.state = "missing"
          /\ AuthBecomes("ok", 0)
          /\ UNCHANGED loggedOut /\ Works
       \/ /\ auth.state = "ok" /\ auth.cred # task[t].inc
          /\ UNCHANGED <<auth, event, loggedOut>> /\ Works
       \/ /\ (auth.state = "garbled" /\ partial' = TRUE) \/ Fails
          /\ UNCHANGED <<auth, event, loggedOut>>
    /\ UNCHANGED <<world, entry, overrides, procVars, cleanupVars, watcher, poll, seen, made,
                   late, early>>

(* The provider enters the map, begins its session and is registered with pi. *)
LoginRegister(t) ==
    LET p == task[t].proc IN
    /\ Running(t, "register")
    /\ \/ /\ provider' = [provider EXCEPT ![p] = task[t].inc]
          /\ runtime' = [runtime EXCEPT ![p] = task[t].inc]
          /\ open' = [open EXCEPT ![p] = @ \cup {task[t].inc}]
          /\ EndTask(t)
          /\ Works
       \/ /\ Refuses
          /\ provider' = [provider EXCEPT ![p] = 0]
          /\ Move(t, "abandon")
          /\ UNCHANGED <<runtime, open, queue>>
    /\ UNCHANGED <<world, diskVars, up, session, refreshing, batch, cleanupVars, wakeVars,
                   made, loggedOut, late, early>>

(* `await provider.shutdown()` after a failed registration. *)
LoginAbandon(t) ==
    /\ Running(t, "abandon")
    /\ EndTask(t)
    /\ UNCHANGED <<world, diskVars, procVars, cleanupVars, wakeVars, ghostVars>>

-----------------------------------------------------------------------------
(* /llmgates remove <id> *)

RemoveBegin(t, p) ==
    /\ task[t].kind = "none" /\ session[p] = "running"
    /\ task' = [task EXCEPT ![t] = [kind |-> "remove", proc |-> p, inc |-> 0, pc |-> "queued"]]
    /\ Enter(p, t)
    /\ UNCHANGED <<world, diskVars, procVars, cleanupVars, wakeVars, ghostVars>>

(* The provider leaves the map before anything is awaited; it refuses work at once. *)
RemoveCheck(t) ==
    LET p == task[t].proc IN
    /\ task[t].kind = "remove" /\ Running(t, "queued")
    /\ IF entry = 0
       THEN EndTask(t) /\ UNCHANGED <<provider, open>>
       ELSE /\ task' = [task EXCEPT ![t].inc = provider[p], ![t].pc = "shutdown"]
            /\ provider' = [provider EXCEPT ![p] = 0]
            /\ open' = [open EXCEPT ![p] = @ \ {provider[p]}]
            /\ UNCHANGED queue
    /\ UNCHANGED <<world, diskVars, up, session, runtime, refreshing, batch, cleanupVars, wakeVars,
                   ghostVars>>

(* shutdown() has returned, with an error or not; unregisterProvider follows. *)
RemoveUnregister(t) ==
    LET p == task[t].proc IN
    /\ Running(t, "shutdown")
    /\ \/ runtime' = [runtime EXCEPT ![p] = 0] /\ Works
       \/ Fails /\ runtime' \in {runtime, [runtime EXCEPT ![p] = 0]}
    /\ Move(t, "registry")
    /\ UNCHANGED <<world, diskVars, up, session, provider, open, refreshing, batch, queue,
                   cleanupVars, wakeVars, made, loggedOut, late, early>>

(* removeInstance removes whatever entry the id has. *)
RemoveRegistry(t) ==
    /\ Running(t, "registry")
    /\ \/ entry' = 0 /\ Works
       \/ Fails /\ UNCHANGED entry
    /\ Move(t, "auth")
    /\ UNCHANGED <<world, auth, overrides, procVars, queue, cleanupVars, wakeVars, made,
                   loggedOut, late, early>>

(* deleteProviderAuthEntry; it throws on a file it cannot parse. *)
RemoveAuth(t) ==
    /\ Running(t, "auth")
    /\ Move(t, "overrides")
    /\ \/ /\ LoggedIn
          /\ AuthBecomes("ok", 0) /\ CredDeleted
          /\ Works
       \/ /\ auth.state = "missing"
          /\ AuthBecomes("ok", 0)
          /\ UNCHANGED loggedOut /\ Works
       \/ /\ auth.state = "ok" /\ ~LoggedIn
          /\ UNCHANGED <<auth, event, loggedOut>> /\ Works
       \/ /\ (auth.state = "garbled" /\ partial' = TRUE) \/ Fails
          /\ UNCHANGED <<auth, event, loggedOut>>
    /\ UNCHANGED <<world, entry, overrides, procVars, queue, cleanupVars, watcher, poll, seen,
                   made, late, early>>

(* deleteInstanceOverrides *)
RemoveOverrides(t) ==
    /\ Running(t, "overrides")
    /\ \/ overrides' = {} /\ Works
       \/ Fails /\ UNCHANGED overrides
    /\ EndTask(t)
    /\ UNCHANGED <<world, entry, auth, procVars, cleanupVars, wakeVars, made, loggedOut, late,
                   early>>

-----------------------------------------------------------------------------
(* Cleanup after pi's /logout: requestOrphanCleanup and pruneOrphanedInstances *)

(* Only a file that could be read tells of a logout: readAuthMapForCleanup. *)
LogoutSeen == auth.state = "ok" /\ auth.cred = 0

Stopped(p) == session[p] \in {"stopping", "stopped"}

(* Mutant: a request while the loop runs is forgotten. *)
Request_Dropped(p) ==
    IF Stopped(p) \/ loop[p] # "none"
    THEN UNCHANGED <<requested, loop>>
    ELSE /\ requested' = [requested EXCEPT ![p] = TRUE]
         /\ loop' = [loop EXCEPT ![p] = "test"]

(* A request while the loop runs is remembered; it starts the loop otherwise. *)
Request(p) ==
    IF Stopped(p)
    THEN UNCHANGED <<requested, loop>>
    ELSE /\ requested' = [requested EXCEPT ![p] = TRUE]
         /\ loop' = [loop EXCEPT ![p] = IF @ = "none" THEN "test" ELSE @]

(* scheduleOrphanCleanupRetry, up to ORPHAN_CLEANUP_MAX_RETRIES times in a row. *)
(* Mutant: no limit on the retries. *)
ScheduleRetry_Endless(p) ==
    IF Stopped(p) \/ retry[p]
    THEN UNCHANGED <<retry, retries>>
    ELSE /\ retry' = [retry EXCEPT ![p] = TRUE]
         /\ retries' = [retries EXCEPT ![p] = @ + 1]

ScheduleRetry(p) ==
    IF Stopped(p) \/ retry[p] \/ retries[p] = MaxRetries
    THEN UNCHANGED <<retry, retries>>
    ELSE /\ retry' = [retry EXCEPT ![p] = TRUE]
         /\ retries' = [retries EXCEPT ![p] = @ + 1]

Goto(p, pc) == loop' = [loop EXCEPT ![p] = pc]

(* One round: what auth.json says decides whether the id is looked at again. *)
LoopTest(p) ==
    /\ loop[p] = "test" /\ requested[p]
    /\ requested' = [requested EXCEPT ![p] = FALSE]
    /\ \/ auth.state = "garbled" /\ ScheduleRetry(p)
       \/ auth.state = "missing" /\ UNCHANGED <<retry, retries>>
       \/ /\ auth.state = "ok"
          /\ retry' = [retry EXCEPT ![p] = FALSE]
          /\ retries' = [retries EXCEPT ![p] = 0]
    /\ IF entry # 0 /\ LogoutSeen
       THEN Enter(p, Cleanup) /\ Goto(p, "queued")
       ELSE UNCHANGED <<loop, queue>>
    /\ UNCHANGED <<world, diskVars, procVars, task, victim, wakeVars, ghostVars>>

(* The loop ends; its `finally` starts it again when it was asked for meanwhile. *)
LoopEnd(p) ==
    /\ loop[p] = "test" /\ ~requested[p]
    /\ Goto(p, "end")
    /\ UNCHANGED <<world, diskVars, procVars, queue, task, requested, victim, retry, retries,
                   wakeVars, ghostVars>>

LoopFinally(p) ==
    /\ loop[p] = "end"
    /\ Goto(p, IF requested[p] /\ ~Stopped(p) THEN "test" ELSE "none")
    /\ UNCHANGED <<world, diskVars, procVars, queue, task, requested, victim, retry, retries,
                   wakeVars, ghostVars>>

(* Mutant: the transaction trusts what was read before it waited. *)
LoopTxn_OnFirstRead(p) ==
    /\ loop[p] = "queued" /\ MayRun(p, Cleanup)
    /\ IF auth.state = "garbled" THEN ScheduleRetry(p) ELSE UNCHANGED <<retry, retries>>
    /\ IF auth.state # "ok" \/ entry = 0
       THEN Leave(p) /\ Goto(p, "test") /\ UNCHANGED <<victim, provider, open>>
       ELSE /\ victim' = [victim EXCEPT ![p] = entry]
            /\ provider' = [provider EXCEPT ![p] = 0]
            /\ open' = [open EXCEPT ![p] = @ \ {provider[p]}]
            /\ Goto(p, IF provider[p] = 0 THEN "registry" ELSE "retire")
            /\ UNCHANGED queue
    /\ UNCHANGED <<world, diskVars, up, session, runtime, refreshing, batch, task, requested,
                   wakeVars, ghostVars>>

(* In the transaction both files are read again before anything is retired. *)
LoopTxn(p) ==
    /\ loop[p] = "queued" /\ MayRun(p, Cleanup)
    /\ IF auth.state = "garbled" THEN ScheduleRetry(p) ELSE UNCHANGED <<retry, retries>>
    /\ IF ~LogoutSeen \/ entry = 0
       THEN Leave(p) /\ Goto(p, "test") /\ UNCHANGED <<victim, provider, open>>
       ELSE /\ victim' = [victim EXCEPT ![p] = entry]
            /\ provider' = [provider EXCEPT ![p] = 0]
            /\ open' = [open EXCEPT ![p] = @ \ {provider[p]}]
            /\ Goto(p, IF provider[p] = 0 THEN "registry" ELSE "retire")
            /\ UNCHANGED queue
    /\ UNCHANGED <<world, diskVars, up, session, runtime, refreshing, batch, task, requested,
                   wakeVars, ghostVars>>

(* shutdown() has returned; a failure keeps registry and overrides for /reload. *)
LoopRetired(p) ==
    /\ loop[p] = "retire"
    /\ \/ runtime' = [runtime EXCEPT ![p] = 0] /\ Goto(p, "registry") /\ UNCHANGED queue /\ Works
       \/ /\ Fails /\ Leave(p) /\ Goto(p, "test")
          /\ runtime' \in {runtime, [runtime EXCEPT ![p] = 0]}
    /\ UNCHANGED <<world, diskVars, up, session, provider, open, refreshing, batch, task, requested,
                   victim, retry, retries, wakeVars, made, loggedOut, late, early>>

LoopRegistry(p) ==
    /\ loop[p] = "registry"
    /\ \/ entry' = 0 /\ Works
       \/ Fails /\ UNCHANGED entry
    /\ Goto(p, "overrides")
    /\ UNCHANGED <<world, auth, overrides, procVars, queue, task, requested, victim, retry, retries,
                   wakeVars, made, loggedOut, late, early>>

LoopOverrides(p) ==
    /\ loop[p] = "overrides"
    /\ \/ overrides' = {} /\ Works
       \/ Fails /\ UNCHANGED overrides
    /\ Leave(p) /\ Goto(p, "test")
    /\ UNCHANGED <<world, entry, auth, procVars, task, requested, victim, retry, retries, wakeVars,
                   made, loggedOut, late, early>>

(* What wakes the cleanup: its retry timer, the watcher, the minute's poll. *)
RetryFires(p) ==
    /\ retry[p]
    /\ retry' = [retry EXCEPT ![p] = FALSE]
    /\ Request(p)
    /\ UNCHANGED <<world, diskVars, procVars, queue, task, victim, retries, wakeVars, ghostVars>>

WatchEvent(p) ==
    /\ event[p]
    /\ event' = [event EXCEPT ![p] = FALSE]
    /\ IF watcher[p] = "on" /\ ~Stopped(p)
       THEN seen' = [seen EXCEPT ![p] = Fingerprint] /\ Request(p)
       ELSE UNCHANGED <<seen, requested, loop>>
    /\ UNCHANGED <<world, diskVars, procVars, queue, task, victim, retry, retries, watcher, poll,
                   ghostVars>>

PollFires(p) ==
    /\ poll[p] /\ seen[p] # Fingerprint
    /\ seen' = [seen EXCEPT ![p] = Fingerprint]
    /\ Request(p)
    /\ UNCHANGED <<world, diskVars, procVars, queue, task, victim, retry, retries, watcher,
                   event, poll, ghostVars>>

WatcherDies(p) ==
    /\ "off" \in Watchers /\ watcher[p] = "on"
    /\ watcher' = [watcher EXCEPT ![p] = "off"]
    /\ UNCHANGED <<world, diskVars, procVars, queue, task, cleanupVars, event, poll, seen,
                   ghostVars>>

-----------------------------------------------------------------------------
(* Sessions of a process *)

(* The extension is loaded; readAuthMap refuses a file it cannot parse. *)
Load(p) ==
    LET found == IF LoggedIn THEN entry ELSE 0 IN
    /\ ~up[p] /\ auth.state # "garbled"
    /\ up' = [up EXCEPT ![p] = TRUE]
    /\ session' = [session EXCEPT ![p] = "new"]
    /\ provider' = [provider EXCEPT ![p] = found]
    /\ runtime' = [runtime EXCEPT ![p] = found]
    /\ UNCHANGED <<world, diskVars, open, refreshing, batch, queue, task, cleanupVars, wakeVars,
                   ghostVars>>

(* session_start: the watcher may fail to start, or start and hear nothing. *)
SessionStart(p) ==
    /\ up[p] /\ session[p] \in {"new", "stopped"}
    /\ session' = [session EXCEPT ![p] = "running"]
    /\ \E w \in Watchers : watcher' = [watcher EXCEPT ![p] = w]
    /\ poll' = [poll EXCEPT ![p] = TRUE]
    /\ seen' = [seen EXCEPT ![p] = Fingerprint]
    /\ requested' = [requested EXCEPT ![p] = TRUE]
    /\ loop' = [loop EXCEPT ![p] = IF @ = "none" THEN "test" ELSE @]
    /\ open' = [open EXCEPT ![p] = @ \cup ({provider[p]} \ {0})]
    /\ refreshing' = [refreshing EXCEPT ![p] = @ \cup ({provider[p]} \ {0})]
    /\ UNCHANGED <<world, diskVars, up, provider, runtime, batch, queue, task, victim, retry,
                   retries, event, ghostVars>>

(* session_shutdown: an event of the closed watcher no longer counts. *)
ShutdownBegin(p) ==
    /\ "ends" \in world /\ session[p] = "running"
    /\ session' = [session EXCEPT ![p] = "stopping"]
    /\ watcher' = [watcher EXCEPT ![p] = "off"]
    /\ event' = [event EXCEPT ![p] = FALSE]
    /\ poll' = [poll EXCEPT ![p] = FALSE]
    /\ retry' = [retry EXCEPT ![p] = FALSE]
    /\ open' = [open EXCEPT ![p] = @ \ {provider[p]}]
    /\ UNCHANGED <<world, diskVars, up, provider, runtime, refreshing, batch, queue, task, loop,
                   requested, victim, retries, seen, ghostVars>>

(* It waits for the cleanup that was running. *)
ShutdownEnd(p) ==
    /\ session[p] = "stopping" /\ loop[p] = "none"
    /\ session' = [session EXCEPT ![p] = "stopped"]
    /\ UNCHANGED <<world, diskVars, up, provider, runtime, open, refreshing, batch, queue, task,
                   cleanupVars, wakeVars, ghostVars>>

(* The process ends, orderly or not; what it was doing is left as it is. *)
Exit(p) ==
    /\ up[p]
    /\ "exits" \in world \/ (session[p] = "stopped" /\ queue[p] = <<>>)
    /\ up' = [up EXCEPT ![p] = FALSE]
    /\ session' = [session EXCEPT ![p] = "new"]
    /\ provider' = [provider EXCEPT ![p] = 0]
    /\ runtime' = [runtime EXCEPT ![p] = 0]
    /\ open' = [open EXCEPT ![p] = {}]
    /\ refreshing' = [refreshing EXCEPT ![p] = {}]
    /\ batch' = [batch EXCEPT ![p] = 0]
    /\ queue' = [queue EXCEPT ![p] = <<>>]
    /\ task' = [t \in Tasks |-> IF task[t].proc = p THEN NoTask ELSE task[t]]
    /\ loop' = [loop EXCEPT ![p] = "none"]
    /\ requested' = [requested EXCEPT ![p] = FALSE]
    /\ retry' = [retry EXCEPT ![p] = FALSE]
    /\ retries' = [retries EXCEPT ![p] = 0]
    /\ watcher' = [watcher EXCEPT ![p] = "off"]
    /\ event' = [event EXCEPT ![p] = FALSE]
    /\ poll' = [poll EXCEPT ![p] = FALSE]
    /\ partial' = (partial \/ queue[p] # <<>>)
    /\ UNCHANGED <<world, diskVars, victim, seen, made, loggedOut, late, early>>

(* Mutant: a refresh registers its provider whatever the map says. *)
RegisterCurrent_Always(p, n) ==
    /\ n \in refreshing[p]
    /\ refreshing' = [refreshing EXCEPT ![p] = @ \ {n}]
    /\ runtime' = [runtime EXCEPT ![p] = n]
    /\ UNCHANGED <<world, diskVars, up, session, provider, open, batch, queue, task, cleanupVars,
                   wakeVars, ghostVars>>

(* A refresh of provider n ends: only the provider in the map is registered again. *)
RegisterCurrent(p, n) ==
    /\ n \in refreshing[p]
    /\ refreshing' = [refreshing EXCEPT ![p] = @ \ {n}]
    /\ runtime' = [runtime EXCEPT ![p] = IF provider[p] = n THEN n ELSE @]
    /\ UNCHANGED <<world, diskVars, up, session, provider, open, batch, queue, task, cleanupVars,
                   wakeVars, ghostVars>>

-----------------------------------------------------------------------------
(* What others do *)

OthersLeave ==
    UNCHANGED <<world, entry, overrides, procVars, queue, task, cleanupVars, watcher, poll, seen,
                made, late, early, partial>>

(* pi's /logout of the id, in any process. *)
Logout ==
    /\ LoggedIn /\ auth.stamp < MaxStamp
    /\ AuthBecomes("ok", 0) /\ CredDeleted
    /\ OthersLeave

(* pi stores a new credential after /login of an id it shows. *)
Relogin(p) ==
    /\ "relogin" \in world
    /\ runtime[p] # 0 /\ auth.state = "ok" /\ auth.stamp < MaxStamp
    /\ AuthBecomes("ok", runtime[p])
    /\ loggedOut' = loggedOut \ {runtime[p]}
    /\ OthersLeave

(* A sync tool moves auth.json away, or is half-way through writing it; it comes back. *)
Disturb ==
    /\ "gaps" \in world /\ auth.stamp < MaxStamp
    /\ \E state \in {"missing", "garbled", "ok"} \ {auth.state} : AuthBecomes(state, auth.cred)
    /\ UNCHANGED loggedOut /\ OthersLeave

(* withLock of another id's transaction creates a missing file before it reads it. *)
OtherIdCreates ==
    /\ "others" \in world
    /\ auth.state = "missing" /\ auth.stamp < MaxStamp
    /\ AuthBecomes("ok", 0)
    /\ UNCHANGED loggedOut /\ OthersLeave

(* /endpoint-setting captures its targets, and writes once its dialogs are answered. *)
BatchOpen(p) ==
    /\ "batches" \in world
    /\ batch[p] = 0 /\ provider[p] # 0
    /\ batch' = [batch EXCEPT ![p] = provider[p]]
    /\ UNCHANGED <<world, diskVars, up, session, provider, runtime, open, refreshing, queue, task,
                   cleanupVars, wakeVars, ghostVars>>

BatchWrite(p) ==
    /\ batch[p] # 0
    /\ overrides' = overrides \cup {batch[p]}
    /\ late' = IF batch[p] = entry THEN late ELSE late \cup {batch[p]}
    /\ refreshing' = [refreshing EXCEPT ![p] = @ \cup ({provider[p]} \ {0})]
    /\ batch' = [batch EXCEPT ![p] = 0]
    /\ UNCHANGED <<world, entry, auth, up, session, provider, runtime, open, queue, task,
                   cleanupVars, wakeVars, made, loggedOut, early, partial>>

BatchCancel(p) ==
    /\ batch[p] # 0
    /\ batch' = [batch EXCEPT ![p] = 0]
    /\ UNCHANGED <<world, diskVars, up, session, provider, runtime, open, refreshing, queue, task,
                   cleanupVars, wakeVars, ghostVars>>

-----------------------------------------------------------------------------
TaskStep(t) ==
    \/ LoginCheck(t) \/ LoginAssert(t) \/ LoginCredential(t) \/ LoginEntry(t) \/ LoginUndo(t)
    \/ LoginRegister(t) \/ LoginAbandon(t)
    \/ RemoveCheck(t) \/ RemoveUnregister(t) \/ RemoveRegistry(t) \/ RemoveAuth(t)
    \/ RemoveOverrides(t)

LoopStep(p) ==
    \/ LoopTest(p) \/ LoopEnd(p) \/ LoopFinally(p) \/ LoopTxn(p) \/ LoopRetired(p)
    \/ LoopRegistry(p) \/ LoopOverrides(p)

Others == Logout \/ Disturb \/ OtherIdCreates \/ \E p \in Procs : Relogin(p)

Next ==
    \/ \E t \in Tasks : TaskStep(t) \/ \E p \in Procs : LoginBegin(t, p) \/ RemoveBegin(t, p)
    \/ \E p \in Procs :
          \/ LoopStep(p)
          \/ RetryFires(p) \/ WatchEvent(p) \/ PollFires(p) \/ WatcherDies(p)
          \/ Load(p) \/ SessionStart(p) \/ ShutdownBegin(p) \/ ShutdownEnd(p) \/ Exit(p)
          \/ \E n \in Incs : RegisterCurrent(p, n)
          \/ BatchOpen(p) \/ BatchWrite(p) \/ BatchCancel(p)
    \/ Others

(* Promise jobs run, timers fire; a watcher's events may never come. *)
Fairness ==
    /\ \A t \in Tasks : WF_vars(TaskStep(t))
    /\ \A p \in Procs :
          /\ WF_vars(LoopStep(p)) /\ WF_vars(RetryFires(p)) /\ WF_vars(PollFires(p))
          /\ WF_vars(ShutdownEnd(p))

Spec == Init /\ [][Next]_vars /\ Fairness

-----------------------------------------------------------------------------
(* Properties *)

(* What pi lists is the provider of the map, or one that is just being retired:
   a refresh that ends after a removal does not bring the provider back. *)
RegisteredIsCurrent ==
    \A p \in Procs :
        runtime[p] \notin {0, provider[p]} =>
            \/ loop[p] = "retire"
            \/ \E t \in Tasks : Running(t, "shutdown") /\ task[t].proc = p
            \/ partial

(* No provider keeps working once it left the map: it was shut down before another
   took its place. *)
EveryProviderRetired == \A p \in Procs : open[p] \subseteq {provider[p]}

AtRest == ~partial /\ auth.state = "ok" /\ \A p \in Procs : queue[p] = <<>>

(* Between transactions the registry, the credential, the endpoint overrides and the
   provider speak of the same incarnation of the id, and nothing of a removed one stays:
   apart from overrides that were written after the removal, and from a credential pi
   stored again while the cleanup was at work. *)
PlacesAgree ==
    AtRest /\ "relogin" \notin world =>
        /\ auth.cred \in {0, entry}
        /\ overrides \subseteq {entry} \cup late
        /\ \A p \in Procs : {provider[p], runtime[p]} \subseteq {0, entry}

(* The cleanup decides only about an incarnation that is logged out, whatever it knew
   before it waited for its turn, and removes the one it decided about. *)
CleanupOnlyAfterLogout ==
    [][\A p \in Procs :
           /\ loop[p] = "queued" /\ loop'[p] \in {"retire", "registry"} => entry \in loggedOut
           /\ loop[p] = "registry" /\ entry' # entry => entry = victim[p]]_vars

(* Once session_shutdown has returned, no cleanup runs and nothing can start one. *)
StoppedIsQuiet ==
    \A p \in Procs : session[p] = "stopped" =>
        loop[p] = "none" /\ ~retry[p] /\ ~poll[p] /\ watcher[p] = "off"

(* What left the map or the session stays gone: RegisteredIsCurrent,
   EveryProviderRetired and StoppedIsQuiet. *)
GoneStaysGone == RegisteredIsCurrent /\ EveryProviderRetired /\ StoppedIsQuiet

(* A login takes the id only while nobody has it: of the logins of several processes
   one gets the credential and one the entry, and none overwrites another. *)
OneLoginWins ==
    [][/\ {entry, entry'} \cap {0} # {} \/ entry' = entry
       /\ {auth.cred, auth'.cred} \cap {0} # {} \/ auth'.cred = auth.cred]_vars

(* An instance that stays logged out while a session runs is cleaned up, watcher or not,
   unless its credential was deleted before the login that wrote it added the entry. *)
LogoutIsCleaned ==
    \A p \in Procs :
        []<>(\/ entry = 0 \/ auth.cred # 0 \/ auth.state # "ok" \/ session[p] # "running"
             \/ entry \in early)

(* session_shutdown, which waits for the cleanup and with it for the id's other
   transactions, returns. *)
ShutdownReturns == \A p \in Procs : session[p] = "stopping" ~> session[p] # "stopping"

(* Endpoint overrides of a removed instance are gone for whoever takes its id. *)
OldEndpointsStayGone == entry # 0 => overrides \subseteq {entry}

(* README: the minute's reconciliation finishes the cleanup of a logged out instance. *)
EveryLogoutIsCleaned ==
    \A p \in Procs :
        []<>(entry = 0 \/ auth.cred # 0 \/ auth.state # "ok" \/ session[p] # "running")

(* README: after a logout the extension stops the provider of the instance. *)
LoggedOutProviderStops ==
    \A p \in Procs : []<>(provider[p] = 0 \/ entry # 0 \/ session[p] # "running")
=============================================================================
