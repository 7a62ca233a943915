------------------------ MODULE CompatLifecycleProofs ------------------------
(***************************************************************************)
(* Proofs about CompatLifecycle.  The types, the stopped sessions and the  *)
(* race of the logins are proved for every number of processes; that what  *)
(* was removed stays gone, that the places agree, and when the cleanup may *)
(* act, for one process with any number of transactions in flight, which   *)
(* is where the code keeps them in order (a queue per process and id).     *)
(***************************************************************************)
EXTENDS CompatLifecycle, SequenceTheorems, TLAPS

(* TypeOK does not say that a queue is a sequence, nor that a transaction in flight is
   one of some process. *)
Waiters == Tasks \cup {Cleanup}
InFlight(r) == r.kind # "none" /\ r.proc \in Procs /\ r.pc # "free"
TypeInv ==
    /\ TypeOK
    /\ queue \in [Procs -> Seq(Waiters)]
    /\ \A t \in Tasks : task[t] = NoTask \/ InFlight(task[t])

-----------------------------------------------------------------------------
(* Types *)

(* What each kind of step leaves alone. *)
LEMMA TaskFrame ==
    ASSUME NEW t \in Tasks, TaskStep(t) \/ \E p \in Procs : LoginBegin(t, p) \/ RemoveBegin(t, p)
    PROVE  UNCHANGED <<world, up, session, refreshing, batch, cleanupVars, watcher, poll, seen, late>>
BY DEF TaskStep, LoginBegin, RemoveBegin, LoginCheck, LoginAssert, LoginCredential, LoginEntry,
       LoginUndo, LoginRegister, LoginAbandon, RemoveCheck, RemoveUnregister, RemoveRegistry,
       RemoveAuth, RemoveOverrides, procVars, wakeVars, ghostVars

LEMMA LoopFrame ==
    ASSUME NEW p \in Procs, LoopStep(p)
    PROVE  UNCHANGED <<world, auth, up, session, refreshing, batch, task, wakeVars, made, loggedOut,
                       late, early>>
BY DEF LoopStep, LoopTest, LoopEnd, LoopFinally, LoopTxn, LoopRetired, LoopRegistry, LoopOverrides,
       diskVars, procVars, ghostVars

WakeStep(p) == RetryFires(p) \/ WatchEvent(p) \/ PollFires(p) \/ WatcherDies(p)
LEMMA WakeFrame ==
    ASSUME NEW p \in Procs, WakeStep(p)
    PROVE  UNCHANGED <<world, diskVars, procVars, queue, task, victim, retries, ghostVars>>
BY DEF WakeStep, RetryFires, WatchEvent, PollFires, WatcherDies, cleanupVars

SessionStep(p) ==
    \/ Load(p) \/ SessionStart(p) \/ ShutdownBegin(p) \/ ShutdownEnd(p) \/ Exit(p)
    \/ \E n \in Incs : RegisterCurrent(p, n)
    \/ BatchOpen(p) \/ BatchWrite(p) \/ BatchCancel(p)
LEMMA SessionFrame ==
    ASSUME NEW p \in Procs, SessionStep(p)
    PROVE  UNCHANGED <<world, entry, auth, victim, made, loggedOut, early>>
BY DEF SessionStep, Load, SessionStart, ShutdownBegin, ShutdownEnd, Exit, RegisterCurrent,
       BatchOpen, BatchWrite, BatchCancel, diskVars, ghostVars, cleanupVars

LEMMA OthersFrame ==
    ASSUME Others
    PROVE  UNCHANGED <<world, entry, overrides, procVars, queue, task, cleanupVars, watcher, poll,
                       seen, made, late, early, partial>>
BY DEF Others, Logout, Disturb, OtherIdCreates, Relogin, OthersLeave

(* A step is one of these, or changes nothing. *)
LEMMA Steps ==
    [Next]_vars <=>
        \/ \E t \in Tasks : TaskStep(t) \/ \E p \in Procs : LoginBegin(t, p) \/ RemoveBegin(t, p)
        \/ \E p \in Procs : LoopStep(p) \/ WakeStep(p) \/ SessionStep(p)
        \/ Others
        \/ UNCHANGED vars
BY DEF Next, WakeStep, SessionStep

Stamps == [state : {"ok", "missing", "garbled"}, cred : Incs, stamp : Nat]

LEMMA TypeInvInit == Init => TypeInv
<1> SUFFICES ASSUME Init PROVE TypeInv
  OBVIOUS
<1>1. made \in Incs /\ 0 \in Incs /\ {made} \ {0} \subseteq Incs
  BY LifecycleBounds DEF Init, Incs
<1>2. auth \in Stamps
  BY <1>1 DEF Init, Stamps
<1>3. task \in [Tasks -> TaskRecords]
  <2>1. NoTask \in TaskRecords
    BY <1>1 DEF NoTask, TaskRecords
  <2>2. QED
    BY <2>1 DEF Init
<1>4. /\ queue \in [Procs -> Seq(Waiters)] /\ \A p \in Procs : DOMAIN queue[p] = {}
      /\ \A t \in Tasks : task[t] = NoTask
  BY DEF Init
<1>5. overrides \subseteq Incs /\ entry \in Incs /\ world \in Worlds
  BY <1>1 DEF Init
<1>6. /\ up \in [Procs -> BOOLEAN] /\ session \in [Procs -> {"new", "running", "stopping", "stopped"}]
      /\ provider \in [Procs -> Incs] /\ runtime \in [Procs -> Incs] /\ batch \in [Procs -> Incs]
      /\ open \in [Procs -> SUBSET Incs] /\ refreshing \in [Procs -> SUBSET Incs]
  BY <1>1 DEF Init
<1>7. /\ loop \in [Procs -> {"none", "test", "queued", "retire", "registry", "overrides", "end"}]
      /\ requested \in [Procs -> BOOLEAN] /\ victim \in [Procs -> Incs]
      /\ retry \in [Procs -> BOOLEAN] /\ retries \in [Procs -> 0 .. MaxRetries]
  <2>1. 0 \in 0 .. MaxRetries
    BY LifecycleBounds
  <2>2. QED
    BY <1>1, <2>1 DEF Init
<1>8. /\ watcher \in [Procs -> {"off", "on", "deaf"}] /\ event \in [Procs -> BOOLEAN]
      /\ poll \in [Procs -> BOOLEAN] /\ seen \in [Procs -> Nat]
  BY DEF Init
<1>9. loggedOut = {} /\ late = {} /\ early = {} /\ partial = FALSE
  BY DEF Init
<1>10. QED
  BY <1>1, <1>2, <1>3, <1>4, <1>5, <1>6, <1>7, <1>8, <1>9 DEF TypeInv, TypeOK, Stamps

(* A new version of auth.json. *)
LEMMA AuthTypes ==
    ASSUME TypeInv, NEW s \in {"ok", "missing", "garbled"}, NEW c \in Incs, AuthBecomes(s, c)
    PROVE  auth' \in Stamps /\ event' \in [Procs -> BOOLEAN]
BY DEF AuthBecomes, Stamps, TypeInv, TypeOK

(* The queue of a transaction that is entered or left. *)
LEMMA QueueTypes ==
    ASSUME TypeInv, NEW p \in Procs
    PROVE  /\ \A who \in Waiters : Enter(p, who) => queue' \in [Procs -> Seq(Waiters)]
           /\ queue[p] # <<>> /\ Leave(p) => queue' \in [Procs -> Seq(Waiters)]
<1>1. queue \in [Procs -> Seq(Waiters)] /\ queue[p] \in Seq(Waiters)
  BY DEF TypeInv
<1>2. ASSUME NEW who \in Waiters, Enter(p, who) PROVE queue' \in [Procs -> Seq(Waiters)]
  <2>1. Append(queue[p], who) \in Seq(Waiters)
    BY <1>1
  <2>2. QED
    BY <1>1, <1>2, <2>1 DEF Enter
<1>3. ASSUME queue[p] # <<>>, Leave(p) PROVE queue' \in [Procs -> Seq(Waiters)]
  <2>1. Tail(queue[p]) \in Seq(Waiters)
    BY <1>1, <1>3
  <2>2. QED
    BY <1>1, <1>3, <2>1 DEF Leave
<1>4. QED
  BY <1>2, <1>3

Places == {"queued", "assert", "credential", "entry", "undo", "register", "abandon",
           "shutdown", "registry", "auth", "overrides"}

(* The records of the transactions, when one moves on or ends. *)
LEMMA TaskTypes ==
    ASSUME TypeInv, NEW t \in Tasks
    PROVE  /\ \A r \in TaskRecords : (r = NoTask \/ InFlight(r)) /\ task' = [task EXCEPT ![t] = r] =>
                /\ task' \in [Tasks -> TaskRecords]
                /\ \A u \in Tasks : task'[u] = NoTask \/ InFlight(task'[u])
           /\ NoTask \in TaskRecords
           /\ task[t].pc # "free" => \A i \in Incs, pc \in Places :
                /\ [task[t] EXCEPT !.pc = pc] \in TaskRecords
                /\ InFlight([task[t] EXCEPT !.pc = pc])
                /\ [task[t] EXCEPT !.inc = i, !.pc = pc] \in TaskRecords
                /\ InFlight([task[t] EXCEPT !.inc = i, !.pc = pc])
<1>1. task \in [Tasks -> TaskRecords] /\ task[t] \in TaskRecords
      /\ \A u \in Tasks : task[u] = NoTask \/ InFlight(task[u])
  BY DEF TypeInv, TypeOK
<1>2. NoTask \in TaskRecords /\ NoTask.pc = "free"
  BY LifecycleBounds DEF NoTask, TaskRecords, Incs
<1>3. ASSUME NEW r \in TaskRecords, r = NoTask \/ InFlight(r), task' = [task EXCEPT ![t] = r]
      PROVE  /\ task' \in [Tasks -> TaskRecords]
             /\ \A u \in Tasks : task'[u] = NoTask \/ InFlight(task'[u])
  <2>1. task' \in [Tasks -> TaskRecords] /\ \A u \in Tasks : task'[u] = IF u = t THEN r ELSE task[u]
    BY <1>1, <1>3
  <2>2. QED
    BY <1>1, <1>3, <2>1
<1>4. ASSUME task[t].pc # "free", NEW i \in Incs, NEW pc \in Places
      PROVE  /\ [task[t] EXCEPT !.pc = pc] \in TaskRecords
             /\ InFlight([task[t] EXCEPT !.pc = pc])
             /\ [task[t] EXCEPT !.inc = i, !.pc = pc] \in TaskRecords
             /\ InFlight([task[t] EXCEPT !.inc = i, !.pc = pc])
  <2>1. InFlight(task[t])
    BY <1>1, <1>2, <1>4
  <2>2. QED
    BY <1>1, <1>4, <2>1 DEF TaskRecords, InFlight, Places
<1>5. QED
  BY <1>2, <1>3, <1>4

TaskBegin(t) == \E p \in Procs : LoginBegin(t, p) \/ RemoveBegin(t, p)

(* What the running transaction t can do to its record and its queue. *)
LEMMA TaskMoves ==
    ASSUME TypeInv, NEW t \in Tasks, TaskStep(t)
    PROVE  /\ InFlight(task[t]) /\ MayRun(task[t].proc, t)
           /\ \/ EndTask(t)
              \/ /\ UNCHANGED queue
                 /\ \E i \in Incs, pc \in Places \ {"queued"} :
                       task' = [task EXCEPT ![t] = [task[t] EXCEPT !.inc = i, !.pc = pc]]
<1>1. task \in [Tasks -> TaskRecords] /\ task[t] \in TaskRecords
  BY DEF TypeInv, TypeOK
<1>2. task[t].pc # "free" /\ MayRun(task[t].proc, t)
  BY DEF TaskStep, LoginCheck, LoginAssert, LoginCredential, LoginEntry, LoginUndo,
     LoginRegister, LoginAbandon, RemoveCheck, RemoveUnregister, RemoveRegistry, RemoveAuth,
     RemoveOverrides, Running
<1>3. InFlight(task[t])
  BY <1>2 DEF TypeInv, NoTask
<1>4. ASSUME NEW pc \in Places \ {"queued"}, Move(t, pc)
      PROVE  \E i \in Incs : task' = [task EXCEPT ![t] = [task[t] EXCEPT !.inc = i, !.pc = pc]]
  <2>1. [task[t] EXCEPT !.pc = pc] = [task[t] EXCEPT !.inc = task[t].inc, !.pc = pc]
    BY <1>1 DEF TaskRecords
  <2>2. task' = [task EXCEPT ![t] = [task[t] EXCEPT !.pc = pc]]
    BY <1>4 DEF Move
  <2>3. task[t].inc \in Incs
    BY <1>1 DEF TaskRecords
  <2>4. QED
    BY <2>1, <2>2, <2>3
<1>5. ASSUME RemoveCheck(t), entry # 0
      PROVE  /\ UNCHANGED queue
             /\ \E i \in Incs, pc \in Places \ {"queued"} :
                   task' = [task EXCEPT ![t] = [task[t] EXCEPT !.inc = i, !.pc = pc]]
  <2>1. provider[task[t].proc] \in Incs
    BY <1>3 DEF InFlight, TypeInv, TypeOK
  <2>2. task' = [task EXCEPT ![t] = [task[t] EXCEPT !.inc = provider[task[t].proc],
                                                    !.pc = "shutdown"]]
        /\ UNCHANGED queue
    BY <1>1, <1>5 DEF RemoveCheck
  <2>3. QED
    BY <1>2, <1>3, <2>1, <2>2 DEF Places
<1>6. \/ EndTask(t)
      \/ UNCHANGED queue /\ \E pc \in Places \ {"queued"} : Move(t, pc)
      \/ RemoveCheck(t) /\ entry # 0
  BY DEF TaskStep, LoginCheck, LoginAssert, LoginCredential, LoginEntry, LoginUndo,
     LoginRegister, LoginAbandon, RemoveCheck, RemoveUnregister, RemoveRegistry, RemoveAuth,
     RemoveOverrides, Places
<1>7. \/ EndTask(t)
      \/ /\ UNCHANGED queue
         /\ \E i \in Incs, pc \in Places \ {"queued"} :
               task' = [task EXCEPT ![t] = [task[t] EXCEPT !.inc = i, !.pc = pc]]
  <2>1. CASE UNCHANGED queue /\ \E pc \in Places \ {"queued"} : Move(t, pc)
    <3>1. PICK pc \in Places \ {"queued"} : Move(t, pc)
      BY <2>1
    <3>2. PICK i \in Incs : task' = [task EXCEPT ![t] = [task[t] EXCEPT !.inc = i, !.pc = pc]]
      BY <1>4, <3>1
    <3>3. QED
      BY <2>1, <3>2
  <2>2. QED
    BY <1>5, <1>6, <2>1
<1>8. QED
  BY <1>2, <1>3, <1>7

LEMMA TypeInvTask ==
    ASSUME TypeInv, NEW t \in Tasks, TaskStep(t) \/ TaskBegin(t)
    PROVE  TypeInv'
<1>1. UNCHANGED <<world, up, session, refreshing, batch, loop, requested, victim, retry, retries,
                  watcher, poll, seen, late>>
  BY TaskFrame DEF cleanupVars, TaskBegin
<1>2. task[t] \in TaskRecords /\ task[t].inc \in Incs /\ 0 \in Incs
      /\ auth.cred \in Incs
  BY LifecycleBounds DEF TypeInv, TypeOK, TaskRecords, Incs
<1>3. /\ task' \in [Tasks -> TaskRecords] /\ \A u \in Tasks : task'[u] = NoTask \/ InFlight(task'[u])
      /\ queue' \in [Procs -> Seq(Waiters)]
  <2>1. ASSUME NEW p \in Procs, LoginBegin(t, p) \/ RemoveBegin(t, p)
        PROVE  /\ task' \in [Tasks -> TaskRecords]
               /\ \A u \in Tasks : task'[u] = NoTask \/ InFlight(task'[u])
               /\ queue' \in [Procs -> Seq(Waiters)]
    <3>1. queue' \in [Procs -> Seq(Waiters)]
      BY <2>1, QueueTypes DEF LoginBegin, RemoveBegin, Waiters
    <3>2. LoginBegin(t, p) => made + 1 \in Incs
      BY LifecycleBounds DEF LoginBegin, TypeInv, TypeOK, Incs
    <3>3. PICK r \in TaskRecords : InFlight(r) /\ task' = [task EXCEPT ![t] = r]
      BY <1>2, <2>1, <3>2 DEF LoginBegin, RemoveBegin, TaskRecords, InFlight
    <3>4. QED
      BY <3>1, <3>3, TaskTypes
  <2>2. CASE TaskStep(t)
    <3>1. InFlight(task[t]) /\ MayRun(task[t].proc, t)
      BY <2>2, TaskMoves
    <3>2. CASE EndTask(t)
      <4>1. task' = [task EXCEPT ![t] = NoTask] /\ queue[task[t].proc] # <<>> /\ Leave(task[t].proc)
        BY <3>1, <3>2 DEF EndTask, MayRun
      <4>2. queue' \in [Procs -> Seq(Waiters)]
        BY <3>1, <4>1, QueueTypes DEF InFlight
      <4>3. QED
        BY <4>1, <4>2, TaskTypes
    <3>3. ASSUME UNCHANGED queue, NEW i \in Incs, NEW pc \in Places \ {"queued"},
                 task' = [task EXCEPT ![t] = [task[t] EXCEPT !.inc = i, !.pc = pc]]
          PROVE  /\ task' \in [Tasks -> TaskRecords]
                 /\ \A u \in Tasks : task'[u] = NoTask \/ InFlight(task'[u])
                 /\ queue' \in [Procs -> Seq(Waiters)]
      <4>1. [task[t] EXCEPT !.inc = i, !.pc = pc] \in TaskRecords
            /\ InFlight([task[t] EXCEPT !.inc = i, !.pc = pc])
        BY <3>1, TaskTypes DEF InFlight
      <4>2. QED
        BY <3>3, <4>1, TaskTypes DEF TypeInv
    <3>4. QED
      BY <2>2, <3>2, <3>3, TaskMoves
  <2>3. QED
    BY <2>1, <2>2 DEF TaskBegin
<1>4. auth' \in Stamps /\ event' \in [Procs -> BOOLEAN]
  <2>1. \/ UNCHANGED <<auth, event>>
        \/ \E c \in {0, task[t].inc} : AuthBecomes("ok", c)
    BY DEF TaskStep, TaskBegin, LoginBegin, RemoveBegin, LoginCheck, LoginAssert, LoginCredential,
       LoginEntry, LoginUndo, LoginRegister, LoginAbandon, RemoveCheck, RemoveUnregister,
       RemoveRegistry, RemoveAuth, RemoveOverrides, diskVars, wakeVars
  <2>2. QED
    BY <1>2, <2>1, AuthTypes DEF TypeInv, TypeOK, Stamps
<1>5. /\ entry' \in {entry, 0, task[t].inc} /\ overrides' \in {overrides, {}}
      /\ made' = made \/ (made < MaxIncs /\ made' = made + 1)
      /\ loggedOut' \in {loggedOut, loggedOut \cup ({auth.cred} \ {0})}
      /\ early' \in {early, early \cup {task[t].inc}} /\ partial' \in {partial, TRUE}
  BY DEF TaskStep, TaskBegin, LoginBegin, RemoveBegin, LoginCheck, LoginAssert, LoginCredential,
     LoginEntry, LoginUndo, LoginRegister, LoginAbandon, RemoveCheck, RemoveUnregister,
     RemoveRegistry, RemoveAuth, RemoveOverrides, diskVars, ghostVars, Works, Refuses, Fails,
     CredDeleted
<1>6. entry' \in Incs /\ overrides' \subseteq Incs /\ made' \in Incs /\ loggedOut' \subseteq Incs
      /\ early' \subseteq Incs /\ partial' \in BOOLEAN
  <2>1. made' \in Incs
    BY <1>5, LifecycleBounds DEF TypeInv, TypeOK, Incs
  <2>2. QED
    BY <1>2, <1>5, <2>1 DEF TypeInv, TypeOK
<1>7. provider' \in [Procs -> Incs] /\ runtime' \in [Procs -> Incs] /\ open' \in [Procs -> SUBSET Incs]
  <2>1. \E p \in {task[t].proc}, n \in {0, task[t].inc} :
            /\ provider' \in {provider, [provider EXCEPT ![p] = n]}
            /\ runtime' \in {runtime, [runtime EXCEPT ![p] = n]}
            /\ open' \in {open, [open EXCEPT ![p] = @ \cup {n}], [open EXCEPT ![p] = @ \ {provider[p]}]}
    BY DEF TaskStep, TaskBegin, LoginBegin, RemoveBegin, LoginCheck, LoginAssert, LoginCredential,
       LoginEntry, LoginUndo, LoginRegister, LoginAbandon, RemoveCheck, RemoveUnregister,
       RemoveRegistry, RemoveAuth, RemoveOverrides, procVars
  <2>2. /\ provider \in [Procs -> Incs] /\ runtime \in [Procs -> Incs]
        /\ open \in [Procs -> SUBSET Incs]
    BY DEF TypeInv, TypeOK
  <2>3. provider' \in [Procs -> Incs] /\ runtime' \in [Procs -> Incs]
    BY <1>2, <2>1, <2>2
  <2>4. open' \in [Procs -> SUBSET Incs]
    BY <1>2, <2>1, <2>2
  <2>5. QED
    BY <2>3, <2>4
<1>8. \A p \in Procs : \A i \in DOMAIN queue'[p] : queue'[p][i] \in Waiters
  BY <1>3
<1>9. QED
  BY <1>1, <1>3, <1>4, <1>6, <1>7, <1>8 DEF TypeInv, TypeOK, Stamps, Waiters

LoopPlaces == {"none", "test", "queued", "retire", "registry", "overrides", "end"}

(* What a request for the cleanup, and a retry of it, can do. *)
LEMMA LoopTypes ==
    ASSUME TypeInv, NEW p \in Procs
    PROVE  /\ \A pc \in LoopPlaces : Goto(p, pc) => loop' \in [Procs -> LoopPlaces]
           /\ Request(p) => loop' \in [Procs -> LoopPlaces] /\ requested' \in [Procs -> BOOLEAN]
           /\ ScheduleRetry(p) => retry' \in [Procs -> BOOLEAN] /\ retries' \in [Procs -> 0 .. MaxRetries]
<1>1. loop \in [Procs -> LoopPlaces] /\ requested \in [Procs -> BOOLEAN]
      /\ retry \in [Procs -> BOOLEAN] /\ retries \in [Procs -> 0 .. MaxRetries]
  BY DEF TypeInv, TypeOK, LoopPlaces
<1>2. Request(p) => loop' \in [Procs -> LoopPlaces] /\ requested' \in [Procs -> BOOLEAN]
  BY <1>1 DEF Request, LoopPlaces
<1>3. ScheduleRetry(p) => retry' \in [Procs -> BOOLEAN] /\ retries' \in [Procs -> 0 .. MaxRetries]
  <2>1. CASE UNCHANGED <<retry, retries>>
    BY <1>1, <2>1
  <2>2. ASSUME retries[p] # MaxRetries, retry' = [retry EXCEPT ![p] = TRUE],
               retries' = [retries EXCEPT ![p] = @ + 1]
        PROVE  retry' \in [Procs -> BOOLEAN] /\ retries' \in [Procs -> 0 .. MaxRetries]
    <3>1. retries[p] + 1 \in 0 .. MaxRetries
      BY <1>1, <2>2, LifecycleBounds
    <3>2. QED
      BY <1>1, <2>2, <3>1
  <2>3. QED
    BY <2>1, <2>2 DEF ScheduleRetry
<1>4. QED
  BY <1>1, <1>2, <1>3 DEF Goto

LEMMA TypeInvLoop ==
    ASSUME TypeInv, NEW p \in Procs, LoopStep(p), queue[p] # <<>> \/ loop[p] \in {"none", "test", "queued", "end"}
    PROVE  TypeInv'
<1>1. UNCHANGED <<world, auth, up, session, refreshing, batch, task, watcher, event, poll, seen,
                  made, loggedOut, late, early>>
  BY LoopFrame DEF wakeVars
<1>2. 0 \in Incs /\ provider[p] \in Incs
  BY LifecycleBounds DEF TypeInv, TypeOK, Incs
<1>3. entry' \in Incs /\ overrides' \subseteq Incs /\ partial' \in BOOLEAN
  BY <1>2 DEF LoopStep, LoopTest, LoopEnd, LoopFinally, LoopTxn, LoopRetired, LoopRegistry,
     LoopOverrides, diskVars, ghostVars, Works, Fails, TypeInv, TypeOK
<1>4. provider' \in [Procs -> Incs] /\ runtime' \in [Procs -> Incs] /\ open' \in [Procs -> SUBSET Incs]
      /\ victim' \in [Procs -> Incs]
  <2>1. /\ provider' \in {provider, [provider EXCEPT ![p] = 0]}
        /\ runtime' \in {runtime, [runtime EXCEPT ![p] = 0]}
        /\ open' \in {open, [open EXCEPT ![p] = @ \ {provider[p]}]}
        /\ victim' \in {victim, [victim EXCEPT ![p] = entry]}
    BY DEF LoopStep, LoopTest, LoopEnd, LoopFinally, LoopTxn, LoopRetired, LoopRegistry,
       LoopOverrides, procVars
  <2>2. /\ provider \in [Procs -> Incs] /\ runtime \in [Procs -> Incs]
        /\ open \in [Procs -> SUBSET Incs] /\ victim \in [Procs -> Incs] /\ entry \in Incs
    BY DEF TypeInv, TypeOK
  <2>3. provider' \in [Procs -> Incs] /\ runtime' \in [Procs -> Incs] /\ victim' \in [Procs -> Incs]
    BY <1>2, <2>1, <2>2
  <2>4. open' \in [Procs -> SUBSET Incs]
    BY <1>2, <2>1, <2>2
  <2>5. QED
    BY <2>3, <2>4
<1>5. loop' \in [Procs -> LoopPlaces] /\ requested' \in [Procs -> BOOLEAN]
  <2>1. UNCHANGED loop \/ \E pc \in LoopPlaces : Goto(p, pc)
    BY DEF LoopStep, LoopTest, LoopEnd, LoopFinally, LoopTxn, LoopRetired, LoopRegistry,
       LoopOverrides, LoopPlaces
  <2>2. requested' \in {requested, [requested EXCEPT ![p] = FALSE]}
    BY DEF LoopStep, LoopTest, LoopEnd, LoopFinally, LoopTxn, LoopRetired, LoopRegistry,
       LoopOverrides
  <2>3. loop \in [Procs -> LoopPlaces] /\ requested \in [Procs -> BOOLEAN]
    BY DEF TypeInv, TypeOK, LoopPlaces
  <2>4. loop' \in [Procs -> LoopPlaces]
    BY <2>1, <2>3, LoopTypes
  <2>5. requested' \in [Procs -> BOOLEAN]
    BY <2>2, <2>3
  <2>6. QED
    BY <2>4, <2>5
<1>6. retry' \in [Procs -> BOOLEAN] /\ retries' \in [Procs -> 0 .. MaxRetries]
  <2>1. \/ UNCHANGED <<retry, retries>> \/ ScheduleRetry(p)
        \/ retry' = [retry EXCEPT ![p] = FALSE] /\ retries' = [retries EXCEPT ![p] = 0]
    BY DEF LoopStep, LoopTest, LoopEnd, LoopFinally, LoopTxn, LoopRetired, LoopRegistry,
       LoopOverrides
  <2>2. QED
    <3>1. retry \in [Procs -> BOOLEAN] /\ retries \in [Procs -> 0 .. MaxRetries]
          /\ 0 \in 0 .. MaxRetries
      BY LifecycleBounds DEF TypeInv, TypeOK
    <3>2. CASE retry' = [retry EXCEPT ![p] = FALSE] /\ retries' = [retries EXCEPT ![p] = 0]
      BY <3>1, <3>2
    <3>3. QED
      BY <2>1, <3>1, <3>2, LoopTypes
<1>7. queue' \in [Procs -> Seq(Waiters)]
  <2>1. UNCHANGED queue \/ Enter(p, Cleanup) \/ (queue[p] # <<>> /\ Leave(p))
    <3>1. CASE LoopTest(p) \/ LoopEnd(p) \/ LoopFinally(p) \/ LoopTxn(p)
      BY <3>1 DEF LoopTest, LoopEnd, LoopFinally, LoopTxn, MayRun
    <3>2. CASE LoopRetired(p) \/ LoopRegistry(p) \/ LoopOverrides(p)
      BY <3>2 DEF LoopRetired, LoopRegistry, LoopOverrides
    <3>3. QED
      BY <3>1, <3>2 DEF LoopStep
  <2>2. QED
    BY <2>1, QueueTypes DEF TypeInv, Waiters
<1>8. \A q \in Procs : \A i \in DOMAIN queue'[q] : queue'[q][i] \in Waiters
  BY <1>7
<1>9. QED
  BY <1>1, <1>3, <1>4, <1>5, <1>6, <1>7, <1>8 DEF TypeInv, TypeOK, LoopPlaces, Waiters

LEMMA TypeInvWake ==
    ASSUME TypeInv, NEW p \in Procs, WakeStep(p)
    PROVE  TypeInv'
<1>1. UNCHANGED <<world, entry, auth, overrides, up, session, provider, runtime, open, refreshing,
                  batch, queue, task, victim, retries, made, loggedOut, late, early, partial>>
  BY WakeFrame DEF diskVars, procVars, ghostVars
<1>2. Fingerprint \in Nat
  BY DEF Fingerprint, TypeInv, TypeOK
<1>3. loop' \in [Procs -> LoopPlaces] /\ requested' \in [Procs -> BOOLEAN]
  <2>1. Request(p) \/ UNCHANGED <<loop, requested>>
    BY DEF WakeStep, RetryFires, WatchEvent, PollFires, WatcherDies, cleanupVars
  <2>2. QED
    BY <2>1, LoopTypes DEF TypeInv, TypeOK, LoopPlaces
<1>4. /\ retry' \in {retry, [retry EXCEPT ![p] = FALSE]}
      /\ event' \in {event, [event EXCEPT ![p] = FALSE]}
      /\ poll' = poll
      /\ seen' \in {seen, [seen EXCEPT ![p] = Fingerprint]}
      /\ watcher' \in {watcher, [watcher EXCEPT ![p] = "off"]}
  BY DEF WakeStep, RetryFires, WatchEvent, PollFires, WatcherDies, cleanupVars, wakeVars
<1>5. /\ retry \in [Procs -> BOOLEAN] /\ event \in [Procs -> BOOLEAN] /\ poll \in [Procs -> BOOLEAN]
      /\ seen \in [Procs -> Nat] /\ watcher \in [Procs -> {"off", "on", "deaf"}]
  BY DEF TypeInv, TypeOK
<1>6. retry' \in [Procs -> BOOLEAN] /\ event' \in [Procs -> BOOLEAN] /\ poll' \in [Procs -> BOOLEAN]
  BY <1>4, <1>5
<1>7. seen' \in [Procs -> Nat] /\ watcher' \in [Procs -> {"off", "on", "deaf"}]
  BY <1>2, <1>4, <1>5
<1>8. QED
  BY <1>1, <1>3, <1>6, <1>7 DEF TypeInv, TypeOK, LoopPlaces

LEMMA TypeInvSession ==
    ASSUME TypeInv, NEW p \in Procs, SessionStep(p)
    PROVE  TypeInv'
<1>1. UNCHANGED <<world, entry, auth, victim, made, loggedOut, early>>
  BY SessionFrame
<1>2. Fingerprint \in Nat /\ 0 \in Incs /\ entry \in Incs /\ provider[p] \in Incs /\ batch[p] \in Incs
  BY LifecycleBounds DEF Fingerprint, TypeInv, TypeOK, Incs
<1>3. \/ Exit(p)
      \/ /\ UNCHANGED <<queue, task, retries>>
         /\ partial' = partial
         /\ loop' \in {loop, [loop EXCEPT ![p] = IF @ = "none" THEN "test" ELSE @]}
         /\ requested' \in {requested, [requested EXCEPT ![p] = TRUE]}
         /\ retry' \in {retry, [retry EXCEPT ![p] = FALSE]}
         /\ event' \in {event, [event EXCEPT ![p] = FALSE]}
         /\ poll' \in {poll, [poll EXCEPT ![p] = TRUE], [poll EXCEPT ![p] = FALSE]}
         /\ seen' \in {seen, [seen EXCEPT ![p] = Fingerprint]}
         /\ watcher' = watcher \/ \E w \in Watchers \cup {"off"} : watcher' = [watcher EXCEPT ![p] = w]
  <2>1. CASE Load(p)
    BY <2>1 DEF Load, cleanupVars, wakeVars, ghostVars
  <2>2. CASE SessionStart(p)
    BY <2>2 DEF SessionStart, cleanupVars, wakeVars, ghostVars
  <2>3. CASE ShutdownBegin(p) \/ ShutdownEnd(p)
    BY <2>3 DEF ShutdownBegin, ShutdownEnd, cleanupVars, wakeVars, ghostVars
  <2>4. CASE (\E n \in Incs : RegisterCurrent(p, n)) \/ BatchOpen(p) \/ BatchWrite(p) \/ BatchCancel(p)
    BY <2>4 DEF RegisterCurrent, BatchOpen, BatchWrite, BatchCancel, cleanupVars, wakeVars, ghostVars
  <2>5. QED
    BY <2>1, <2>2, <2>3, <2>4 DEF SessionStep
<1>4. /\ up' \in [Procs -> BOOLEAN] /\ session' \in [Procs -> {"new", "running", "stopping", "stopped"}]
      /\ provider' \in [Procs -> Incs] /\ runtime' \in [Procs -> Incs] /\ batch' \in [Procs -> Incs]
      /\ overrides' \subseteq Incs /\ late' \subseteq Incs
  <2>1. /\ up' = up \/ \E b \in BOOLEAN : up' = [up EXCEPT ![p] = b]
        /\ \/ session' = session
           \/ \E s \in {"new", "running", "stopping", "stopped"} : session' = [session EXCEPT ![p] = s]
        /\ provider' = provider \/ \E n \in Incs : provider' = [provider EXCEPT ![p] = n]
        /\ runtime' = runtime \/ \E n \in Incs : runtime' = [runtime EXCEPT ![p] = n]
        /\ batch' = batch \/ \E n \in Incs : batch' = [batch EXCEPT ![p] = n]
        /\ overrides' \in {overrides, overrides \cup {batch[p]}}
        /\ late' \in {late, late \cup {batch[p]}}
    <3>1. CASE Load(p)
      BY <1>2, <3>1 DEF Load, diskVars, ghostVars
    <3>2. CASE SessionStart(p) \/ ShutdownBegin(p) \/ ShutdownEnd(p) \/ Exit(p)
      BY <1>2, <3>2 DEF SessionStart, ShutdownBegin, ShutdownEnd, Exit, diskVars, ghostVars
    <3>3. CASE \E n \in Incs : RegisterCurrent(p, n)
      <4>1. PICK n \in Incs : RegisterCurrent(p, n)
        BY <3>3
      <4>2. runtime[p] \in Incs
        BY DEF TypeInv, TypeOK
      <4>3. QED
        BY <4>1, <4>2 DEF RegisterCurrent, diskVars, ghostVars
    <3>4. CASE BatchOpen(p) \/ BatchWrite(p) \/ BatchCancel(p)
      BY <1>2, <3>4 DEF BatchOpen, BatchWrite, BatchCancel, diskVars, ghostVars
    <3>5. QED
      BY <3>1, <3>2, <3>3, <3>4 DEF SessionStep
  <2>2. /\ up \in [Procs -> BOOLEAN] /\ session \in [Procs -> {"new", "running", "stopping", "stopped"}]
        /\ provider \in [Procs -> Incs] /\ runtime \in [Procs -> Incs] /\ batch \in [Procs -> Incs]
        /\ overrides \subseteq Incs /\ late \subseteq Incs
    BY DEF TypeInv, TypeOK
  <2>3. provider' \in [Procs -> Incs]
    BY <2>1, <2>2
  <2>4. runtime' \in [Procs -> Incs]
    BY <2>1, <2>2
  <2>5. batch' \in [Procs -> Incs]
    BY <2>1, <2>2
  <2>6. up' \in [Procs -> BOOLEAN]
    BY <2>1, <2>2
  <2>7. session' \in [Procs -> {"new", "running", "stopping", "stopped"}]
    BY <2>1, <2>2
  <2>8. QED
    BY <1>2, <2>1, <2>2, <2>3, <2>4, <2>5, <2>6, <2>7
<1>5. open' \in [Procs -> SUBSET Incs] /\ refreshing' \in [Procs -> SUBSET Incs]
  <2>1. /\ open' = open \/ \E S \in SUBSET Incs : open' = [open EXCEPT ![p] = S]
        /\ refreshing' = refreshing \/ \E S \in SUBSET Incs : refreshing' = [refreshing EXCEPT ![p] = S]
    <3>1. open[p] \subseteq Incs /\ refreshing[p] \subseteq Incs
      BY DEF TypeInv, TypeOK
    <3>2. /\ open' \in {open, [open EXCEPT ![p] = open[p] \cup ({provider[p]} \ {0})],
                        [open EXCEPT ![p] = open[p] \ {provider[p]}], [open EXCEPT ![p] = {}]}
          /\ \/ refreshing' \in {refreshing, [refreshing EXCEPT ![p] = {}],
                                 [refreshing EXCEPT ![p] = refreshing[p] \cup ({provider[p]} \ {0})]}
             \/ \E n \in Incs : refreshing' = [refreshing EXCEPT ![p] = refreshing[p] \ {n}]
      BY DEF SessionStep, Load, SessionStart, ShutdownBegin, ShutdownEnd, Exit, RegisterCurrent,
         BatchOpen, BatchWrite, BatchCancel, TypeInv, TypeOK
    <3>3. QED
      BY <1>2, <3>1, <3>2
  <2>2. open \in [Procs -> SUBSET Incs] /\ refreshing \in [Procs -> SUBSET Incs]
    BY DEF TypeInv, TypeOK
  <2>3. open' \in [Procs -> SUBSET Incs]
    BY <2>1, <2>2
  <2>4. refreshing' \in [Procs -> SUBSET Incs]
    BY <2>1, <2>2
  <2>5. QED
    BY <2>3, <2>4
<1>6. /\ loop \in [Procs -> LoopPlaces] /\ requested \in [Procs -> BOOLEAN]
      /\ retry \in [Procs -> BOOLEAN] /\ retries \in [Procs -> 0 .. MaxRetries]
      /\ watcher \in [Procs -> {"off", "on", "deaf"}] /\ event \in [Procs -> BOOLEAN]
      /\ poll \in [Procs -> BOOLEAN] /\ seen \in [Procs -> Nat] /\ queue \in [Procs -> Seq(Waiters)]
      /\ task \in [Tasks -> TaskRecords] /\ partial \in BOOLEAN
      /\ 0 \in 0 .. MaxRetries /\ Watchers \subseteq {"off", "on", "deaf"} /\ NoTask \in TaskRecords
      /\ \A u \in Tasks : task[u] = NoTask \/ InFlight(task[u])
  <2>1. 0 \in 0 .. MaxRetries /\ Watchers \subseteq {"off", "on", "deaf"} /\ NoTask \in TaskRecords
    BY LifecycleBounds DEF NoTask, TaskRecords, Incs
  <2>2. QED
    BY <2>1 DEF TypeInv, TypeOK, LoopPlaces
<1>7. /\ loop' \in [Procs -> LoopPlaces] /\ requested' \in [Procs -> BOOLEAN]
      /\ retry' \in [Procs -> BOOLEAN] /\ retries' \in [Procs -> 0 .. MaxRetries]
      /\ watcher' \in [Procs -> {"off", "on", "deaf"}] /\ event' \in [Procs -> BOOLEAN]
      /\ poll' \in [Procs -> BOOLEAN] /\ seen' \in [Procs -> Nat] /\ queue' \in [Procs -> Seq(Waiters)]
      /\ task' \in [Tasks -> TaskRecords] /\ partial' \in BOOLEAN
      /\ \A u \in Tasks : task'[u] = NoTask \/ InFlight(task'[u])
  <2>1. CASE Exit(p)
    <3>1. /\ task' \in [Tasks -> TaskRecords]
          /\ \A u \in Tasks : task'[u] = NoTask \/ InFlight(task'[u])
      BY <1>6, <2>1 DEF Exit
    <3>2. queue' \in [Procs -> Seq(Waiters)]
      BY <1>6, <2>1 DEF Exit
    <3>3. loop' \in [Procs -> LoopPlaces] /\ requested' \in [Procs -> BOOLEAN]
          /\ retry' \in [Procs -> BOOLEAN] /\ retries' \in [Procs -> 0 .. MaxRetries]
      BY <1>6, <2>1 DEF Exit, LoopPlaces
    <3>4. watcher' \in [Procs -> {"off", "on", "deaf"}] /\ event' \in [Procs -> BOOLEAN]
          /\ poll' \in [Procs -> BOOLEAN] /\ seen' = seen /\ partial' \in BOOLEAN
      BY <1>6, <2>1 DEF Exit
    <3>5. QED
      BY <1>6, <3>1, <3>2, <3>3, <3>4
  <2>2. CASE ~Exit(p)
    <3>1. UNCHANGED <<queue, task, retries, partial>>
      BY <1>3, <2>2
    <3>2. loop' \in [Procs -> LoopPlaces]
      BY <1>3, <1>6, <2>2 DEF LoopPlaces
    <3>3. requested' \in [Procs -> BOOLEAN] /\ retry' \in [Procs -> BOOLEAN]
      BY <1>3, <1>6, <2>2
    <3>4. event' \in [Procs -> BOOLEAN] /\ poll' \in [Procs -> BOOLEAN]
      BY <1>3, <1>6, <2>2
    <3>5. seen' \in [Procs -> Nat]
      <4>1. seen' \in {seen, [seen EXCEPT ![p] = Fingerprint]}
        BY <1>3, <2>2
      <4>2. QED
        BY <1>2, <1>6, <4>1
    <3>6. watcher' \in [Procs -> {"off", "on", "deaf"}]
      <4>1. watcher' = watcher \/ \E w \in Watchers \cup {"off"} : watcher' = [watcher EXCEPT ![p] = w]
        BY <1>3, <2>2
      <4>2. QED
        BY <1>6, <4>1
    <3>7. QED
      BY <1>6, <3>1, <3>2, <3>3, <3>4, <3>5, <3>6
  <2>3. QED
    BY <2>1, <2>2
<1>8. \A q \in Procs : \A i \in DOMAIN queue'[q] : queue'[q][i] \in Waiters
  BY <1>7
<1>9. /\ world \in Worlds /\ entry \in Incs /\ auth \in Stamps /\ victim \in [Procs -> Incs]
      /\ made \in Incs /\ loggedOut \subseteq Incs /\ early \subseteq Incs
  BY DEF TypeInv, TypeOK, Stamps
<1>10. TypeOK'
  BY <1>1, <1>4, <1>5, <1>7, <1>8, <1>9 DEF TypeOK, LoopPlaces, Waiters, Stamps
<1>11. QED
  BY <1>7, <1>10 DEF TypeInv

LEMMA TypeInvOthers ==
    ASSUME TypeInv, Others
    PROVE  TypeInv'
<1>1. UNCHANGED <<world, entry, overrides, up, session, provider, runtime, open, refreshing, batch,
                  queue, task, loop, requested, victim, retry, retries, watcher, poll, seen, made,
                  late, early, partial>>
  BY OthersFrame DEF procVars, cleanupVars
<1>2. auth.cred \in Incs /\ 0 \in Incs /\ \A p \in Procs : runtime[p] \in Incs
  BY LifecycleBounds DEF TypeInv, TypeOK, Incs
<1>3. \E s \in {"ok", "missing", "garbled"}, c \in Incs : AuthBecomes(s, c)
  BY <1>2 DEF Others, Logout, Disturb, OtherIdCreates, Relogin
<1>4. auth' \in Stamps /\ event' \in [Procs -> BOOLEAN]
  BY <1>3, AuthTypes
<1>5. loggedOut' \subseteq Incs
  BY <1>2 DEF Others, Logout, Disturb, OtherIdCreates, Relogin, CredDeleted, TypeInv, TypeOK
<1>6. QED
  BY <1>1, <1>4, <1>5 DEF TypeInv, TypeOK, Stamps

-----------------------------------------------------------------------------
(* The transactions of an id in a process take turns *)

Members(s) == {s[i] : i \in DOMAIN s}
OnceEach(s) == \A i, j \in DOMAIN s : s[i] = s[j] => i = j

(* A queue nobody is in twice, when one more joins it and when the first one leaves. *)
LEMMA JoinQueue ==
    ASSUME NEW S, NEW s \in Seq(S), NEW x \in S, OnceEach(s), x \notin Members(s)
    PROVE  /\ OnceEach(Append(s, x)) /\ Members(Append(s, x)) = Members(s) \cup {x}
           /\ s # <<>> => Head(Append(s, x)) = Head(s)
           /\ Append(s, x) # <<>>
<1>1. /\ Append(s, x) \in Seq(S) /\ Len(Append(s, x)) = Len(s) + 1 /\ Len(s) \in Nat
      /\ \A i \in 1 .. Len(s) : Append(s, x)[i] = s[i]
      /\ Append(s, x)[Len(s) + 1] = x
  OBVIOUS
<1>2. DOMAIN s = 1 .. Len(s) /\ DOMAIN Append(s, x) = 1 .. (Len(s) + 1)
  BY <1>1
<1> DEFINE r == Append(s, x)
<1>3. /\ r \in Seq(S) /\ Len(r) = Len(s) + 1 /\ Len(s) \in Nat /\ DOMAIN s = 1 .. Len(s)
      /\ DOMAIN r = 1 .. (Len(s) + 1) /\ \A i \in 1 .. Len(s) : r[i] = s[i] /\ s[i] # x
      /\ r[Len(s) + 1] = x
  BY <1>1, <1>2 DEF Members
<1> HIDE DEF r
<1>4. OnceEach(r)
  BY <1>3 DEF OnceEach
<1>5. Members(r) = Members(s) \cup {x}
  BY <1>3 DEF Members
<1>6. s # <<>> => Len(s) # 0
  OBVIOUS
<1>7. s # <<>> => Head(r) = Head(s)
  <2>1. Head(r) = r[1]
    BY <1>3
  <2>2. QED
    BY <1>3, <1>6, <2>1
<1>8. r # <<>>
  BY <1>3
<1>9. QED
  BY <1>4, <1>5, <1>7, <1>8 DEF r

LEMMA LeaveQueue ==
    ASSUME NEW S, NEW s \in Seq(S), OnceEach(s), s # <<>>
    PROVE  /\ OnceEach(Tail(s)) /\ Members(Tail(s)) = Members(s) \ {Head(s)}
           /\ Head(s) \in Members(s)
<1>1. /\ Len(s) \in Nat /\ Len(s) # 0 /\ Tail(s) \in Seq(S) /\ Len(Tail(s)) = Len(s) - 1
      /\ \A i \in 1 .. Len(Tail(s)) : Tail(s)[i] = s[i + 1]
      /\ Head(s) = s[1]
  OBVIOUS
<1> DEFINE r == Tail(s)
<1>2. /\ Len(s) \in Nat /\ Len(s) # 0 /\ DOMAIN s = 1 .. Len(s) /\ DOMAIN r = 1 .. (Len(s) - 1)
      /\ \A i \in 1 .. (Len(s) - 1) : r[i] = s[i + 1] /\ i + 1 \in DOMAIN s
      /\ \A i \in DOMAIN s : i = 1 \/ i - 1 \in DOMAIN r
      /\ Head(s) = s[1] /\ 1 \in DOMAIN s
  BY <1>1
<1> HIDE DEF r
<1>3. OnceEach(r)
  <2>1. SUFFICES ASSUME NEW i \in DOMAIN r, NEW j \in DOMAIN r, r[i] = r[j] PROVE i = j
    BY DEF OnceEach
  <2>2. s[i + 1] = s[j + 1] /\ i + 1 \in DOMAIN s /\ j + 1 \in DOMAIN s
    BY <1>2, <2>1
  <2>3. i + 1 = j + 1
    BY <2>2 DEF OnceEach
  <2>4. QED
    BY <1>2, <2>1, <2>3
<1>4. \A i \in DOMAIN r : r[i] \in Members(s) /\ r[i] # Head(s)
  <2>1. SUFFICES ASSUME NEW i \in DOMAIN r PROVE r[i] \in Members(s) /\ r[i] # Head(s)
    OBVIOUS
  <2>2. r[i] = s[i + 1] /\ i + 1 \in DOMAIN s /\ i + 1 # 1
    BY <1>2
  <2>3. s[i + 1] # s[1]
    BY <1>2, <2>2 DEF OnceEach
  <2>4. QED
    BY <1>2, <2>2, <2>3 DEF Members
<1>5. \A x \in Members(s) : x = Head(s) \/ x \in Members(r)
  <2>1. SUFFICES ASSUME NEW i \in DOMAIN s PROVE s[i] = Head(s) \/ s[i] \in Members(r)
    BY DEF Members
  <2>2. CASE i = 1
    BY <1>2, <2>2
  <2>3. CASE i # 1
    <3>1. i - 1 \in DOMAIN r /\ i - 1 \in 1 .. (Len(s) - 1) /\ (i - 1) + 1 = i
      BY <1>2, <2>3
    <3>2. r[i - 1] = s[i]
      BY <1>2, <3>1
    <3>3. QED
      BY <3>1, <3>2 DEF Members
  <2>4. QED
    BY <2>2, <2>3
<1>6. Members(r) = Members(s) \ {Head(s)}
  BY <1>4, <1>5 DEF Members
<1>7. Head(s) \in Members(s)
  BY <1>2 DEF Members
<1>8. QED
  BY <1>3, <1>6, <1>7 DEF r

(* Where the cleanup is while it has a transaction, and while that one runs. *)
InTxn == {"queued", "retire", "registry", "overrides"}
InTurn == {"retire", "registry", "overrides"}

QueueInv ==
    /\ \A p \in Procs : OnceEach(queue[p])
    /\ \A t \in Tasks, p \in Procs : t \in Members(queue[p]) <=> task[t].proc = p
    /\ \A p \in Procs : Cleanup \in Members(queue[p]) <=> loop[p] \in InTxn
    /\ \A t \in Tasks : task[t].pc \notin {"free", "queued"} => Head(queue[task[t].proc]) = t
    /\ \A p \in Procs : loop[p] \in InTurn => Head(queue[p]) = Cleanup

LEMMA QueueInvInit == Init => QueueInv
<1> SUFFICES ASSUME Init PROVE QueueInv
  OBVIOUS
<1>1. \A p \in Procs : queue[p] = <<>> /\ loop[p] = "none"
  BY DEF Init
<1>2. \A t \in Tasks : task[t].proc = "nobody" /\ task[t].pc = "free"
  BY DEF Init, NoTask
<1>3. QED
  BY <1>1, <1>2, LifecycleBounds DEF QueueInv, OnceEach, Members, InTxn, InTurn

(* Somebody who is in a queue makes it a queue. *)
LEMMA MembersExist ==
    ASSUME NEW s, NEW x \in Members(s) PROVE s # <<>>
BY DEF Members

(* Whoever is at work in a process is first in its queue, and alone. *)
LEMMA Alone ==
    ASSUME TypeInv, QueueInv
    PROVE  /\ \A t \in Tasks : task[t].pc \notin {"free", "queued"} =>
                /\ task[t].proc \in Procs /\ MayRun(task[t].proc, t) /\ loop[task[t].proc] \notin InTurn
                /\ \A u \in Tasks : task[u].pc \notin {"free", "queued"} /\ task[u].proc = task[t].proc
                      => u = t
           /\ \A p \in Procs : loop[p] \in InTurn =>
                MayRun(p, Cleanup) /\ \A t \in Tasks : task[t].proc = p => task[t].pc = "queued"
<1>1. \A t \in Tasks : task[t].pc # "free" => task[t].proc \in Procs
  BY DEF TypeInv, InFlight, NoTask
<1>2. Cleanup \notin Tasks /\ InTurn \subseteq InTxn
  BY LifecycleBounds DEF InTurn, InTxn
<1>3. \A t \in Tasks : task[t].pc \notin {"free", "queued"} => queue[task[t].proc] # <<>>
  BY <1>1, MembersExist DEF QueueInv
<1>4. \A p \in Procs : loop[p] \in InTurn => queue[p] # <<>>
  BY <1>2, MembersExist DEF QueueInv
<1>5. \A t \in Tasks : task[t].proc \in Procs => task[t].pc # "free"
  BY LifecycleBounds DEF TypeInv, InFlight, NoTask
<1>6. QED
  BY <1>1, <1>2, <1>3, <1>4, <1>5 DEF QueueInv, MayRun

(* The queues of the other processes do not change with one's own. *)
LEMMA QueueEnter ==
    ASSUME TypeInv, QueueInv, NEW p \in Procs, NEW who \in Waiters, who \notin Members(queue[p]),
           Enter(p, who)
    PROVE  /\ \A q \in Procs : OnceEach(queue'[q])
           /\ \A q \in Procs : Members(queue'[q]) = IF q = p THEN Members(queue[q]) \cup {who}
                                                              ELSE Members(queue[q])
           /\ \A q \in Procs : queue[q] # <<>> => Head(queue'[q]) = Head(queue[q])
<1>1. queue \in [Procs -> Seq(Waiters)]
  BY DEF TypeInv
<1>2. \A q \in Procs : queue'[q] = IF q = p THEN Append(queue[p], who) ELSE queue[q]
  BY <1>1 DEF Enter
<1>3. /\ OnceEach(Append(queue[p], who)) /\ Members(Append(queue[p], who)) = Members(queue[p]) \cup {who}
      /\ queue[p] # <<>> => Head(Append(queue[p], who)) = Head(queue[p])
  <2>1. queue[p] \in Seq(Waiters) /\ OnceEach(queue[p])
    BY <1>1 DEF QueueInv
  <2>2. QED
    BY <2>1, JoinQueue
<1>4. QED
  BY <1>2, <1>3 DEF QueueInv

LEMMA QueueLeave ==
    ASSUME TypeInv, QueueInv, NEW p \in Procs, NEW who, MayRun(p, who), Leave(p)
    PROVE  /\ \A q \in Procs : OnceEach(queue'[q])
           /\ \A q \in Procs : Members(queue'[q]) = IF q = p THEN Members(queue[q]) \ {who}
                                                              ELSE Members(queue[q])
           /\ \A q \in Procs : q # p => queue'[q] = queue[q]
           /\ who \in Members(queue[p])
<1>1. queue \in [Procs -> Seq(Waiters)]
  BY DEF TypeInv
<1>2. \A q \in Procs : queue'[q] = IF q = p THEN Tail(queue[p]) ELSE queue[q]
  BY <1>1 DEF Leave
<1>3. /\ OnceEach(Tail(queue[p])) /\ Members(Tail(queue[p])) = Members(queue[p]) \ {who}
      /\ who \in Members(queue[p])
  <2>1. queue[p] \in Seq(Waiters) /\ OnceEach(queue[p]) /\ queue[p] # <<>> /\ Head(queue[p]) = who
    BY <1>1 DEF QueueInv, MayRun
  <2>2. QED
    BY <2>1, LeaveQueue
<1>4. QED
  BY <1>2, <1>3 DEF QueueInv

LEMMA QueueInvTask ==
    ASSUME TypeInv, QueueInv, NEW t \in Tasks, TaskStep(t) \/ TaskBegin(t)
    PROVE  QueueInv'
<1>0. /\ \A u \in Tasks, q \in Procs : u \in Members(queue[q]) <=> task[u].proc = q
      /\ \A q \in Procs : Cleanup \in Members(queue[q]) <=> loop[q] \in InTxn
  BY DEF QueueInv
<1>1. UNCHANGED loop
  BY TaskFrame DEF cleanupVars, TaskBegin
<1>2. /\ task \in [Tasks -> TaskRecords] /\ t \in Waiters /\ t # Cleanup /\ Cleanup \notin Tasks
      /\ "nobody" \notin Procs
  BY LifecycleBounds DEF TypeInv, TypeOK, Waiters
<1>3. ASSUME NEW p \in Procs, LoginBegin(t, p) \/ RemoveBegin(t, p)
      PROVE  QueueInv'
  <2>1. PICK r : r.proc = p /\ r.pc = "queued" /\ task' = [task EXCEPT ![t] = r]
    BY <1>3 DEF LoginBegin, RemoveBegin
  <2>2. Enter(p, t) /\ task[t] = NoTask
    BY <1>3 DEF LoginBegin, RemoveBegin, TypeInv, InFlight
  <2>3. \A q \in Procs : t \notin Members(queue[q])
    BY <1>2, <2>2 DEF QueueInv, NoTask
  <2>4. \A u \in Tasks : task'[u] = IF u = t THEN r ELSE task[u]
    BY <1>2, <2>1
  <2>5. \A u \in Tasks : task[u].pc # "free" => task[u].proc \in Procs /\ queue[task[u].proc] # <<>>
    BY MembersExist DEF TypeInv, InFlight, NoTask, QueueInv
  <2>6. \A q \in Procs : loop[q] \in InTurn => queue[q] # <<>>
    BY Alone DEF MayRun
  <2>7. /\ \A q \in Procs : OnceEach(queue'[q])
        /\ \A q \in Procs : Members(queue'[q]) = IF q = p THEN Members(queue[q]) \cup {t}
                                                         ELSE Members(queue[q])
        /\ \A q \in Procs : queue[q] # <<>> => Head(queue'[q]) = Head(queue[q])
    BY <1>2, <2>2, <2>3, QueueEnter
  <2>8. \A u \in Tasks, q \in Procs : u \in Members(queue'[q]) <=> task'[u].proc = q
    <3>1. SUFFICES ASSUME NEW u \in Tasks, NEW q \in Procs
                   PROVE  u \in Members(queue'[q]) <=> task'[u].proc = q
      OBVIOUS
    <3>2. CASE u = t
      BY <2>1, <2>3, <2>4, <2>7, <3>2
    <3>3. CASE u # t
        <5>1. u \in Members(queue'[q]) <=> u \in Members(queue[q])
          BY <2>7, <3>3
        <5>2. QED
          BY <1>0, <2>4, <3>3, <5>1
    <3>4. QED
      BY <3>2, <3>3
  <2>9. \A u \in Tasks : task'[u].pc \notin {"free", "queued"} => Head(queue'[task'[u].proc]) = u
    BY <2>1, <2>4, <2>5, <2>7 DEF QueueInv
  <2>10. \A q \in Procs : Cleanup \in Members(queue'[q]) <=> loop'[q] \in InTxn
      <3>1. \A q \in Procs : Cleanup \in Members(queue'[q]) <=> Cleanup \in Members(queue[q])
        BY <1>2, <2>7
      <3>2. QED
        BY <1>0, <1>1, <3>1
  <2>11. \A q \in Procs : loop'[q] \in InTurn => Head(queue'[q]) = Cleanup
    BY <1>1, <2>6, <2>7 DEF QueueInv
  <2>12. QED
    BY <2>7, <2>8, <2>9, <2>10, <2>11 DEF QueueInv
<1>4. CASE TaskStep(t)
  <2>1. InFlight(task[t]) /\ MayRun(task[t].proc, t)
    BY <1>4, TaskMoves
  <2>2. CASE EndTask(t)
    <3>1. \A u \in Tasks : task'[u] = IF u = t THEN NoTask ELSE task[u]
      BY <1>2, <2>2 DEF EndTask
    <3>2. Leave(task[t].proc) /\ task[t].proc \in Procs
      BY <2>1, <2>2 DEF EndTask, InFlight
    <3>3. \A u \in Tasks : task[u].pc \notin {"free", "queued"} /\ task[u].proc = task[t].proc
                              => u = t
      BY <2>1, Alone DEF QueueInv, MayRun
    <3>4. loop[task[t].proc] \notin InTurn
      BY <1>2, <2>1, <3>2 DEF QueueInv, MayRun
    <3>5. \A u \in Tasks : task[u].pc # "free" => task[u].proc \in Procs
      BY DEF TypeInv, InFlight, NoTask
    <3>6. /\ \A q \in Procs : OnceEach(queue'[q])
          /\ \A q \in Procs : Members(queue'[q]) = IF q = task[t].proc THEN Members(queue[q]) \ {t}
                                                                      ELSE Members(queue[q])
          /\ \A q \in Procs : q # task[t].proc => queue'[q] = queue[q]
      BY <2>1, <3>2, QueueLeave
    <3>7. \A u \in Tasks, q \in Procs : u \in Members(queue'[q]) <=> task'[u].proc = q
      <4>1. SUFFICES ASSUME NEW u \in Tasks, NEW q \in Procs
                     PROVE  u \in Members(queue'[q]) <=> task'[u].proc = q
        OBVIOUS
      <4>2. CASE u = t
        <5>1. task'[u].proc # q
          BY <1>2, <3>1, <4>2 DEF NoTask
        <5>2. u \notin Members(queue'[q])
          BY <3>6, <4>2 DEF QueueInv
        <5>3. QED
          BY <5>1, <5>2
      <4>3. CASE u # t
        <5>1. u \in Members(queue'[q]) <=> u \in Members(queue[q])
          BY <3>6, <4>3
        <5>2. QED
          BY <1>0, <3>1, <4>3, <5>1
      <4>4. QED
        BY <4>2, <4>3
    <3>8. \A u \in Tasks : task'[u].pc \notin {"free", "queued"} => Head(queue'[task'[u].proc]) = u
      BY <3>1, <3>3, <3>5, <3>6 DEF QueueInv, NoTask
    <3>9. \A q \in Procs : Cleanup \in Members(queue'[q]) <=> loop'[q] \in InTxn
      BY <1>1, <1>2, <3>6 DEF QueueInv
    <3>10. \A q \in Procs : loop'[q] \in InTurn => Head(queue'[q]) = Cleanup
      BY <1>1, <3>4, <3>6 DEF QueueInv
    <3>11. QED
      BY <3>6, <3>7, <3>8, <3>9, <3>10 DEF QueueInv
  <2>3. ASSUME UNCHANGED queue, NEW i \in Incs, NEW pc \in Places \ {"queued"},
               task' = [task EXCEPT ![t] = [task[t] EXCEPT !.inc = i, !.pc = pc]]
        PROVE  QueueInv'
    <3>1. \A u \in Tasks : task'[u].proc = task[u].proc /\ (u # t => task'[u] = task[u])
      BY <1>2, <2>3 DEF TaskRecords
    <3>2. QED
      BY <1>1, <2>1, <2>3, <3>1 DEF QueueInv, MayRun
  <2>4. QED
    BY <1>4, <2>2, <2>3, TaskMoves
<1>5. QED
  BY <1>3, <1>4 DEF TaskBegin

LEMMA QueueInvLoop ==
    ASSUME TypeInv, QueueInv, NEW p \in Procs, LoopStep(p)
    PROVE  QueueInv'
<1>0. /\ \A u \in Tasks, q \in Procs : u \in Members(queue[q]) <=> task[u].proc = q
      /\ \A q \in Procs : Cleanup \in Members(queue[q]) <=> loop[q] \in InTxn
  BY DEF QueueInv
<1>1. UNCHANGED task
  BY LoopFrame
<1>2. /\ loop \in [Procs -> LoopPlaces] /\ Cleanup \in Waiters /\ Cleanup \notin Tasks
      /\ InTurn \subseteq InTxn
  BY LifecycleBounds DEF TypeInv, TypeOK, Waiters, LoopPlaces, InTurn, InTxn
<1>3. \A u \in Tasks : task[u].pc # "free" => task[u].proc \in Procs
  BY DEF TypeInv, InFlight, NoTask
<1>4. ASSUME UNCHANGED queue, NEW pc \in LoopPlaces, Goto(p, pc), pc \in InTxn <=> loop[p] \in InTxn,
             pc \in InTurn => Head(queue[p]) = Cleanup
      PROVE  QueueInv'
  <2>1. \A q \in Procs : loop'[q] = IF q = p THEN pc ELSE loop[q]
    BY <1>2, <1>4 DEF Goto
  <2>2. QED
    BY <1>1, <1>4, <2>1 DEF QueueInv
<1>5. ASSUME Leave(p), MayRun(p, Cleanup), Goto(p, "test")
      PROVE  QueueInv'
  <2>1. \A q \in Procs : loop'[q] = IF q = p THEN "test" ELSE loop[q]
    BY <1>2, <1>5 DEF Goto
  <2>2. /\ \A q \in Procs : OnceEach(queue'[q])
        /\ \A q \in Procs : Members(queue'[q]) = IF q = p THEN Members(queue[q]) \ {Cleanup}
                                                         ELSE Members(queue[q])
        /\ \A q \in Procs : q # p => queue'[q] = queue[q]
    BY <1>5, QueueLeave
  <2>3. \A u \in Tasks : task[u].pc \notin {"free", "queued"} => task[u].proc # p
    BY <1>2, <1>5 DEF QueueInv, MayRun
  <2>4. \A u \in Tasks, q \in Procs : u \in Members(queue'[q]) <=> task'[u].proc = q
      <3>1. \A u \in Tasks, q \in Procs : u \in Members(queue'[q]) <=> u \in Members(queue[q])
        BY <1>2, <2>2
      <3>2. QED
        BY <1>0, <1>1, <3>1
  <2>5. \A u \in Tasks : task'[u].pc \notin {"free", "queued"} => Head(queue'[task'[u].proc]) = u
    BY <1>1, <1>3, <2>2, <2>3 DEF QueueInv
  <2>6. \A q \in Procs : Cleanup \in Members(queue'[q]) <=> loop'[q] \in InTxn
    BY <2>1, <2>2 DEF QueueInv, InTxn
  <2>7. \A q \in Procs : loop'[q] \in InTurn => Head(queue'[q]) = Cleanup
    BY <2>1, <2>2 DEF QueueInv, InTurn
  <2>8. QED
    BY <2>2, <2>4, <2>5, <2>6, <2>7 DEF QueueInv
<1>6. ASSUME Enter(p, Cleanup), loop[p] \notin InTxn, Goto(p, "queued")
      PROVE  QueueInv'
  <2>1. \A q \in Procs : loop'[q] = IF q = p THEN "queued" ELSE loop[q]
    BY <1>2, <1>6 DEF Goto
  <2>2. /\ \A q \in Procs : OnceEach(queue'[q])
        /\ \A q \in Procs : Members(queue'[q]) = IF q = p THEN Members(queue[q]) \cup {Cleanup}
                                                         ELSE Members(queue[q])
        /\ \A q \in Procs : queue[q] # <<>> => Head(queue'[q]) = Head(queue[q])
    BY <1>2, <1>6, QueueEnter DEF QueueInv
  <2>3. \A u \in Tasks : task[u].pc \notin {"free", "queued"} => queue[task[u].proc] # <<>>
    BY Alone DEF MayRun
  <2>4. \A q \in Procs : loop[q] \in InTurn => queue[q] # <<>>
    BY Alone DEF MayRun
  <2>5. \A u \in Tasks, q \in Procs : u \in Members(queue'[q]) <=> task'[u].proc = q
      <3>1. \A u \in Tasks, q \in Procs : u \in Members(queue'[q]) <=> u \in Members(queue[q])
        BY <1>2, <2>2
      <3>2. QED
        BY <1>0, <1>1, <3>1
  <2>6. \A u \in Tasks : task'[u].pc \notin {"free", "queued"} => Head(queue'[task'[u].proc]) = u
    BY <1>1, <1>3, <2>2, <2>3 DEF QueueInv
  <2>7. \A q \in Procs : Cleanup \in Members(queue'[q]) <=> loop'[q] \in InTxn
    BY <2>1, <2>2 DEF QueueInv, InTxn
  <2>8. \A q \in Procs : loop'[q] \in InTurn => Head(queue'[q]) = Cleanup
    BY <2>1, <2>2, <2>4 DEF QueueInv, InTurn
  <2>9. QED
    BY <2>2, <2>5, <2>6, <2>7, <2>8 DEF QueueInv
<1>7. loop[p] \in InTurn => MayRun(p, Cleanup)
  BY Alone
<1>8. CASE LoopTest(p)
  BY <1>1, <1>6, <1>8 DEF LoopTest, QueueInv, InTxn
<1>9. CASE LoopEnd(p) \/ LoopFinally(p)
  <2>1. UNCHANGED queue /\ \E pc \in {"end", "test", "none"} : Goto(p, pc)
    BY <1>9 DEF LoopEnd, LoopFinally
  <2>2. loop[p] \notin InTxn
    BY <1>9 DEF LoopEnd, LoopFinally, InTxn
  <2>3. QED
    BY <1>4, <2>1, <2>2 DEF InTxn, InTurn, LoopPlaces
<1>10. CASE LoopTxn(p)
  <2>1. MayRun(p, Cleanup) /\ loop[p] = "queued"
    BY <1>10 DEF LoopTxn
  <2>2. \/ Leave(p) /\ Goto(p, "test")
        \/ UNCHANGED queue /\ \E pc \in {"registry", "retire"} : Goto(p, pc)
    BY <1>10 DEF LoopTxn
  <2>3. QED
    BY <1>4, <1>5, <2>1, <2>2 DEF InTxn, InTurn, LoopPlaces, MayRun
<1>11. CASE LoopRetired(p) \/ LoopRegistry(p) \/ LoopOverrides(p)
  <2>1. loop[p] \in InTurn
    BY <1>11 DEF LoopRetired, LoopRegistry, LoopOverrides, InTurn
  <2>2. \/ Leave(p) /\ Goto(p, "test")
        \/ UNCHANGED queue /\ \E pc \in {"registry", "overrides"} : Goto(p, pc)
    BY <1>11 DEF LoopRetired, LoopRegistry, LoopOverrides
  <2>3. QED
    BY <1>2, <1>4, <1>5, <1>7, <2>1, <2>2 DEF InTxn, InTurn, LoopPlaces, MayRun
<1>12. QED
  BY <1>8, <1>9, <1>10, <1>11 DEF LoopStep

LEMMA QueueInvRest ==
    ASSUME TypeInv, QueueInv,
           \/ \E p \in Procs : WakeStep(p) \/ SessionStep(p)
           \/ Others
           \/ UNCHANGED vars
    PROVE  QueueInv'
<1>0. /\ \A u \in Tasks, q \in Procs : u \in Members(queue[q]) <=> task[u].proc = q
      /\ \A q \in Procs : Cleanup \in Members(queue[q]) <=> loop[q] \in InTxn
  BY DEF QueueInv
<1>1. /\ loop \in [Procs -> LoopPlaces] /\ queue \in [Procs -> Seq(Waiters)]
      /\ task \in [Tasks -> TaskRecords] /\ "nobody" \notin Procs
  BY LifecycleBounds DEF TypeInv, TypeOK, LoopPlaces
<1>2. ASSUME UNCHANGED <<queue, task>>, NEW p \in Procs,
             loop' \in {loop, [loop EXCEPT ![p] = IF @ = "none" THEN "test" ELSE @]}
      PROVE  QueueInv'
  <2>1. \A q \in Procs : /\ loop'[q] \in InTxn <=> loop[q] \in InTxn
                         /\ loop'[q] \in InTurn <=> loop[q] \in InTurn
    BY <1>1, <1>2 DEF InTxn, InTurn
  <2>2. QED
    BY <1>2, <2>1 DEF QueueInv
<1>3. ASSUME NEW p \in Procs, WakeStep(p) PROVE QueueInv'
  <2>1. UNCHANGED <<queue, task>>
    BY <1>3, WakeFrame
  <2>2. loop' \in {loop, [loop EXCEPT ![p] = IF @ = "none" THEN "test" ELSE @]}
    BY <1>3 DEF WakeStep, RetryFires, WatchEvent, PollFires, WatcherDies, Request, cleanupVars
  <2>3. QED
    BY <1>2, <2>1, <2>2
<1>4. ASSUME NEW p \in Procs, SessionStep(p), ~Exit(p) PROVE QueueInv'
  <2>1. UNCHANGED <<queue, task>>
        /\ loop' \in {loop, [loop EXCEPT ![p] = IF @ = "none" THEN "test" ELSE @]}
    BY <1>4 DEF SessionStep, Load, SessionStart, ShutdownBegin, ShutdownEnd, RegisterCurrent,
       BatchOpen, BatchWrite, BatchCancel, cleanupVars
  <2>2. QED
    BY <1>2, <2>1
<1>5. ASSUME NEW p \in Procs, Exit(p) PROVE QueueInv'
  <2>1. /\ \A q \in Procs : queue'[q] = IF q = p THEN <<>> ELSE queue[q]
        /\ \A q \in Procs : loop'[q] = IF q = p THEN "none" ELSE loop[q]
    BY <1>1, <1>5 DEF Exit
  <2>2. /\ \A u \in Tasks : task'[u] = IF task[u].proc = p THEN NoTask ELSE task[u]
        /\ NoTask.pc = "free" /\ NoTask.proc = "nobody"
    BY <1>5 DEF Exit, NoTask
  <2>3. Members(<<>>) = {} /\ OnceEach(<<>>)
    BY DEF Members, OnceEach
  <2>4. \A u \in Tasks : task[u].pc # "free" => task[u].proc \in Procs
    BY DEF TypeInv, InFlight, NoTask
  <2>5. \A u \in Tasks, q \in Procs : u \in Members(queue'[q]) <=> task'[u].proc = q
      <3>1. SUFFICES ASSUME NEW u \in Tasks, NEW q \in Procs
                     PROVE  u \in Members(queue'[q]) <=> task'[u].proc = q
        OBVIOUS
      <3>2. CASE q = p
        BY <1>1, <2>1, <2>2, <2>3, <3>2
      <3>3. CASE q # p
        <4>1. u \in Members(queue'[q]) <=> u \in Members(queue[q])
          BY <2>1, <3>3
        <4>2. QED
          BY <1>0, <1>1, <2>2, <3>3, <4>1
      <3>4. QED
        BY <3>2, <3>3
  <2>6. \A u \in Tasks : task'[u].pc \notin {"free", "queued"} => Head(queue'[task'[u].proc]) = u
    BY <2>1, <2>2, <2>4 DEF QueueInv
  <2>7. QED
    BY <2>1, <2>3, <2>5, <2>6 DEF QueueInv, InTxn, InTurn
<1>6. CASE Others \/ UNCHANGED vars
  <2>1. UNCHANGED <<queue, task, loop>>
    BY <1>6, OthersFrame DEF vars, cleanupVars
  <2>2. QED
    BY <2>1 DEF QueueInv
<1>7. QED
  BY <1>3, <1>4, <1>5, <1>6

-----------------------------------------------------------------------------
(* Sessions that have ended *)

SessionInv ==
    \A p \in Procs :
        /\ Stopped(p) => ~retry[p] /\ ~poll[p] /\ watcher[p] = "off"
        /\ session[p] = "stopped" => loop[p] = "none"

LEMMA SessionInvNext == TypeInv /\ SessionInv /\ [Next]_vars => SessionInv'
<1> SUFFICES ASSUME TypeInv, SessionInv, [Next]_vars PROVE SessionInv'
  OBVIOUS
<1>1. /\ loop \in [Procs -> LoopPlaces] /\ retry \in [Procs -> BOOLEAN]
      /\ poll \in [Procs -> BOOLEAN] /\ watcher \in [Procs -> {"off", "on", "deaf"}]
      /\ session \in [Procs -> {"new", "running", "stopping", "stopped"}]
  BY DEF TypeInv, TypeOK, LoopPlaces
<1>2. CASE \/ \E t \in Tasks : TaskStep(t) \/ \E p \in Procs : LoginBegin(t, p) \/ RemoveBegin(t, p)
           \/ Others \/ UNCHANGED vars
  <2>1. UNCHANGED <<session, loop, retry, poll, watcher>>
    BY <1>2, TaskFrame, OthersFrame DEF vars, procVars, cleanupVars, wakeVars
  <2>2. QED
    BY <2>1 DEF SessionInv, Stopped
<1>3. ASSUME NEW p \in Procs, LoopStep(p) PROVE SessionInv'
  <2>1. UNCHANGED <<session, poll, watcher>> /\ loop[p] # "none"
    BY <1>3, LoopFrame DEF wakeVars, LoopStep, LoopTest, LoopEnd, LoopFinally, LoopTxn, LoopRetired,
       LoopRegistry, LoopOverrides
  <2>2. \/ UNCHANGED retry \/ ScheduleRetry(p) \/ retry' = [retry EXCEPT ![p] = FALSE]
    BY <1>3 DEF LoopStep, LoopTest, LoopEnd, LoopFinally, LoopTxn, LoopRetired, LoopRegistry,
       LoopOverrides
  <2>3. \A q \in Procs : Stopped(q) => ~retry'[q]
    BY <1>1, <2>2 DEF ScheduleRetry, SessionInv
  <2>4. \A q \in Procs : q # p => loop'[q] = loop[q]
    BY <1>1, <1>3 DEF LoopStep, LoopTest, LoopEnd, LoopFinally, LoopTxn, LoopRetired, LoopRegistry,
       LoopOverrides, Goto
  <2>5. QED
    BY <2>1, <2>3, <2>4 DEF SessionInv, Stopped
<1>4. ASSUME NEW p \in Procs, WakeStep(p) PROVE SessionInv'
  <2>1. UNCHANGED session
    BY <1>4, WakeFrame DEF procVars
  <2>2. /\ poll' = poll /\ retry' \in {retry, [retry EXCEPT ![p] = FALSE]}
        /\ watcher' \in {watcher, [watcher EXCEPT ![p] = "off"]}
        /\ Request(p) \/ UNCHANGED loop
    BY <1>4 DEF WakeStep, RetryFires, WatchEvent, PollFires, WatcherDies, cleanupVars, wakeVars
  <2>3. \A q \in Procs : session[q] = "stopped" => loop'[q] = loop[q]
    BY <1>1, <2>2 DEF Request, Stopped
  <2>4. QED
    BY <1>1, <2>1, <2>2, <2>3 DEF SessionInv, Stopped
<1>5. ASSUME NEW p \in Procs, SessionStep(p) PROVE SessionInv'
  <2>1. \A q \in Procs \ {p} : /\ session'[q] = session[q] /\ loop'[q] = loop[q] /\ poll'[q] = poll[q]
                               /\ retry'[q] = retry[q] /\ watcher'[q] = watcher[q]
    BY <1>1, <1>5 DEF SessionStep, Load, SessionStart, ShutdownBegin, ShutdownEnd, Exit,
       RegisterCurrent, BatchOpen, BatchWrite, BatchCancel, cleanupVars, wakeVars
  <2>2. CASE Load(p) \/ SessionStart(p) \/ Exit(p)
    <3>1. session'[p] \in {"new", "running"}
      BY <1>1, <2>2 DEF Load, SessionStart, Exit
    <3>2. QED
      BY <2>1, <3>1 DEF SessionInv, Stopped
  <2>3. CASE ShutdownBegin(p)
    <3>1. session'[p] = "stopping" /\ ~retry'[p] /\ ~poll'[p] /\ watcher'[p] = "off"
      BY <1>1, <2>3 DEF ShutdownBegin
    <3>2. QED
      BY <2>1, <3>1 DEF SessionInv, Stopped
  <2>4. CASE ShutdownEnd(p)
    <3>1. /\ session[p] = "stopping" /\ loop[p] = "none" /\ session'[p] = "stopped"
          /\ UNCHANGED <<loop, retry, poll, watcher>>
      BY <1>1, <2>4 DEF ShutdownEnd, cleanupVars, wakeVars
    <3>2. QED
      BY <2>1, <3>1 DEF SessionInv, Stopped
  <2>5. CASE (\E n \in Incs : RegisterCurrent(p, n)) \/ BatchOpen(p) \/ BatchWrite(p) \/ BatchCancel(p)
    <3>1. UNCHANGED <<session, loop, retry, poll, watcher>>
      BY <2>5 DEF RegisterCurrent, BatchOpen, BatchWrite, BatchCancel, cleanupVars, wakeVars
    <3>2. QED
      BY <3>1 DEF SessionInv, Stopped
  <2>6. QED
    BY <1>5, <2>2, <2>3, <2>4, <2>5 DEF SessionStep
<1>6. QED
  BY <1>2, <1>3, <1>4, <1>5, Steps

-----------------------------------------------------------------------------
(* The types, the turns and the end of sessions, for any number of processes *)

OrderInv == TypeInv /\ QueueInv /\ SessionInv

LEMMA OrderInvNext == OrderInv /\ [Next]_vars => OrderInv'
<1> SUFFICES ASSUME TypeInv, QueueInv, SessionInv, [Next]_vars PROVE OrderInv'
  BY DEF OrderInv
<1>1. TypeInv'
  <2>1. ASSUME NEW p \in Procs, LoopStep(p) PROVE TypeInv'
    <3>1. loop[p] \in LoopPlaces
      BY DEF TypeInv, TypeOK, LoopPlaces
    <3>2. queue[p] # <<>> \/ loop[p] \in {"none", "test", "queued", "end"}
      BY <3>1, Alone DEF LoopPlaces, InTurn, MayRun
    <3>3. QED
      BY <2>1, <3>2, TypeInvLoop
  <2>2. CASE UNCHANGED vars
    BY <2>2 DEF TypeInv, TypeOK, vars, diskVars, procVars, cleanupVars, wakeVars, ghostVars
  <2>3. QED
    BY <2>1, <2>2, Steps, TypeInvTask, TypeInvWake, TypeInvSession, TypeInvOthers DEF TaskBegin
<1>2. QueueInv'
  BY Steps, QueueInvTask, QueueInvLoop, QueueInvRest DEF TaskBegin
<1>3. SessionInv'
  BY SessionInvNext
<1>4. QED
  BY <1>1, <1>2, <1>3 DEF OrderInv

(* In every behaviour of any number of processes, the transactions of an id in one process
   run one at a time, in the order in which they came, the logout cleanup among them; and
   an ended session is quiet. *)
THEOREM OrderInvariant == Spec => []OrderInv
<1>1. Init => OrderInv
  <2>1. Init => SessionInv
    BY DEF Init, SessionInv, Stopped
  <2>2. QED
    BY <2>1, TypeInvInit, QueueInvInit DEF OrderInv
<1>2. QED
  BY <1>1, OrderInvNext, PTL DEF Spec

(* The values of the model stay in their sets, and no counter passes its bound. *)
THEOREM TypeCorrect == Spec => []TypeOK
<1>1. OrderInv => TypeOK
  BY DEF OrderInv, TypeInv
<1>2. QED
  BY <1>1, OrderInvariant, PTL

(* Once session_shutdown has returned, no cleanup runs and nothing can start one. *)
THEOREM SessionsStop == Spec => []StoppedIsQuiet
<1>1. OrderInv => StoppedIsQuiet
  BY DEF OrderInv, SessionInv, StoppedIsQuiet, Stopped
<1>2. QED
  BY <1>1, OrderInvariant, PTL

-----------------------------------------------------------------------------
(* What the places say of the id, with one process *)

One == \A p, q \in Procs : p = q

(* A process that is not up holds nothing, and nothing wakes it. *)
DownInv ==
    \A p \in Procs : ~up[p] =>
        /\ session[p] = "new" /\ provider[p] = 0 /\ runtime[p] = 0 /\ open[p] = {}
        /\ refreshing[p] = {} /\ batch[p] = 0 /\ queue[p] = <<>> /\ loop[p] = "none"
        /\ ~retry[p] /\ ~event[p] /\ ~poll[p] /\ watcher[p] = "off"

LoginPlaces == {"assert", "credential", "entry", "undo", "register", "abandon"}
LoginInv ==
    /\ \A t \in Tasks : task[t].kind = "login" => task[t].inc # 0
    /\ \A t \in Tasks : task[t].pc \in LoginPlaces => task[t].kind = "login"

(* Nobody else touches the entry while a transaction of the id runs, and the provider of
   the map is the one of the entry. *)
EntryInv ==
    /\ \A p \in Procs : provider[p] \in {0, entry}
    /\ \A t \in Tasks : task[t].pc \in {"assert", "credential", "entry", "undo"} => entry = 0
    /\ \A t \in Tasks : task[t].pc = "register" => entry = task[t].inc /\ provider[task[t].proc] = 0
    /\ \A t \in Tasks : task[t].pc \in {"shutdown", "registry", "auth", "overrides"} =>
          provider[task[t].proc] = 0
    /\ \A p \in Procs : loop[p] \in InTurn => provider[p] = 0
    /\ \A p \in Procs : loop[p] \in {"retire", "registry"} => entry = victim[p]

OpenInv == \A p \in Procs : open[p] \subseteq {provider[p]} \ {0}

RegisteredInv ==
    \A p \in Procs : runtime[p] \notin {0, provider[p]} =>
        \/ loop[p] = "retire"
        \/ \E t \in Tasks : task[t].pc = "shutdown" /\ task[t].proc = p
        \/ partial /\ "io" \in world

(* A credential that is not the entry's is one a login may still undo, or a removal is
   about to delete; the cleanup removes an entry only after its credential. *)
CredInv ==
    "relogin" \notin world =>
        /\ ~partial =>
              \/ auth.cred \in {0, entry}
              \/ \E t \in Tasks : task[t].pc \in {"entry", "undo"} /\ task[t].inc = auth.cred
              \/ \E t \in Tasks : task[t].pc = "auth"
        /\ \A p \in Procs : loop[p] \in {"retire", "registry"} => auth.cred = 0

OverInv ==
    ~partial =>
        \/ overrides \subseteq ({entry} \ {0}) \cup late
        \/ \E t \in Tasks : task[t].pc \in {"auth", "overrides"}
        \/ \E p \in Procs : loop[p] = "overrides"

(* Surroundings in which a missing credential means a logout: no other id's transaction
   creates auth.json while it is away, and no failure comes on top of a gap or a login. *)
Ordinary(w) == "others" \notin w /\ ("io" \in w => w \cap {"gaps", "relogin"} = {})

LogoutInv ==
    Ordinary(world) =>
        /\ auth.cred # 0 /\ entry # 0 => auth.cred = entry
        /\ auth.cred = 0 /\ entry # 0 => entry \in loggedOut
        /\ \A t \in Tasks : task[t].pc = "entry" =>
              auth.cred \in {0, task[t].inc} /\ (auth.cred = 0 => task[t].inc \in loggedOut)
        /\ "io" \notin world =>
              /\ \A p \in Procs : runtime[p] \in {0, entry}
              /\ \A t \in Tasks : task[t].pc \in {"auth", "overrides"} => entry = 0
        /\ "gaps" \notin world => auth.state = "ok"

PlacesInv ==
    /\ DownInv /\ LoginInv /\ EntryInv /\ OpenInv /\ RegisteredInv /\ CredInv /\ OverInv /\ LogoutInv

LEMMA PlacesInvInit == Init => PlacesInv
<1> SUFFICES ASSUME Init PROVE PlacesInv
  OBVIOUS
<1>1. /\ \A p \in Procs : /\ provider[p] = 0 /\ runtime[p] = 0 /\ open[p] = {} /\ refreshing[p] = {}
                          /\ batch[p] = 0 /\ queue[p] = <<>> /\ loop[p] = "none" /\ session[p] = "new"
                          /\ ~retry[p] /\ ~event[p] /\ ~poll[p] /\ watcher[p] = "off"
      /\ \A t \in Tasks : task[t].pc = "free" /\ task[t].kind = "none"
      /\ entry = auth.cred /\ auth.state = "ok" /\ overrides \subseteq {entry} \ {0}
  BY DEF Init, NoTask
<1>2. DownInv /\ LoginInv /\ EntryInv
  BY <1>1 DEF DownInv, LoginInv, EntryInv, LoginPlaces, InTurn
<1>3. OpenInv /\ RegisteredInv /\ CredInv /\ OverInv /\ LogoutInv
  BY <1>1 DEF OpenInv, RegisteredInv, CredInv, OverInv, LogoutInv
<1>4. QED
  BY <1>2, <1>3 DEF PlacesInv

(* The transaction that moves is the only one at work. *)
LEMMA TaskTurn ==
    ASSUME One, OrderInv, PlacesInv, NEW t \in Tasks, TaskStep(t)
    PROVE  /\ task[t].proc \in Procs /\ up[task[t].proc] /\ \A q \in Procs : q = task[t].proc
           /\ \A q \in Procs : loop[q] \notin InTurn
           /\ \A u \in Tasks \ {t} : task'[u] = task[u] /\ task[u].pc \in {"free", "queued"}
           /\ \A pc : Move(t, pc) => /\ task'[t].pc = pc /\ task'[t].inc = task[t].inc
                                     /\ task'[t].kind = task[t].kind /\ task'[t].proc = task[t].proc
           /\ EndTask(t) => task'[t].pc = "free" /\ task'[t].kind = "none"
<1>1. TypeInv /\ QueueInv /\ DownInv
  BY DEF OrderInv, PlacesInv
<1>2. /\ InFlight(task[t]) /\ MayRun(task[t].proc, t)
      /\ \/ EndTask(t)
         \/ \E i \in Incs, pc \in Places \ {"queued"} :
               task' = [task EXCEPT ![t] = [task[t] EXCEPT !.inc = i, !.pc = pc]]
  BY <1>1, TaskMoves
<1>3. task \in [Tasks -> TaskRecords] /\ task[t] \in TaskRecords /\ Cleanup # t
  BY <1>1, LifecycleBounds DEF TypeInv, TypeOK
<1>4. task[t].proc \in Procs /\ \A q \in Procs : q = task[t].proc
  BY <1>2 DEF InFlight, One
<1>5. up[task[t].proc]
  BY <1>1, <1>2, <1>4 DEF DownInv, MayRun
<1>6. \A q \in Procs : loop[q] \notin InTurn
  BY <1>1, <1>2, <1>3, <1>4 DEF QueueInv, MayRun
<1>7. \A u \in Tasks \ {t} : task'[u] = task[u]
  BY <1>2, <1>3 DEF EndTask
<1>8. \A u \in Tasks \ {t} : task[u].pc \in {"free", "queued"}
  <2>1. \A u \in Tasks : task[u].pc # "free" => task[u].proc \in Procs
    BY <1>1 DEF TypeInv, InFlight, NoTask
  <2>2. QED
    BY <1>1, <1>2, <1>4, <2>1 DEF QueueInv, MayRun
<1>9. \A pc : Move(t, pc) => /\ task'[t].pc = pc /\ task'[t].inc = task[t].inc
                             /\ task'[t].kind = task[t].kind /\ task'[t].proc = task[t].proc
  BY <1>3 DEF Move, TaskRecords
<1>10. EndTask(t) => task'[t].pc = "free" /\ task'[t].kind = "none"
  BY <1>3 DEF EndTask, NoTask
<1>11. QED
  BY <1>4, <1>5, <1>6, <1>7, <1>8, <1>9, <1>10

(* Beginning a transaction changes no place. *)
LEMMA PlacesBegin ==
    ASSUME One, OrderInv, PlacesInv, NEW t \in Tasks, TaskBegin(t)
    PROVE  PlacesInv'
<1>1. PICK p \in Procs : LoginBegin(t, p) \/ RemoveBegin(t, p)
  BY DEF TaskBegin
<1>2. /\ UNCHANGED <<world, up, session, refreshing, batch, loop, requested, victim, retry, retries,
                     watcher, event, poll, seen, late, entry, auth, overrides, provider, runtime, open,
                     loggedOut, early, partial>>
  BY <1>1 DEF LoginBegin, RemoveBegin, diskVars, procVars, cleanupVars, wakeVars, ghostVars
<1>3. /\ \A u \in Tasks \ {t} : task'[u] = task[u]
      /\ task'[t].pc = "queued" /\ task[t].pc = "free"
      /\ task'[t].kind = "login" => task'[t].inc # 0
  <2>1. task \in [Tasks -> TaskRecords] /\ made \in Nat /\ (task[t].kind = "none" => task[t] = NoTask)
    BY DEF OrderInv, TypeInv, TypeOK, InFlight, Incs
  <2>2. QED
    BY <1>1, <2>1 DEF LoginBegin, RemoveBegin, NoTask
<1>4. \A q \in Procs : up[q]
  BY <1>1 DEF PlacesInv, DownInv, LoginBegin, RemoveBegin, One
<1>5. DownInv'
  BY <1>2, <1>4 DEF DownInv
<1>6. LoginInv'
  BY <1>3 DEF LoginInv, LoginPlaces, PlacesInv
<1>7. EntryInv' /\ OpenInv'
  BY <1>2, <1>3 DEF EntryInv, OpenInv, PlacesInv
<1>8. RegisteredInv' /\ OverInv'
  BY <1>2, <1>3 DEF RegisteredInv, OverInv, PlacesInv
<1>9. CredInv' /\ LogoutInv'
  BY <1>2, <1>3 DEF CredInv, LogoutInv, Ordinary, PlacesInv
<1>10. QED
  BY <1>5, <1>6, <1>7, <1>8, <1>9 DEF PlacesInv

(* A transaction at work keeps the places in agreement. *)
LEMMA PlacesTask ==
    ASSUME One, OrderInv, PlacesInv, NEW t \in Tasks, TaskStep(t)
    PROVE  PlacesInv'
<1>1. /\ \A q \in Procs : up[q] /\ q = task[t].proc
      /\ task[t].proc \in Procs
      /\ \A q \in Procs : loop[q] \notin InTurn
      /\ \A u \in Tasks \ {t} : task'[u] = task[u] /\ task[u].pc \in {"free", "queued"}
  <2>1. /\ task[t].proc \in Procs /\ up[task[t].proc] /\ \A q \in Procs : q = task[t].proc
        /\ \A q \in Procs : loop[q] \notin InTurn
        /\ \A u \in Tasks \ {t} : task'[u] = task[u] /\ task[u].pc \in {"free", "queued"}
    BY TaskTurn
  <2>2. QED
    BY <2>1
<1>2. /\ \A pc : Move(t, pc) => /\ task'[t].pc = pc /\ task'[t].inc = task[t].inc
                                /\ task'[t].kind = task[t].kind /\ task'[t].proc = task[t].proc
      /\ EndTask(t) => task'[t].pc = "free" /\ task'[t].kind = "none"
  BY TaskTurn
<1>3. UNCHANGED <<world, up, session, refreshing, batch, loop, requested, victim, retry, retries,
                  watcher, poll, seen, late>>
  BY TaskFrame DEF cleanupVars
<1>4. /\ provider \in [Procs -> Incs] /\ runtime \in [Procs -> Incs] /\ open \in [Procs -> SUBSET Incs]
      /\ task \in [Tasks -> TaskRecords] /\ task[t] \in TaskRecords
      /\ auth.state \in {"ok", "missing", "garbled"} /\ partial \in BOOLEAN
  BY DEF OrderInv, TypeInv, TypeOK
<1>5. DownInv'
  BY <1>1, <1>3 DEF DownInv
<1>6. LoginInv /\ EntryInv /\ OpenInv /\ RegisteredInv /\ CredInv /\ OverInv /\ LogoutInv
  BY DEF PlacesInv
<1>7. CASE LoginCheck(t)
  <2>1. /\ UNCHANGED <<entry, auth, overrides, provider, runtime, open, loggedOut, partial>>
        /\ task[t].kind = "login" /\ task[t].pc = "queued"
        /\ \/ entry = 0 /\ task'[t].pc = "assert" /\ task'[t].inc = task[t].inc
              /\ task'[t].kind = task[t].kind /\ task'[t].proc = task[t].proc
           \/ task'[t].pc = "free" /\ task'[t].kind = "none"
    BY <1>1, <1>2, <1>4, <1>7 DEF LoginCheck, diskVars, procVars, wakeVars, ghostVars, Running
  <2>2. LoginInv'
    BY <1>1, <1>6, <2>1 DEF LoginInv, LoginPlaces
  <2>3. EntryInv'
    BY <1>1, <1>3, <1>6, <2>1 DEF EntryInv, InTurn
  <2>4. OpenInv'
    BY <1>1, <1>3, <1>6, <2>1 DEF OpenInv, EntryInv, LoginInv, LoginPlaces
  <2>5. RegisteredInv'
    BY <1>1, <1>3, <1>6, <2>1 DEF RegisteredInv, EntryInv
  <2>6. CredInv'
    BY <1>1, <1>3, <1>6, <2>1 DEF CredInv, EntryInv, InTurn
  <2>7. OverInv'
    BY <1>1, <1>3, <1>6, <2>1 DEF OverInv, EntryInv, InTurn
  <2>8. LogoutInv'
    BY <1>1, <1>3, <1>6, <2>1 DEF LogoutInv, EntryInv, RegisteredInv, Ordinary, InTurn
  <2>9. QED
    BY <1>5, <2>2, <2>3, <2>4, <2>5, <2>6, <2>7, <2>8 DEF PlacesInv
<1>8. CASE LoginAssert(t)
  <2>1. /\ UNCHANGED <<entry, overrides, provider, runtime, open, loggedOut, partial>>
        /\ task[t].pc = "assert"
        /\ auth' = auth \/ (auth'.state = "ok" /\ auth'.cred = 0)
        /\ \/ task'[t].pc = "credential" /\ task'[t].inc = task[t].inc
              /\ task'[t].kind = task[t].kind /\ task'[t].proc = task[t].proc
           \/ task'[t].pc = "free" /\ task'[t].kind = "none"
    BY <1>1, <1>2, <1>4, <1>8 DEF LoginAssert, diskVars, procVars, wakeVars, ghostVars, Running, AuthBecomes
  <2>2. LoginInv'
    BY <1>1, <1>6, <2>1 DEF LoginInv, LoginPlaces
  <2>3. EntryInv'
    BY <1>1, <1>3, <1>6, <2>1 DEF EntryInv, InTurn
  <2>4. OpenInv'
    BY <1>1, <1>3, <1>6, <2>1 DEF OpenInv, EntryInv, LoginInv, LoginPlaces
  <2>5. RegisteredInv'
    BY <1>1, <1>3, <1>6, <2>1 DEF RegisteredInv, EntryInv
  <2>6. CredInv'
    BY <1>1, <1>3, <1>6, <2>1 DEF CredInv, EntryInv, InTurn
  <2>7. OverInv'
    BY <1>1, <1>3, <1>6, <2>1 DEF OverInv, EntryInv, InTurn
  <2>8. LogoutInv'
    BY <1>1, <1>3, <1>6, <2>1 DEF LogoutInv, EntryInv, RegisteredInv, Ordinary, InTurn
  <2>9. QED
    BY <1>5, <2>2, <2>3, <2>4, <2>5, <2>6, <2>7, <2>8 DEF PlacesInv
<1>9. CASE LoginCredential(t)
  <2>1. /\ UNCHANGED <<entry, overrides, provider, runtime, open, loggedOut, partial>>
        /\ task[t].pc = "credential"
        /\ \/ task'[t].pc = "entry" /\ task'[t].inc = task[t].inc
              /\ task'[t].kind = task[t].kind /\ task'[t].proc = task[t].proc
              /\ auth'.state = "ok" /\ auth'.cred = task[t].inc
           \/ task'[t].pc = "free" /\ task'[t].kind = "none" /\ auth' = auth
    BY <1>1, <1>2, <1>4, <1>9 DEF LoginCredential, diskVars, procVars, wakeVars, ghostVars, Running, AuthBecomes, Works, Refuses, LoggedIn
  <2>2. LoginInv'
    BY <1>1, <1>6, <2>1 DEF LoginInv, LoginPlaces
  <2>3. EntryInv'
    BY <1>1, <1>3, <1>6, <2>1 DEF EntryInv, InTurn
  <2>4. OpenInv'
    BY <1>1, <1>3, <1>6, <2>1 DEF OpenInv, EntryInv, LoginInv, LoginPlaces
  <2>5. RegisteredInv'
    BY <1>1, <1>3, <1>6, <2>1 DEF RegisteredInv, EntryInv
  <2>6. CredInv'
    BY <1>1, <1>3, <1>6, <2>1 DEF CredInv, EntryInv, InTurn
  <2>7. OverInv'
    BY <1>1, <1>3, <1>6, <2>1 DEF OverInv, EntryInv, InTurn
  <2>8. LogoutInv'
    BY <1>1, <1>3, <1>6, <2>1 DEF LogoutInv, EntryInv, LoginInv, LoginPlaces, Ordinary
  <2>9. QED
    BY <1>5, <2>2, <2>3, <2>4, <2>5, <2>6, <2>7, <2>8 DEF PlacesInv
<1>10. CASE LoginEntry(t)
  <2>1. /\ UNCHANGED <<auth, overrides, provider, runtime, open, loggedOut, partial>>
        /\ task[t].pc = "entry"
        /\ task'[t].inc = task[t].inc /\ task'[t].kind = task[t].kind /\ task'[t].proc = task[t].proc
        /\ \/ task'[t].pc = "register" /\ entry = 0 /\ entry' = task[t].inc
           \/ task'[t].pc = "undo" /\ entry' = entry
    BY <1>1, <1>2, <1>4, <1>10 DEF LoginEntry, diskVars, procVars, wakeVars, ghostVars, Running, Works, Refuses
  <2>2. LoginInv'
    BY <1>1, <1>6, <2>1 DEF LoginInv, LoginPlaces
  <2>3. EntryInv'
    BY <1>1, <1>3, <1>6, <2>1 DEF EntryInv, InTurn
  <2>4. OpenInv'
    BY <1>1, <1>3, <1>6, <2>1 DEF OpenInv, EntryInv, LoginInv, LoginPlaces
  <2>5. RegisteredInv'
    BY <1>1, <1>3, <1>6, <2>1 DEF RegisteredInv, EntryInv
  <2>6. CredInv'
    BY <1>1, <1>3, <1>6, <2>1 DEF CredInv, EntryInv, InTurn
  <2>7. OverInv'
    BY <1>1, <1>3, <1>6, <2>1 DEF OverInv, EntryInv, InTurn
  <2>8. LogoutInv'
    BY <1>1, <1>3, <1>6, <2>1 DEF LogoutInv, EntryInv, RegisteredInv, Ordinary, InTurn
  <2>9. QED
    BY <1>5, <2>2, <2>3, <2>4, <2>5, <2>6, <2>7, <2>8 DEF PlacesInv
<1>11. CASE LoginUndo(t)
  <2>1. /\ UNCHANGED <<entry, overrides, provider, runtime, open>>
        /\ task[t].pc = "undo" /\ task'[t].pc = "free" /\ task'[t].kind = "none"
        /\ \/ /\ auth'.state = "ok" /\ auth'.cred = 0 /\ partial' = partial
              /\ loggedOut \subseteq loggedOut'
           \/ auth' = auth /\ UNCHANGED loggedOut /\ (partial' = TRUE \/ (partial' = partial /\ auth.cred # task[t].inc))
    BY <1>1, <1>2, <1>4, <1>11 DEF LoginUndo, diskVars, procVars, wakeVars, ghostVars, Running, AuthBecomes, Works, Fails, CredDeleted
  <2>2. LoginInv'
    BY <1>1, <1>6, <2>1 DEF LoginInv, LoginPlaces
  <2>3. EntryInv'
    BY <1>1, <1>3, <1>6, <2>1 DEF EntryInv, InTurn
  <2>4. OpenInv'
    BY <1>1, <1>3, <1>6, <2>1 DEF OpenInv, EntryInv, LoginInv, LoginPlaces
  <2>5. RegisteredInv'
    BY <1>1, <1>3, <1>6, <2>1 DEF RegisteredInv, EntryInv
  <2>6. CredInv'
    BY <1>1, <1>3, <1>6, <2>1 DEF CredInv, EntryInv, InTurn
  <2>7. OverInv'
    BY <1>1, <1>3, <1>6, <2>1 DEF OverInv, EntryInv, InTurn
  <2>8. LogoutInv'
    BY <1>1, <1>3, <1>6, <2>1 DEF LogoutInv, EntryInv, RegisteredInv, Ordinary, InTurn
  <2>9. QED
    BY <1>5, <2>2, <2>3, <2>4, <2>5, <2>6, <2>7, <2>8 DEF PlacesInv
<1>12. CASE LoginRegister(t)
  <2>1. /\ UNCHANGED <<entry, auth, overrides, loggedOut, partial>>
        /\ task[t].pc = "register"
        /\ \/ /\ \A q \in Procs : /\ provider'[q] = task[t].inc /\ runtime'[q] = task[t].inc
                                   /\ open'[q] = open[q] \cup {task[t].inc}
              /\ task'[t].pc = "free" /\ task'[t].kind = "none"
           \/ /\ \A q \in Procs : provider'[q] = 0
              /\ UNCHANGED <<runtime, open>>
              /\ task'[t].pc = "abandon" /\ task'[t].inc = task[t].inc
              /\ task'[t].kind = task[t].kind /\ task'[t].proc = task[t].proc
    BY <1>1, <1>2, <1>4, <1>12 DEF LoginRegister, diskVars, procVars, wakeVars, ghostVars, Running, Works, Refuses
  <2>2. LoginInv'
    BY <1>1, <1>6, <2>1 DEF LoginInv, LoginPlaces
  <2>3. EntryInv'
    BY <1>1, <1>3, <1>6, <2>1 DEF EntryInv, InTurn
  <2>4. OpenInv'
    BY <1>1, <1>3, <1>6, <2>1 DEF OpenInv, EntryInv, LoginInv, LoginPlaces
  <2>5. RegisteredInv'
    BY <1>1, <1>3, <1>6, <2>1 DEF RegisteredInv, EntryInv
  <2>6. CredInv'
    BY <1>1, <1>3, <1>6, <2>1 DEF CredInv, EntryInv, InTurn
  <2>7. OverInv'
    BY <1>1, <1>3, <1>6, <2>1 DEF OverInv, EntryInv, InTurn
  <2>8. LogoutInv'
    BY <1>1, <1>3, <1>6, <2>1 DEF LogoutInv, EntryInv, RegisteredInv, Ordinary, InTurn
  <2>9. QED
    BY <1>5, <2>2, <2>3, <2>4, <2>5, <2>6, <2>7, <2>8 DEF PlacesInv
<1>13. CASE LoginAbandon(t)
  <2>1. /\ UNCHANGED <<entry, auth, overrides, provider, runtime, open, loggedOut, partial>>
        /\ task[t].pc = "abandon" /\ task'[t].pc = "free" /\ task'[t].kind = "none"
    BY <1>1, <1>2, <1>4, <1>13 DEF LoginAbandon, diskVars, procVars, wakeVars, ghostVars, Running
  <2>2. LoginInv'
    BY <1>1, <1>6, <2>1 DEF LoginInv, LoginPlaces
  <2>3. EntryInv'
    BY <1>1, <1>3, <1>6, <2>1 DEF EntryInv, InTurn
  <2>4. OpenInv'
    BY <1>1, <1>3, <1>6, <2>1 DEF OpenInv, EntryInv, LoginInv, LoginPlaces
  <2>5. RegisteredInv'
    BY <1>1, <1>3, <1>6, <2>1 DEF RegisteredInv, EntryInv
  <2>6. CredInv'
    BY <1>1, <1>3, <1>6, <2>1 DEF CredInv, EntryInv, InTurn
  <2>7. OverInv'
    BY <1>1, <1>3, <1>6, <2>1 DEF OverInv, EntryInv, InTurn
  <2>8. LogoutInv'
    BY <1>1, <1>3, <1>6, <2>1 DEF LogoutInv, EntryInv, RegisteredInv, Ordinary, InTurn
  <2>9. QED
    BY <1>5, <2>2, <2>3, <2>4, <2>5, <2>6, <2>7, <2>8 DEF PlacesInv
<1>14. CASE RemoveCheck(t)
  <2>1. /\ UNCHANGED <<entry, auth, overrides, runtime, loggedOut, partial>>
        /\ task[t].kind = "remove" /\ task[t].pc = "queued"
        /\ \/ UNCHANGED <<provider, open>> /\ task'[t].pc = "free" /\ task'[t].kind = "none"
           \/ /\ \A q \in Procs : /\ provider'[q] = 0
                                   /\ open'[q] = open[q] \ {provider[q]}
              /\ task'[t].pc = "shutdown"
              /\ task'[t].kind = task[t].kind /\ task'[t].proc = task[t].proc
    <3>1. /\ UNCHANGED <<entry, auth, overrides, runtime, loggedOut, partial>>
          /\ task[t].kind = "remove" /\ task[t].pc = "queued"
      BY <1>14 DEF RemoveCheck, diskVars, ghostVars, Running
    <3>2. CASE entry = 0
      BY <1>2, <1>14, <3>1, <3>2 DEF RemoveCheck
    <3>3. CASE entry # 0
      <4>1. /\ task' = [task EXCEPT ![t] = [task[t] EXCEPT !.inc = provider[task[t].proc],
                                                           !.pc = "shutdown"]]
            /\ provider' = [provider EXCEPT ![task[t].proc] = 0]
            /\ open' = [open EXCEPT ![task[t].proc] = open[task[t].proc] \ {provider[task[t].proc]}]
        BY <1>4, <1>14, <3>3 DEF RemoveCheck
      <4>2. task'[t].pc = "shutdown" /\ task'[t].kind = task[t].kind /\ task'[t].proc = task[t].proc
        BY <1>4, <4>1 DEF TaskRecords
      <4>3. \A q \in Procs : provider'[q] = 0 /\ open'[q] = open[q] \ {provider[q]}
        BY <1>1, <1>4, <4>1
      <4>4. QED
        BY <3>1, <4>2, <4>3
    <3>4. QED
      BY <3>2, <3>3
  <2>2. LoginInv'
    BY <1>1, <1>6, <2>1 DEF LoginInv, LoginPlaces
  <2>3. EntryInv'
    BY <1>1, <1>3, <1>6, <2>1 DEF EntryInv, InTurn
  <2>4. OpenInv'
    BY <1>1, <1>3, <1>6, <2>1 DEF OpenInv, EntryInv, LoginInv, LoginPlaces
  <2>5. RegisteredInv'
    BY <1>1, <1>3, <1>6, <2>1 DEF RegisteredInv, EntryInv
  <2>6. CredInv'
    BY <1>1, <1>3, <1>6, <2>1 DEF CredInv, EntryInv, InTurn
  <2>7. OverInv'
    BY <1>1, <1>3, <1>6, <2>1 DEF OverInv, EntryInv, InTurn
  <2>8. LogoutInv'
    BY <1>1, <1>3, <1>6, <2>1 DEF LogoutInv, EntryInv, RegisteredInv, Ordinary, InTurn
  <2>9. QED
    BY <1>5, <2>2, <2>3, <2>4, <2>5, <2>6, <2>7, <2>8 DEF PlacesInv
<1>15. CASE RemoveUnregister(t)
  <2>1. /\ UNCHANGED <<entry, auth, overrides, provider, open, loggedOut>>
        /\ task[t].pc = "shutdown"
        /\ task'[t].inc = task[t].inc /\ task'[t].kind = task[t].kind /\ task'[t].proc = task[t].proc
        /\ task'[t].pc = "registry"
        /\ \/ partial' = partial /\ \A q \in Procs : runtime'[q] = 0
           \/ partial' = TRUE /\ "io" \in world /\ \A q \in Procs : runtime'[q] \in {0, runtime[q]}
    BY <1>1, <1>2, <1>4, <1>15 DEF RemoveUnregister, diskVars, procVars, wakeVars, ghostVars, Running, Works, Fails
  <2>2. LoginInv'
    BY <1>1, <1>6, <2>1 DEF LoginInv, LoginPlaces
  <2>3. EntryInv'
    BY <1>1, <1>3, <1>6, <2>1 DEF EntryInv, InTurn
  <2>4. OpenInv'
    BY <1>1, <1>3, <1>6, <2>1 DEF OpenInv, EntryInv, LoginInv, LoginPlaces
  <2>5. RegisteredInv'
    BY <1>1, <1>3, <1>6, <2>1 DEF RegisteredInv, EntryInv
  <2>6. CredInv'
    BY <1>1, <1>3, <1>6, <2>1 DEF CredInv, EntryInv, InTurn
  <2>7. OverInv'
    BY <1>1, <1>3, <1>6, <2>1 DEF OverInv, EntryInv, InTurn
  <2>8. LogoutInv'
    BY <1>1, <1>3, <1>6, <2>1 DEF LogoutInv, EntryInv, RegisteredInv, Ordinary, InTurn
  <2>9. QED
    BY <1>5, <2>2, <2>3, <2>4, <2>5, <2>6, <2>7, <2>8 DEF PlacesInv
<1>16. CASE RemoveRegistry(t)
  <2>1. /\ UNCHANGED <<auth, overrides, provider, runtime, open, loggedOut>>
        /\ task[t].pc = "registry"
        /\ task'[t].inc = task[t].inc /\ task'[t].kind = task[t].kind /\ task'[t].proc = task[t].proc
        /\ task'[t].pc = "auth"
        /\ \/ partial' = partial /\ entry' = 0
           \/ partial' = TRUE /\ "io" \in world /\ entry' = entry
    BY <1>1, <1>2, <1>4, <1>16 DEF RemoveRegistry, diskVars, procVars, wakeVars, ghostVars, Running, Works, Fails
  <2>2. LoginInv'
    BY <1>1, <1>6, <2>1 DEF LoginInv, LoginPlaces
  <2>3. EntryInv'
    BY <1>1, <1>3, <1>6, <2>1 DEF EntryInv, InTurn
  <2>4. OpenInv'
    BY <1>1, <1>3, <1>6, <2>1 DEF OpenInv, EntryInv, LoginInv, LoginPlaces
  <2>5. RegisteredInv'
    BY <1>1, <1>3, <1>6, <2>1 DEF RegisteredInv, EntryInv
  <2>6. CredInv'
    BY <1>1, <1>3, <1>6, <2>1 DEF CredInv, EntryInv, InTurn
  <2>7. OverInv'
    BY <1>1, <1>3, <1>6, <2>1 DEF OverInv, EntryInv, InTurn
  <2>8. LogoutInv'
    BY <1>1, <1>3, <1>6, <2>1 DEF LogoutInv, EntryInv, RegisteredInv, Ordinary, InTurn
  <2>9. QED
    BY <1>5, <2>2, <2>3, <2>4, <2>5, <2>6, <2>7, <2>8 DEF PlacesInv
<1>17. CASE RemoveAuth(t)
  <2>1. /\ UNCHANGED <<entry, overrides, provider, runtime, open>>
        /\ task[t].pc = "auth"
        /\ task'[t].inc = task[t].inc /\ task'[t].kind = task[t].kind /\ task'[t].proc = task[t].proc
        /\ task'[t].pc = "overrides"
        /\ \/ /\ auth'.cred = 0 /\ partial' = partial /\ auth'.state = "ok"
              /\ \/ loggedOut' = loggedOut \cup ({auth.cred} \ {0})
                 \/ auth.state = "missing" /\ UNCHANGED loggedOut
           \/ auth' = auth /\ UNCHANGED loggedOut /\ partial' = partial /\ auth.cred = 0
           \/ auth' = auth /\ UNCHANGED loggedOut /\ partial' = TRUE
    BY <1>1, <1>2, <1>4, <1>17 DEF RemoveAuth, diskVars, procVars, wakeVars, ghostVars, Running, AuthBecomes, Works, Fails, CredDeleted, LoggedIn
  <2>2. LoginInv'
    BY <1>1, <1>6, <2>1 DEF LoginInv, LoginPlaces
  <2>3. EntryInv'
    BY <1>1, <1>3, <1>6, <2>1 DEF EntryInv, InTurn
  <2>4. OpenInv'
    BY <1>1, <1>3, <1>6, <2>1 DEF OpenInv, EntryInv, LoginInv, LoginPlaces
  <2>5. RegisteredInv'
    BY <1>1, <1>3, <1>6, <2>1 DEF RegisteredInv, EntryInv
  <2>6. CredInv'
    BY <1>1, <1>3, <1>6, <2>1 DEF CredInv, EntryInv, InTurn
  <2>7. OverInv'
    BY <1>1, <1>3, <1>6, <2>1 DEF OverInv, EntryInv, InTurn
  <2>8. LogoutInv'
    BY <1>1, <1>3, <1>6, <2>1 DEF LogoutInv, EntryInv, RegisteredInv, Ordinary, InTurn
  <2>9. QED
    BY <1>5, <2>2, <2>3, <2>4, <2>5, <2>6, <2>7, <2>8 DEF PlacesInv
<1>18. CASE RemoveOverrides(t)
  <2>1. /\ UNCHANGED <<entry, auth, provider, runtime, open, loggedOut>>
        /\ task[t].pc = "overrides" /\ task'[t].pc = "free" /\ task'[t].kind = "none"
        /\ (partial' = partial /\ overrides' = {}) \/ (partial' = TRUE /\ overrides' = overrides)
    BY <1>1, <1>2, <1>4, <1>18 DEF RemoveOverrides, diskVars, procVars, wakeVars, ghostVars, Running, Works, Fails
  <2>2. LoginInv'
    BY <1>1, <1>6, <2>1 DEF LoginInv, LoginPlaces
  <2>3. EntryInv'
    BY <1>1, <1>3, <1>6, <2>1 DEF EntryInv, InTurn
  <2>4. OpenInv'
    BY <1>1, <1>3, <1>6, <2>1 DEF OpenInv, EntryInv, LoginInv, LoginPlaces
  <2>5. RegisteredInv'
    BY <1>1, <1>3, <1>6, <2>1 DEF RegisteredInv, EntryInv
  <2>6. CredInv'
    BY <1>1, <1>3, <1>6, <2>1 DEF CredInv, EntryInv, InTurn
  <2>7. OverInv'
    BY <1>1, <1>3, <1>6, <2>1 DEF OverInv, EntryInv, InTurn
  <2>8. LogoutInv'
    BY <1>1, <1>3, <1>6, <2>1 DEF LogoutInv, EntryInv, RegisteredInv, Ordinary, InTurn
  <2>9. QED
    BY <1>5, <2>2, <2>3, <2>4, <2>5, <2>6, <2>7, <2>8 DEF PlacesInv
<1>19. QED
  BY <1>7, <1>8, <1>9, <1>10, <1>11, <1>12, <1>13, <1>14, <1>15, <1>16, <1>17, <1>18 DEF TaskStep

(* The cleanup keeps the places in agreement. *)
LEMMA PlacesLoop ==
    ASSUME One, OrderInv, PlacesInv, NEW p \in Procs, LoopStep(p)
    PROVE  PlacesInv'
<1>1. /\ UNCHANGED <<world, auth, up, session, refreshing, batch, task, watcher, event, poll, seen,
                     made, loggedOut, late, early>>
      /\ \A q \in Procs : q = p
  BY LoopFrame DEF wakeVars, One
<1>2. /\ provider \in [Procs -> Incs] /\ runtime \in [Procs -> Incs] /\ open \in [Procs -> SUBSET Incs]
      /\ loop \in [Procs -> LoopPlaces] /\ victim \in [Procs -> Incs] /\ partial \in BOOLEAN
  BY DEF OrderInv, TypeInv, TypeOK, LoopPlaces
<1>3. DownInv /\ LoginInv /\ EntryInv /\ OpenInv /\ RegisteredInv /\ CredInv /\ OverInv /\ LogoutInv
  BY DEF PlacesInv
<1>4. loop[p] # "none"
  BY DEF LoopStep, LoopTest, LoopEnd, LoopFinally, LoopTxn, LoopRetired, LoopRegistry, LoopOverrides
<1>5. DownInv'
  BY <1>1, <1>3, <1>4 DEF DownInv
<1>6. LoginInv'
  BY <1>1, <1>3 DEF LoginInv
<1>7. MayRun(p, Cleanup) => \A t \in Tasks : task[t].pc \in {"free", "queued"}
  <2>1. Cleanup \notin Tasks /\ \A t \in Tasks : task[t].pc # "free" => task[t].proc \in Procs
    BY LifecycleBounds DEF OrderInv, TypeInv, InFlight, NoTask
  <2>2. QED
    BY <1>1, <2>1 DEF OrderInv, QueueInv, MayRun
<1>8. loop[p] \in InTurn => \A t \in Tasks : task[t].pc \in {"free", "queued"}
  <2>1. loop[p] \in InTurn => MayRun(p, Cleanup)
    BY Alone DEF OrderInv
  <2>2. QED
    BY <1>7, <2>1
<1>9. ASSUME UNCHANGED <<entry, overrides, provider, runtime, open, victim, partial>>,
             loop'[p] \notin InTurn, loop[p] \notin InTurn
      PROVE  PlacesInv'
  <2>1. EntryInv' /\ OpenInv'
    BY <1>1, <1>3, <1>9 DEF EntryInv, OpenInv, InTurn
  <2>2. RegisteredInv' /\ OverInv'
    BY <1>1, <1>3, <1>9 DEF RegisteredInv, OverInv, InTurn
  <2>3. CredInv' /\ LogoutInv'
    BY <1>1, <1>3, <1>9 DEF CredInv, LogoutInv, Ordinary, InTurn
  <2>4. QED
    BY <1>5, <1>6, <2>1, <2>2, <2>3 DEF PlacesInv
<1>10. CASE LoopTest(p) \/ LoopEnd(p) \/ LoopFinally(p)
  <2>1. /\ UNCHANGED <<entry, overrides, provider, runtime, open, victim, partial>>
        /\ loop'[p] \notin InTurn /\ loop[p] \notin InTurn
    BY <1>2, <1>10 DEF LoopTest, LoopEnd, LoopFinally, Goto, diskVars, procVars, ghostVars, InTurn
  <2>2. QED
    BY <1>9, <2>1
<1>11. CASE LoopTxn(p)
  <2>1. /\ UNCHANGED <<entry, overrides, runtime, partial>> /\ loop[p] = "queued"
        /\ MayRun(p, Cleanup)
    BY <1>11 DEF LoopTxn, diskVars, ghostVars
  <2>2. CASE ~LogoutSeen \/ entry = 0
    <3>1. UNCHANGED <<provider, open, victim>> /\ loop'[p] = "test"
      BY <1>2, <1>11, <2>2 DEF LoopTxn, Goto
    <3>2. QED
      BY <1>9, <2>1, <3>1 DEF InTurn
  <2>3. CASE LogoutSeen /\ entry # 0
    <3>1. /\ victim'[p] = entry /\ provider'[p] = 0 /\ open'[p] = open[p] \ {provider[p]}
          /\ loop'[p] = IF provider[p] = 0 THEN "registry" ELSE "retire"
      BY <1>2, <1>11, <2>3 DEF LoopTxn, Goto
    <3>2. auth.cred = 0
      BY <2>3 DEF LogoutSeen
    <3>3. \A t \in Tasks : task[t].pc \in {"free", "queued"}
      BY <1>7, <2>1
    <3>4. EntryInv' /\ OpenInv'
      BY <1>1, <1>3, <2>1, <3>1, <3>3 DEF EntryInv, OpenInv, InTurn
    <3>5. RegisteredInv'
      BY <1>1, <1>3, <2>1, <3>1, <3>3 DEF RegisteredInv
    <3>6. CredInv' /\ OverInv'
      BY <1>1, <1>3, <2>1, <3>1, <3>2, <3>3 DEF CredInv, OverInv
    <3>7. LogoutInv'
      BY <1>1, <1>3, <2>1, <3>1, <3>3 DEF LogoutInv, Ordinary
    <3>8. QED
      BY <1>5, <1>6, <3>4, <3>5, <3>6, <3>7 DEF PlacesInv
  <2>4. QED
    BY <2>2, <2>3
<1>12. CASE LoopRetired(p)
  <2>1. /\ UNCHANGED <<entry, overrides, provider, open, victim>> /\ loop[p] = "retire"
        /\ \/ runtime'[p] = 0 /\ loop'[p] = "registry" /\ partial' = partial
           \/ /\ loop'[p] = "test" /\ runtime'[p] \in {0, runtime[p]}
              /\ partial' = TRUE /\ "io" \in world
    <3>1. UNCHANGED <<entry, overrides, provider, open, victim>> /\ loop[p] = "retire"
      BY <1>12 DEF LoopRetired, diskVars
    <3>2. CASE runtime' = [runtime EXCEPT ![p] = 0] /\ Goto(p, "registry") /\ Works
      BY <1>2, <3>1, <3>2 DEF Goto, Works
    <3>3. CASE /\ Fails /\ Goto(p, "test")
               /\ runtime' \in {runtime, [runtime EXCEPT ![p] = 0]}
      <4>1. runtime'[p] \in {0, runtime[p]}
        BY <1>2, <3>3
      <4>2. loop'[p] = "test"
        BY <1>2, <3>3 DEF Goto
      <4>3. QED
        BY <3>1, <3>3, <4>1, <4>2 DEF Fails
    <3>4. QED
      BY <1>12, <3>2, <3>3 DEF LoopRetired
  <2>2. \A t \in Tasks : task[t].pc \in {"free", "queued"}
    BY <1>8, <2>1 DEF InTurn
  <2>3. EntryInv' /\ OpenInv'
    BY <1>1, <1>3, <2>1, <2>2 DEF EntryInv, OpenInv, InTurn
  <2>4. RegisteredInv'
    BY <1>1, <1>3, <2>1, <2>2 DEF RegisteredInv, EntryInv, InTurn
  <2>5. CredInv' /\ OverInv'
    BY <1>1, <1>3, <2>1, <2>2 DEF CredInv, OverInv
  <2>6. LogoutInv'
    BY <1>1, <1>3, <2>1, <2>2 DEF LogoutInv, Ordinary
  <2>7. QED
    BY <1>5, <1>6, <2>3, <2>4, <2>5, <2>6 DEF PlacesInv
<1>13. CASE LoopRegistry(p)
  <2>1. /\ UNCHANGED <<overrides, provider, runtime, open, victim>> /\ loop[p] = "registry"
        /\ loop'[p] = "overrides"
        /\ \/ entry' = 0 /\ partial' = partial
           \/ entry' = entry /\ partial' = TRUE /\ "io" \in world
    BY <1>2, <1>13 DEF LoopRegistry, Goto, Works, Fails, procVars
  <2>2. \A t \in Tasks : task[t].pc \in {"free", "queued"}
    BY <1>8, <2>1 DEF InTurn
  <2>3. EntryInv' /\ OpenInv'
    BY <1>1, <1>3, <2>1, <2>2 DEF EntryInv, OpenInv, InTurn
  <2>4. RegisteredInv'
    BY <1>1, <1>3, <2>1, <2>2 DEF RegisteredInv
  <2>5. CredInv' /\ OverInv'
    BY <1>1, <1>3, <2>1, <2>2 DEF CredInv, OverInv
  <2>6. LogoutInv'
    BY <1>1, <1>3, <2>1, <2>2 DEF LogoutInv, Ordinary, RegisteredInv, EntryInv, InTurn
  <2>7. QED
    BY <1>5, <1>6, <2>3, <2>4, <2>5, <2>6 DEF PlacesInv
<1>14. CASE LoopOverrides(p)
  <2>1. /\ UNCHANGED <<entry, provider, runtime, open, victim>> /\ loop[p] = "overrides"
        /\ loop'[p] = "test"
        /\ \/ overrides' = {} /\ partial' = partial
           \/ overrides' = overrides /\ partial' = TRUE /\ "io" \in world
    BY <1>2, <1>14 DEF LoopOverrides, Goto, Works, Fails, procVars
  <2>2. \A t \in Tasks : task[t].pc \in {"free", "queued"}
    BY <1>8, <2>1 DEF InTurn
  <2>3. EntryInv' /\ OpenInv'
    BY <1>1, <1>3, <2>1, <2>2 DEF EntryInv, OpenInv, InTurn
  <2>4. RegisteredInv'
    BY <1>1, <1>3, <2>1, <2>2 DEF RegisteredInv
  <2>5. CredInv' /\ OverInv'
    BY <1>1, <1>3, <2>1, <2>2 DEF CredInv, OverInv
  <2>6. LogoutInv'
    BY <1>1, <1>3, <2>1, <2>2 DEF LogoutInv, Ordinary
  <2>7. QED
    BY <1>5, <1>6, <2>3, <2>4, <2>5, <2>6 DEF PlacesInv
<1>15. QED
  BY <1>10, <1>11, <1>12, <1>13, <1>14 DEF LoopStep

(* So do the wakings of the cleanup. *)
LEMMA PlacesWake ==
    ASSUME One, OrderInv, PlacesInv, NEW p \in Procs, WakeStep(p)
    PROVE  PlacesInv'
<1>1. /\ UNCHANGED <<world, entry, auth, overrides, up, session, provider, runtime, open, refreshing,
                     batch, queue, task, victim, retries, made, loggedOut, late, early, partial>>
      /\ \A q \in Procs : q = p
  BY WakeFrame DEF diskVars, procVars, ghostVars, One
<1>2. DownInv /\ LoginInv /\ EntryInv /\ OpenInv /\ RegisteredInv /\ CredInv /\ OverInv /\ LogoutInv
  BY DEF PlacesInv
<1>3. /\ loop \in [Procs -> LoopPlaces] /\ retry \in [Procs -> BOOLEAN]
      /\ event \in [Procs -> BOOLEAN] /\ watcher \in [Procs -> {"off", "on", "deaf"}]
  BY DEF OrderInv, TypeInv, TypeOK, LoopPlaces
<1>4. up[p]
  BY <1>2 DEF WakeStep, RetryFires, WatchEvent, PollFires, WatcherDies, DownInv
<1>5. DownInv'
  BY <1>1, <1>4 DEF DownInv
<1>6. loop'[p] = loop[p] \/ (loop[p] = "none" /\ loop'[p] = "test")
  BY <1>3 DEF WakeStep, RetryFires, WatchEvent, PollFires, WatcherDies, Request, cleanupVars
<1>7. LoginInv' /\ EntryInv' /\ OpenInv'
  BY <1>1, <1>2, <1>6 DEF LoginInv, EntryInv, OpenInv, InTurn
<1>8. RegisteredInv' /\ CredInv'
  BY <1>1, <1>2, <1>6 DEF RegisteredInv, CredInv
<1>9. OverInv' /\ LogoutInv'
  BY <1>1, <1>2, <1>6 DEF OverInv, LogoutInv, Ordinary
<1>10. QED
  BY <1>5, <1>7, <1>8, <1>9 DEF PlacesInv

(* So do the sessions of the process, its refreshes, its endpoint batches and its end. *)
LEMMA PlacesSession ==
    ASSUME One, OrderInv, PlacesInv, NEW p \in Procs, SessionStep(p)
    PROVE  PlacesInv'
<1>1. UNCHANGED <<world, entry, auth, victim, made, loggedOut, early>> /\ \A q \in Procs : q = p
  BY SessionFrame DEF One
<1>2. DownInv /\ LoginInv /\ EntryInv /\ OpenInv /\ RegisteredInv /\ CredInv /\ OverInv /\ LogoutInv
  BY DEF PlacesInv
<1>3. /\ provider \in [Procs -> Incs] /\ runtime \in [Procs -> Incs] /\ open \in [Procs -> SUBSET Incs]
      /\ loop \in [Procs -> LoopPlaces] /\ task \in [Tasks -> TaskRecords] /\ up \in [Procs -> BOOLEAN]
      /\ session \in [Procs -> {"new", "running", "stopping", "stopped"}]
      /\ batch \in [Procs -> Incs] /\ refreshing \in [Procs -> SUBSET Incs]
      /\ queue \in [Procs -> Seq(Waiters)] /\ partial \in BOOLEAN
      /\ retry \in [Procs -> BOOLEAN] /\ poll \in [Procs -> BOOLEAN]
      /\ event \in [Procs -> BOOLEAN] /\ watcher \in [Procs -> {"off", "on", "deaf"}]
  BY DEF OrderInv, TypeInv, TypeOK, LoopPlaces
<1>4. CASE Load(p)
  <2>1. /\ UNCHANGED <<overrides, open, refreshing, batch, task, loop, late, partial>>
        /\ up'[p] /\ provider'[p] = runtime'[p] /\ provider'[p] \in {0, entry}
        /\ provider'[p] # 0 => auth.state = "ok" /\ auth.cred # 0
        /\ ~up[p]
    BY <1>3, <1>4 DEF Load, diskVars, cleanupVars, ghostVars, LoggedIn
  <2>2. /\ loop[p] = "none" /\ open[p] = {} /\ queue[p] = <<>>
        /\ \A t \in Tasks : task[t].pc = "free"
    <3>1. loop[p] = "none" /\ open[p] = {} /\ queue[p] = <<>>
      BY <1>2, <2>1 DEF DownInv
    <3>2. \A t \in Tasks : t \notin Members(queue[p])
      BY <3>1 DEF Members
    <3>3. QED
      BY <1>1, <3>1, <3>2 DEF OrderInv, TypeInv, QueueInv, InFlight, NoTask
  <2>3. DownInv' /\ LoginInv' /\ EntryInv' /\ OpenInv'
    BY <1>1, <1>2, <2>1, <2>2 DEF DownInv, LoginInv, EntryInv, OpenInv, InTurn
  <2>4. RegisteredInv' /\ CredInv' /\ OverInv'
    BY <1>1, <1>2, <2>1, <2>2 DEF RegisteredInv, CredInv, OverInv
  <2>5. LogoutInv'
    BY <1>1, <1>2, <2>1, <2>2 DEF LogoutInv, Ordinary
  <2>6. QED
    BY <2>3, <2>4, <2>5 DEF PlacesInv
<1>5. CASE Exit(p)
  <2>1. /\ UNCHANGED overrides /\ late' = late
        /\ provider'[p] = 0 /\ runtime'[p] = 0 /\ open'[p] = {} /\ loop'[p] = "none"
        /\ refreshing'[p] = {} /\ batch'[p] = 0 /\ queue'[p] = <<>> /\ session'[p] = "new"
        /\ ~retry'[p] /\ ~event'[p] /\ ~poll'[p] /\ watcher'[p] = "off"
        /\ (queue[p] # <<>> => partial') /\ (queue[p] = <<>> => partial' = partial)
    BY <1>3, <1>5 DEF Exit, diskVars
  <2>2. \A t \in Tasks : task'[t].pc = "free" /\ task'[t].kind = "none"
    BY <1>1, <1>5 DEF Exit, OrderInv, TypeInv, InFlight, NoTask
  <2>3. DownInv' /\ LoginInv' /\ EntryInv' /\ OpenInv'
    BY <1>1, <2>1, <2>2 DEF DownInv, LoginInv, EntryInv, OpenInv, InTurn, LoginPlaces
  <2>4. queue[p] = <<>> => /\ \A t \in Tasks : task[t].pc = "free"
                           /\ loop[p] \notin InTxn
    <3>1. Members(<<>>) = {}
      BY DEF Members
    <3>2. QED
      BY <1>1, <3>1 DEF OrderInv, TypeInv, QueueInv, InFlight, NoTask
  <2>5. RegisteredInv' /\ CredInv' /\ OverInv'
    BY <1>1, <1>2, <2>1, <2>2, <2>4 DEF RegisteredInv, CredInv, OverInv, InTxn
  <2>6. LogoutInv'
    BY <1>1, <1>2, <2>1, <2>2 DEF LogoutInv, Ordinary
  <2>7. QED
    BY <2>3, <2>5, <2>6 DEF PlacesInv
<1>6. ASSUME up[p], UNCHANGED <<up, task, provider, partial>>,
             loop'[p] = loop[p] \/ (loop[p] = "none" /\ loop'[p] = "test"),
             open'[p] \subseteq open[p] \cup ({provider[p]} \ {0}),
             runtime'[p] \in {runtime[p], provider[p]},
             \/ UNCHANGED <<overrides, late>>
             \/ \E n : overrides' = overrides \cup {n} /\ late' = late \cup ({n} \ {entry}) /\ n # 0
      PROVE  PlacesInv'
  <2>1. DownInv' /\ LoginInv'
    BY <1>1, <1>2, <1>6 DEF DownInv, LoginInv
  <2>2. EntryInv' /\ OpenInv'
    BY <1>1, <1>2, <1>6 DEF EntryInv, OpenInv, InTurn
  <2>3. RegisteredInv' /\ CredInv'
    BY <1>1, <1>2, <1>6 DEF RegisteredInv, CredInv
  <2>4. OverInv'
    BY <1>1, <1>2, <1>6 DEF OverInv
  <2>5. LogoutInv'
    BY <1>1, <1>2, <1>6 DEF LogoutInv, Ordinary, EntryInv
  <2>6. QED
    BY <2>1, <2>2, <2>3, <2>4, <2>5 DEF PlacesInv
<1>7. CASE SessionStart(p) \/ ShutdownBegin(p) \/ ShutdownEnd(p)
  <2>1. up[p]
    BY <1>2, <1>7 DEF SessionStart, ShutdownBegin, ShutdownEnd, DownInv
  <2>2. /\ UNCHANGED <<up, task, provider, runtime, partial, overrides, late>>
        /\ loop'[p] = loop[p] \/ (loop[p] = "none" /\ loop'[p] = "test")
        /\ open'[p] \subseteq open[p] \cup ({provider[p]} \ {0})
    BY <1>3, <1>7 DEF SessionStart, ShutdownBegin, ShutdownEnd, diskVars, cleanupVars, ghostVars
  <2>3. QED
    BY <1>6, <2>1, <2>2
<1>8. CASE \E n \in Incs : RegisterCurrent(p, n)
  <2>1. PICK n \in Incs : RegisterCurrent(p, n)
    BY <1>8
  <2>2. up[p]
    BY <1>2, <2>1 DEF RegisterCurrent, DownInv
  <2>3. /\ UNCHANGED <<up, task, provider, open, loop, partial, overrides, late>>
        /\ runtime'[p] \in {runtime[p], provider[p]}
    BY <1>3, <2>1 DEF RegisterCurrent, diskVars, cleanupVars, ghostVars
  <2>4. QED
    BY <1>6, <2>2, <2>3
<1>9. CASE BatchOpen(p) \/ BatchCancel(p)
  <2>1. up[p]
    BY <1>2, <1>9 DEF BatchOpen, BatchCancel, DownInv
  <2>2. UNCHANGED <<up, task, provider, runtime, open, loop, partial, overrides, late>>
    BY <1>9 DEF BatchOpen, BatchCancel, diskVars, cleanupVars, ghostVars
  <2>3. QED
    BY <1>6, <2>1, <2>2
<1>10. CASE BatchWrite(p)
  <2>1. up[p]
    BY <1>2, <1>10 DEF BatchWrite, DownInv
  <2>2. /\ UNCHANGED <<up, task, provider, runtime, open, loop, partial>> /\ batch[p] # 0
        /\ overrides' = overrides \cup {batch[p]} /\ late' = late \cup ({batch[p]} \ {entry})
    BY <1>10 DEF BatchWrite, cleanupVars
  <2>3. QED
    BY <1>6, <2>1, <2>2
<1>11. QED
  BY <1>4, <1>5, <1>7, <1>8, <1>9, <1>10 DEF SessionStep

(* And what others do to auth.json. *)
LEMMA PlacesOthers ==
    ASSUME One, OrderInv, PlacesInv, Others
    PROVE  PlacesInv'
<1>1. UNCHANGED <<world, entry, overrides, up, session, provider, runtime, open, refreshing, batch,
                  queue, task, loop, requested, victim, retry, retries, watcher, poll, seen, made,
                  late, early, partial>>
  BY OthersFrame DEF procVars, cleanupVars
<1>2. DownInv /\ LoginInv /\ EntryInv /\ OpenInv /\ RegisteredInv /\ CredInv /\ OverInv /\ LogoutInv
  BY DEF PlacesInv
<1>3. /\ event' = [q \in Procs |-> event[q] \/ watcher[q] = "on"]
      /\ \/ auth'.state = "ok" /\ auth'.cred = 0 /\ loggedOut' = loggedOut \cup ({auth.cred} \ {0})
         \/ "gaps" \in world /\ auth'.cred = auth.cred /\ UNCHANGED loggedOut
         \/ "others" \in world /\ auth'.cred = 0
         \/ \E q \in Procs : /\ "relogin" \in world /\ auth'.state = "ok" /\ auth'.cred = runtime[q]
                             /\ loggedOut' = loggedOut \ {runtime[q]} /\ runtime[q] # 0
  BY DEF Others, Logout, Disturb, OtherIdCreates, Relogin, AuthBecomes, CredDeleted
<1>4. DownInv'
  BY <1>1, <1>2, <1>3 DEF DownInv
<1>5. LoginInv' /\ EntryInv' /\ OpenInv' /\ RegisteredInv' /\ OverInv'
  BY <1>1, <1>2 DEF LoginInv, EntryInv, OpenInv, RegisteredInv, OverInv
<1>6. CredInv'
  BY <1>1, <1>2, <1>3 DEF CredInv
<1>7. LogoutInv'
  BY <1>1, <1>2, <1>3 DEF LogoutInv, Ordinary, EntryInv
<1>8. QED
  BY <1>4, <1>5, <1>6, <1>7 DEF PlacesInv

LEMMA PlacesInvNext == One /\ OrderInv /\ PlacesInv /\ [Next]_vars => PlacesInv'
<1>1. ASSUME PlacesInv, UNCHANGED vars PROVE PlacesInv'
  <2>1. UNCHANGED <<entry, auth, overrides, up, session, provider, runtime, open, refreshing, batch,
                    queue, task, loop, victim, retry, watcher, event, poll, loggedOut, late, partial,
                    world>>
    BY <1>1 DEF vars, diskVars, procVars, cleanupVars, wakeVars, ghostVars
  <2>2. DownInv' /\ LoginInv' /\ EntryInv' /\ OpenInv'
    BY <1>1, <2>1 DEF PlacesInv, DownInv, LoginInv, EntryInv, OpenInv
  <2>3. RegisteredInv' /\ CredInv' /\ OverInv' /\ LogoutInv'
    BY <1>1, <2>1 DEF PlacesInv, RegisteredInv, CredInv, OverInv, LogoutInv
  <2>4. QED
    BY <2>2, <2>3 DEF PlacesInv
<1>2. QED
  BY <1>1, Steps, PlacesTask, PlacesBegin, PlacesLoop, PlacesWake, PlacesSession, PlacesOthers
     DEF TaskBegin

LEMMA PlacesInvariant == ASSUME One PROVE Spec => [](OrderInv /\ PlacesInv)
<1>1. Init => OrderInv
  <2>1. Init => SessionInv
    BY DEF Init, SessionInv, Stopped
  <2>2. QED
    BY <2>1, TypeInvInit, QueueInvInit DEF OrderInv
<1>2. OrderInv /\ PlacesInv /\ [Next]_vars => (OrderInv /\ PlacesInv)'
  BY OrderInvNext, PlacesInvNext
<1>3. QED
  BY <1>1, <1>2, PlacesInvInit, PTL DEF Spec

(* With one process, whatever the surroundings do: a refresh that ends after a removal does
   not bring the provider back, a provider that left the map was shut down, and an ended
   session is quiet. *)
THEOREM RemovedStaysGone == ASSUME One PROVE Spec => []GoneStaysGone
<1>1. OrderInv /\ PlacesInv => GoneStaysGone
  <2>1. OrderInv /\ PlacesInv => RegisteredIsCurrent
    BY Alone DEF OrderInv, PlacesInv, RegisteredInv, RegisteredIsCurrent, Running
  <2>2. OrderInv /\ PlacesInv => EveryProviderRetired
    BY DEF PlacesInv, OpenInv, EveryProviderRetired
  <2>3. OrderInv => StoppedIsQuiet
    BY DEF OrderInv, SessionInv, StoppedIsQuiet, Stopped
  <2>4. QED
    BY <2>1, <2>2, <2>3 DEF GoneStaysGone
<1>2. QED
  BY <1>1, PlacesInvariant, PTL

(* With one process, whatever the surroundings do: once its transactions are done, the
   registry, the credential, the endpoint overrides and the provider agree. *)
THEOREM PlacesAlwaysAgree == ASSUME One PROVE Spec => []PlacesAgree
<1>1. OrderInv /\ PlacesInv => PlacesAgree
  <2>1. SUFFICES ASSUME OrderInv, PlacesInv, AtRest, "relogin" \notin world
                 PROVE  /\ auth.cred \in {0, entry}
                        /\ overrides \subseteq {entry} \cup late
                        /\ \A p \in Procs : {provider[p], runtime[p]} \subseteq {0, entry}
    BY DEF PlacesAgree
  <2>2. \A p \in Procs : Members(queue[p]) = {}
    <3>1. Members(<<>>) = {}
      BY DEF Members
    <3>2. QED
      BY <2>1, <3>1 DEF AtRest
  <2>3. /\ \A t \in Tasks : task[t].pc = "free"
        /\ \A p \in Procs : loop[p] \notin InTxn
    BY <2>1, <2>2 DEF OrderInv, TypeInv, QueueInv, InFlight, NoTask
  <2>4. auth.cred \in {0, entry} /\ overrides \subseteq {entry} \cup late
    BY <2>1, <2>3 DEF PlacesInv, CredInv, OverInv, AtRest, InTxn
  <2>5. \A p \in Procs : {provider[p], runtime[p]} \subseteq {0, entry}
    BY <2>1, <2>3 DEF PlacesInv, EntryInv, RegisteredInv, AtRest, InTxn
  <2>6. QED
    BY <2>4, <2>5
<1>2. QED
  BY <1>1, PlacesInvariant, PTL

(* With one process, in surroundings where a missing credential means a logout: the cleanup
   decides only about an incarnation that is logged out, and removes no other. *)
THEOREM CleanupAfterLogoutOnly ==
    ASSUME One, \A w \in Worlds : Ordinary(w)
    PROVE  Spec => CleanupOnlyAfterLogout
<1> DEFINE Step(p) ==
             /\ loop[p] = "queued" /\ loop'[p] \in {"retire", "registry"} => entry \in loggedOut
             /\ loop[p] = "registry" /\ entry' # entry => entry = victim[p]
<1>1. OrderInv /\ PlacesInv /\ [Next]_vars => [\A p \in Procs : Step(p)]_vars
  <2>1. SUFFICES ASSUME OrderInv, PlacesInv, [Next]_vars, NEW p \in Procs PROVE Step(p)
    OBVIOUS
  <2>2. loop[p] = "registry" /\ entry' # entry => entry = victim[p]
    BY <2>1 DEF PlacesInv, EntryInv
  <2>3. ASSUME loop[p] = "queued", loop'[p] \in {"retire", "registry"} PROVE entry \in loggedOut
    <3>1. loop \in [Procs -> LoopPlaces] /\ world \in Worlds
      BY <2>1 DEF OrderInv, TypeInv, TypeOK, LoopPlaces
    <3>2. LoopStep(p)
      <4>1. \/ UNCHANGED loop
            \/ \E q \in Procs : LoopStep(q) \/ Exit(q)
            \/ \E q \in Procs : loop' \in {loop, [loop EXCEPT ![q] = IF @ = "none" THEN "test" ELSE @]}
        <5>1. ASSUME NEW q \in Procs, WakeStep(q)
              PROVE  loop' \in {loop, [loop EXCEPT ![q] = IF @ = "none" THEN "test" ELSE @]}
          BY <5>1 DEF WakeStep, RetryFires, WatchEvent, PollFires, WatcherDies, Request, cleanupVars
        <5>2. ASSUME NEW q \in Procs, SessionStep(q), ~Exit(q)
              PROVE  loop' \in {loop, [loop EXCEPT ![q] = IF @ = "none" THEN "test" ELSE @]}
          BY <5>2 DEF SessionStep, Load, SessionStart, ShutdownBegin, ShutdownEnd, RegisterCurrent,
             BatchOpen, BatchWrite, BatchCancel, cleanupVars
        <5>3. QED
          BY <2>1, <5>1, <5>2, Steps, TaskFrame, OthersFrame DEF vars, cleanupVars
      <4>2. ASSUME NEW q \in Procs, Exit(q) PROVE loop'[q] = "none"
        BY <3>1, <4>2 DEF Exit
      <4>3. \A q \in Procs : q = p
        BY DEF One
      <4>4. QED
        BY <2>3, <3>1, <4>1, <4>2, <4>3
    <3>3. LoopTxn(p) /\ loop'[p] # "test"
      BY <2>3, <3>1, <3>2 DEF LoopStep, LoopTest, LoopEnd, LoopFinally, LoopRetired, LoopRegistry,
         LoopOverrides, Goto
    <3>4. LogoutSeen /\ entry # 0
      BY <3>1, <3>3 DEF LoopTxn, Goto
    <3>5. QED
      BY <2>1, <3>1, <3>4 DEF PlacesInv, LogoutInv, LogoutSeen
  <2>4. QED
    BY <2>2, <2>3
<1>2. Spec => [][Next]_vars
  BY PTL DEF Spec
<1>3. QED
  BY <1>1, <1>2, PlacesInvariant, PTL DEF CleanupOnlyAfterLogout

-----------------------------------------------------------------------------
(* Logins of several processes *)

(* Nothing takes auth.json away. *)
WholeInv == TypeOK /\ ("gaps" \notin world => auth.state = "ok")

LEMMA WholeInvNext == OrderInv /\ WholeInv /\ [Next]_vars => WholeInv'
<1> SUFFICES ASSUME OrderInv, WholeInv, [Next]_vars PROVE WholeInv'
  OBVIOUS
<1>1. TypeOK'
  BY OrderInvNext DEF OrderInv, TypeInv
<1>2. UNCHANGED <<world>> /\ (auth'.state \in {"ok", auth.state} \/ "gaps" \in world)
  <2>1. ASSUME NEW t \in Tasks, TaskStep(t) \/ TaskBegin(t)
        PROVE  UNCHANGED world /\ auth'.state \in {"ok", auth.state}
    BY <2>1, TaskFrame DEF TaskStep, TaskBegin, LoginBegin, RemoveBegin, LoginCheck, LoginAssert,
       LoginCredential, LoginEntry, LoginUndo, LoginRegister, LoginAbandon, RemoveCheck,
       RemoveUnregister, RemoveRegistry, RemoveAuth, RemoveOverrides, diskVars, AuthBecomes
  <2>2. ASSUME NEW p \in Procs, LoopStep(p) \/ WakeStep(p) \/ SessionStep(p)
        PROVE  UNCHANGED <<world, auth>>
    BY <2>2, LoopFrame, WakeFrame, SessionFrame DEF diskVars
  <2>3. ASSUME Others PROVE UNCHANGED world /\ (auth'.state = "ok" \/ "gaps" \in world)
    BY <2>3 DEF Others, Logout, Disturb, OtherIdCreates, Relogin, AuthBecomes, OthersLeave
  <2>4. CASE UNCHANGED vars
    BY <2>4 DEF vars, diskVars
  <2>5. QED
    BY <2>1, <2>2, <2>3, <2>4, Steps DEF TaskBegin
<1>3. QED
  BY <1>1, <1>2 DEF WholeInv

(* Logins of any number of processes, with failures, crashes, removals and logouts at any
   point: a login takes the credential and the entry only while they are free, as long as
   nothing takes auth.json away and pi does not store a credential of its own. *)
THEOREM LoginsExclude ==
    ASSUME \A w \in Worlds : w \cap {"gaps", "relogin"} = {}
    PROVE  Spec => OneLoginWins
<1> DEFINE Step ==
             /\ {entry, entry'} \cap {0} # {} \/ entry' = entry
             /\ {auth.cred, auth'.cred} \cap {0} # {} \/ auth'.cred = auth.cred
<1>1. OrderInv /\ WholeInv /\ [Next]_vars => [Step]_vars
  <2>1. SUFFICES ASSUME OrderInv, WholeInv, [Next]_vars PROVE Step
    OBVIOUS
  <2>2. auth.state = "ok" /\ world \cap {"gaps", "relogin"} = {}
    BY <2>1 DEF WholeInv, TypeOK
  <2>3. entry = 0 \/ entry' = 0 \/ entry' = entry
    <3>1. ASSUME NEW t \in Tasks, TaskStep(t) \/ TaskBegin(t)
          PROVE  entry = 0 \/ entry' = 0 \/ entry' = entry
      BY <3>1 DEF TaskStep, TaskBegin, LoginBegin, RemoveBegin, LoginCheck, LoginAssert,
         LoginCredential, LoginEntry, LoginUndo, LoginRegister, LoginAbandon, RemoveCheck,
         RemoveUnregister, RemoveRegistry, RemoveAuth, RemoveOverrides, diskVars
    <3>2. ASSUME NEW p \in Procs, LoopStep(p)
          PROVE  entry' = 0 \/ entry' = entry
      BY <3>2 DEF LoopStep, LoopTest, LoopEnd, LoopFinally, LoopTxn, LoopRetired, LoopRegistry,
         LoopOverrides, diskVars
    <3>3. ASSUME NEW p \in Procs, WakeStep(p) \/ SessionStep(p) PROVE entry' = entry
      BY <3>3, WakeFrame, SessionFrame DEF diskVars
    <3>4. QED
      BY <2>1, <3>1, <3>2, <3>3, Steps, OthersFrame DEF TaskBegin, vars, diskVars
  <2>4. auth.cred = 0 \/ auth'.cred = 0 \/ auth'.cred = auth.cred
    <3>1. ASSUME NEW t \in Tasks, TaskStep(t) \/ TaskBegin(t)
          PROVE  auth.cred = 0 \/ auth'.cred = 0 \/ auth'.cred = auth.cred
      BY <2>2, <3>1 DEF TaskStep, TaskBegin, LoginBegin, RemoveBegin, LoginCheck, LoginAssert,
         LoginCredential, LoginEntry, LoginUndo, LoginRegister, LoginAbandon, RemoveCheck,
         RemoveUnregister, RemoveRegistry, RemoveAuth, RemoveOverrides, diskVars, AuthBecomes,
         LoggedIn
    <3>2. ASSUME NEW p \in Procs, LoopStep(p) \/ WakeStep(p) \/ SessionStep(p) PROVE auth' = auth
      BY <3>2, LoopFrame, WakeFrame, SessionFrame DEF diskVars
    <3>3. ASSUME Others PROVE auth'.cred = 0 \/ auth'.cred = auth.cred
      BY <2>2, <3>3 DEF Others, Logout, Disturb, OtherIdCreates, Relogin, AuthBecomes
    <3>4. QED
      BY <2>1, <3>1, <3>2, <3>3, Steps DEF TaskBegin, vars, diskVars
  <2>5. QED
    BY <2>3, <2>4
<1>2. Init => WholeInv
  BY TypeInvInit DEF Init, WholeInv, TypeInv
<1>3. Spec => []WholeInv
  BY <1>2, WholeInvNext, OrderInvariant, PTL DEF Spec
<1>4. Spec => [][Next]_vars
  BY PTL DEF Spec
<1>5. QED
  BY <1>1, <1>3, <1>4, OrderInvariant, PTL DEF OneLoginWins
=============================================================================
