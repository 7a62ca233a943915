------------------------------- MODULE FileLock -------------------------------
(***************************************************************************)
(* withFileLock (extensions/util.ts) on one path: the read-modify-write of *)
(* a shared JSON file by several pi processes.  A process first queues its *)
(* own calls in memory, so that only one of them at a time asks            *)
(* proper-lockfile for the lock; the lock is a directory that goes stale   *)
(* when its owner stops refreshing it, and can then be taken over.         *)
(*                                                                         *)
(* The body of a call reads the file and renames a new version over it.    *)
(* proper-lockfile is outside the repository: its steps are those the      *)
(* comments and the error codes of util.ts rely on.                        *)
(***************************************************************************)
EXTENDS Naturals

CONSTANTS
    Procs,      \* pi processes that share the file
    Calls,      \* calls of withFileLock
    ProcOf,     \* the process of each call
    Nobody,     \* no call
    MaxTries    \* attempts lockfile.lock makes before it answers ELOCKED

ASSUME CallsAssumption == ProcOf \in [Calls -> Procs] /\ Nobody \notin Calls
ASSUME TriesAssumption == MaxTries \in Nat \ {0}

VARIABLES
    \* memory of the processes
    tail,         \* fileLockQueues.get(path): the last call queued
    pc,           \* how far a call is
    prev,         \* `previous`: the call it waits for
    tries,        \* attempts made to take the lock
    snap,         \* what its body read
    outcome,      \* how its promise settled
    compromised,  \* calls whose lock.released was set by the update timer
    \* disk
    dir,          \* the call that made the .lock directory
    stale,        \* its mtime is older than LOCK_OPTIONS.stale
    file,         \* the updates the guarded file contains
    \* history
    arrivals,     \* calls made so far
    turn,         \* their order of arrival
    landed,       \* calls whose rename was done
    exclusive     \* no body has lost its lock while it ran

queueVars == <<tail, prev, arrivals, turn>>
bodyVars  == <<snap, file, landed>>
lockVars  == <<dir, stale, compromised, exclusive>>
vars == <<queueVars, bodyVars, lockVars, pc, tries, outcome>>

Pcs == {"idle", "queued", "locking", "locked", "writing", "releasing", "settled",
        "returned", "dead"}

TypeOK ==
    /\ tail \in [Procs -> Calls \cup {Nobody}]
    /\ pc \in [Calls -> Pcs]
    /\ prev \in [Calls -> Calls \cup {Nobody}]
    /\ tries \in [Calls -> 0 .. MaxTries]
    /\ snap \in [Calls -> SUBSET Calls]
    /\ outcome \in [Calls -> {"none", "ok", "failed"}]
    /\ compromised \subseteq Calls
    /\ dir \in Calls \cup {Nobody}
    /\ stale \in BOOLEAN
    /\ file \subseteq Calls
    /\ arrivals \in Nat
    /\ turn \in [Calls -> Nat]
    /\ landed \subseteq Calls
    /\ exclusive \in BOOLEAN

Init ==
    /\ tail = [p \in Procs |-> Nobody]
    /\ pc = [c \in Calls |-> "idle"]
    /\ prev = [c \in Calls |-> Nobody]
    /\ tries = [c \in Calls |-> 0]
    /\ snap = [c \in Calls |-> {}]
    /\ outcome = [c \in Calls |-> "none"]
    /\ arrivals = 0 /\ turn = [c \in Calls |-> 0]
    /\ dir = Nobody /\ stale = FALSE /\ file = {}
    /\ compromised = {} /\ landed = {} /\ exclusive = TRUE

(* Calls whose body runs: they hold the lock, or think so. *)
InBody == {c \in Calls : pc[c] \in {"locked", "writing"}}

(* Calls that were made and whose promise has not settled. *)
Unsettled == {c \in Calls : pc[c] \in {"queued", "locking", "locked", "writing", "releasing"}}

Goes(c, next) == pc' = [pc EXCEPT ![c] = next]

(* The .lock directory of dir disappears or changes hands: a running body that *)
(* relied on it has lost its lock.                                             *)
DirBecomes(c) ==
    /\ dir' = c
    /\ stale' = FALSE
    /\ exclusive' = (exclusive /\ dir \notin InBody)

-----------------------------------------------------------------------------
(* The in-process queue *)

(* Reading the tail and publishing the new one happen with no await between. *)
Arrive(c) ==
    LET p == ProcOf[c] IN
    /\ pc[c] = "idle"
    /\ prev' = [prev EXCEPT ![c] = tail[p]]
    /\ tail' = [tail EXCEPT ![p] = c]
    /\ Goes(c, IF tail[p] = Nobody THEN "locking" ELSE "queued")
    /\ arrivals' = arrivals + 1
    /\ turn' = [turn EXCEPT ![c] = arrivals']
    /\ UNCHANGED <<bodyVars, lockVars, tries, outcome>>

(* Mutant: the stored tail rejects with its call, and followers are skipped. *)
TakeTurn_AfterSuccess(c) ==
    /\ pc[c] = "queued"
    /\ pc[prev[c]] \in {"settled", "returned"} /\ outcome[prev[c]] = "ok"
    /\ Goes(c, "locking")
    /\ UNCHANGED <<queueVars, bodyVars, lockVars, tries, outcome>>

(* `await previous`: the tail promise resolves however the predecessor ended. *)
TakeTurn(c) ==
    /\ pc[c] = "queued"
    /\ pc[prev[c]] \in {"settled", "returned"}
    /\ Goes(c, "locking")
    /\ UNCHANGED <<queueVars, bodyVars, lockVars, tries, outcome>>

(* Mutant: the queue is forgotten although another call joined it. *)
Return_ForgetsAlways(c) ==
    /\ pc[c] = "settled"
    /\ Goes(c, "returned")
    /\ tail' = [tail EXCEPT ![ProcOf[c]] = Nobody]
    /\ UNCHANGED <<prev, arrivals, turn, bodyVars, lockVars, tries, outcome>>

(* The finally of `await run`: forget the queue if nobody joined it since. *)
Return(c) ==
    LET p == ProcOf[c] IN
    /\ pc[c] = "settled"
    /\ Goes(c, "returned")
    /\ tail' = IF tail[p] = c THEN [tail EXCEPT ![p] = Nobody] ELSE tail
    /\ UNCHANGED <<prev, arrivals, turn, bodyVars, lockVars, tries, outcome>>

-----------------------------------------------------------------------------
(* lockfile.lock, its update timer and its release *)

(* mkdir succeeds. *)
TakeLock(c) ==
    /\ pc[c] = "locking"
    /\ dir = Nobody
    /\ DirBecomes(c)
    /\ Goes(c, "locked")
    /\ UNCHANGED <<queueVars, bodyVars, compromised, tries, outcome>>

(* mkdir answers EEXIST, and the directory found is stale. *)
TakeOver(c) ==
    /\ pc[c] = "locking"
    /\ dir # Nobody /\ stale
    /\ DirBecomes(c)
    /\ Goes(c, "locked")
    /\ UNCHANGED <<queueVars, bodyVars, compromised, tries, outcome>>

(* Mutant: one attempt too many. *)
Refused_OneMore(c) ==
    /\ pc[c] = "locking"
    /\ tries' = [tries EXCEPT ![c] = @ + 1]
    /\ IF tries'[c] > MaxTries
       THEN Goes(c, "settled") /\ outcome' = [outcome EXCEPT ![c] = "failed"]
       ELSE UNCHANGED <<pc, outcome>>
    /\ UNCHANGED <<queueVars, bodyVars, lockVars>>

(* The lock is held, or mkdir fails: try again later, ELOCKED in the end. *)
Refused(c) ==
    /\ pc[c] = "locking"
    /\ tries[c] < MaxTries
    /\ tries' = [tries EXCEPT ![c] = @ + 1]
    /\ IF tries'[c] = MaxTries
       THEN Goes(c, "settled") /\ outcome' = [outcome EXCEPT ![c] = "failed"]
       ELSE UNCHANGED <<pc, outcome>>
    /\ UNCHANGED <<queueVars, bodyVars, lockVars>>

(* The update timer refreshes the mtime, or finds the lock compromised. *)
UpdateTimer(c) ==
    /\ c \in InBody \ compromised
    /\ \/ /\ dir = c /\ stale
          /\ stale' = FALSE
          /\ UNCHANGED compromised
       \/ /\ dir # c \/ stale
          /\ compromised' = compromised \cup {c}
          /\ UNCHANGED stale
    /\ UNCHANGED <<queueVars, bodyVars, pc, tries, outcome, dir, exclusive>>

(* Mutant: `return fn()` without await: the lock is gone while the body runs. *)
Release_BodyNotAwaited(c) ==
    \/ /\ pc[c] = "writing" /\ dir = c
       /\ dir' = Nobody /\ stale' = FALSE
       /\ UNCHANGED <<queueVars, bodyVars, pc, tries, outcome, compromised, exclusive>>
    \/ /\ pc[c] = "releasing"
       /\ Goes(c, "settled")
       /\ UNCHANGED <<queueVars, bodyVars, lockVars, tries, outcome>>

(* Mutant: the ERELEASED of a compromised lock reaches the caller. *)
Release_Loud(c) ==
    /\ pc[c] = "releasing"
    /\ Goes(c, "settled")
    /\ \/ /\ c \in compromised
          /\ outcome' = [outcome EXCEPT ![c] = "failed"]
          /\ UNCHANGED <<dir, stale, exclusive>>
       \/ /\ c \notin compromised
          /\ DirBecomes(Nobody)
          /\ UNCHANGED outcome
    /\ UNCHANGED <<queueVars, bodyVars, compromised, tries>>

(* releaseLockQuietly in the finally: release() rejects with ERELEASED on a    *)
(* compromised lock, which is swallowed; otherwise it removes the directory,   *)
(* whoever made it, or reports why it could not.                               *)
Release(c) ==
    /\ pc[c] = "releasing"
    /\ Goes(c, "settled")
    /\ \/ /\ c \in compromised
          /\ UNCHANGED <<dir, stale, exclusive, outcome>>
       \/ /\ c \notin compromised
          /\ DirBecomes(Nobody)
          /\ UNCHANGED outcome
       \/ /\ c \notin compromised
          /\ outcome' = [outcome EXCEPT ![c] = "failed"]
          /\ UNCHANGED <<dir, stale, exclusive>>
    /\ UNCHANGED <<queueVars, bodyVars, compromised, tries>>

-----------------------------------------------------------------------------
(* The body: a self-contained read, modify, atomic write *)

ReadFile(c) ==
    /\ pc[c] = "locked"
    /\ snap' = [snap EXCEPT ![c] = file]
    /\ Goes(c, "writing")
    /\ UNCHANGED <<queueVars, lockVars, file, landed, tries, outcome>>

RenameOver(c) ==
    /\ pc[c] = "writing"
    /\ file' = snap[c] \cup {c}
    /\ landed' = landed \cup {c}
    /\ outcome' = [outcome EXCEPT ![c] = "ok"]
    /\ Goes(c, "releasing")
    /\ UNCHANGED <<queueVars, lockVars, snap, tries>>

Throw(c) ==
    /\ c \in InBody
    /\ outcome' = [outcome EXCEPT ![c] = "failed"]
    /\ Goes(c, "releasing")
    /\ UNCHANGED <<queueVars, bodyVars, lockVars, tries>>

-----------------------------------------------------------------------------
(* The environment *)

(* The owner is suspended, blocked or dead for longer than the stale threshold. *)
GrowStale ==
    /\ dir # Nobody /\ ~stale
    /\ stale' = TRUE
    /\ UNCHANGED <<queueVars, bodyVars, pc, tries, outcome, dir, compromised, exclusive>>

(* Something else removes the .lock directory. *)
CleanUp ==
    /\ dir # Nobody
    /\ DirBecomes(Nobody)
    /\ UNCHANGED <<queueVars, bodyVars, pc, tries, outcome, compromised>>

(* A process dies; calls made later belong to the process that replaces it. *)
Crash(p) ==
    /\ \E c \in Unsettled : ProcOf[c] = p
    /\ tail' = [tail EXCEPT ![p] = Nobody]
    /\ pc' = [c \in Calls |-> IF ProcOf[c] = p /\ pc[c] \notin {"idle", "returned"}
                              THEN "dead" ELSE pc[c]]
    /\ UNCHANGED <<prev, arrivals, turn, bodyVars, lockVars, tries, outcome>>

Step(c) ==
    \/ TakeTurn(c) \/ TakeLock(c) \/ TakeOver(c) \/ Refused(c)
    \/ ReadFile(c) \/ RenameOver(c) \/ Throw(c) \/ Release(c) \/ Return(c)

Next ==
    \/ \E c \in Calls : Arrive(c) \/ Step(c) \/ UpdateTimer(c)
    \/ GrowStale \/ CleanUp
    \/ \E p \in Procs : Crash(p)

(* The event loop runs what is ready, and a lock attempt ends one way or the other. *)
Fairness == \A c \in Calls : WF_vars(Step(c))

Spec == Init /\ [][Next]_vars /\ Fairness
-----------------------------------------------------------------------------
(* What the queue and the lock promise *)

(* Calls of one process get to ask for the lock in the order they were made,   *)
(* one at a time: while a call is not settled, every later call of its process *)
(* is still queued, also when calls fail, time out or lose their lock          *)
(* (util.ts:174-182, the queue withFileLock keeps to stay below the retry      *)
(* budget of proper-lockfile).                                                 *)
TurnsInOrder ==
    \A c \in Unsettled, d \in Calls :
        ProcOf[c] = ProcOf[d] /\ turn[c] < turn[d] /\ pc[d] # "dead"
            => pc[d] = "queued"

(* The map holds the newest call of a process as long as a call of it is not   *)
(* settled, and forgets it when it returns: a later call neither overtakes the *)
(* queue nor waits for a promise of the past (util.ts:188-195).                *)
TailIsNewest ==
    \A p \in Procs :
        LET waiting == {c \in Unsettled : ProcOf[c] = p} IN
        IF tail[p] = Nobody
        THEN waiting = {}
        ELSE /\ pc[tail[p]] \notin {"idle", "returned", "dead"}
             /\ \A c \in waiting : turn[c] <= turn[tail[p]]

(* The queue of a process: in order, and never left behind (util.ts:174-195).  *)
CallsInTurn == TurnsInOrder /\ TailIsNewest

(* As long as no running body lost its lock, every renamed version contains    *)
(* every update that landed before it: no read-modify-write of two calls, of   *)
(* one process or of several, overlaps (util.ts:177-186).                      *)
NoLostUpdate == exclusive => landed \subseteq file

(* A compromised lock never turns an update that landed into a failed call     *)
(* (util.ts:120-146): the caller would compensate a write that is there.       *)
CompromiseIsQuiet ==
    \A c \in landed \cap compromised :
        pc[c] \in {"settled", "returned"} => outcome[c] = "ok"

(* A call behind others gets its turn and returns, however they end.           *)
EveryCallReturns ==
    \A c \in Calls : pc[c] = "queued" ~> pc[c] \in {"returned", "dead"}
=============================================================================
