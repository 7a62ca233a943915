----------------------------- MODULE FilesProofs -----------------------------
(***************************************************************************)
(* Proofs about the files that the sessions share: the lock of a file      *)
(* (FileLock), the last model (LastModel), the cache of the prices         *)
(* (PricingCache) and the input history (InputHistory), each for every     *)
(* number of processes.                                                    *)
(***************************************************************************)
EXTENDS MCFiles, SequenceTheorems, NaturalsInduction, WellFoundedInduction, TLAPS

-----------------------------------------------------------------------------
(* The file lock *)

(* Turns are given once, in the order of arrival. *)
TurnsAreDistinct ==
    /\ \A c \in Calls : /\ pc[c] = "idle" => turn[c] = 0
                        /\ pc[c] # "idle" => turn[c] \in 1 .. arrivals
    /\ \A c, d \in Calls : pc[c] # "idle" /\ turn[c] = turn[d] => c = d

(* A tail belongs to its process. *)
TailIsOwn == \A p \in Procs : tail[p] # Nobody => ProcOf[tail[p]] = p

(* A queued call waits for the latest unsettled call before it. *)
PrevIsLatest ==
    \A c \in Calls : pc[c] = "queued" =>
        /\ prev[c] \in Calls
        /\ ProcOf[prev[c]] = ProcOf[c]
        /\ pc[prev[c]] \notin {"idle", "dead"}
        /\ turn[prev[c]] < turn[c]
        /\ \A d \in Unsettled : ProcOf[d] = ProcOf[c] /\ turn[d] < turn[c]
                                    => turn[d] <= turn[prev[c]]

QueueInv == TurnsAreDistinct /\ TailIsOwn /\ PrevIsLatest /\ TurnsInOrder /\ TailIsNewest

(* While no body lost its lock, the body that runs made the directory, and what *)
(* it read is still what the file contains.                                     *)
LockInv ==
    exclusive => /\ \A c \in InBody : dir = c /\ (pc[c] = "writing" => snap[c] = file)
                 /\ landed \subseteq file

(* An update that landed has left its body, and only a release that is not      *)
(* compromised may still turn it into a failure.                                *)
OutcomeInv ==
    \A c \in landed :
        /\ pc[c] \in {"releasing", "settled", "returned", "dead"}
        /\ pc[c] = "releasing" => outcome[c] = "ok"
        /\ c \in compromised /\ pc[c] \in {"settled", "returned"} => outcome[c] = "ok"

-----------------------------------------------------------------------------
(* Types *)

LEMMA TypesStart == Init => TypeOK
<1> SUFFICES ASSUME Init PROVE TypeOK
  OBVIOUS
<1>1. stale \in BOOLEAN /\ exclusive \in BOOLEAN
  BY DEF Init
<1>2. pc \in [Calls -> Pcs] /\ outcome \in [Calls -> {"none", "ok", "failed"}]
  BY DEF Init, Pcs
<1>3. tries \in [Calls -> 0 .. MaxTries]
  <2>1. 0 \in 0 .. MaxTries
    BY TriesAssumption
  <2>2. QED
    BY <2>1 DEF Init
<1>4. QED
  BY <1>1, <1>2, <1>3 DEF Init, TypeOK

LEMMA TypesKept == TypeOK /\ [Next]_vars => TypeOK'
<1> SUFFICES ASSUME TypeOK, [Next]_vars PROVE TypeOK'
  OBVIOUS
<1> USE CallsAssumption, TriesAssumption
<1>1. ASSUME NEW c \in Calls, Arrive(c) PROVE TypeOK'
  BY <1>1 DEF Arrive, Goes, TypeOK, Pcs, bodyVars, lockVars
<1>2. ASSUME NEW c \in Calls, TakeTurn(c) PROVE TypeOK'
  BY <1>2 DEF TakeTurn, Goes, TypeOK, Pcs, queueVars, bodyVars, lockVars
<1>3. ASSUME NEW c \in Calls, TakeLock(c) \/ TakeOver(c) PROVE TypeOK'
  BY <1>3 DEF TakeLock, TakeOver, DirBecomes, Goes, TypeOK, Pcs, queueVars, bodyVars
<1>4. ASSUME NEW c \in Calls, Refused(c) PROVE TypeOK'
  BY <1>4 DEF Refused, Goes, TypeOK, Pcs, queueVars, bodyVars, lockVars
<1>5. ASSUME NEW c \in Calls, ReadFile(c) \/ RenameOver(c) \/ Throw(c) PROVE TypeOK'
  BY <1>5 DEF ReadFile, RenameOver, Throw, Goes, TypeOK, Pcs, queueVars, bodyVars, lockVars
<1>6. ASSUME NEW c \in Calls, Release(c) PROVE TypeOK'
  BY <1>6 DEF Release, DirBecomes, Goes, TypeOK, Pcs, queueVars, bodyVars
<1>7. ASSUME NEW c \in Calls, Return(c) PROVE TypeOK'
  BY <1>7 DEF Return, Goes, TypeOK, Pcs, bodyVars, lockVars
<1>8. ASSUME NEW c \in Calls, UpdateTimer(c) PROVE TypeOK'
  BY <1>8 DEF UpdateTimer, TypeOK, queueVars, bodyVars
<1>9. CASE GrowStale \/ CleanUp
  BY <1>9 DEF GrowStale, CleanUp, DirBecomes, TypeOK, queueVars, bodyVars
<1>10. ASSUME NEW p \in Procs, Crash(p) PROVE TypeOK'
  BY <1>10 DEF Crash, TypeOK, Pcs, bodyVars, lockVars
<1>11. CASE UNCHANGED vars
  BY <1>11 DEF vars, queueVars, bodyVars, lockVars, TypeOK
<1>12. QED
  BY <1>1, <1>2, <1>3, <1>4, <1>5, <1>6, <1>7, <1>8, <1>9, <1>10, <1>11 DEF Next, Step

(* The records and tables of the processes always hold values of their types: a *)
(* call never makes more attempts than its budget (util.ts:93-118).             *)
THEOREM TypeCorrect == Spec => []TypeOK
BY TypesStart, TypesKept, PTL DEF Spec

-----------------------------------------------------------------------------
(* The in-process queue *)

LEMMA QueueInit == Init => QueueInv
BY CallsAssumption DEF Init, QueueInv, TurnsAreDistinct, TailIsOwn, PrevIsLatest, TurnsInOrder,
                       TailIsNewest, Unsettled

(* A step that moves one call on, without leaving the queue or entering it, *)
(* keeps the queue: it only must not return to an earlier state.             *)
LEMMA QueueMoves ==
    ASSUME TypeOK, QueueInv, NEW c \in Calls, NEW next \in Pcs, UNCHANGED queueVars,
           pc' = [pc EXCEPT ![c] = next],
           pc[c] \in {"locking", "locked", "writing", "releasing"},
           next \in {"locking", "locked", "writing", "releasing", "settled"}
    PROVE  QueueInv'
<1>1. /\ Unsettled' \subseteq Unsettled
      /\ \A d \in Calls : d # c => pc'[d] = pc[d]
      /\ pc'[c] = next
  BY DEF Unsettled, TypeOK
<1>2. TurnsAreDistinct' /\ TailIsOwn'
  BY <1>1 DEF QueueInv, TurnsAreDistinct, TailIsOwn, queueVars
<1>3. PrevIsLatest'
  BY <1>1 DEF QueueInv, PrevIsLatest, queueVars
<1>4. TurnsInOrder'
  BY <1>1 DEF QueueInv, TurnsInOrder, queueVars
<1>5. TailIsNewest'
  BY <1>1 DEF QueueInv, TailIsNewest, queueVars
<1>6. QED
  BY <1>2, <1>3, <1>4, <1>5 DEF QueueInv

LEMMA QueueArrive ==
    ASSUME TypeOK, QueueInv, NEW c \in Calls, Arrive(c)
    PROVE  QueueInv'
<1> DEFINE p == ProcOf[c]
<1>1. /\ p \in Procs /\ tail[p] \in Calls \cup {Nobody} /\ Nobody \notin Calls
      /\ pc[c] = "idle" /\ turn[c] = 0
      /\ arrivals \in Nat /\ arrivals' = arrivals + 1 /\ turn'[c] = arrivals + 1
      /\ \A d \in Calls : d # c => turn'[d] = turn[d]
      /\ \A d \in Calls : turn[d] \in Nat /\ turn[d] <= arrivals
  <2>1. /\ p \in Procs /\ tail[p] \in Calls \cup {Nobody} /\ Nobody \notin Calls
    BY CallsAssumption DEF TypeOK
  <2>2. /\ pc[c] = "idle" /\ turn[c] = 0
        /\ arrivals \in Nat /\ arrivals' = arrivals + 1 /\ turn'[c] = arrivals + 1
        /\ \A d \in Calls : d # c => turn'[d] = turn[d]
    BY DEF Arrive, TypeOK, QueueInv, TurnsAreDistinct
  <2>3. \A d \in Calls : turn[d] \in Nat /\ turn[d] <= arrivals
    BY <2>2 DEF TypeOK, QueueInv, TurnsAreDistinct
  <2>4. QED
    BY <2>1, <2>2, <2>3
<1>2. /\ pc'[c] = IF tail[p] = Nobody THEN "locking" ELSE "queued"
      /\ \A d \in Calls : d # c => pc'[d] = pc[d] /\ prev'[d] = prev[d]
      /\ prev'[c] = tail[p]
      /\ tail'[p] = c
      /\ \A q \in Procs : q # p => tail'[q] = tail[q]
  BY <1>1 DEF Arrive, Goes, TypeOK
<1>3. \A d \in Calls : d \in Unsettled' <=> d = c \/ d \in Unsettled
  BY <1>2 DEF Unsettled
<1>4. c \notin Unsettled
  BY <1>1 DEF Unsettled
<1>5. TurnsAreDistinct'
  BY <1>1, <1>2 DEF QueueInv, TurnsAreDistinct
<1>6. TailIsOwn'
  BY <1>1, <1>2, CallsAssumption DEF QueueInv, TailIsOwn
<1>7. PrevIsLatest'
  <2> SUFFICES ASSUME NEW d \in Calls, pc'[d] = "queued"
               PROVE  /\ prev'[d] \in Calls
                      /\ ProcOf[prev'[d]] = ProcOf[d]
                      /\ pc'[prev'[d]] \notin {"idle", "dead"}
                      /\ turn'[prev'[d]] < turn'[d]
                      /\ \A e \in Unsettled' : ProcOf[e] = ProcOf[d] /\ turn'[e] < turn'[d]
                                                  => turn'[e] <= turn'[prev'[d]]
    BY DEF PrevIsLatest
  <2>1. CASE d = c
    <3>1. tail[p] # Nobody /\ tail[p] \in Calls
      BY <2>1, <1>1, <1>2
    <3>2. /\ ProcOf[tail[p]] = p
          /\ pc[tail[p]] \notin {"idle", "returned", "dead"}
          /\ \A e \in Unsettled : ProcOf[e] = p => turn[e] <= turn[tail[p]]
      BY <3>1, <1>1 DEF QueueInv, TailIsOwn, TailIsNewest
    <3>3. tail[p] # c
      BY <3>2, <1>1
    <3>4. QED
      BY <2>1, <3>1, <3>2, <3>3, <1>1, <1>2, <1>3, <1>4 DEF Unsettled
  <2>2. CASE d # c
    <3>1. /\ pc[d] = "queued"
          /\ prev[d] \in Calls
          /\ ProcOf[prev[d]] = ProcOf[d]
          /\ pc[prev[d]] \notin {"idle", "dead"}
          /\ turn[prev[d]] < turn[d]
          /\ \A e \in Unsettled : ProcOf[e] = ProcOf[d] /\ turn[e] < turn[d]
                                      => turn[e] <= turn[prev[d]]
      BY <2>2, <1>2 DEF QueueInv, PrevIsLatest
    <3>2. prev[d] # c
      BY <3>1, <1>1
    <3>3. QED
      BY <2>2, <3>1, <3>2, <1>1, <1>2, <1>3 DEF Unsettled
  <2>3. QED
    BY <2>1, <2>2
<1>8. TurnsInOrder'
  <2> SUFFICES ASSUME NEW d \in Unsettled', NEW e \in Calls,
                      ProcOf[d] = ProcOf[e], turn'[d] < turn'[e], pc'[e] # "dead"
               PROVE  pc'[e] = "queued"
    BY DEF TurnsInOrder
  <2>1. d \in Calls
    BY DEF Unsettled
  <2>2. CASE d = c
    BY <2>1, <2>2, <1>1
  <2>3. CASE d # c /\ e = c
    <3>1. d \in Unsettled /\ ProcOf[d] = p
      BY <2>1, <2>3, <1>3
    <3>2. tail[p] # Nobody
      BY <3>1, <1>1 DEF QueueInv, TailIsNewest
    <3>3. QED
      BY <3>2, <2>3, <1>2
  <2>4. CASE d # c /\ e # c
    BY <2>1, <2>4, <1>1, <1>2, <1>3 DEF QueueInv, TurnsInOrder
  <2>5. QED
    BY <2>2, <2>3, <2>4
<1>9. TailIsNewest'
  <2> SUFFICES ASSUME NEW q \in Procs
               PROVE  LET waiting == {d \in Unsettled' : ProcOf[d] = q} IN
                      IF tail'[q] = Nobody
                      THEN waiting = {}
                      ELSE /\ pc'[tail'[q]] \notin {"idle", "returned", "dead"}
                           /\ \A d \in waiting : turn'[d] <= turn'[tail'[q]]
    BY DEF TailIsNewest
  <2>1. CASE q = p
    BY <2>1, <1>1, <1>2, <1>3 DEF Unsettled
  <2>2. CASE q # p
    <3>1. tail'[q] = tail[q] /\ tail[q] \in Calls \cup {Nobody}
      BY <2>2, <1>2 DEF TypeOK
    <3>2. tail[q] # Nobody => tail[q] # c
      BY <2>2 DEF QueueInv, TailIsOwn
    <3>3. QED
      BY <2>2, <3>1, <3>2, <1>1, <1>2, <1>3 DEF QueueInv, TailIsNewest, Unsettled
  <2>3. QED
    BY <2>1, <2>2
<1>10. QED
  BY <1>5, <1>6, <1>7, <1>8, <1>9 DEF QueueInv

LEMMA QueueTakeTurn ==
    ASSUME TypeOK, QueueInv, NEW c \in Calls, TakeTurn(c)
    PROVE  QueueInv'
<1>1. /\ pc[c] = "queued" /\ pc'[c] = "locking"
      /\ pc[prev[c]] \in {"settled", "returned"}
      /\ \A d \in Calls : d # c => pc'[d] = pc[d]
      /\ UNCHANGED queueVars
  BY DEF TakeTurn, Goes, TypeOK
<1>2. Unsettled' = Unsettled
  BY <1>1 DEF Unsettled
<1>3. TurnsAreDistinct' /\ TailIsOwn'
  BY <1>1 DEF QueueInv, TurnsAreDistinct, TailIsOwn, queueVars
<1>4. PrevIsLatest' /\ TailIsNewest'
  <2>1. PrevIsLatest'
    BY <1>1, <1>2 DEF QueueInv, PrevIsLatest, queueVars
  <2>2. TailIsNewest'
    <3>1. \A p \in Procs : tail[p] # Nobody => tail[p] \in Calls
      BY DEF TypeOK
    <3>2. \A d \in Calls : pc[d] \notin {"idle", "returned", "dead"}
                              => pc'[d] \notin {"idle", "returned", "dead"}
      BY <1>1
    <3>3. QED
      BY <1>1, <1>2, <3>1, <3>2 DEF QueueInv, TailIsNewest, queueVars
  <2>3. QED
    BY <2>1, <2>2
<1>5. \A d \in Unsettled : ~ (ProcOf[d] = ProcOf[c] /\ turn[d] < turn[c])
  <2> SUFFICES ASSUME NEW d \in Unsettled, ProcOf[d] = ProcOf[c], turn[d] < turn[c]
               PROVE  FALSE
    OBVIOUS
  <2>1. /\ prev[c] \in Calls /\ ProcOf[prev[c]] = ProcOf[c]
        /\ turn[d] <= turn[prev[c]]
    BY <1>1 DEF QueueInv, PrevIsLatest
  <2>2. d \in Calls /\ d # prev[c]
    BY <1>1 DEF Unsettled
  <2>3. turn[d] # turn[prev[c]]
    BY <2>1, <2>2 DEF QueueInv, TurnsAreDistinct, Unsettled
  <2>4. turn[d] < turn[prev[c]]
    BY <2>1, <2>2, <2>3 DEF TypeOK
  <2>5. QED
    BY <2>1, <2>4, <1>1 DEF QueueInv, TurnsInOrder
<1>6. TurnsInOrder'
  BY <1>1, <1>2, <1>5 DEF QueueInv, TurnsInOrder, queueVars
<1>7. QED
  BY <1>3, <1>4, <1>6 DEF QueueInv

LEMMA QueueReturn ==
    ASSUME TypeOK, QueueInv, NEW c \in Calls, Return(c)
    PROVE  QueueInv'
<1> DEFINE p == ProcOf[c]
<1>1. /\ pc[c] = "settled" /\ pc'[c] = "returned"
      /\ \A d \in Calls : d # c => pc'[d] = pc[d]
      /\ UNCHANGED <<prev, arrivals, turn>>
  BY DEF Return, Goes, TypeOK
<1>2. /\ p \in Procs /\ Nobody \notin Calls
      /\ \A q \in Procs : tail'[q] = IF q = p /\ tail[p] = c THEN Nobody ELSE tail[q]
  BY CallsAssumption DEF Return, TypeOK
<1>3. Unsettled' = Unsettled
  BY <1>1 DEF Unsettled
<1>4. TurnsAreDistinct' /\ TailIsOwn'
  BY <1>1, <1>2 DEF QueueInv, TurnsAreDistinct, TailIsOwn
<1>5. PrevIsLatest'
  BY <1>1, <1>3 DEF QueueInv, PrevIsLatest
<1>6. TurnsInOrder'
  BY <1>1, <1>3 DEF QueueInv, TurnsInOrder
<1>7. TailIsNewest'
  <2> SUFFICES ASSUME NEW q \in Procs
               PROVE  LET waiting == {d \in Unsettled' : ProcOf[d] = q} IN
                      IF tail'[q] = Nobody
                      THEN waiting = {}
                      ELSE /\ pc'[tail'[q]] \notin {"idle", "returned", "dead"}
                           /\ \A d \in waiting : turn'[d] <= turn'[tail'[q]]
    BY DEF TailIsNewest
  <2>1. CASE q = p /\ tail[p] = c
    <3>1. ASSUME NEW d \in Unsettled, ProcOf[d] = p PROVE FALSE
      <4>1. d \in Calls /\ d # c /\ pc[d] # "idle"
        BY <1>1 DEF Unsettled
      <4>2. turn[d] <= turn[c]
        BY <2>1, <3>1, <1>2 DEF QueueInv, TailIsNewest
      <4>3. turn[d] < turn[c]
        BY <4>1, <4>2 DEF QueueInv, TurnsAreDistinct, TypeOK
      <4>4. QED
        BY <4>1, <4>3, <3>1, <1>1 DEF QueueInv, TurnsInOrder
    <3>2. QED
      BY <3>1, <2>1, <1>2, <1>3
  <2>2. CASE ~ (q = p /\ tail[p] = c)
    <3>1. tail'[q] = tail[q] /\ tail[q] \in Calls \cup {Nobody}
      BY <2>2, <1>2 DEF TypeOK
    <3>2. tail[q] # Nobody => tail[q] # c
      BY <2>2 DEF QueueInv, TailIsOwn
    <3>3. QED
      BY <3>1, <3>2, <1>1, <1>2, <1>3 DEF QueueInv, TailIsNewest
  <2>3. QED
    BY <2>1, <2>2
<1>8. QED
  BY <1>4, <1>5, <1>6, <1>7 DEF QueueInv

LEMMA QueueCrash ==
    ASSUME TypeOK, QueueInv, NEW p \in Procs, Crash(p)
    PROVE  QueueInv'
<1>1. /\ \A d \in Calls : pc'[d] = IF ProcOf[d] = p /\ pc[d] \notin {"idle", "returned"}
                                    THEN "dead" ELSE pc[d]
      /\ \A q \in Procs : tail'[q] = IF q = p THEN Nobody ELSE tail[q]
      /\ UNCHANGED <<prev, arrivals, turn>>
  BY DEF Crash, TypeOK
<1>2. Unsettled' = {d \in Unsettled : ProcOf[d] # p}
  BY <1>1 DEF Unsettled
<1>3. TurnsAreDistinct' /\ TailIsOwn'
  BY <1>1 DEF QueueInv, TurnsAreDistinct, TailIsOwn
<1>4. PrevIsLatest'
  BY <1>1, <1>2 DEF QueueInv, PrevIsLatest
<1>5. TurnsInOrder'
  BY <1>1, <1>2 DEF QueueInv, TurnsInOrder
<1>6. TailIsNewest'
  <2> SUFFICES ASSUME NEW q \in Procs
               PROVE  LET waiting == {d \in Unsettled' : ProcOf[d] = q} IN
                      IF tail'[q] = Nobody
                      THEN waiting = {}
                      ELSE /\ pc'[tail'[q]] \notin {"idle", "returned", "dead"}
                           /\ \A d \in waiting : turn'[d] <= turn'[tail'[q]]
    BY DEF TailIsNewest
  <2>1. CASE q = p
    BY <2>1, <1>1, <1>2
  <2>2. CASE q # p
    <3>1. tail'[q] = tail[q] /\ tail[q] \in Calls \cup {Nobody}
      BY <2>2, <1>1 DEF TypeOK
    <3>2. tail[q] # Nobody => ProcOf[tail[q]] # p
      BY <2>2 DEF QueueInv, TailIsOwn
    <3>3. QED
      BY <2>2, <3>1, <3>2, <1>1, <1>2 DEF QueueInv, TailIsNewest
  <2>3. QED
    BY <2>1, <2>2
<1>7. QED
  BY <1>3, <1>4, <1>5, <1>6 DEF QueueInv

(* Every step keeps the queue. *)
LEMMA QueueStep == TypeOK /\ QueueInv /\ [Next]_vars => QueueInv'
<1> SUFFICES ASSUME TypeOK, QueueInv, [Next]_vars PROVE QueueInv'
  OBVIOUS
<1>1. ASSUME NEW c \in Calls, TakeLock(c) \/ TakeOver(c) PROVE QueueInv'
  BY <1>1, QueueMoves DEF TakeLock, TakeOver, Goes, Pcs
<1>2. ASSUME NEW c \in Calls, ReadFile(c) \/ RenameOver(c) \/ Throw(c) PROVE QueueInv'
  BY <1>2, QueueMoves DEF ReadFile, RenameOver, Throw, Goes, Pcs, InBody
<1>3. ASSUME NEW c \in Calls, Release(c) PROVE QueueInv'
  BY <1>3, QueueMoves DEF Release, Goes, Pcs
<1>4. ASSUME UNCHANGED <<queueVars, pc>> PROVE QueueInv'
  BY <1>4 DEF QueueInv, TurnsAreDistinct, TailIsOwn, PrevIsLatest, TurnsInOrder, TailIsNewest,
              Unsettled, queueVars
<1>5. ASSUME NEW c \in Calls, Refused(c) PROVE QueueInv'
  <2>1. CASE UNCHANGED pc
    BY <2>1, <1>4, <1>5 DEF Refused
  <2>2. CASE Goes(c, "settled")
    BY <2>2, <1>5, QueueMoves DEF Refused, Goes, Pcs
  <2>3. QED
    BY <1>5, <2>1, <2>2 DEF Refused
<1>6. ASSUME NEW c \in Calls, UpdateTimer(c) PROVE QueueInv'
  BY <1>4, <1>6 DEF UpdateTimer
<1>7. CASE GrowStale \/ CleanUp \/ UNCHANGED vars
  BY <1>4, <1>7 DEF GrowStale, CleanUp, vars
<1>8. QED
  BY <1>1, <1>2, <1>3, <1>5, <1>6, <1>7, QueueArrive, QueueTakeTurn, QueueReturn, QueueCrash
     DEF Next, Step

(* The queue of a process is a first-in first-out queue, whatever becomes of its *)
(* calls: the invariant behind the two theorems below (util.ts:168-196).         *)
THEOREM QueueIsFair == Spec => []QueueInv
<1>1. TypeOK /\ TypeOK' /\ QueueInv /\ [Next]_vars => QueueInv'
  BY QueueStep
<1>2. QED
  BY <1>1, QueueInit, TypeCorrect, PTL DEF Spec

(* For every number of processes and of calls, calls of one process ask for the *)
(* lock one at a time and in the order they were made (util.ts:174-182).        *)
THEOREM CallsTakeTurns == Spec => []TurnsInOrder
<1>1. QueueInv => TurnsInOrder
  BY DEF QueueInv
<1>2. QED
  BY <1>1, QueueIsFair, PTL

(* The map of queues holds the newest call as long as anybody waits, and        *)
(* nothing else (util.ts:188-195).                                              *)
THEOREM MapHoldsTheTail == Spec => []TailIsNewest
<1>1. QueueInv => TailIsNewest
  BY DEF QueueInv
<1>2. QED
  BY <1>1, QueueIsFair, PTL

-----------------------------------------------------------------------------
(* The lock and the file *)

LEMMA LockInit == Init => LockInv /\ OutcomeInv
BY DEF Init, LockInv, OutcomeInv, InBody

(* A body that enters when no running body can lose its lock is alone. *)
LEMMA LockEnter ==
    ASSUME TypeOK, LockInv, NEW c \in Calls, TakeLock(c) \/ TakeOver(c)
    PROVE  LockInv'
<1>1. /\ dir' = c /\ UNCHANGED <<snap, file, landed>>
      /\ exclusive' => exclusive /\ dir \notin InBody
      /\ pc'[c] = "locked" /\ \A d \in Calls : d # c => pc'[d] = pc[d]
  BY DEF TakeLock, TakeOver, DirBecomes, Goes, TypeOK, bodyVars
<1>2. exclusive' => InBody = {}
  BY <1>1 DEF LockInv, InBody
<1>3. exclusive' => InBody' = {c}
  BY <1>1, <1>2 DEF InBody
<1>4. QED
  BY <1>1, <1>3 DEF LockInv

LEMMA LockBody ==
    ASSUME TypeOK, LockInv, NEW c \in Calls, ReadFile(c) \/ RenameOver(c) \/ Throw(c)
    PROVE  LockInv'
<1> SUFFICES ASSUME exclusive'
             PROVE  /\ \A d \in InBody' : dir' = d /\ (pc'[d] = "writing" => snap'[d] = file')
                    /\ landed' \subseteq file'
  BY DEF LockInv
<1>1. c \in InBody /\ UNCHANGED <<exclusive, dir>>
  BY DEF ReadFile, RenameOver, Throw, InBody, lockVars
<1>2. InBody = {c} /\ dir = c /\ landed \subseteq file
  BY <1>1 DEF LockInv
<1>3. CASE ReadFile(c)
  <2>1. /\ pc'[c] = "writing" /\ \A d \in Calls : d # c => pc'[d] = pc[d]
        /\ snap'[c] = file /\ UNCHANGED <<file, landed>>
    BY <1>3 DEF ReadFile, Goes, TypeOK
  <2>2. InBody' = {c}
    BY <1>2, <2>1 DEF InBody
  <2>3. QED
    BY <1>1, <1>2, <2>1, <2>2
<1>4. CASE RenameOver(c) \/ Throw(c)
  <2>1. pc'[c] = "releasing" /\ \A d \in Calls : d # c => pc'[d] = pc[d]
    BY <1>4 DEF RenameOver, Throw, Goes, TypeOK
  <2>2. InBody' = {}
    BY <1>2, <2>1 DEF InBody
  <2>3. CASE RenameOver(c)
    <3>1. snap[c] = file /\ file' = snap[c] \cup {c} /\ landed' = landed \cup {c}
      BY <1>1, <2>3 DEF RenameOver, LockInv
    <3>2. QED
      BY <1>2, <2>2, <3>1
  <2>4. CASE Throw(c)
    BY <1>2, <2>2, <2>4 DEF Throw, bodyVars
  <2>5. QED
    BY <1>4, <2>3, <2>4
<1>5. QED
  BY <1>3, <1>4

(* A step that lets no body in, and does not touch the file. *)
LEMMA LockElsewhere ==
    ASSUME TypeOK, LockInv, UNCHANGED bodyVars, InBody' \subseteq InBody,
           \A c \in InBody' : pc'[c] = pc[c],
           exclusive' => exclusive /\ (dir' = dir \/ dir \notin InBody)
    PROVE  LockInv'
BY DEF LockInv, bodyVars

LEMMA LockKept == TypeOK /\ LockInv /\ [Next]_vars => LockInv'
<1> SUFFICES ASSUME TypeOK, LockInv, [Next]_vars PROVE LockInv'
  OBVIOUS
<1>1. ASSUME NEW c \in Calls, Arrive(c) \/ TakeTurn(c) \/ Refused(c) \/ Return(c)
      PROVE  LockInv'
  <2>1. /\ UNCHANGED <<bodyVars, lockVars>>
        /\ InBody' \subseteq InBody
        /\ \A d \in InBody' : pc'[d] = pc[d]
    BY <1>1 DEF Arrive, TakeTurn, Refused, Return, Goes, InBody, TypeOK
  <2>2. QED
    BY <2>1, LockElsewhere DEF lockVars
<1>2. ASSUME NEW c \in Calls, Release(c) PROVE LockInv'
  <2>1. /\ UNCHANGED bodyVars
        /\ InBody' \subseteq InBody
        /\ \A d \in InBody' : pc'[d] = pc[d]
    BY <1>2 DEF Release, Goes, InBody, TypeOK
  <2>2. exclusive' => exclusive /\ (dir' = dir \/ dir \notin InBody)
    BY <1>2 DEF Release, DirBecomes
  <2>3. QED
    BY <2>1, <2>2, LockElsewhere
<1>3. ASSUME NEW c \in Calls, UpdateTimer(c) PROVE LockInv'
  BY <1>3, LockElsewhere DEF UpdateTimer, InBody
<1>4. CASE GrowStale \/ CleanUp
  <2>1. UNCHANGED <<bodyVars, pc>>
    BY <1>4 DEF GrowStale, CleanUp
  <2>2. InBody' = InBody
    BY <2>1 DEF InBody
  <2>3. CASE GrowStale
    BY <2>1, <2>2, <2>3, LockElsewhere DEF GrowStale
  <2>4. CASE CleanUp
    BY <2>1, <2>2, <2>4, LockElsewhere DEF CleanUp, DirBecomes
  <2>5. QED
    BY <1>4, <2>3, <2>4
<1>5. ASSUME NEW p \in Procs, Crash(p) PROVE LockInv'
  <2>1. /\ UNCHANGED <<bodyVars, lockVars>>
        /\ InBody' \subseteq InBody
        /\ \A d \in InBody' : pc'[d] = pc[d]
    BY <1>5 DEF Crash, InBody
  <2>2. QED
    BY <2>1, LockElsewhere DEF lockVars
<1>6. CASE UNCHANGED vars
  BY <1>6, LockElsewhere DEF vars, lockVars, InBody
<1>7. QED
  BY <1>1, <1>2, <1>3, <1>4, <1>5, <1>6, LockEnter, LockBody DEF Next, Step

(* However many processes update the file and whoever crashes, no update that   *)
(* landed is lost as long as no running body lost its lock (util.ts:149-196).   *)
THEOREM UpdatesAreKept == Spec => []NoLostUpdate
<1>1. Init => LockInv
  BY LockInit
<1>2. TypeOK /\ LockInv /\ [Next]_vars => LockInv'
  BY LockKept
<1>3. LockInv => NoLostUpdate
  BY DEF LockInv, NoLostUpdate
<1>4. QED
  BY <1>1, <1>2, <1>3, TypeCorrect, PTL DEF Spec

-----------------------------------------------------------------------------
(* What the caller is told *)

LEMMA OutcomeStep == TypeOK /\ OutcomeInv /\ [Next]_vars => OutcomeInv'
<1> SUFFICES ASSUME TypeOK, OutcomeInv, [Next]_vars PROVE OutcomeInv'
  OBVIOUS
<1>1. ASSUME NEW c \in Calls, \/ Arrive(c) \/ TakeTurn(c) \/ Refused(c) \/ Return(c)
                               \/ TakeLock(c) \/ TakeOver(c) \/ ReadFile(c) \/ Throw(c)
      PROVE  OutcomeInv'
  <2>1. UNCHANGED <<landed, compromised>>
    BY <1>1 DEF Arrive, TakeTurn, Refused, Return, TakeLock, TakeOver, ReadFile, Throw,
                bodyVars, lockVars
  <2>2. /\ \A d \in Calls : d # c => pc'[d] = pc[d] /\ outcome'[d] = outcome[d]
        /\ \/ pc'[c] = "returned" /\ pc[c] = "settled" /\ outcome'[c] = outcome[c]
           \/ pc[c] \notin {"releasing", "settled", "returned", "dead"}
    BY <1>1 DEF Arrive, TakeTurn, Refused, Return, TakeLock, TakeOver, ReadFile, Throw,
                Goes, InBody, TypeOK
  <2>3. QED
    BY <2>1, <2>2 DEF OutcomeInv, TypeOK
<1>2. ASSUME NEW c \in Calls, RenameOver(c) PROVE OutcomeInv'
  <2>1. /\ pc'[c] = "releasing" /\ outcome'[c] = "ok"
        /\ \A d \in Calls : d # c => pc'[d] = pc[d] /\ outcome'[d] = outcome[d]
        /\ landed' = landed \cup {c} /\ UNCHANGED compromised
    BY <1>2 DEF RenameOver, Goes, TypeOK, lockVars
  <2>2. QED
    BY <2>1 DEF OutcomeInv, TypeOK
<1>3. ASSUME NEW c \in Calls, Release(c) PROVE OutcomeInv'
  <2>1. /\ pc[c] = "releasing" /\ pc'[c] = "settled"
        /\ c \in compromised => outcome'[c] = outcome[c]
        /\ \A d \in Calls : d # c => pc'[d] = pc[d] /\ outcome'[d] = outcome[d]
        /\ UNCHANGED <<landed, compromised>>
    BY <1>3 DEF Release, Goes, TypeOK, bodyVars
  <2>2. QED
    BY <2>1 DEF OutcomeInv, TypeOK
<1>4. ASSUME NEW c \in Calls, UpdateTimer(c) PROVE OutcomeInv'
  BY <1>4 DEF UpdateTimer, OutcomeInv, InBody, bodyVars
<1>5. ASSUME NEW p \in Procs, Crash(p) PROVE OutcomeInv'
  <2>1. /\ \A d \in Calls : pc'[d] = pc[d] \/ pc'[d] = "dead"
        /\ UNCHANGED <<landed, compromised, outcome>>
    BY <1>5 DEF Crash, TypeOK, bodyVars, lockVars
  <2>2. QED
    BY <2>1 DEF OutcomeInv, TypeOK
<1>6. CASE GrowStale \/ CleanUp \/ UNCHANGED vars
  BY <1>6 DEF GrowStale, CleanUp, vars, OutcomeInv, bodyVars, lockVars
<1>7. QED
  BY <1>1, <1>2, <1>3, <1>4, <1>5, <1>6 DEF Next, Step

(* A caller is never told that an update failed which landed, because of a      *)
(* compromised lock (util.ts:120-146).                                          *)
THEOREM CompromiseNeverReported == Spec => []CompromiseIsQuiet
<1>1. Init => OutcomeInv
  BY LockInit
<1>2. TypeOK /\ OutcomeInv /\ [Next]_vars => OutcomeInv'
  BY OutcomeStep
<1>3. OutcomeInv => CompromiseIsQuiet
  BY DEF OutcomeInv, CompromiseIsQuiet
<1>4. QED
  BY <1>1, <1>2, <1>3, TypeCorrect, PTL DEF Spec

(* The queue of a process stays in order, whatever becomes of its calls. *)
THEOREM QueueInTurn == Spec => []CallsInTurn
BY CallsTakeTurns, MapHoldsTheTail, PTL DEF CallsInTurn

-----------------------------------------------------------------------------
(* The last model: what every session, event and handler is *)

Records == [model : LastModels \cup {0}, level : Levels \cup {0}]
LevelEvents == [what : {"level"}, level : Levels, user : BOOLEAN]
SessionRecords ==
    [pc : {"off", "model", "level", "end", "live"}, model : LastModels \cup {0}, level : Levels \cup {0},
     restoring : BOOLEAN, saved : Records, cli : Levels \cup {0}, queue : Seq(LevelEvents \cup {Drop}),
     touched : BOOLEAN]
HandlerRecords ==
    [kind : {"none", "model", "level"}, model : LastModels \cup {0}, level : Levels \cup {0},
     user : BOOLEAN, stored : Records]

(* A session that runs is on a model, and on a level it reaches; one that has a model to put
   back knows which. *)
OnALevel(s) ==
    /\ s.pc # "off" => s.model \in LastModels /\ s.level \in Levels /\ s.level <= Ceiling[s.model]
    /\ s.pc = "model" => s.saved.model # 0

(* The latch of the restore covers its own events: those that are queued find it up, and
   whoever drops it is behind them. *)
Latched(s) ==
    /\ s.pc = "off" => s.queue = <<>>
    /\ \A i \in DOMAIN s.queue :
          /\ s.pc # "live" => s.queue[i] # Drop
          /\ s.queue[i] # Drop /\ ~s.queue[i].user => s.restoring
          /\ s.queue[i] = Drop => \A j \in DOMAIN s.queue : i < j /\ s.queue[j] # Drop => s.queue[j].user

(* What the restore has put back so far. *)
PutBack(s) ==
    ~s.touched =>
    /\ s.pc \in {"level", "end"} /\ s.saved.model # 0 => s.model = s.saved.model
    /\ s.pc = "end" /\ s.saved # NoRecord =>
          /\ s.cli # 0 => s.level = Clamp(s.model, s.cli)
          /\ s.cli = 0 /\ s.saved.level # 0 => s.level = Clamp(s.model, s.saved.level)

SessionOK(s) == s \in SessionRecords /\ OnALevel(s) /\ Latched(s) /\ PutBack(s)

(* A handler runs for an event of the user's. *)
HandlerOK(h) ==
    /\ h \in HandlerRecords
    /\ h.kind # "none" => h.user /\ h.model \in LastModels
    /\ h.kind = "level" => h.level \in Levels

(* Unless two handlers ever ran at once, the one that runs is about to write what it was
   told, and with none the record says it already. *)
Tells ==
    ~overlapped =>
    /\ \A p, q \in Windows : ~Free(p) /\ ~Free(q) => p = q
    /\ \A p \in Windows : ~Free(p) => Written(handler[p]) = used
    /\ (\A p \in Windows : Free(p)) => record = used

LastInv ==
    /\ record \in Records /\ used \in Records
    /\ settings \in [model : LastModels \cup {0}, level : Levels]
    /\ overlapped \in BOOLEAN
    /\ session \in [Windows -> SessionRecords] /\ handler \in [Windows -> HandlerRecords]
    /\ \A p \in Windows : SessionOK(session[p]) /\ HandlerOK(handler[p])
    /\ Tells

-----------------------------------------------------------------------------
(* Levels *)

LEMMA ClampIs ==
    ASSUME NEW m \in LastModels, NEW l \in Levels
    PROVE  /\ Clamp(m, l) \in Levels /\ Clamp(m, l) <= Ceiling[m]
           /\ l <= Ceiling[m] => Clamp(m, l) = l
<1>1. l \in Nat /\ Ceiling[m] \in Nat /\ Ceiling[m] \in Levels
  BY LastModelAssumption
<1>2. \E x \in {l, Ceiling[m]} : \A y \in {l, Ceiling[m]} : x =< y
  BY <1>1
<1>3. Clamp(m, l) \in {l, Ceiling[m]} /\ \A y \in {l, Ceiling[m]} : Clamp(m, l) =< y
  BY <1>2 DEF Clamp, Min
<1>4. QED
  BY <1>1, <1>3

LEMMA TopIs == Max(Levels) \in Levels
<1>1. \E x \in Levels : \A y \in Levels : x >= y
  BY LastModelAssumption
<1>2. QED
  BY <1>1 DEF Max

(* pi sets a level: clamped, and announced if it moved. *)
LEMMA WithLevelIs ==
    ASSUME NEW s \in SessionRecords, s.model \in LastModels, NEW l \in Levels, NEW user \in BOOLEAN
    PROVE  LET r == WithLevel(s, l, user) IN
           /\ r \in SessionRecords /\ r.level = Clamp(s.model, l)
           /\ r.pc = s.pc /\ r.model = s.model /\ r.restoring = s.restoring /\ r.saved = s.saved
           /\ r.cli = s.cli /\ r.touched = s.touched
           /\ \/ r.queue = s.queue
              \/ r.queue = Append(s.queue, LevelEvent(r.level, user))
<1>1. Clamp(s.model, l) \in Levels
  BY ClampIs
<1>2. LevelEvent(Clamp(s.model, l), user) \in LevelEvents
  BY <1>1 DEF LevelEvent, LevelEvents
<1>3. s.queue \in Seq(LevelEvents \cup {Drop})
  BY DEF SessionRecords
<1>4. Append(s.queue, LevelEvent(Clamp(s.model, l), user)) \in Seq(LevelEvents \cup {Drop})
  BY <1>2, <1>3
<1> DEFINE c == Clamp(s.model, l)
           q == Append(s.queue, LevelEvent(c, user))
<1> HIDE DEF c, q
<1>5. [s EXCEPT !.level = c, !.queue = q] \in SessionRecords
  BY <1>1, <1>4 DEF SessionRecords, c, q
<1>6. WithLevel(s, l, user) = IF c = s.level THEN s ELSE [s EXCEPT !.level = c, !.queue = q]
  BY DEF WithLevel, c, q
<1>7. QED
  BY <1>5, <1>6 DEF SessionRecords, c, q

LEMMA DropIs == Drop \notin LevelEvents /\ Drop.what = "drop"
BY DEF Drop, LevelEvents

(* An event joins the queue: one of the restore's only while the latch is up and nothing
   waits to drop it. *)
LEMMA QueueJoined ==
    ASSUME NEW s \in SessionRecords, NEW r \in SessionRecords, Latched(s),
           NEW l \in Levels, NEW user \in BOOLEAN,
           s.pc # "off", r.pc # "off", s.pc = "live" => r.pc = "live",
           s.restoring => r.restoring,
           user \/ (r.restoring /\ s.pc # "live"),
           r.queue = s.queue \/ r.queue = Append(s.queue, LevelEvent(l, user))
    PROVE  Latched(r)
<1> DEFINE e == LevelEvent(l, user)
<1>1. e # Drop /\ e.user = user
  BY DEF LevelEvent, Drop
<1>2. s.queue \in Seq(LevelEvents \cup {Drop})
  BY DEF SessionRecords
<1> HIDE DEF e
<1>3. CASE r.queue = s.queue
  BY <1>3 DEF Latched
<1>4. CASE r.queue = Append(s.queue, e)
  <2>1. /\ DOMAIN r.queue = 1..(Len(s.queue) + 1) /\ DOMAIN s.queue = 1..Len(s.queue)
        /\ \A i \in DOMAIN s.queue : r.queue[i] = s.queue[i]
        /\ r.queue[Len(s.queue) + 1] = e /\ Len(s.queue) \in Nat
    BY <1>2, <1>4
  <2>2. \A i \in DOMAIN r.queue : i \in DOMAIN s.queue \/ i = Len(s.queue) + 1
    BY <2>1
  <2>3. QED
    BY <1>1, <2>1, <2>2 DEF Latched
<1>5. QED
  BY <1>3, <1>4 DEF e

-----------------------------------------------------------------------------
(* Sessions, step by step *)

LEMMA SessionTypes ==
    ASSUME LastInv, NEW p \in Windows
    PROVE  /\ session[p] \in SessionRecords /\ SessionOK(session[p])
           /\ settings.level \in Levels /\ settings.model \in LastModels \cup {0}
           /\ handler[p] \in HandlerRecords /\ HandlerOK(handler[p])
BY DEF LastInv

LEMMA Settled ==
    ASSUME LastInv, NEW p \in Windows, NEW s, SessionOK(s), s.pc # "off", Becomes(p, s)
    PROVE  /\ session' \in [Windows -> SessionRecords] /\ \A q \in Windows : SessionOK(session'[q])
           /\ settings' \in [model : LastModels \cup {0}, level : Levels]
<1>1. s \in SessionRecords /\ s.level \in Levels
  BY DEF SessionOK, OnALevel
<1>2. session' \in [Windows -> SessionRecords] /\ \A q \in Windows : SessionOK(session'[q])
  BY <1>1 DEF Becomes, LastInv
<1>3. settings' = settings \/ settings' = [settings EXCEPT !.level = s.level]
  BY DEF Becomes, SettingsOf
<1>4. QED
  BY <1>1, <1>2, <1>3 DEF LastInv

LEMMA OffOK == SessionOK(Off) /\ HandlerOK(NoHandler) /\ NoRecord \in Records /\ NoHandler.kind = "none"
<1>1. Off \in SessionRecords
  BY DEF Off, SessionRecords, Records, NoRecord
<1>2. QED
  BY <1>1 DEF SessionOK, OnALevel, Latched, PutBack, Off, HandlerOK, NoHandler, HandlerRecords,
     NoRecord, Records

LEMMA StartOK ==
    ASSUME LastInv, NEW p \in Windows, StartLast(p)
    PROVE  /\ session' \in [Windows -> SessionRecords] /\ \A q \in Windows : SessionOK(session'[q])
           /\ settings' \in [model : LastModels \cup {0}, level : Levels]
<1>1. PICK m \in LastModels, skips \in BOOLEAN, thinking \in BOOLEAN :
         LET l == IF thinking THEN Max(Levels) ELSE settings.level
             s == [Off EXCEPT !.model = m, !.level = Clamp(m, l)] IN
         /\ session' = [session EXCEPT ![p] =
                IF skips \/ Saved = NoRecord THEN [s EXCEPT !.pc = "live", !.queue = <<Drop>>]
                ELSE [s EXCEPT !.pc = "model", !.saved = Saved,
                               !.cli = IF thinking THEN s.level ELSE 0]]
         /\ settings' = IF thinking THEN settings ELSE [settings EXCEPT !.level = s.level]
  BY DEF StartLast
<1> DEFINE l == IF thinking THEN Max(Levels) ELSE settings.level
           k == Clamp(m, l)
           s == [Off EXCEPT !.model = m, !.level = k]
           a == [s EXCEPT !.pc = "live", !.queue = <<Drop>>]
           b == [s EXCEPT !.pc = "model", !.saved = Saved, !.cli = IF thinking THEN s.level ELSE 0]
<1>2. l \in Levels
  BY TopIs, SessionTypes
<1>3. k \in Levels /\ k <= Ceiling[m]
  BY <1>2, ClampIs
<1>4. Saved \in Records /\ (Saved # NoRecord => Saved.model # 0)
  BY OffOK DEF Saved, LastInv, Records
<1> HIDE DEF l, k
<1>5. /\ s.pc = "off" /\ s.model = m /\ s.level = k /\ ~s.restoring /\ s.queue = <<>> /\ ~s.touched
      /\ s \in SessionRecords
  BY <1>3, OffOK DEF SessionOK, Off, SessionRecords
<1> HIDE DEF s
<1>6. a \in SessionRecords
  <2>1. <<Drop>> \in Seq(LevelEvents \cup {Drop})
    OBVIOUS
  <2>2. QED
    BY <1>5, <2>1 DEF SessionRecords
<1>7. b \in SessionRecords
  BY <1>3, <1>4, <1>5 DEF SessionRecords
<1>8. SessionOK(a)
  BY <1>3, <1>5, <1>6 DEF SessionOK, OnALevel, Latched, PutBack, SessionRecords
<1>9. Saved # NoRecord => SessionOK(b)
  BY <1>3, <1>4, <1>5, <1>7 DEF SessionOK, OnALevel, Latched, PutBack, SessionRecords
<1> HIDE DEF a, b
<1>10. \/ session' = [session EXCEPT ![p] = a]
       \/ session' = [session EXCEPT ![p] = b] /\ Saved # NoRecord
  BY <1>1 DEF a, b, s, k, l
<1>11. settings' = settings \/ settings' = [settings EXCEPT !.level = k]
  BY <1>1, <1>5 DEF s, k, l
<1>12. QED
  BY <1>3, <1>6, <1>7, <1>8, <1>9, <1>10, <1>11 DEF LastInv

LEMMA SetModelOK ==
    ASSUME LastInv, NEW p \in Windows, SetSavedModel(p)
    PROVE  /\ session' \in [Windows -> SessionRecords] /\ \A q \in Windows : SessionOK(session'[q])
           /\ settings' \in [model : LastModels \cup {0}, level : Levels]
<1> DEFINE s == session[p]
           raised == [s EXCEPT !.pc = "level", !.restoring = TRUE]
<1>1. SessionOK(s) /\ s.pc = "model" /\ settings.level \in Levels /\ s \in SessionRecords
  BY SessionTypes DEF SetSavedModel
<1> HIDE DEF s
<1>2. raised \in SessionRecords /\ raised.queue = s.queue /\ raised.saved = s.saved /\ raised.pc = "level"
      /\ raised.model = s.model /\ raised.level = s.level /\ raised.restoring /\ raised.touched = s.touched
  BY <1>1 DEF SessionRecords
<1>3. \A r : /\ r \in SessionRecords /\ r.model = s.model /\ r.level = s.level /\ r.queue = s.queue
             /\ r.pc \in {"level", "end"} /\ r.touched = s.touched
             /\ (s.restoring => r.restoring)
             /\ (r.saved.model # 0 => r.model = r.saved.model)
             /\ (r.pc = "end" => r.saved = NoRecord)
             => SessionOK(r)
  BY <1>1 DEF SessionOK, OnALevel, Latched, PutBack
<1>4. CASE Becomes(p, [s EXCEPT !.pc = "level"]) /\ s.model = s.saved.model
  <2> DEFINE r == [s EXCEPT !.pc = "level"]
  <2>1. r \in SessionRecords /\ r.model = s.model /\ r.level = s.level /\ r.queue = s.queue /\ r.pc = "level"
        /\ r.touched = s.touched /\ r.restoring = s.restoring /\ r.saved = s.saved
    BY <1>1 DEF SessionRecords
  <2> HIDE DEF r
  <2>2. SessionOK(r)
    BY <1>3, <1>4, <2>1
  <2>3. QED
    BY <1>4, <2>1, <2>2, Settled DEF r
<1>5. CASE Becomes(p, [s EXCEPT !.pc = "level", !.saved.model = 0])
  <2> DEFINE r == [s EXCEPT !.pc = "level", !.saved.model = 0]
  <2>1. r \in SessionRecords /\ r.model = s.model /\ r.level = s.level /\ r.queue = s.queue /\ r.pc = "level"
        /\ r.touched = s.touched /\ r.restoring = s.restoring /\ r.saved.model = 0
    BY <1>1 DEF SessionRecords, Records
  <2> HIDE DEF r
  <2>2. SessionOK(r)
    BY <1>3, <2>1
  <2>3. QED
    BY <1>5, <2>1, <2>2, Settled DEF r
<1>6. CASE Becomes(p, [raised EXCEPT !.saved.model = 0])
  <2> DEFINE r == [raised EXCEPT !.saved.model = 0]
  <2> HIDE DEF raised
  <2>1. r \in SessionRecords /\ r.model = s.model /\ r.level = s.level /\ r.queue = s.queue /\ r.pc = "level"
        /\ r.touched = s.touched /\ r.restoring /\ r.saved.model = 0
    BY <1>2 DEF SessionRecords, Records
  <2> HIDE DEF r
  <2>2. SessionOK(r)
    BY <1>3, <2>1
  <2>3. QED
    BY <1>6, <2>1, <2>2, Settled DEF r
<1>7. CASE Becomes(p, [raised EXCEPT !.pc = "end", !.saved = NoRecord])
  <2> DEFINE r == [raised EXCEPT !.pc = "end", !.saved = NoRecord]
  <2> HIDE DEF raised
  <2>1. r \in SessionRecords /\ r.model = s.model /\ r.level = s.level /\ r.queue = s.queue /\ r.pc = "end"
        /\ r.touched = s.touched /\ r.restoring /\ r.saved = NoRecord /\ r.saved.model = 0
    BY <1>2, OffOK DEF SessionRecords, NoRecord
  <2> HIDE DEF r
  <2>2. SessionOK(r)
    BY <1>3, <2>1
  <2>3. QED
    BY <1>7, <2>1, <2>2, Settled DEF r
<1>8. CASE Becomes(p, WithModel(raised, s.saved.model, FALSE)) /\ s.saved.model \in LastModels
  <2> DEFINE t == [raised EXCEPT !.model = s.saved.model]
             r == WithLevel(t, settings.level, FALSE)
  <2>1. t \in SessionRecords /\ t.model = s.saved.model /\ t.pc = "level" /\ t.restoring
        /\ t.saved = s.saved /\ t.queue = s.queue /\ t.touched = s.touched
    BY <1>2, <1>8 DEF SessionRecords
  <2> HIDE DEF t, raised
  <2>2. /\ r \in SessionRecords /\ r.level = Clamp(t.model, settings.level)
        /\ r.pc = t.pc /\ r.model = t.model /\ r.restoring = t.restoring /\ r.saved = t.saved
        /\ r.touched = t.touched
        /\ r.queue = t.queue \/ r.queue = Append(t.queue, LevelEvent(r.level, FALSE))
    BY <1>1, <1>8, <2>1, WithLevelIs
  <2> HIDE DEF r
  <2>3. r.level \in Levels /\ r.level <= Ceiling[r.model]
    BY <1>1, <1>8, <2>1, <2>2, ClampIs
  <2>4. Latched(r)
    BY <1>1, <2>1, <2>2, <2>3, QueueJoined DEF SessionOK
  <2>5. SessionOK(r)
    BY <1>8, <2>1, <2>2, <2>3, <2>4 DEF SessionOK, OnALevel, PutBack
  <2>6. Becomes(p, r)
    BY <1>8 DEF WithModel, r, t
  <2>7. QED
    BY <2>1, <2>2, <2>5, <2>6, Settled
<1>9. s.saved.model \in LastModels
  BY <1>1 DEF SessionOK, OnALevel, SessionRecords, Records
<1>10. QED
  BY <1>4, <1>5, <1>6, <1>7, <1>8, <1>9 DEF SetSavedModel, s

LEMMA SetLevelOK ==
    ASSUME LastInv, NEW p \in Windows, SetSavedLevel(p)
    PROVE  /\ session' \in [Windows -> SessionRecords] /\ \A q \in Windows : SessionOK(session'[q])
           /\ settings' \in [model : LastModels \cup {0}, level : Levels]
<1> DEFINE s    == session[p]
           want == IF s.cli # 0 THEN s.cli ELSE s.saved.level
           t    == [s EXCEPT !.pc = "end"]
           u    == [t EXCEPT !.restoring = TRUE]
           r    == WithLevel(u, want, FALSE)
<1>1. SessionOK(s) /\ s.pc = "level" /\ s \in SessionRecords
  BY SessionTypes DEF SetSavedLevel
<1> HIDE DEF s
<1>2. /\ t \in SessionRecords /\ t.pc = "end" /\ t.model = s.model /\ t.level = s.level /\ t.queue = s.queue
      /\ t.restoring = s.restoring /\ t.saved = s.saved /\ t.cli = s.cli /\ t.touched = s.touched
  BY <1>1 DEF SessionRecords
<1> HIDE DEF t
<1>3. /\ u \in SessionRecords /\ u.pc = "end" /\ u.model = s.model /\ u.level = s.level /\ u.queue = s.queue
      /\ u.restoring /\ u.saved = s.saved /\ u.cli = s.cli /\ u.touched = s.touched
  BY <1>2 DEF SessionRecords
<1> HIDE DEF u
<1>4. want \in Levels \cup {0} /\ (s.cli # 0 => want = s.cli) /\ (s.cli = 0 => want = s.saved.level)
  BY <1>1 DEF SessionRecords, Records
<1>5. s.model \in LastModels /\ s.level \in Levels /\ s.level <= Ceiling[s.model]
  BY <1>1 DEF SessionOK, OnALevel
<1> HIDE DEF want
<1>6. ASSUME want = 0 \/ want = s.level PROVE SessionOK(t)
  <2>1. s.level = Clamp(s.model, s.level)
    BY <1>5, ClampIs
  <2>2. Latched(t) /\ OnALevel(t)
    BY <1>1, <1>2 DEF SessionOK, OnALevel, Latched
  <2>3. PutBack(t)
    BY <1>1, <1>2, <1>4, <1>6, <2>1 DEF SessionOK, PutBack
  <2>4. QED
    BY <1>2, <2>2, <2>3 DEF SessionOK
<1>7. ASSUME want # 0 PROVE SessionOK(r)
  <2>1. want \in Levels
    BY <1>4, <1>7
  <2>0. u.model \in LastModels
    BY <1>3, <1>5
  <2>2. /\ r \in SessionRecords /\ r.level = Clamp(u.model, want)
        /\ r.pc = u.pc /\ r.model = u.model /\ r.restoring = u.restoring /\ r.saved = u.saved
        /\ r.cli = u.cli /\ r.touched = u.touched
        /\ r.queue = u.queue \/ r.queue = Append(u.queue, LevelEvent(r.level, FALSE))
    BY <1>3, <2>0, <2>1, WithLevelIs
  <2> HIDE DEF r
  <2>9. /\ r \in SessionRecords /\ r.level = Clamp(s.model, want)
        /\ r.pc = "end" /\ r.model = s.model /\ r.restoring /\ r.saved = s.saved
        /\ r.cli = s.cli /\ r.touched = s.touched
        /\ r.queue = s.queue \/ r.queue = Append(s.queue, LevelEvent(r.level, FALSE))
    BY <1>3, <2>2
  <2>3. r.level \in Levels /\ r.level <= Ceiling[r.model]
    BY <1>5, <2>1, <2>9, ClampIs
  <2>4. Latched(r)
    BY <1>1, <2>3, <2>9, QueueJoined DEF SessionOK
  <2>5. PutBack(r)
    BY <1>1, <1>4, <2>9 DEF SessionOK, PutBack
  <2>6. QED
    BY <1>5, <2>3, <2>4, <2>5, <2>9 DEF SessionOK, OnALevel
<1>8. Becomes(p, IF want = 0 \/ want = s.level THEN t ELSE r)
  BY DEF SetSavedLevel, r, u, t, want, s
<1>9. r.pc = "end" \/ want = 0
  BY <1>3, <1>4, <1>5, WithLevelIs
<1> HIDE DEF r
<1>10. CASE want = 0 \/ want = s.level
  BY <1>2, <1>6, <1>8, <1>10, Settled
<1>11. CASE ~(want = 0 \/ want = s.level)
  BY <1>7, <1>8, <1>9, <1>11, Settled
<1>12. QED
  BY <1>10, <1>11

(* The latch is dropped behind the events that are queued. *)
LEMMA RestoreEndsOK ==
    ASSUME LastInv, NEW p \in Windows, RestoreEnds(p)
    PROVE  /\ session' \in [Windows -> SessionRecords] /\ \A q \in Windows : SessionOK(session'[q])
           /\ settings' \in [model : LastModels \cup {0}, level : Levels]
<1> DEFINE s == session[p]
           r == [s EXCEPT !.pc = "live", !.queue = Append(@, Drop)]
<1>1. SessionOK(s) /\ s.pc = "end" /\ s \in SessionRecords
  BY SessionTypes DEF RestoreEnds
<1> HIDE DEF s
<1>2. s.queue \in Seq(LevelEvents \cup {Drop})
  BY <1>1 DEF SessionRecords
<1>3. Append(s.queue, Drop) \in Seq(LevelEvents \cup {Drop})
  BY <1>2
<1>4. /\ r \in SessionRecords /\ r.pc = "live" /\ r.model = s.model /\ r.level = s.level
      /\ r.restoring = s.restoring /\ r.queue = Append(s.queue, Drop)
  BY <1>1, <1>3 DEF SessionRecords
<1> HIDE DEF r
<1>5. /\ DOMAIN r.queue = 1..(Len(s.queue) + 1) /\ DOMAIN s.queue = 1..Len(s.queue)
      /\ \A i \in DOMAIN s.queue : r.queue[i] = s.queue[i]
      /\ r.queue[Len(s.queue) + 1] = Drop /\ Len(s.queue) \in Nat
  BY <1>2, <1>4
<1>6. \A i \in DOMAIN r.queue : i \in DOMAIN s.queue \/ i = Len(s.queue) + 1
  BY <1>5
<1>7. Latched(r)
  BY <1>1, <1>4, <1>5, <1>6 DEF SessionOK, Latched
<1>8. SessionOK(r)
  BY <1>1, <1>4, <1>7 DEF SessionOK, OnALevel, PutBack
<1>9. Becomes(p, r)
  BY DEF RestoreEnds, r, s
<1>10. QED
  BY <1>4, <1>8, <1>9, Settled

(* The user's choices queue events of the user's. *)
LEMMA UserModelOK ==
    ASSUME LastInv, NEW p \in Windows, NEW m \in LastModels, UserModel(p, m)
    PROVE  /\ session' \in [Windows -> SessionRecords] /\ \A q \in Windows : SessionOK(session'[q])
           /\ settings' \in [model : LastModels \cup {0}, level : Levels]
<1> DEFINE s == session[p]
           u == [[s EXCEPT !.touched = TRUE] EXCEPT !.model = m]
           r == WithLevel(u, settings.level, TRUE)
<1>1. SessionOK(s) /\ s.pc # "off" /\ s \in SessionRecords /\ settings.level \in Levels
  BY SessionTypes DEF UserModel
<1> HIDE DEF s
<1>2. /\ u \in SessionRecords /\ u.pc = s.pc /\ u.model = m /\ u.queue = s.queue
      /\ u.restoring = s.restoring /\ u.touched /\ u.saved = s.saved
  BY <1>1 DEF SessionRecords
<1> HIDE DEF u
<1>9. u.model \in LastModels
  BY <1>2
<1>10. /\ r \in SessionRecords /\ r.level = Clamp(u.model, settings.level)
       /\ r.pc = u.pc /\ r.model = u.model /\ r.restoring = u.restoring /\ r.saved = u.saved
       /\ r.cli = u.cli /\ r.touched = u.touched
       /\ r.queue = u.queue \/ r.queue = Append(u.queue, LevelEvent(r.level, TRUE))
  BY <1>1, <1>2, <1>9, WithLevelIs
<1> HIDE DEF r
<1>3. /\ r \in SessionRecords /\ r.level = Clamp(m, settings.level)
      /\ r.pc = s.pc /\ r.model = m /\ r.restoring = s.restoring /\ r.touched /\ r.saved = s.saved
      /\ r.queue = s.queue \/ r.queue = Append(s.queue, LevelEvent(r.level, TRUE))
  BY <1>2, <1>10
<1>4. r.level \in Levels /\ r.level <= Ceiling[m]
  BY <1>1, <1>3, ClampIs
<1>5. Latched(r)
  BY <1>1, <1>3, <1>4, QueueJoined DEF SessionOK
<1>6. SessionOK(r)
  BY <1>1, <1>3, <1>4, <1>5 DEF SessionOK, OnALevel, PutBack
<1>7. Becomes(p, r)
  BY DEF UserModel, WithModel, r, u, s
<1>8. QED
  BY <1>1, <1>3, <1>6, <1>7, Settled

LEMMA UserLevelOK ==
    ASSUME LastInv, NEW p \in Windows, NEW l \in Levels, UserLevel(p, l)
    PROVE  /\ session' \in [Windows -> SessionRecords] /\ \A q \in Windows : SessionOK(session'[q])
           /\ settings' \in [model : LastModels \cup {0}, level : Levels]
<1> DEFINE s == session[p]
           u == [s EXCEPT !.touched = TRUE]
           r == WithLevel(u, l, TRUE)
<1>1. SessionOK(s) /\ s.pc # "off" /\ s \in SessionRecords
  BY SessionTypes DEF UserLevel
<1> HIDE DEF s
<1>2. /\ u \in SessionRecords /\ u.pc = s.pc /\ u.model = s.model /\ u.queue = s.queue
      /\ u.restoring = s.restoring /\ u.touched /\ u.saved = s.saved
  BY <1>1 DEF SessionRecords
<1> HIDE DEF u
<1>3. s.model \in LastModels
  BY <1>1 DEF SessionOK, OnALevel
<1>10. u.model \in LastModels
  BY <1>2, <1>3
<1>11. /\ r \in SessionRecords /\ r.level = Clamp(u.model, l)
       /\ r.pc = u.pc /\ r.model = u.model /\ r.restoring = u.restoring /\ r.saved = u.saved
       /\ r.cli = u.cli /\ r.touched = u.touched
       /\ r.queue = u.queue \/ r.queue = Append(u.queue, LevelEvent(r.level, TRUE))
  BY <1>2, <1>10, WithLevelIs
<1> HIDE DEF r
<1>4. /\ r \in SessionRecords /\ r.level = Clamp(s.model, l)
      /\ r.pc = s.pc /\ r.model = s.model /\ r.restoring = s.restoring /\ r.touched /\ r.saved = s.saved
      /\ r.queue = s.queue \/ r.queue = Append(s.queue, LevelEvent(r.level, TRUE))
  BY <1>2, <1>11
<1>5. r.level \in Levels /\ r.level <= Ceiling[r.model]
  BY <1>3, <1>4, ClampIs
<1>6. Latched(r)
  BY <1>1, <1>4, <1>5, QueueJoined DEF SessionOK
<1>7. SessionOK(r)
  BY <1>1, <1>3, <1>4, <1>5, <1>6 DEF SessionOK, OnALevel, PutBack
<1>8. Becomes(p, r)
  BY DEF UserLevel, r, u, s
<1>9. QED
  BY <1>1, <1>4, <1>7, <1>8, Settled

(* An event leaves the queue; the one that drops the latch leaves none of the restore's. *)
LEMMA MicrotaskOK ==
    ASSUME LastInv, NEW p \in Windows, LastMicrotask(p)
    PROVE  /\ session' \in [Windows -> SessionRecords] /\ \A q \in Windows : SessionOK(session'[q])
           /\ LET e == Head(session[p].queue) IN
                /\ e \in LevelEvents \/ e = Drop
                /\ session[p].pc # "off"
                /\ e # Drop /\ ~session[p].restoring => e.user
<1> DEFINE s == session[p]
           e == Head(s.queue)
           t == [s EXCEPT !.queue = Tail(@)]
           r == IF e.what = "drop" THEN [t EXCEPT !.restoring = FALSE] ELSE t
<1>1. SessionOK(s) /\ s \in SessionRecords /\ s.queue # <<>>
  BY SessionTypes DEF LastMicrotask
<1>2. session' = [session EXCEPT ![p] = r]
  BY DEF LastMicrotask
<1> HIDE DEF s
<1>3. s.queue \in Seq(LevelEvents \cup {Drop})
  BY <1>1 DEF SessionRecords
<1>4. /\ Tail(s.queue) \in Seq(LevelEvents \cup {Drop}) /\ e \in LevelEvents \cup {Drop}
      /\ e = s.queue[1] /\ 1 \in DOMAIN s.queue
      /\ \A i \in DOMAIN Tail(s.queue) : /\ i + 1 \in DOMAIN s.queue /\ Tail(s.queue)[i] = s.queue[i + 1]
                                         /\ i \in Nat /\ 1 < i + 1
  BY <1>1, <1>3
<1>5. e.what = "drop" <=> e = Drop
  BY <1>4, DropIs DEF LevelEvents
<1> HIDE DEF e
<1>6. /\ r \in SessionRecords /\ r.pc = s.pc /\ r.model = s.model /\ r.level = s.level /\ r.cli = s.cli
      /\ r.saved = s.saved /\ r.touched = s.touched /\ r.queue = Tail(s.queue)
      /\ r.restoring = (s.restoring /\ e # Drop)
  BY <1>1, <1>4, <1>5 DEF SessionRecords
<1> HIDE DEF r
<1>7. s.pc # "off" /\ (e # Drop /\ ~s.restoring => e.user)
  BY <1>1, <1>4 DEF SessionOK, Latched
<1>8. Latched(r)
  <2> DEFINE k == s.queue
             d == Tail(k)
  <2>1. r.queue = d /\ r.pc = s.pc /\ (r.restoring <=> s.restoring /\ e # Drop)
    BY <1>6
  <2>2. /\ \A i \in DOMAIN k : /\ s.pc # "live" => k[i] # Drop
                               /\ k[i] # Drop /\ ~k[i].user => s.restoring
                               /\ k[i] = Drop => \A j \in DOMAIN k : i < j /\ k[j] # Drop => k[j].user
    BY <1>1 DEF SessionOK, Latched
  <2>3. /\ e = k[1] /\ 1 \in DOMAIN k
        /\ \A i \in DOMAIN d : i + 1 \in DOMAIN k /\ d[i] = k[i + 1] /\ i \in Nat /\ 1 < i + 1
    BY <1>4
  <2> HIDE DEF k, d
  <2>4. SUFFICES ASSUME NEW i \in DOMAIN d
                 PROVE  /\ s.pc # "live" => d[i] # Drop
                        /\ d[i] # Drop /\ ~d[i].user => s.restoring /\ e # Drop
                        /\ d[i] = Drop => \A j \in DOMAIN d : i < j /\ d[j] # Drop => d[j].user
    BY <1>7, <2>1 DEF Latched
  <2>5. (s.pc # "live" => d[i] # Drop) /\ (d[i] # Drop /\ ~d[i].user => s.restoring)
    BY <2>2, <2>3
  <2>6. d[i] # Drop /\ ~d[i].user => e # Drop
    BY <2>2, <2>3
  <2>7. ASSUME d[i] = Drop, NEW j \in DOMAIN d, i < j, d[j] # Drop PROVE d[j].user
    <3>1. i + 1 < j + 1 /\ i + 1 \in DOMAIN k /\ j + 1 \in DOMAIN k /\ k[i + 1] = Drop /\ k[j + 1] # Drop
          /\ d[j] = k[j + 1]
      BY <2>3, <2>7
    <3>2. QED
      BY <2>2, <3>1
  <2>8. QED
    BY <2>5, <2>6, <2>7
<1>9. SessionOK(r)
  BY <1>1, <1>6, <1>8 DEF SessionOK, OnALevel, PutBack
<1>10. QED
  BY <1>2, <1>4, <1>6, <1>7, <1>9 DEF LastInv, s, e

-----------------------------------------------------------------------------
(* Handlers *)

(* A handler begins: it reads the record, and what it will write is what it was told. *)
LEMMA HandlerBegins ==
    ASSUME LastInv, NEW p \in Windows, Free(p), NEW h \in HandlerRecords, h.user, h.model \in LastModels,
           h.kind \in {"model", "level"}, h.kind = "level" => h.level \in Levels,
           Begin(p, h), UNCHANGED record,
           h.kind = "model" => used' = [used EXCEPT !.model = h.model],
           h.kind = "level" => used' = [model |-> IF used.model = 0 THEN h.model ELSE used.model,
                                        level |-> h.level]
    PROVE  /\ used' \in Records /\ overlapped' \in BOOLEAN /\ handler' \in [Windows -> HandlerRecords]
           /\ \A q \in Windows : HandlerOK(handler'[q])
           /\ Tells'
<1> DEFINE g == [h EXCEPT !.stored = record]
<1>1. record \in Records /\ used \in Records
  BY DEF LastInv
<1>2. /\ g \in HandlerRecords /\ g.kind = h.kind /\ g.model = h.model /\ g.level = h.level /\ g.user = h.user
      /\ g.stored = record
  BY <1>1 DEF HandlerRecords
<1> HIDE DEF g
<1>3. handler' = [handler EXCEPT ![p] = g] /\ handler \in [Windows -> HandlerRecords]
  BY DEF Begin, LastInv, g
<1>4. HandlerOK(g) /\ g.kind # "none"
  BY <1>2 DEF HandlerOK
<1>5. used' \in Records
  BY <1>1 DEF Records, HandlerRecords
<1>6. /\ overlapped' = (overlapped \/ \E q \in Windows \ {p} : ~Free(q)) /\ overlapped \in BOOLEAN
  BY DEF Begin, LastInv
<1>7. ASSUME ~overlapped', record = used PROVE Written(g) = used'
  <2>1. CASE g.kind = "model"
    BY <1>1, <1>2, <1>7, <2>1 DEF Written, Records
  <2>2. CASE g.kind = "level"
    BY <1>1, <1>2, <1>7, <2>2 DEF Written, Records
  <2>3. QED
    BY <1>2, <2>1, <2>2
<1>8. ASSUME ~overlapped' PROVE \A q \in Windows : Free(q)
  BY <1>6, <1>8
<1>9. ~overlapped' => record = used
  BY <1>6, <1>8 DEF LastInv, Tells
<1>11. ASSUME ~overlapped'
       PROVE  /\ \A q \in Windows : handler'[q].kind # "none" => q = p
              /\ handler'[p] = g /\ Written(g) = used'
  BY <1>3, <1>7, <1>8, <1>9, <1>11 DEF Free
<1>12. Tells'
  <2> SUFFICES ASSUME ~overlapped' PROVE
          /\ \A q, r \in Windows : handler'[q].kind # "none" /\ handler'[r].kind # "none" => q = r
          /\ \A q \in Windows : handler'[q].kind # "none" => Written(handler[q])' = used'
          /\ (\A q \in Windows : handler'[q].kind = "none") => record' = used'
    BY DEF Tells, Free
  <2>1. \A q \in Windows : handler'[q].kind # "none" => q = p
    BY <1>11
  <2>2. handler'[p] = g /\ g.kind # "none"
    BY <1>4, <1>11
  <2>3. Written(handler[p])' = Written(g)
    <3>1. handler'[p] = g /\ record' = record
      BY <2>2
    <3>2. QED
      BY <3>1 DEF Written
  <2>4. QED
    BY <1>11, <2>1, <2>2, <2>3
<1>13. handler' \in [Windows -> HandlerRecords]
  BY <1>2, <1>3
<1>14. ASSUME NEW q \in Windows PROVE HandlerOK(handler'[q])
  <2>1. handler'[q] = g \/ handler'[q] = handler[q]
    BY <1>3
  <2>2. HandlerOK(handler[q])
    BY DEF LastInv
  <2>3. QED
    BY <1>4, <2>1, <2>2
<1>15. overlapped' \in BOOLEAN
  BY <1>6
<1>16. QED
  BY <1>5, <1>12, <1>13, <1>14, <1>15

LEMMA HandlerEnds ==
    ASSUME LastInv, NEW p \in Windows, WriteLast(p)
    PROVE  /\ record' \in Records /\ handler' \in [Windows -> HandlerRecords]
           /\ \A q \in Windows : HandlerOK(handler'[q])
           /\ Tells'
<1>1. record \in Records /\ handler \in [Windows -> HandlerRecords] /\ handler[p] \in HandlerRecords
      /\ HandlerOK(handler[p]) /\ ~Free(p)
  BY SessionTypes DEF WriteLast, LastInv
<1>2. record' = Written(handler[p]) /\ handler' = [handler EXCEPT ![p] = NoHandler]
      /\ UNCHANGED <<used, overlapped>>
  BY DEF WriteLast
<1>3. Written(handler[p]) \in Records
  <2> DEFINE h == handler[p]
  <2>1. h.stored \in Records /\ h.model \in LastModels /\ (h.kind = "level" => h.level \in Levels)
        /\ h.kind \in {"model", "level"}
    BY <1>1 DEF HandlerOK, HandlerRecords, Free
  <2> HIDE DEF h
  <2>2. Written(h) \in Records
    BY <1>1, <2>1 DEF Written, Records
  <2>3. QED
    BY <2>2 DEF h
<1>4. NoHandler \in HandlerRecords /\ HandlerOK(NoHandler) /\ NoHandler.kind = "none"
  BY OffOK DEF HandlerOK
<1>5. ASSUME ~overlapped PROVE (\A q \in Windows : handler'[q].kind = "none") /\ record' = used'
  <2>1. \A q \in Windows : q # p => handler[q].kind = "none"
    BY <1>1, <1>5 DEF LastInv, Tells, Free
  <2>2. Written(handler[p]) = used
    BY <1>1, <1>5 DEF LastInv, Tells
  <2>3. QED
    BY <1>1, <1>2, <1>4, <2>1, <2>2
<1>6. Tells'
  BY <1>2, <1>5 DEF Tells, Free
<1>7. QED
  BY <1>1, <1>2, <1>3, <1>4, <1>6 DEF LastInv

LEMMA TellsStays ==
    ASSUME LastInv, UNCHANGED <<record, handler, used, overlapped>>
    PROVE  Tells' /\ record' \in Records /\ used' \in Records /\ overlapped' \in BOOLEAN
           /\ handler' \in [Windows -> HandlerRecords] /\ \A q \in Windows : HandlerOK(handler'[q])
BY DEF LastInv, Tells, Free, Written

LEMMA LastInductive == LastInv /\ [LastNext]_lastVars => LastInv'
<1> SUFFICES ASSUME LastInv, [LastNext]_lastVars PROVE LastInv'
  OBVIOUS
<1> DEFINE S == /\ session' \in [Windows -> SessionRecords] /\ \A q \in Windows : SessionOK(session'[q])
                /\ settings' \in [model : LastModels \cup {0}, level : Levels]
           H == /\ Tells' /\ record' \in Records /\ used' \in Records /\ overlapped' \in BOOLEAN
                /\ handler' \in [Windows -> HandlerRecords] /\ \A q \in Windows : HandlerOK(handler'[q])
<1>1. S /\ H => LastInv'
  BY DEF LastInv
<1>2. UNCHANGED <<session, settings>> => S
  BY DEF LastInv
<1>3. UNCHANGED <<record, handler, used, overlapped>> => H
  BY TellsStays
<1> HIDE DEF S, H
<1>4. CASE UNCHANGED lastVars
  BY <1>1, <1>2, <1>3, <1>4 DEF lastVars
<1>5. ASSUME NEW p \in Windows, StartLast(p) \/ SetSavedModel(p) \/ SetSavedLevel(p) \/ RestoreEnds(p)
      PROVE  LastInv'
  <2>1. UNCHANGED <<record, handler, used, overlapped>>
    BY <1>5 DEF StartLast, SetSavedModel, SetSavedLevel, RestoreEnds
  <2>2. S
    BY <1>5, StartOK, SetModelOK, SetLevelOK, RestoreEndsOK DEF S
  <2>3. QED
    BY <1>1, <1>3, <2>1, <2>2
<1>6. ASSUME NEW p \in Windows, EndLast(p) PROVE LastInv'
  <2>1. S
    BY <1>6, OffOK DEF EndLast, LastInv, SessionOK, S
  <2>2. QED
    BY <1>1, <1>3, <1>6, <2>1 DEF EndLast
<1>7. ASSUME NEW p \in Windows, NEW m \in LastModels, UserModel(p, m) PROVE LastInv'
  <2>1. S
    BY <1>7, UserModelOK DEF S
  <2>2. CASE UNCHANGED <<handler, used, overlapped>>
    BY <1>1, <1>3, <1>7, <2>1, <2>2 DEF UserModel
  <2> DEFINE h == [NoHandler EXCEPT !.kind = "model", !.model = m, !.user = TRUE]
  <2>3. CASE Begin(p, h) /\ used' = [used EXCEPT !.model = m]
    <3>1. h \in HandlerRecords /\ h.kind = "model" /\ h.model = m /\ h.user
      BY OffOK DEF NoHandler, HandlerRecords
    <3> HIDE DEF h
    <3>2. Free(p) /\ UNCHANGED record
      BY <1>7 DEF UserModel
    <3>3. H
      BY <2>3, <3>1, <3>2, HandlerBegins DEF H, LastInv
    <3>4. QED
      BY <1>1, <2>1, <3>3
  <2>4. QED
    BY <1>7, <2>2, <2>3 DEF UserModel
<1>8. ASSUME NEW p \in Windows, NEW l \in Levels, UserLevel(p, l) PROVE LastInv'
  <2>1. S
    BY <1>8, UserLevelOK DEF S
  <2>2. QED
    BY <1>1, <1>3, <1>8, <2>1 DEF UserLevel
<1>9. ASSUME NEW p \in Windows, LastMicrotask(p) PROVE LastInv'
  <2> DEFINE s == session[p]
             e == Head(s.queue)
             h == [NoHandler EXCEPT !.kind = "level", !.model = s.model, !.level = e.level, !.user = e.user]
  <2>1. S
    BY <1>9, MicrotaskOK DEF S, LastMicrotask, LastInv
  <2>2. CASE UNCHANGED <<handler, used, overlapped>>
    BY <1>1, <1>3, <1>9, <2>1, <2>2 DEF LastMicrotask
  <2>3. CASE /\ e.what # "drop" /\ ~s.restoring /\ Begin(p, h)
             /\ used' = [model |-> IF used.model = 0 THEN s.model ELSE used.model, level |-> e.level]
    <3>1. (e \in LevelEvents \/ e = Drop) /\ s.pc # "off" /\ (e # Drop /\ ~s.restoring => e.user)
      BY <1>9, MicrotaskOK
    <3>2. e \in LevelEvents /\ e.user
      BY <2>3, <3>1, DropIs
    <3>3. s.model \in LastModels
      BY <3>1, SessionTypes DEF SessionOK, OnALevel
    <3>4. e.level \in Levels /\ e.user \in BOOLEAN
      BY <3>2 DEF LevelEvents
    <3> HIDE DEF s, e
    <3>5. h \in HandlerRecords /\ h.kind = "level" /\ h.model = s.model /\ h.level = e.level /\ h.user
      BY <3>2, <3>3, <3>4, OffOK DEF NoHandler, HandlerRecords
    <3> HIDE DEF h
    <3>6. Free(p) /\ UNCHANGED record
      BY <1>9 DEF LastMicrotask
    <3>7. H
      BY <2>3, <3>3, <3>4, <3>5, <3>6, HandlerBegins DEF H, LastInv
    <3>8. QED
      BY <1>1, <2>1, <3>7
  <2>4. QED
    BY <1>9, <2>2, <2>3 DEF LastMicrotask
<1>10. ASSUME NEW p \in Windows, WriteLast(p) PROVE LastInv'
  <2>1. UNCHANGED <<session, settings, used, overlapped>>
    BY <1>10 DEF WriteLast
  <2>2. H
    BY <1>10, <2>1, HandlerEnds DEF H, LastInv
  <2>3. QED
    BY <1>1, <1>2, <2>1, <2>2
<1>11. QED
  BY <1>4, <1>5, <1>6, <1>7, <1>8, <1>9, <1>10 DEF LastNext

LEMMA LastStarts == LastInit => LastInv
<1> SUFFICES ASSUME LastInit PROVE LastInv
  OBVIOUS
<1>1. NoRecord \in Records /\ Off \in SessionRecords /\ NoHandler \in HandlerRecords
      /\ SessionOK(Off) /\ HandlerOK(NoHandler) /\ NoHandler.kind = "none" /\ Max(Levels) \in Levels
  BY OffOK, TopIs DEF SessionOK, HandlerOK
<1>2. /\ record = NoRecord /\ used = NoRecord /\ overlapped = FALSE
      /\ \A p \in Windows : session[p] = Off /\ handler[p] = NoHandler
      /\ session = [p \in Windows |-> Off] /\ handler = [p \in Windows |-> NoHandler]
      /\ settings \in [model : LastModels \cup {0}, level : Levels]
  BY <1>1 DEF LastInit
<1>3. Tells
  BY <1>1, <1>2 DEF Tells, Free
<1>4. QED
  BY <1>1, <1>2, <1>3 DEF LastInv

LEMMA LastTypesHold == LastInv => LastTypeOK
BY DEF LastInv, LastTypeOK, Records, SessionOK, OnALevel

(* The record and the settings are of models and levels, and no session is on a level its
   model does not reach. *)
THEOREM LastTypesCorrect == LastSpec => []LastTypeOK
<1>1. LastInv => LastTypeOK
  BY LastTypesHold
<1>2. QED
  BY <1>1, LastStarts, LastInductive, PTL DEF LastSpec

(* What is remembered is what the user chose last, in any session; a restore puts it back as
   it was, and records nothing of its own. *)
THEOREM LastModelAlwaysTrue == LastSpec => LastModelIsTrue
<1>1. LastInv => LastUsedIsRecorded /\ RestoredAsSaved
  BY DEF LastInv, LastUsedIsRecorded, RestoredAsSaved, Tells, SessionOK, PutBack
<1>2. LastInv /\ [LastNext]_lastVars =>
         (record' # record => \E p \in Windows : handler[p].user /\ handler'[p] = NoHandler)
  <2> SUFFICES ASSUME LastInv, [LastNext]_lastVars, record' # record
               PROVE  \E p \in Windows : handler[p].user /\ handler'[p] = NoHandler
    OBVIOUS
  <2>1. PICK p \in Windows : WriteLast(p)
    BY DEF LastNext, lastVars, StartLast, SetSavedModel, SetSavedLevel, RestoreEnds, EndLast, UserModel,
       UserLevel, LastMicrotask
  <2>2. handler[p].user /\ handler'[p] = NoHandler
    BY <2>1, SessionTypes DEF WriteLast, Free, HandlerOK, LastInv
  <2>3. QED
    BY <2>2
<1>3. QED
  BY <1>1, <1>2, LastStarts, LastInductive, PTL DEF LastSpec, LastModelIsTrue, OnlyTheUserIsRecorded

-----------------------------------------------------------------------------
(* The price cache: what the file, the table and the rounds are *)

Files == [at : Nat, val : [Items -> Nat], over : SUBSET Models]
Rounds == [pc : {"none", "load", "write"}, now : Nat, old : Files, got : [Items -> Nat]]

PricingTypes ==
    /\ price \in Files /\ price.at <= clock /\ clock \in Nat /\ clock <= MaxTime
    /\ table \in [Items -> Nat] /\ since \in [Items -> Nat]
    /\ mem \in [Sessions -> [Items -> Nat]] /\ misses \in [Sessions -> [Items -> Nat]]
    /\ chain \in [Sessions -> Seq(Catalogs)] /\ round \in [Sessions -> Rounds]
    /\ best \in [Sessions -> [Catalogs -> [Items -> Nat]]]

(* A catalog is in a chain once, and the round under way is the first one's. *)
InTheChain(p) ==
    /\ IsInjective(chain[p])
    /\ round[p].pc = "none" => round[p] = NoRound
    /\ round[p].pc # "none" => chain[p] # <<>>

(* The file is never ahead of the table. *)
FromTheTable == \A i \in Items : price.val[i] <= table[i]

(* What was noted as missing at some time was missing then: an entry came later. *)
Noted(p) ==
    \A i \in Items :
        /\ misses[p][i] <= clock
        /\ misses[p][i] > 0 /\ table[i] > 0 => since[i] >= misses[p][i]

(* A file f does not suffice for a catalog c at the time k, with misses m. *)
Lacks(k, m, f, c) ==
    k - f.at < Ttl => \E i \in ItemsOf(c) : ~Has(f, i) /\ ~(m[i] > 0 /\ k - m[i] < Retry)

(* What was brought before, b, is in the file or can be had from the table t again. *)
Recoverable(b, f, t) ==
    \A i \in Items : b[i] <= f.val[i] \/ (~Overridden(f, i) /\ b[i] <= t[i])

(* What the file does not say though it was brought is still looked for. *)
BestKept(p) ==
    \A c \in Catalogs :
        /\ Recoverable(best[p][c], price, table)
        /\ \A i \in Items : best[p][c][i] > price.val[i] => Lacks(clock, misses[p], price, c)

(* A round goes on because the file it read lacked something. *)
UnderWay(p) ==
    round[p].pc # "none" =>
    /\ Lacks(clock, misses[p], round[p].old, Head(chain[p]))
    /\ round[p].now <= clock
    /\ \A i \in Items : round[p].old.val[i] <= table[i]
    /\ price = round[p].old \/ best[p] = [c \in Catalogs |-> Nothing]

(* The table it has got is as old as the round at most. *)
Loaded(p) ==
    round[p].pc = "write" =>
    /\ \A i \in Items : /\ round[p].old.val[i] <= round[p].got[i] /\ round[p].got[i] <= table[i]
                        /\ round[p].got[i] = 0 /\ table[i] > 0 => since[i] >= round[p].now
    /\ \A c \in Catalogs : Recoverable(best[p][c], round[p].old, round[p].got)

PricingInv ==
    /\ PricingTypes /\ FromTheTable
    /\ \A p \in Sessions : InTheChain(p) /\ Noted(p) /\ BestKept(p) /\ UnderWay(p) /\ Loaded(p)

-----------------------------------------------------------------------------
(* Items, chains, and what a file lacks *)

LEMMA NothingIs == /\ Nothing \in [Items -> Nat] /\ \A i \in Items : Nothing[i] = 0
                   /\ NoPrices \in Files /\ NoRound \in Rounds /\ NoPrices.at = 0 /\ NoPrices.val = Nothing
                   /\ NoRound.pc = "none" /\ NoPrices.over = {}
<1>1. Nothing \in [Items -> Nat] /\ \A i \in Items : Nothing[i] = 0
  BY DEF Nothing
<1> HIDE DEF Nothing
<1>2. NoPrices \in Files
  BY <1>1 DEF NoPrices, Files
<1>3. NoRound \in Rounds
  BY <1>1, <1>2 DEF NoRound, Rounds
<1>4. QED
  BY <1>1, <1>2, <1>3 DEF NoPrices, NoRound

LEMMA ItemsOfCatalog == ASSUME NEW c \in Catalogs PROVE ItemsOf(c) \subseteq Items
BY PricingAssumption DEF ItemsOf, Items

LEMMA ConstantsAre ==
    /\ Ttl \in Nat /\ Retry \in Nat /\ Ttl > 0 /\ Retry > 0
    /\ MaxTime \in Nat /\ Ttl <= MaxTime /\ MaxFaults \in Nat
BY PricingAssumption

LEMMA ChainGrows ==
    ASSUME NEW s \in Seq(Catalogs), NEW c \in Catalogs
    PROVE  /\ Append(s, c) \in Seq(Catalogs) /\ Append(s, c) # <<>> /\ Len(Append(s, c)) = Len(s) + 1
           /\ s # <<>> => Head(Append(s, c)) = Head(s)
           /\ IsInjective(s) /\ ~Contains(s, c) => IsInjective(Append(s, c))
<1>1. Append(s, c) \in Seq(Catalogs) /\ Append(s, c) # <<>> /\ Len(Append(s, c)) = Len(s) + 1
  <2>1. Append(s, c) \in Seq(Catalogs) /\ Len(Append(s, c)) = Len(s) + 1 /\ Len(s) \in Nat
    OBVIOUS
  <2>2. Len(Append(s, c)) # 0 /\ Len(<<>>) = 0
    BY <2>1
  <2>3. QED
    BY <2>1, <2>2
<1>2. ASSUME s # <<>> PROVE Head(Append(s, c)) = Head(s)
  <2>1. Len(s) \in Nat /\ Len(s) >= 1
    BY <1>2
  <2>2. Append(s, c)[1] = s[1]
    BY <2>1
  <2>3. Head(Append(s, c)) = Append(s, c)[1] /\ Head(s) = s[1]
    BY <1>1, <1>2
  <2>4. QED
    BY <2>2, <2>3
<1>3. ASSUME IsInjective(s), ~Contains(s, c) PROVE IsInjective(Append(s, c))
  <2> DEFINE t == Append(s, c)
  <2>1. /\ DOMAIN t = 1..(Len(s) + 1) /\ DOMAIN s = 1..Len(s) /\ Len(s) \in Nat
        /\ \A i \in 1..Len(s) : t[i] = s[i] /\ s[i] # c
        /\ t[Len(s) + 1] = c
    BY <1>3 DEF Contains
  <2> HIDE DEF t
  <2>2. \A i \in DOMAIN t : i \in 1..Len(s) \/ i = Len(s) + 1
    BY <2>1
  <2>3. IsInjective(t)
    BY <1>3, <2>1, <2>2 DEF IsInjective
  <2>4. QED
    BY <2>3 DEF t
<1>4. QED
  BY <1>1, <1>2, <1>3

LEMMA ChainShrinks ==
    ASSUME NEW s \in Seq(Catalogs), s # <<>>
    PROVE  /\ Tail(s) \in Seq(Catalogs) /\ Len(Tail(s)) = Len(s) - 1 /\ Len(s) \in Nat /\ Head(s) \in Catalogs
           /\ IsInjective(s) => IsInjective(Tail(s))
<1>1. /\ Tail(s) \in Seq(Catalogs) /\ Len(Tail(s)) = Len(s) - 1 /\ Len(s) \in Nat /\ Head(s) \in Catalogs
      /\ DOMAIN Tail(s) = 1..(Len(s) - 1) /\ DOMAIN s = 1..Len(s)
      /\ \A i \in 1..(Len(s) - 1) : Tail(s)[i] = s[i + 1]
  OBVIOUS
<1>2. ASSUME IsInjective(s) PROVE IsInjective(Tail(s))
  <2>1. SUFFICES ASSUME NEW i \in DOMAIN Tail(s), NEW j \in DOMAIN Tail(s), Tail(s)[i] = Tail(s)[j]
                 PROVE  i = j
    BY DEF IsInjective
  <2>2. i + 1 \in DOMAIN s /\ j + 1 \in DOMAIN s /\ s[i + 1] = s[j + 1] /\ i \in Int /\ j \in Int
    BY <1>1, <2>1
  <2>3. i + 1 = j + 1
    BY <1>2, <2>2 DEF IsInjective
  <2>4. QED
    BY <2>2, <2>3
<1>3. QED
  BY <1>1, <1>2

LEMMA LacksIs ==
    ASSUME NEW p \in Sessions, NEW f, NEW c \in Catalogs
    PROVE  Suffices(p, f, c) <=> ~Lacks(clock, misses[p], f, c)
BY DEF Suffices, Lacks, Recent

(* What a file lacks it lacks later, too, unless something is noted as missing. *)
LEMMA LacksStays ==
    ASSUME NEW k \in Nat, NEW j \in Nat, k <= j, NEW m \in [Items -> Nat], NEW n \in [Items -> Nat],
           \A i \in Items : n[i] = m[i] \/ n[i] = 0 \/ j - n[i] >= Retry,
           NEW f \in Files, NEW c \in Catalogs, Lacks(k, m, f, c)
    PROVE  Lacks(j, n, f, c)
<1>1. f.at \in Nat
  BY DEF Files
<1>2. SUFFICES ASSUME j - f.at < Ttl
               PROVE  \E i \in ItemsOf(c) : ~Has(f, i) /\ ~(n[i] > 0 /\ j - n[i] < Retry)
  BY DEF Lacks
<1>3. PICK i \in ItemsOf(c) : ~Has(f, i) /\ ~(m[i] > 0 /\ k - m[i] < Retry)
  BY <1>1, <1>2, ConstantsAre DEF Lacks
<1>4. i \in Items /\ m[i] \in Nat /\ n[i] \in Nat
  BY ItemsOfCatalog
<1>5. ~(n[i] > 0 /\ j - n[i] < Retry)
  BY <1>3, <1>4, ConstantsAre
<1>6. QED
  BY <1>3, <1>5

LEMMA InvParts ==
    ASSUME PricingInv, NEW p \in Sessions
    PROVE  /\ InTheChain(p) /\ Noted(p) /\ BestKept(p) /\ UnderWay(p) /\ Loaded(p) /\ FromTheTable
           /\ price \in Files /\ price.val \in [Items -> Nat] /\ clock \in Nat /\ price.at <= clock
           /\ table \in [Items -> Nat] /\ since \in [Items -> Nat]
           /\ misses[p] \in [Items -> Nat] /\ mem[p] \in [Items -> Nat]
           /\ chain[p] \in Seq(Catalogs) /\ round[p] \in Rounds
           /\ round[p].old \in Files /\ round[p].got \in [Items -> Nat] /\ round[p].now \in Nat
           /\ round[p].old.val \in [Items -> Nat]
           /\ best[p] \in [Catalogs -> [Items -> Nat]]
<1>1. round[p] \in Rounds /\ price \in Files
  BY DEF PricingInv, PricingTypes
<1>2. QED
  BY <1>1 DEF PricingInv, PricingTypes, Rounds, Files

(* The round that runs is the first one of the chain. *)
LEMMA FirstOfChain ==
    ASSUME PricingInv, NEW p \in Sessions, chain[p] # <<>>
    PROVE  /\ Head(chain[p]) \in Catalogs /\ Tail(chain[p]) \in Seq(Catalogs)
           /\ IsInjective(Tail(chain[p])) /\ Len(Tail(chain[p])) < Len(chain[p])
BY InvParts, ChainShrinks DEF InTheChain

-----------------------------------------------------------------------------
(* The steps *)

LEMMA RefreshOK ==
    ASSUME PricingInv, NEW p \in Sessions, NEW c \in Catalogs, RefreshPricing(p, c)
    PROVE  PricingInv' /\ \A q \in Sessions : Len(chain'[q]) >= Len(chain[q])
                                              /\ (chain'[q] # chain[q] => chain'[q] = Append(chain[q], c))
<1>1. UNCHANGED <<price, table, since, misses, round, clock, best>> /\ mem' = [mem EXCEPT ![p] = price.val]
  BY DEF RefreshPricing
<1>2. \/ UNCHANGED chain
      \/ ~Contains(chain[p], c) /\ chain' = [chain EXCEPT ![p] = Append(@, c)]
  BY DEF RefreshPricing
<1>3. chain \in [Sessions -> Seq(Catalogs)]
  BY DEF PricingInv, PricingTypes
<1>4. ASSUME NEW q \in Sessions
      PROVE  /\ chain'[q] \in Seq(Catalogs) /\ IsInjective(chain'[q]) /\ Len(chain'[q]) >= Len(chain[q])
             /\ chain[q] # <<>> => chain'[q] # <<>> /\ Head(chain'[q]) = Head(chain[q])
             /\ chain'[q] # chain[q] => chain'[q] = Append(chain[q], c)
  <2>1. chain[q] \in Seq(Catalogs) /\ IsInjective(chain[q]) /\ Len(chain[q]) \in Nat
    BY InvParts DEF InTheChain
  <2>2. CASE chain'[q] = chain[q]
    BY <2>1, <2>2
  <2>3. CASE q = p /\ ~Contains(chain[q], c) /\ chain'[q] = Append(chain[q], c)
    BY <2>1, <2>3, ChainGrows
  <2>4. QED
    BY <1>2, <1>3, <2>2, <2>3
<1>5. chain' \in [Sessions -> Seq(Catalogs)]
  BY <1>2, <1>3, <1>4
<1>6. mem' \in [Sessions -> [Items -> Nat]]
  BY <1>1, InvParts DEF PricingInv, PricingTypes
<1>7. PricingTypes' /\ FromTheTable'
  BY <1>1, <1>5, <1>6 DEF PricingInv, PricingTypes, FromTheTable
<1>8. ASSUME NEW q \in Sessions
      PROVE  InTheChain(q)' /\ Noted(q)' /\ BestKept(q)' /\ UnderWay(q)' /\ Loaded(q)'
  <2>1. InTheChain(q)'
    BY <1>1, <1>4, InvParts DEF InTheChain
  <2>2. Noted(q)' /\ BestKept(q)' /\ Loaded(q)'
    BY <1>1, InvParts DEF Noted, BestKept, Loaded
  <2>3. UnderWay(q)'
    <3>1. SUFFICES ASSUME round[q].pc # "none" PROVE UnderWay(q)'
      BY <1>1 DEF UnderWay
    <3>2. Head(chain'[q]) = Head(chain[q])
      BY <1>4, <3>1, InvParts DEF InTheChain
    <3>3. QED
      BY <1>1, <3>1, <3>2, InvParts DEF UnderWay
  <2>4. QED
    BY <2>1, <2>2, <2>3
<1>9. QED
  BY <1>4, <1>7, <1>8 DEF PricingInv

(* A round begins: it goes on unless the file suffices, and old misses are forgotten. *)
LEMMA BeginsOK ==
    ASSUME PricingInv, NEW p \in Sessions, RoundBegins(p)
    PROVE  PricingInv'
<1> DEFINE c == Head(chain[p])
           g == [pc |-> "load", now |-> clock, old |-> price, got |-> Nothing]
<1>1. UNCHANGED <<price, table, since, clock, best>> /\ chain[p] # <<>> /\ round[p].pc = "none"
      /\ misses' = [misses EXCEPT ![p] = Pruned(@)]
  BY DEF RoundBegins
<1>2. c \in Catalogs /\ price \in Files /\ clock \in Nat
  BY <1>1, FirstOfChain, InvParts
<1>3. \/ Suffices(p, price, c) /\ RoundEnds(p, price)
      \/ ~Suffices(p, price, c) /\ round' = [round EXCEPT ![p] = g] /\ UNCHANGED <<mem, chain>>
  BY DEF RoundBegins
<1>4. g \in Rounds /\ g.pc = "load" /\ g.now = clock /\ g.old = price
  BY <1>2, NothingIs DEF Rounds
<1> HIDE DEF g
<1>5. ASSUME NEW q \in Sessions
      PROVE  /\ misses'[q] \in [Items -> Nat]
             /\ \A i \in Items : misses'[q][i] = misses[q][i]
                                 \/ (misses'[q][i] = 0 /\ ~(misses[q][i] > 0 /\ clock - misses[q][i] < Retry))
  BY <1>1, InvParts DEF PricingInv, PricingTypes, Pruned, Recent
<1>6. misses' \in [Sessions -> [Items -> Nat]]
  BY <1>1, <1>5 DEF PricingInv, PricingTypes
<1>7. \/ /\ chain' = [chain EXCEPT ![p] = Tail(@)] /\ round' = [round EXCEPT ![p] = NoRound]
         /\ mem' = [mem EXCEPT ![p] = price.val]
      \/ /\ round' = [round EXCEPT ![p] = g] /\ UNCHANGED <<mem, chain>> /\ ~Suffices(p, price, c)
  BY <1>3 DEF RoundEnds
<1>8. chain' \in [Sessions -> Seq(Catalogs)] /\ round' \in [Sessions -> Rounds]
      /\ mem' \in [Sessions -> [Items -> Nat]]
  <2>1. Tail(chain[p]) \in Seq(Catalogs) /\ NoRound \in Rounds /\ price.val \in [Items -> Nat]
    BY <1>1, NothingIs, FirstOfChain, InvParts
  <2>2. chain \in [Sessions -> Seq(Catalogs)] /\ round \in [Sessions -> Rounds]
        /\ mem \in [Sessions -> [Items -> Nat]]
    BY DEF PricingInv, PricingTypes
  <2>3. QED
    BY <1>4, <1>7, <2>1, <2>2
<1>9. PricingTypes' /\ FromTheTable'
  BY <1>1, <1>6, <1>8 DEF PricingInv, PricingTypes, FromTheTable
<1>10. ASSUME NEW q \in Sessions, NEW f \in Files, NEW d \in Catalogs, Lacks(clock, misses[q], f, d)
       PROVE  Lacks(clock, misses'[q], f, d)
  <2>1. misses[q] \in [Items -> Nat] /\ misses'[q] \in [Items -> Nat] /\ clock <= clock
    BY <1>2, <1>5, InvParts
  <2>2. \A i \in Items : misses'[q][i] = misses[q][i] \/ misses'[q][i] = 0
    BY <1>5
  <2>3. QED
    BY <1>2, <1>10, <2>1, <2>2, LacksStays
<1>11. ASSUME NEW q \in Sessions
       PROVE  InTheChain(q)' /\ Noted(q)' /\ BestKept(q)' /\ UnderWay(q)' /\ Loaded(q)'
  <2>1. /\ chain'[q] = chain[q] \/ (q = p /\ chain'[q] = Tail(chain[q]) /\ round'[q] = NoRound)
        /\ round'[q] = round[q] \/ (q = p /\ round'[q] = NoRound)
           \/ (q = p /\ round'[q] = g /\ chain'[q] = chain[q] /\ ~Suffices(p, price, c))
    BY <1>7 DEF PricingInv, PricingTypes
  <2>2. InTheChain(q)'
    BY <1>1, <1>4, <2>1, NothingIs, FirstOfChain, InvParts DEF InTheChain
  <2>3. Noted(q)'
    <3>1. SUFFICES ASSUME NEW i \in Items
                   PROVE  /\ misses'[q][i] <= clock
                          /\ misses'[q][i] > 0 /\ table[i] > 0 => since[i] >= misses'[q][i]
      BY <1>1 DEF Noted
    <3>2. misses'[q][i] = misses[q][i] \/ misses'[q][i] = 0
      BY <1>5
    <3>3. QED
      BY <1>2, <3>2, InvParts DEF Noted
  <2>4. BestKept(q)'
    BY <1>1, <1>2, <1>10, InvParts DEF BestKept
  <2>5. UnderWay(q)'
    <3>1. CASE round'[q] = round[q] /\ round[q].pc # "none"
      <4>1. chain'[q] = chain[q] /\ chain[q] # <<>>
        BY <2>1, <3>1, NothingIs, InvParts DEF InTheChain
      <4>2. Lacks(clock, misses'[q], round[q].old, Head(chain[q]))
        BY <1>10, <3>1, <4>1, FirstOfChain, InvParts DEF UnderWay
      <4>3. QED
        BY <1>1, <3>1, <4>1, <4>2, InvParts DEF UnderWay
    <3>2. CASE round'[q].pc = "none"
      BY <3>2 DEF UnderWay
    <3>3. CASE q = p /\ round'[q] = g /\ chain'[q] = chain[q] /\ ~Suffices(p, price, c)
      <4>1. Lacks(clock, misses'[q], price, c)
        BY <1>2, <1>10, <3>3, LacksIs
      <4>2. QED
        BY <1>1, <1>2, <1>4, <3>3, <4>1, InvParts DEF UnderWay, FromTheTable
    <3>4. QED
      BY <2>1, <3>1, <3>2, <3>3, NothingIs
  <2>6. Loaded(q)'
    BY <1>1, <1>4, <2>1, NothingIs, InvParts DEF Loaded
  <2>7. QED
    BY <2>2, <2>3, <2>4, <2>5, <2>6
<1>12. QED
  BY <1>9, <1>11 DEF PricingInv

LEMMA ServedOK ==
    ASSUME PricingInv, NEW p \in Sessions, TableServed(p)
    PROVE  PricingInv'
<1> DEFINE g == [round[p] EXCEPT !.pc = "write", !.got = table]
<1>1. UNCHANGED <<price, table, since, mem, misses, chain, clock, best>> /\ round[p].pc = "load"
  BY DEF TableServed
<1>2. round' = [round EXCEPT ![p] = g]
  <2>1. round' = [round EXCEPT ![p].pc = "write", ![p].got = table]
    BY DEF TableServed
  <2>2. round \in [Sessions -> Rounds]
    BY DEF PricingInv, PricingTypes
  <2>3. QED
    BY <2>1, <2>2
<1>3. g \in Rounds /\ g.pc = "write" /\ g.got = table /\ g.old = round[p].old /\ g.now = round[p].now
  BY InvParts DEF Rounds
<1> HIDE DEF g
<1>4. PricingTypes' /\ FromTheTable'
  BY <1>1, <1>2, <1>3 DEF PricingInv, PricingTypes, FromTheTable
<1>5. ASSUME NEW q \in Sessions
      PROVE  InTheChain(q)' /\ Noted(q)' /\ BestKept(q)' /\ UnderWay(q)' /\ Loaded(q)'
  <2>1. round'[q] = IF q = p THEN g ELSE round[q]
    BY <1>2 DEF PricingInv, PricingTypes
  <2>2. InTheChain(q)' /\ Noted(q)' /\ BestKept(q)'
    BY <1>1, <1>3, <2>1, InvParts DEF InTheChain, Noted, BestKept
  <2>3. UnderWay(q)'
    BY <1>1, <1>3, <2>1, InvParts DEF UnderWay
  <2>4. CASE q # p
    BY <1>1, <2>1, <2>2, <2>3, <2>4, InvParts DEF Loaded
  <2>5. CASE q = p
    <3>1. \A i \in Items : /\ g.old.val[i] <= table[i]
                           /\ table[i] = 0 /\ table[i] > 0 => since[i] >= g.now
      BY <1>1, <1>3, InvParts DEF UnderWay
    <3>2. ASSUME NEW d \in Catalogs PROVE Recoverable(best[p][d], g.old, table)
      <4>1. CASE price = g.old
        BY <4>1, InvParts DEF BestKept
      <4>2. CASE best[p] = [e \in Catalogs |-> Nothing]
        <5>1. g.old.val \in [Items -> Nat]
          BY <1>3, InvParts
        <5>2. QED
          BY <4>2, <5>1, NothingIs DEF Recoverable
      <4>3. QED
        BY <1>1, <1>3, <4>1, <4>2, InvParts DEF UnderWay
    <3>3. \A i \in Items : table[i] \in Nat /\ table[i] <= table[i]
      BY InvParts
    <3>4. Loaded(q)'
      BY <1>1, <1>3, <2>1, <2>5, <3>1, <3>2, <3>3 DEF Loaded
    <3>5. QED
      BY <2>2, <2>3, <3>4
  <2>6. QED
    BY <2>4, <2>5
<1>6. QED
  BY <1>4, <1>5 DEF PricingInv

(* The end of a round, wherever it comes from: its process has none under way. *)
LEMMA EndsOK ==
    ASSUME PricingInv, NEW p \in Sessions, round[p].pc # "none", NEW f \in Files, RoundEnds(p, f)
    PROVE  /\ chain' \in [Sessions -> Seq(Catalogs)] /\ round' \in [Sessions -> Rounds]
           /\ mem' \in [Sessions -> [Items -> Nat]] /\ mem'[p] = f.val
           /\ round'[p] = NoRound /\ NoRound.pc = "none" /\ chain'[p] = Tail(chain[p])
           /\ \A q \in Sessions : q # p => round'[q] = round[q] /\ chain'[q] = chain[q]
           /\ \A q \in Sessions : InTheChain(q)'
           /\ Head(chain[p]) \in Catalogs
<1>1. chain[p] # <<>>
  BY InvParts DEF InTheChain
<1>2. f.val \in [Items -> Nat]
  BY DEF Files
<1>3. mem' = [mem EXCEPT ![p] = f.val] /\ chain' = [chain EXCEPT ![p] = Tail(@)]
      /\ round' = [round EXCEPT ![p] = NoRound]
  BY DEF RoundEnds
<1>4. chain \in [Sessions -> Seq(Catalogs)] /\ round \in [Sessions -> Rounds]
      /\ mem \in [Sessions -> [Items -> Nat]]
  BY DEF PricingInv, PricingTypes
<1>5. /\ round'[p] = NoRound /\ chain'[p] = Tail(chain[p])
      /\ \A q \in Sessions : q # p => round'[q] = round[q] /\ chain'[q] = chain[q]
  BY <1>3, <1>4
<1>6. ASSUME NEW q \in Sessions PROVE InTheChain(q)'
  BY <1>1, <1>5, NothingIs, FirstOfChain, InvParts DEF InTheChain
<1>7. QED
  BY <1>1, <1>2, <1>3, <1>4, <1>5, <1>6, NothingIs, FirstOfChain

(* Nothing was brought: nothing has to be kept. *)
LEMMA NothingKept ==
    ASSUME NEW f \in Files, NEW t \in [Items -> Nat]
    PROVE  Recoverable(Nothing, f, t) /\ \A i \in Items : ~(Nothing[i] > f.val[i])
<1>1. f.val \in [Items -> Nat]
  BY DEF Files
<1>2. QED
  BY <1>1, NothingIs DEF Recoverable

(* The round's process fails, with the file as it was: what it brought, b, is kept for its
   catalog. *)
LEMMA FailsOK ==
    ASSUME PricingInv, NEW p \in Sessions, round[p].pc # "none", NEW f \in Files, RoundEnds(p, f),
           NEW b \in [Items -> Nat], best' = [best EXCEPT ![p][Head(chain[p])] = b],
           Recoverable(b, price, table),
           \A i \in Items : b[i] > price.val[i] => Lacks(clock, misses[p], price, Head(chain[p])),
           UNCHANGED <<price, table, since, misses, clock>>
    PROVE  PricingInv'
<1> DEFINE c == Head(chain[p])
<1>1. c \in Catalogs /\ best \in [Sessions -> [Catalogs -> [Items -> Nat]]]
  BY EndsOK DEF PricingInv, PricingTypes
<1> HIDE DEF c
<1>2. /\ best' \in [Sessions -> [Catalogs -> [Items -> Nat]]]
      /\ \A q \in Sessions : q # p => best'[q] = best[q]
      /\ \A d \in Catalogs : best'[p][d] = IF d = c THEN b ELSE best[p][d]
  BY <1>1 DEF c
<1>3. PricingTypes' /\ FromTheTable'
  BY <1>2, EndsOK DEF PricingInv, PricingTypes, FromTheTable
<1>4. ASSUME NEW q \in Sessions
      PROVE  InTheChain(q)' /\ Noted(q)' /\ BestKept(q)' /\ UnderWay(q)' /\ Loaded(q)'
  <2>1. InTheChain(q)' /\ Noted(q)'
    BY EndsOK, InvParts DEF Noted
  <2>2. CASE q # p
    <3>1. best'[q] = best[q] /\ round'[q] = round[q] /\ chain'[q] = chain[q]
      BY <1>2, <2>2, EndsOK
    <3>2. BestKept(q)' /\ UnderWay(q)' /\ Loaded(q)'
      BY <3>1, InvParts DEF BestKept, UnderWay, Loaded
    <3>3. QED
      BY <2>1, <3>2
  <2>3. CASE q = p
    <3>1. UnderWay(q)' /\ Loaded(q)'
      BY <2>3, EndsOK DEF UnderWay, Loaded
    <3>2. ASSUME NEW d \in Catalogs
          PROVE  /\ Recoverable(best'[q][d], price, table)
                 /\ \A i \in Items : best'[q][d][i] > price.val[i] => Lacks(clock, misses[q], price, d)
      <4>1. CASE d = c
        BY <1>2, <2>3, <4>1 DEF c
      <4>2. CASE d # c
        BY <1>2, <2>3, <4>2, InvParts DEF BestKept
      <4>3. QED
        BY <4>1, <4>2
    <3>3. BestKept(q)'
      BY <3>2 DEF BestKept
    <3>4. QED
      BY <2>1, <3>1, <3>3
  <2>4. QED
    BY <2>2, <2>3
<1>5. QED
  BY <1>3, <1>4 DEF PricingInv

LEMMA LoadFailsOK ==
    ASSUME PricingInv, NEW p \in Sessions, LoadFails(p)
    PROVE  PricingInv'
<1>1. /\ round[p].pc # "none" /\ RoundEnds(p, round[p].old) /\ round[p].old \in Files
      /\ best' = [best EXCEPT ![p][Head(chain[p])] = Nothing]
      /\ UNCHANGED <<price, table, since, misses, clock>>
  BY InvParts DEF LoadFails
<1>2. /\ Nothing \in [Items -> Nat] /\ Recoverable(Nothing, price, table)
      /\ \A i \in Items : ~(Nothing[i] > price.val[i])
  BY NothingIs, NothingKept, InvParts
<1>3. QED
  BY <1>1, <1>2, FailsOK

(* What a round writes: of the table, of the file it read, and of the table's age. *)
LEMMA RefreshedIs ==
    ASSUME PricingInv, NEW p \in Sessions, round[p].pc = "write"
    PROVE  LET c == Head(chain[p])
               f == Refreshed(round[p], c) IN
           /\ c \in Catalogs /\ f \in Files /\ f.at = clock /\ f.val \in [Items -> Nat]
           /\ \A i \in Items : /\ Overridden(f, i) <=> Overridden(round[p].old, i)
                               /\ f.val[i] <= table[i] /\ f.val[i] >= round[p].old.val[i]
                               /\ f.val[i] <= round[p].old.val[i]
                                     \/ (~Overridden(round[p].old, i) /\ f.val[i] <= round[p].got[i])
                               /\ i \in ItemsOf(c) => f.val[i] >= best[p][c][i]
                               /\ i \in ItemsOf(c) /\ ~Has(f, i) => round[p].got[i] = 0
<1> DEFINE c == Head(chain[p])
           old == round[p].old
           got == round[p].got
           v == [i \in Items |-> IF i \in ItemsOf(c) /\ ~Overridden(old, i) /\ got[i] > 0 THEN got[i]
                                 ELSE old.val[i]]
           f == [at |-> clock, over |-> old.over, val |-> v]
<1>1. /\ old \in Files /\ old.val \in [Items -> Nat] /\ got \in [Items -> Nat] /\ clock \in Nat
      /\ table \in [Items -> Nat] /\ best[p] \in [Catalogs -> [Items -> Nat]]
      /\ chain[p] # <<>>
  BY InvParts DEF InTheChain
<1>2. c \in Catalogs
  BY <1>1, FirstOfChain
<1>3. \A i \in Items : /\ old.val[i] <= got[i] /\ got[i] <= table[i]
                       /\ best[p][c][i] <= old.val[i] \/ (~Overridden(old, i) /\ best[p][c][i] <= got[i])
  BY <1>2, InvParts DEF Loaded, Recoverable
<1>4. Refreshed(round[p], c) = f
  BY DEF Refreshed
<1> HIDE DEF c, old, got
<1>5. v \in [Items -> Nat] /\ \A i \in Items :
          v[i] = IF i \in ItemsOf(c) /\ ~Overridden(old, i) /\ got[i] > 0 THEN got[i] ELSE old.val[i]
  BY <1>1
<1> HIDE DEF v
<1>6. f \in Files /\ f.at = clock /\ f.val = v /\ f.over = old.over
  BY <1>1, <1>5 DEF Files
<1> HIDE DEF f
<1>7. ASSUME NEW i \in Items
      PROVE  /\ Overridden(f, i) <=> Overridden(old, i)
             /\ f.val[i] <= table[i] /\ f.val[i] >= old.val[i]
             /\ f.val[i] <= old.val[i] \/ (~Overridden(old, i) /\ f.val[i] <= got[i])
             /\ i \in ItemsOf(c) => f.val[i] >= best[p][c][i]
             /\ i \in ItemsOf(c) /\ ~Has(f, i) => got[i] = 0
  <2>1. Overridden(f, i) <=> Overridden(old, i)
    BY <1>6 DEF Overridden
  <2>2. /\ old.val[i] \in Nat /\ got[i] \in Nat /\ table[i] \in Nat /\ best[p][c][i] \in Nat
        /\ v[i] = IF i \in ItemsOf(c) /\ ~Overridden(old, i) /\ got[i] > 0 THEN got[i] ELSE old.val[i]
    BY <1>1, <1>2, <1>5
  <2>3. QED
    BY <1>3, <1>6, <2>1, <2>2 DEF Has
<1>8. QED
  BY <1>2, <1>4, <1>5, <1>6, <1>7 DEF c, old, got

LEMMA WriteFailsOK ==
    ASSUME PricingInv, NEW p \in Sessions, WriteFails(p)
    PROVE  PricingInv'
<1> DEFINE c == Head(chain[p])
           f == Refreshed(round[p], c)
           b == Brought(p, f, c)
<1>1. /\ round[p].pc = "write" /\ RoundEnds(p, f) /\ best' = [best EXCEPT ![p][c] = b]
      /\ UNCHANGED <<price, table, since, misses, clock>>
  BY DEF WriteFails
<1>2. /\ c \in Catalogs /\ f \in Files /\ f.val \in [Items -> Nat]
      /\ \A i \in Items : /\ f.val[i] <= table[i]
                          /\ f.val[i] <= round[p].old.val[i] \/ ~Overridden(round[p].old, i)
  BY <1>1, RefreshedIs
<1> HIDE DEF f
<1>3. b = [i \in Items |-> IF i \in ItemsOf(c) /\ price = round[p].old THEN f.val[i] ELSE 0]
  BY DEF Brought
<1> HIDE DEF b
<1>4. b \in [Items -> Nat] /\ \A i \in Items : b[i] = 0 \/ (price = round[p].old /\ b[i] = f.val[i])
  BY <1>2, <1>3
<1>5. price.val \in [Items -> Nat]
  BY InvParts
<1>6. Recoverable(b, price, table)
  BY <1>2, <1>4, <1>5 DEF Recoverable
<1>7. ASSUME NEW i \in Items, b[i] > price.val[i] PROVE Lacks(clock, misses[p], price, c)
  <2>1. price = round[p].old
    BY <1>4, <1>5, <1>7
  <2>2. QED
    BY <1>1, <2>1, InvParts DEF UnderWay
<1>8. QED
  BY <1>1, <1>2, <1>4, <1>6, <1>7, FailsOK

LEMMA WritesOK ==
    ASSUME PricingInv, NEW p \in Sessions, RoundWrites(p)
    PROVE  PricingInv'
<1> DEFINE c == Head(chain[p])
           f == Refreshed(round[p], c)
           b == [i \in Items |-> IF i \in ItemsOf(c) THEN f.val[i] ELSE 0]
<1>1. /\ round[p].pc = "write" /\ RoundEnds(p, f) /\ price' = f
      /\ misses' = [misses EXCEPT ![p] = Missed(p, round[p], f, c)]
      /\ best' = [q \in Sessions |-> [d \in Catalogs |-> IF q # p \/ d # c THEN Nothing ELSE b]]
      /\ UNCHANGED <<table, since, clock>>
  BY DEF RoundWrites
<1>2. /\ c \in Catalogs /\ f \in Files /\ f.val \in [Items -> Nat] /\ f.at = clock
      /\ \A i \in Items : f.val[i] <= table[i] /\ (i \in ItemsOf(c) /\ ~Has(f, i) => round[p].got[i] = 0)
  BY <1>1, RefreshedIs
<1> HIDE DEF f
<1>3. b \in [Items -> Nat] /\ \A i \in Items : b[i] <= f.val[i]
  BY <1>2
<1> HIDE DEF b, c
<1>4. /\ best' \in [Sessions -> [Catalogs -> [Items -> Nat]]]
      /\ \A q \in Sessions : q # p => best'[q] = [d \in Catalogs |-> Nothing]
      /\ \A q \in Sessions, d \in Catalogs : best'[q][d] = Nothing \/ best'[q][d] = b
  BY <1>1, <1>3, NothingIs
<1>5. \A q \in Sessions, d \in Catalogs : \A i \in Items :
          best'[q][d][i] <= f.val[i] /\ best'[q][d][i] \in Nat
  BY <1>2, <1>3, <1>4, NothingIs
<1> DEFINE n == Missed(p, round[p], f, c)
<1>6. n \in [Items -> Nat] /\ \A i \in Items : n[i] = misses[p][i] \/ n[i] = 0
                                                \/ (n[i] = round[p].now /\ round[p].got[i] = 0)
  BY <1>2, InvParts DEF Missed
<1>7. misses' \in [Sessions -> [Items -> Nat]] /\ misses'[p] = n
      /\ \A q \in Sessions : q # p => misses'[q] = misses[q]
  BY <1>1, <1>6 DEF PricingInv, PricingTypes
<1> HIDE DEF n
<1>8. PricingTypes' /\ FromTheTable'
  <2>1. /\ chain' \in [Sessions -> Seq(Catalogs)] /\ round' \in [Sessions -> Rounds]
        /\ mem' \in [Sessions -> [Items -> Nat]]
    BY <1>1, <1>2, EndsOK
  <2>2. /\ price' \in Files /\ price'.at <= clock' /\ clock' \in Nat /\ clock' <= MaxTime
        /\ table' \in [Items -> Nat] /\ since' \in [Items -> Nat]
    BY <1>1, <1>2 DEF PricingInv, PricingTypes
  <2>3. QED
    BY <1>1, <1>2, <1>4, <1>7, <2>1, <2>2 DEF PricingTypes, FromTheTable
<1>9. ASSUME NEW q \in Sessions
      PROVE  InTheChain(q)' /\ Noted(q)' /\ BestKept(q)' /\ UnderWay(q)' /\ Loaded(q)'
  <2>1. InTheChain(q)'
    BY <1>1, <1>2, EndsOK
  <2>2. BestKept(q)'
    BY <1>1, <1>2, <1>5 DEF BestKept, Recoverable
  <2>3. CASE q # p
    <3>1. round'[q] = round[q] /\ chain'[q] = chain[q] /\ misses'[q] = misses[q]
      BY <1>1, <1>2, <1>7, <2>3, EndsOK
    <3>2. Noted(q)'
      BY <1>1, <3>1, InvParts DEF Noted
    <3>3. UnderWay(q)'
      BY <1>1, <1>4, <2>3, <3>1, InvParts DEF UnderWay
    <3>4. Loaded(q)'
      <4>1. SUFFICES ASSUME round[q].pc = "write" PROVE Loaded(q)'
        BY <3>1 DEF Loaded
      <4>2. \A d \in Catalogs : best'[q][d] = Nothing
        BY <1>4, <2>3
      <4>3. \A d \in Catalogs : Recoverable(best'[q][d], round[q].old, round[q].got)
        BY <4>2, NothingKept, InvParts
      <4>4. QED
        BY <1>1, <3>1, <4>1, <4>3, InvParts DEF Loaded
    <3>5. QED
      BY <2>1, <2>2, <3>2, <3>3, <3>4
  <2>4. CASE q = p
    <3>1. UnderWay(q)' /\ Loaded(q)'
      BY <1>1, <1>2, <2>4, EndsOK DEF UnderWay, Loaded
    <3>2. Noted(q)'
      <4>1. SUFFICES ASSUME NEW i \in Items
                     PROVE  n[i] <= clock /\ (n[i] > 0 /\ table[i] > 0 => since[i] >= n[i])
        BY <1>1, <1>7, <2>4 DEF Noted
      <4>2. CASE n[i] = misses[p][i] \/ n[i] = 0
        BY <4>2, InvParts DEF Noted
      <4>3. CASE n[i] = round[p].now /\ round[p].got[i] = 0
        BY <1>1, <4>3, InvParts DEF UnderWay, Loaded
      <4>4. QED
        BY <1>6, <4>2, <4>3
    <3>3. QED
      BY <2>1, <2>2, <3>1, <3>2
  <2>5. QED
    BY <2>3, <2>4
<1>10. QED
  BY <1>8, <1>9 DEF PricingInv

-----------------------------------------------------------------------------
(* From outside *)

LEMMA TicksOK ==
    ASSUME PricingInv, Ticks
    PROVE  PricingInv'
<1>1. clock' = clock + 1 /\ clock < MaxTime /\ clock \in Nat /\ clock' \in Nat /\ clock <= clock'
      /\ UNCHANGED <<price, table, since, mem, misses, chain, round, best>>
  BY DEF Ticks, PricingInv, PricingTypes
<1>2. PricingTypes' /\ FromTheTable'
  <2>1. clock' <= MaxTime /\ price.at <= clock'
    BY <1>1, ConstantsAre DEF PricingInv, PricingTypes, Files
  <2>2. QED
    BY <1>1, <2>1 DEF PricingInv, PricingTypes, FromTheTable
<1>3. ASSUME NEW q \in Sessions, NEW f \in Files, NEW d \in Catalogs, Lacks(clock, misses[q], f, d)
      PROVE  Lacks(clock', misses[q], f, d)
  BY <1>1, <1>3, LacksStays, InvParts
<1>4. ASSUME NEW q \in Sessions
      PROVE  InTheChain(q)' /\ Noted(q)' /\ BestKept(q)' /\ UnderWay(q)' /\ Loaded(q)'
  <2>1. InTheChain(q)' /\ Loaded(q)'
    BY <1>1, InvParts DEF InTheChain, Loaded
  <2>2. Noted(q)'
    BY <1>1, InvParts DEF Noted
  <2>3. BestKept(q)'
    BY <1>1, <1>3, InvParts DEF BestKept
  <2>4. UnderWay(q)'
    <3>1. SUFFICES ASSUME round[q].pc # "none" PROVE UnderWay(q)'
      BY <1>1 DEF UnderWay
    <3>2. Head(chain[q]) \in Catalogs
      BY <3>1, FirstOfChain, InvParts DEF InTheChain
    <3>3. Lacks(clock', misses[q], round[q].old, Head(chain[q]))
      BY <1>3, <3>1, <3>2, InvParts DEF UnderWay
    <3>4. round[q].now <= clock'
      BY <1>1, <3>1, InvParts DEF UnderWay
    <3>5. QED
      BY <1>1, <3>1, <3>3, <3>4, InvParts DEF UnderWay
  <2>5. QED
    BY <2>1, <2>2, <2>3, <2>4
<1>5. QED
  BY <1>2, <1>4 DEF PricingInv

LEMMA TableOK ==
    ASSUME PricingInv, NEW x \in Items, TableChanges(x)
    PROVE  PricingInv'
<1>1. /\ table' = [table EXCEPT ![x] = @ + 1]
      /\ since' = IF table[x] = 0 THEN [since EXCEPT ![x] = clock] ELSE since
      /\ UNCHANGED <<price, mem, misses, chain, round, clock, best>>
  BY DEF TableChanges
<1>2. /\ table \in [Items -> Nat] /\ since \in [Items -> Nat] /\ clock \in Nat /\ price.val \in [Items -> Nat]
  BY DEF PricingInv, PricingTypes, Files
<1>3. /\ table' \in [Items -> Nat] /\ since' \in [Items -> Nat]
      /\ \A i \in Items : /\ table[i] <= table'[i]
                          /\ table'[i] > 0 => (table[i] > 0 /\ since'[i] = since[i]) \/ since'[i] = clock
  BY <1>1, <1>2
<1>4. PricingTypes' /\ FromTheTable'
  BY <1>1, <1>2, <1>3 DEF PricingInv, PricingTypes, FromTheTable
<1>5. ASSUME NEW b \in [Items -> Nat], NEW f \in Files, Recoverable(b, f, table)
      PROVE  Recoverable(b, f, table')
  BY <1>2, <1>3, <1>5 DEF Recoverable
<1>6. ASSUME NEW q \in Sessions
      PROVE  InTheChain(q)' /\ Noted(q)' /\ BestKept(q)' /\ UnderWay(q)' /\ Loaded(q)'
  <2>1. InTheChain(q)'
    BY <1>1, InvParts DEF InTheChain
  <2>2. Noted(q)'
    BY <1>1, <1>3, InvParts DEF Noted
  <2>3. BestKept(q)'
    BY <1>1, <1>5, InvParts DEF BestKept
  <2>4. UnderWay(q)'
    <3>1. SUFFICES ASSUME round[q].pc # "none" PROVE UnderWay(q)'
      BY <1>1 DEF UnderWay
    <3>2. \A i \in Items : round[q].old.val[i] <= table'[i]
      <4>1. \A i \in Items : round[q].old.val[i] <= table[i]
        BY <3>1, InvParts DEF UnderWay
      <4>2. \A i \in Items : round[q].old.val[i] \in Nat /\ table[i] \in Nat /\ table'[i] \in Nat
        BY <1>2, <1>3, InvParts
      <4>3. QED
        BY <1>3, <4>1, <4>2
    <3>3. QED
      BY <1>1, <3>1, <3>2, InvParts DEF UnderWay
  <2>5. Loaded(q)'
    <3>1. SUFFICES ASSUME round[q].pc = "write" PROVE Loaded(q)'
      BY <1>1 DEF Loaded
    <3>2. ASSUME NEW i \in Items
          PROVE  /\ round[q].old.val[i] <= round[q].got[i] /\ round[q].got[i] <= table'[i]
                 /\ round[q].got[i] = 0 /\ table'[i] > 0 => since'[i] >= round[q].now
      <4>1. /\ round[q].old.val[i] <= round[q].got[i] /\ round[q].got[i] <= table[i] /\ round[q].now <= clock
            /\ round[q].got[i] = 0 /\ table[i] > 0 => since[i] >= round[q].now
        BY <3>1, InvParts DEF Loaded, UnderWay
      <4>2. /\ round[q].old.val[i] \in Nat /\ round[q].got[i] \in Nat
            /\ round[q].now \in Nat /\ table'[i] \in Nat
        BY <1>3, InvParts
      <4>3. QED
        BY <1>2, <1>3, <4>1, <4>2
    <3>3. QED
      BY <1>1, <3>1, <3>2, InvParts DEF Loaded
  <2>6. QED
    BY <2>1, <2>2, <2>3, <2>4, <2>5
<1>7. QED
  BY <1>4, <1>6 DEF PricingInv

LEMMA EditedOK ==
    ASSUME PricingInv, FileEdited
    PROVE  PricingInv'
<1>1. UNCHANGED <<table, since, mem, misses, chain, round, clock>>
      /\ best' = [q \in Sessions |-> [d \in Catalogs |-> Nothing]]
  BY DEF FileEdited
<1>2. price \in Files /\ clock \in Nat /\ table \in [Items -> Nat]
  BY DEF PricingInv, PricingTypes
<1>3. price' \in Files /\ price'.at <= clock /\ \A i \in Items : price'.val[i] <= table[i]
  <2>1. CASE price' = NoPrices
    BY <1>2, <2>1, NothingIs
  <2>2. CASE \E m \in Models : price' = [price EXCEPT !.over = IF m \in @ THEN @ \ {m} ELSE @ \cup {m}]
    <3>1. PICK m \in Models : price' = [price EXCEPT !.over = IF m \in @ THEN @ \ {m} ELSE @ \cup {m}]
      BY <2>2
    <3>2. (IF m \in price.over THEN price.over \ {m} ELSE price.over \cup {m}) \in SUBSET Models
      BY <1>2 DEF Files
    <3>3. price' \in Files /\ price'.at = price.at /\ price'.val = price.val
      BY <1>2, <3>1, <3>2 DEF Files
    <3>4. QED
      BY <3>3 DEF PricingInv, PricingTypes, FromTheTable
  <2>3. QED
    BY <2>1, <2>2 DEF FileEdited
<1>4. best' \in [Sessions -> [Catalogs -> [Items -> Nat]]]
      /\ \A q \in Sessions : /\ best'[q] = [d \in Catalogs |-> Nothing]
                             /\ \A d \in Catalogs : best'[q][d] = Nothing
  BY <1>1, NothingIs
<1>5. PricingTypes' /\ FromTheTable'
  BY <1>1, <1>3, <1>4 DEF PricingInv, PricingTypes, FromTheTable
<1>6. ASSUME NEW q \in Sessions
      PROVE  InTheChain(q)' /\ Noted(q)' /\ BestKept(q)' /\ UnderWay(q)' /\ Loaded(q)'
  <2>1. InTheChain(q)' /\ Noted(q)' /\ UnderWay(q)'
    BY <1>1, <1>4, InvParts DEF InTheChain, Noted, UnderWay
  <2>2. Recoverable(Nothing, price', table) /\ \A i \in Items : ~(Nothing[i] > price'.val[i])
    BY <1>2, <1>3, NothingKept
  <2>3. BestKept(q)'
    BY <1>1, <1>4, <2>2 DEF BestKept
  <2>4. Recoverable(Nothing, round[q].old, round[q].got)
    BY NothingKept, InvParts
  <2>5. Loaded(q)'
    BY <1>1, <1>4, <2>4, InvParts DEF Loaded
  <2>6. QED
    BY <2>1, <2>3, <2>5
<1>7. QED
  BY <1>5, <1>6 DEF PricingInv

LEMMA PricingInductive == PricingInv /\ [PricingNext]_pricingVars => PricingInv'
<1> SUFFICES ASSUME PricingInv, [PricingNext]_pricingVars PROVE PricingInv'
  OBVIOUS
<1>1. CASE UNCHANGED pricingVars
  BY <1>1 DEF pricingVars, PricingInv, PricingTypes, FromTheTable, InTheChain, Noted, BestKept,
     UnderWay, Loaded
<1>2. CASE PricingNext
  BY <1>2, RefreshOK, BeginsOK, ServedOK, LoadFailsOK, WriteFailsOK, WritesOK, TicksOK, TableOK, EditedOK
     DEF PricingNext, RoundGoesOn
<1>3. QED
  BY <1>1, <1>2

LEMMA PricingStarts == PricingInit => PricingInv
<1> SUFFICES ASSUME PricingInit PROVE PricingInv
  OBVIOUS
<1>1. /\ price = NoPrices /\ table \in [Items -> {0, 1}] /\ since = Nothing /\ clock = Ttl
      /\ mem = [p \in Sessions |-> Nothing] /\ misses = [p \in Sessions |-> Nothing]
      /\ chain = [p \in Sessions |-> <<>>] /\ round = [p \in Sessions |-> NoRound]
      /\ best = [p \in Sessions |-> [c \in Catalogs |-> Nothing]]
  BY DEF PricingInit
<1>2. table \in [Items -> Nat]
  BY <1>1
<1>3. PricingTypes
  BY <1>1, <1>2, NothingIs, ConstantsAre DEF PricingTypes
<1>4. FromTheTable
  BY <1>1, <1>2, NothingIs DEF FromTheTable
<1>5. ASSUME NEW p \in Sessions
      PROVE  InTheChain(p) /\ Noted(p) /\ BestKept(p) /\ UnderWay(p) /\ Loaded(p)
  <2>1. /\ chain[p] = <<>> /\ round[p] = NoRound /\ misses[p] = Nothing
        /\ \A c \in Catalogs : best[p][c] = Nothing
    BY <1>1
  <2>2. InTheChain(p)
    <3>1. DOMAIN <<>> = {}
      OBVIOUS
    <3>2. IsInjective(<<>>)
      BY <3>1 DEF IsInjective
    <3>3. QED
      BY <2>1, <3>2, NothingIs DEF InTheChain
  <2>3. Noted(p)
    BY <1>1, <2>1, NothingIs, ConstantsAre DEF Noted
  <2>4. BestKept(p)
    BY <1>1, <1>2, <2>1, NothingIs, NothingKept DEF BestKept
  <2>5. UnderWay(p) /\ Loaded(p)
    BY <2>1, NothingIs DEF UnderWay, Loaded
  <2>6. QED
    BY <2>2, <2>3, <2>4, <2>5
<1>6. QED
  BY <1>3, <1>4, <1>5 DEF PricingInv

LEMMA PricingTypesHold == PricingInv => PricingTypeOK
<1> SUFFICES ASSUME PricingInv PROVE PricingTypeOK
  OBVIOUS
<1>1. price.at \in 0..MaxTime /\ price.over \subseteq Models
  BY ConstantsAre DEF PricingInv, PricingTypes, Files
<1>2. ASSUME NEW p \in Sessions
      PROVE  /\ chain[p] = <<>> => round[p] = NoRound
             /\ \A i \in Items : misses[p][i] \in 0..clock
             /\ IsInjective(chain[p])
  <2>1. IsInjective(chain[p]) /\ (chain[p] = <<>> => round[p] = NoRound)
    BY InvParts DEF InTheChain
  <2>2. \A i \in Items : misses[p][i] \in Nat /\ misses[p][i] <= clock /\ clock \in Nat
    BY InvParts DEF Noted
  <2>3. QED
    BY <2>1, <2>2
<1>3. QED
  BY <1>1, <1>2 DEF PricingTypeOK

(* The file, the misses and the chains always hold what they are meant to hold, and a
   catalog is in a chain once. *)
THEOREM PricingTypesCorrect == PricingSpec => []PricingTypeOK
BY PricingStarts, PricingInductive, PricingTypesHold, PTL DEF PricingSpec

-----------------------------------------------------------------------------
(* Rounds that are skipped, and what the others leave *)

(* Who takes the first round off a chain: the one that begins and has nothing to do, or the
   one that was under way. *)
LEMMA WhoEnds ==
    ASSUME PricingInv, PricingNext, NEW p \in Sessions, chain'[p] # chain[p], Len(chain'[p]) < Len(chain[p])
    PROVE  \/ RoundBegins(p) /\ Suffices(p, price, Head(chain[p])) /\ RoundEnds(p, price)
           \/ LoadFails(p) \/ RoundWrites(p) \/ WriteFails(p)
<1>1. chain \in [Sessions -> Seq(Catalogs)] /\ Len(chain[p]) \in Nat
  BY InvParts DEF PricingInv, PricingTypes
<1>2. CASE \E q \in Sessions : \E c \in Catalogs : RefreshPricing(q, c)
  <2>1. Len(chain'[p]) >= Len(chain[p])
    BY <1>2, RefreshOK
  <2>2. Len(chain'[p]) \in Nat
    <3>1. PricingInv'
      BY <1>2, RefreshOK
    <3>2. chain'[p] \in Seq(Catalogs)
      BY <3>1 DEF PricingInv, PricingTypes
    <3>3. QED
      BY <3>2
  <2>3. QED
    BY <1>1, <2>1, <2>2
<1>3. ASSUME NEW q \in Sessions, RoundGoesOn(q)
      PROVE  \/ RoundBegins(p) /\ Suffices(p, price, Head(chain[p])) /\ RoundEnds(p, price)
             \/ LoadFails(p) \/ RoundWrites(p) \/ WriteFails(p)
  <2>1. q = p
    <3>1. chain'[q] # chain[q] => \A r \in Sessions \ {q} : chain'[r] = chain[r]
      BY <1>1, <1>3 DEF RoundGoesOn, RoundBegins, TableServed, LoadFails, RoundWrites, WriteFails, RoundEnds
    <3>2. chain' = chain \/ chain' = [chain EXCEPT ![q] = Tail(@)]
      BY <1>3 DEF RoundGoesOn, RoundBegins, TableServed, LoadFails, RoundWrites, WriteFails, RoundEnds
    <3>3. QED
      BY <1>1, <3>2
  <2>2. QED
    BY <1>3, <2>1 DEF RoundGoesOn, RoundBegins, TableServed
<1>4. CASE Ticks \/ FileEdited \/ \E i \in Items : TableChanges(i)
  BY <1>4 DEF Ticks, FileEdited, TableChanges
<1>5. QED
  BY <1>2, <1>3, <1>4 DEF PricingNext

FaultsCounted == faults \in Nat

LEMMA FaultsAreCounted ==
    /\ PricingInit => FaultsCounted
    /\ FaultsCounted /\ [PricingNext]_pricingVars => FaultsCounted'
<1>1. PricingInit => FaultsCounted
  BY DEF PricingInit, FaultsCounted
<1>2. ASSUME FaultsCounted, [PricingNext]_pricingVars PROVE FaultsCounted'
  <2>1. UNCHANGED faults \/ Upset
    BY <1>2 DEF PricingNext, pricingVars, RefreshPricing, RoundGoesOn, RoundBegins, TableServed, LoadFails,
       RoundWrites, WriteFails, Ticks, FileEdited, TableChanges
  <2>2. QED
    BY <1>2, <2>1 DEF Upset, FaultsCounted
<1>3. QED
  BY <1>1, <1>2

(* A round that downloads nothing overlooks nothing the table has had for as long as a miss
   is believed, and no round leaves anything older than the last one of its catalog brought,
   unless something fails or someone else wrote the file. *)
THEOREM PricesAlwaysAdvance == PricingSpec => PricesAdvance
<1>1. PricingInv /\ [PricingNext]_pricingVars =>
         (\A p \in Sessions : Skips(p) =>
             \A i \in ItemsOf(Head(chain[p])) : table[i] > 0 /\ since[i] + Retry <= clock => Has(price, i))
  <2>1. SUFFICES ASSUME PricingInv, [PricingNext]_pricingVars, NEW p \in Sessions, Skips(p),
                        NEW i \in ItemsOf(Head(chain[p])), table[i] > 0, since[i] + Retry <= clock
                 PROVE  Has(price, i)
    OBVIOUS
  <2>2. chain[p] # <<>> /\ round[p].pc = "none" /\ chain'[p] # chain[p] /\ chain'[p] = Tail(chain[p])
    BY <2>1 DEF Skips
  <2>3. PricingNext /\ Len(chain'[p]) < Len(chain[p])
    BY <2>1, <2>2, FirstOfChain DEF pricingVars
  <2>4. Suffices(p, price, Head(chain[p]))
    BY <2>1, <2>2, <2>3, WhoEnds DEF LoadFails, RoundWrites, WriteFails
  <2>5. i \in Items
    BY <2>1, <2>2, FirstOfChain, ItemsOfCatalog
  <2>6. ~Recent(misses[p][i])
    <3>1. misses[p][i] \in Nat /\ since[i] \in Nat /\ clock \in Nat
      BY <2>1, <2>5, InvParts
    <3>2. misses[p][i] > 0 => since[i] >= misses[p][i]
      BY <2>1, <2>5, InvParts DEF Noted
    <3>3. QED
      BY <2>1, <3>1, <3>2, ConstantsAre DEF Recent
  <2>7. QED
    BY <2>1, <2>4, <2>6 DEF Suffices
<1>2. PricingInv /\ FaultsCounted /\ [PricingNext]_pricingVars =>
         (\A p \in Sessions :
             chain'[p] # chain[p] /\ Len(chain'[p]) < Len(chain[p]) /\ faults' = faults =>
                 \A i \in ItemsOf(Head(chain[p])) : mem'[p][i] >= best[p][Head(chain[p])][i])
  <2>1. SUFFICES ASSUME PricingInv, FaultsCounted, [PricingNext]_pricingVars, NEW p \in Sessions,
                        chain'[p] # chain[p], Len(chain'[p]) < Len(chain[p]), faults' = faults,
                        NEW i \in ItemsOf(Head(chain[p]))
                 PROVE  mem'[p][i] >= best[p][Head(chain[p])][i]
    OBVIOUS
  <2> DEFINE c == Head(chain[p])
  <2>2. PricingNext
    BY <2>1 DEF pricingVars
  <2>3. ASSUME NEW f, RoundEnds(p, f) PROVE mem'[p] = f.val
    BY <2>1, <2>3 DEF RoundEnds, PricingInv, PricingTypes
  <2>4. CASE RoundBegins(p) /\ Suffices(p, price, c) /\ RoundEnds(p, price)
    <3>1. c \in Catalogs
      BY <2>1, <2>4, FirstOfChain DEF RoundBegins
    <3>2. i \in Items /\ ~Lacks(clock, misses[p], price, c)
      BY <2>1, <2>4, <3>1, ItemsOfCatalog, LacksIs
    <3>3. ~(best[p][c][i] > price.val[i])
      BY <2>1, <3>1, <3>2, InvParts DEF BestKept
    <3>4. best[p][c][i] \in Nat /\ price.val[i] \in Nat
      BY <2>1, <3>1, <3>2, InvParts
    <3>5. QED
      BY <2>3, <2>4, <3>3, <3>4
  <2>5. CASE RoundWrites(p)
    <3>1. round[p].pc = "write" /\ RoundEnds(p, Refreshed(round[p], c))
      BY <2>5 DEF RoundWrites
    <3>2. i \in Items /\ Refreshed(round[p], c).val[i] >= best[p][c][i]
      BY <2>1, <3>1, RefreshedIs, ItemsOfCatalog
    <3>3. QED
      BY <2>3, <3>1, <3>2
  <2>6. CASE LoadFails(p) \/ WriteFails(p)
    <3>1. faults' = faults + 1
      BY <2>6 DEF LoadFails, WriteFails, Upset
    <3>2. QED
      BY <2>1, <3>1 DEF FaultsCounted
  <2>7. QED
    BY <2>1, <2>2, <2>4, <2>5, <2>6, WhoEnds
<1>3. QED
  BY <1>1, <1>2, PricingStarts, PricingInductive, FaultsAreCounted, PTL
     DEF PricingSpec, PricesAdvance, SkipIsJustified, NothingGoesBack

-----------------------------------------------------------------------------
(* The input history: what a process, its chain and its editor are *)

Configs == [enabled : BOOLEAN, scope : Scopes]
TermRecords ==
    [pc : {"off", "loaded", "live", "ending", "gone"}, enabled : BOOLEAN, scope : Scopes, hooked : BOOLEAN,
     pending : BOOLEAN, noticed : BOOLEAN, chain : Seq([scope : Scopes, text : Texts]),
     writing : {"no", "plain", "marking"},
     command : [what : {"none", "clear", "on", "off", "scope"}, scope : Scopes],
     editor : Seq({"ours", "other"})]

(* What a process has noted, queued or may queue of the global history was disclosed: k. *)
Disclosed(s, k) ==
    /\ s.pending => s.noticed
    /\ s.noticed => k
    /\ s.writing = "marking" => k
    /\ s.pc = "live" /\ s.hooked /\ s.enabled /\ s.scope = "global" => k
    /\ \A i \in DOMAIN s.chain : s.chain[i].scope = "global" => k

(* Only who is subscribed queues prompts, and a command keeps the session from ending. *)
Subscribed(s) ==
    /\ s.writing # "no" => s.chain # <<>>
    /\ ~s.hooked => s.chain = <<>>
    /\ s.pc = "gone" => ~s.hooked
    /\ s.command.what # "none" => s.pc = "live"

Layered(e) == \A k \in 1..Len(e) - 1 : ~(e[k] = "ours" /\ e[k + 1] = "ours")

TermOK(s, k) == s \in TermRecords /\ Disclosed(s, k) /\ Subscribed(s) /\ Layered(s.editor)

HistoryInv ==
    /\ config \in Configs /\ told \in BOOLEAN /\ term \in [Terminals -> TermRecords]
    /\ DOMAIN hfile = Paths /\ (hfile["global"].shown => told)
    /\ \A t \in Terminals : TermOK(term[t], told)

-----------------------------------------------------------------------------
(* The editor's layers *)

LEMMA LayerAdded ==
    ASSUME NEW e \in Seq({"ours", "other"}), Layered(e), NEW x \in {"ours", "other"},
           x = "other" \/ e = <<>> \/ e[Len(e)] # "ours"
    PROVE  Append(e, x) \in Seq({"ours", "other"}) /\ Layered(Append(e, x))
<1> DEFINE a == Append(e, x)
<1>1. /\ a \in Seq({"ours", "other"}) /\ Len(a) = Len(e) + 1 /\ Len(e) \in Nat /\ a[Len(e) + 1] = x
      /\ \A i \in 1..Len(e) : a[i] = e[i]
  BY AppendProperties
<1> HIDE DEF a
<1>2. ASSUME NEW k \in 1..Len(a) - 1 PROVE ~(a[k] = "ours" /\ a[k + 1] = "ours")
  <2>1. k \in 1..Len(e) /\ a[k] = e[k]
    BY <1>1
  <2>2. CASE k = Len(e)
    <3>1. e # <<>>
      BY <2>1
    <3>2. QED
      BY <1>1, <2>1, <2>2, <3>1
  <2>3. CASE k # Len(e)
    <3>1. k \in 1..Len(e) - 1 /\ k + 1 \in 1..Len(e)
      BY <1>1, <2>1, <2>3
    <3>2. a[k + 1] = e[k + 1] /\ ~(e[k] = "ours" /\ e[k + 1] = "ours")
      BY <1>1, <3>1 DEF Layered
    <3>3. QED
      BY <2>1, <3>2
  <2>4. QED
    BY <2>2, <2>3
<1>3. QED
  BY <1>1, <1>2 DEF Layered, a

(* What is left when a layer of ours is taken off has none on top. *)
LEMMA LayerPeeled ==
    ASSUME NEW e \in Seq({"ours", "other"}), Layered(e)
    PROVE  LET f == Peeled(e) IN
           /\ f \in Seq({"ours", "other"}) /\ Layered(f)
           /\ f = <<>> \/ f[Len(f)] # "ours"
<1>1. CASE ~(e # <<>> /\ e[Len(e)] = "ours")
  <2>1. Peeled(e) = e
    BY <1>1 DEF Peeled, Last
  <2>2. QED
    BY <1>1, <2>1
<1>2. CASE e # <<>> /\ e[Len(e)] = "ours"
  <2> DEFINE f == SubSeq(e, 1, Len(e) - 1)
  <2>1. Peeled(e) = f
    BY <1>2 DEF Peeled, Last, Front
  <2>2. Len(e) \in Nat /\ Len(e) >= 1 /\ \A i \in 1..Len(e) : e[i] \in {"ours", "other"}
    BY <1>2, LenProperties, EmptySeq, ElementOfSeq
  <2>3. /\ f \in Seq({"ours", "other"}) /\ Len(f) = Len(e) - 1
        /\ \A i \in 1..Len(e) - 1 : f[i] = e[i]
    <3>1. /\ f \in Seq({"ours", "other"})
          /\ Len(f) = IF 1 <= Len(e) - 1 THEN Len(e) - 1 - 1 + 1 ELSE 0
          /\ \A i \in 1..(Len(e) - 1 - 1 + 1) : f[i] = e[1 + i - 1]
      <4>1. Len(e) - 1 \in Int /\ 1 \in Int /\ \A i \in 1..(Len(e) - 1) : e[i] \in {"ours", "other"}
        BY <2>2
      <4> HIDE DEF f
      <4>2. QED
        BY <4>1, SubSeqProperties DEF f
    <3> HIDE DEF f
    <3>2. Len(f) = Len(e) - 1
      <4>1. \A n \in Nat : n >= 1 => (IF 1 <= n - 1 THEN n - 1 - 1 + 1 ELSE 0) = n - 1
        OBVIOUS
      <4>2. QED
        BY <2>2, <3>1, <4>1
    <3>3. \A i \in 1..Len(e) - 1 : i \in 1..(Len(e) - 1 - 1 + 1) /\ 1 + i - 1 = i
      BY <2>2
    <3>4. QED
      BY <3>1, <3>2, <3>3
  <2> HIDE DEF f
  <2>4. Layered(f)
    <3>1. SUFFICES ASSUME NEW k \in 1..Len(f) - 1 PROVE ~(f[k] = "ours" /\ f[k + 1] = "ours")
      BY DEF Layered
    <3>2. k \in 1..Len(e) - 1 /\ k + 1 \in 1..Len(e) - 1 /\ f[k] = e[k] /\ f[k + 1] = e[k + 1]
      BY <2>2, <2>3, <3>1
    <3>3. QED
      BY <3>2 DEF Layered
  <2>5. f = <<>> \/ f[Len(f)] # "ours"
    <3>1. CASE Len(e) = 1
      BY <2>3, <3>1, EmptySeq
    <3>2. CASE Len(e) # 1
      <4>1. Len(f) \in 1..Len(e) - 1 /\ Len(f) + 1 = Len(e) /\ f[Len(f)] = e[Len(f)]
        BY <2>2, <2>3, <3>2
      <4>2. ~(e[Len(f)] = "ours" /\ e[Len(f) + 1] = "ours")
        BY <4>1 DEF Layered
      <4>3. QED
        BY <1>2, <4>1, <4>2
    <3>3. QED
      BY <3>1, <3>2
  <2>6. QED
    BY <2>1, <2>3, <2>4, <2>5
<1>3. QED
  BY <1>1, <1>2

(* Our editor goes on top, and a place that was not disclosed yet is. *)
LEMMA InstalledIs ==
    ASSUME NEW s \in TermRecords, Layered(s.editor)
    PROVE  LET n == Installed(s) IN
           /\ n \in TermRecords /\ Layered(n.editor)
           /\ n.pc = s.pc /\ n.enabled = s.enabled /\ n.scope = s.scope /\ n.hooked = s.hooked
           /\ n.chain = s.chain /\ n.writing = s.writing /\ n.command = s.command
           /\ Notice(s) => n.noticed /\ n.pending
           /\ ~Notice(s) => n.noticed = s.noticed /\ n.pending = s.pending
<1> DEFINE e == Append(Peeled(s.editor), "ours")
           m == [s EXCEPT !.editor = e]
           w == [m EXCEPT !.noticed = TRUE, !.pending = TRUE]
<1>1. e \in Seq({"ours", "other"}) /\ Layered(e)
  <2>1. s.editor \in Seq({"ours", "other"})
    BY DEF TermRecords
  <2>2. QED
    BY <2>1, LayerPeeled, LayerAdded
<1>2. Installed(s) = IF Notice(s) THEN w ELSE m
  BY DEF Installed
<1> HIDE DEF e
<1>3. /\ m \in TermRecords /\ m.editor = e
      /\ m.pc = s.pc /\ m.enabled = s.enabled /\ m.scope = s.scope /\ m.hooked = s.hooked
      /\ m.chain = s.chain /\ m.writing = s.writing /\ m.command = s.command
      /\ m.noticed = s.noticed /\ m.pending = s.pending
  BY <1>1 DEF TermRecords
<1> HIDE DEF m
<1>4. /\ w \in TermRecords /\ w.editor = e
      /\ w.pc = s.pc /\ w.enabled = s.enabled /\ w.scope = s.scope /\ w.hooked = s.hooked
      /\ w.chain = s.chain /\ w.writing = s.writing /\ w.command = s.command
      /\ w.noticed /\ w.pending
  BY <1>3 DEF TermRecords
<1> HIDE DEF w
<1>5. CASE Notice(s)
  BY <1>1, <1>2, <1>4, <1>5
<1>6. CASE ~Notice(s)
  BY <1>1, <1>2, <1>3, <1>6
<1>7. QED
  BY <1>5, <1>6

LEMMA OffTerminalOK == ASSUME NEW k \in BOOLEAN PROVE TermOK(OffTerminal, k) /\ OffTerminal.pc = "off"
<1>1. OffTerminal \in TermRecords
  BY DEF OffTerminal, TermRecords, NoCommand, Scopes
<1>2. QED
  BY <1>1 DEF TermOK, Disclosed, Subscribed, Layered, OffTerminal, NoCommand

LEMMA ScopesAre == ASSUME HistoryInv, NEW t \in Terminals PROVE ScopeFor(t) \in Scopes
BY HistoryAssumption DEF ScopeFor, HistoryInv, Configs, Scopes

LEMMA TermIs ==
    ASSUME HistoryInv, NEW t \in Terminals
    PROVE  /\ term[t] \in TermRecords /\ TermOK(term[t], told) /\ Disclosed(term[t], told)
           /\ Subscribed(term[t]) /\ Layered(term[t].editor)
           /\ term[t].chain \in Seq([scope : Scopes, text : Texts]) /\ term[t].scope \in Scopes
           /\ told \in BOOLEAN /\ config \in Configs
<1>1. TermOK(term[t], told) /\ told \in BOOLEAN /\ config \in Configs
  BY DEF HistoryInv
<1>2. QED
  BY <1>1 DEF TermOK, TermRecords

(* A step of one process. *)
LEMMA TermSettles ==
    ASSUME HistoryInv, NEW t \in Terminals, NEW s, term' = [term EXCEPT ![t] = s],
           told' \in BOOLEAN, told => told', TermOK(s, told'), config' \in Configs,
           DOMAIN hfile' = Paths, hfile'["global"].shown => told'
    PROVE  HistoryInv'
<1>1. term' \in [Terminals -> TermRecords]
  BY DEF HistoryInv, TermOK
<1>2. ASSUME NEW q \in Terminals PROVE TermOK(term'[q], told')
  <2>1. CASE q = t
    BY <2>1 DEF HistoryInv
  <2>2. CASE q # t
    <3>1. term'[q] = term[q] /\ TermOK(term[q], told)
      BY <2>2 DEF HistoryInv
    <3>2. QED
      BY <3>1 DEF TermOK, Disclosed
  <2>3. QED
    BY <2>1, <2>2
<1>3. QED
  BY <1>1, <1>2 DEF HistoryInv

-----------------------------------------------------------------------------
(* The steps *)

LEMMA LoadOK == ASSUME HistoryInv, NEW t \in Terminals, LoadHistory(t) PROVE HistoryInv'
<1> DEFINE r == Resolved(t, OffTerminal)
           s == [r EXCEPT !.pc = "loaded", !.hooked = r.enabled]
<1>1. term' = [term EXCEPT ![t] = s] /\ UNCHANGED <<config, hfile, told>>
  BY DEF LoadHistory
<1>2. ScopeFor(t) \in Scopes /\ config.enabled \in BOOLEAN /\ told \in BOOLEAN /\ OffTerminal \in TermRecords
  BY ScopesAre, OffTerminalOK DEF HistoryInv, Configs, TermOK
<1>3. /\ s \in TermRecords /\ s.pc = "loaded" /\ ~s.noticed /\ ~s.pending
      /\ s.chain = <<>> /\ s.writing = "no" /\ s.command.what = "none" /\ s.editor = <<>>
  <2>1. r = [OffTerminal EXCEPT !.enabled = config.enabled, !.scope = ScopeFor(t)]
    BY DEF Resolved
  <2>2. r \in TermRecords /\ r.pc = "off" /\ ~r.noticed /\ ~r.pending /\ r.chain = <<>> /\ r.writing = "no"
        /\ r.command.what = "none" /\ r.editor = <<>>
    BY <1>2, <2>1 DEF TermRecords, OffTerminal, NoCommand
  <2> HIDE DEF r
  <2>3. r.enabled \in BOOLEAN
    BY <2>2 DEF TermRecords
  <2>4. QED
    BY <2>2, <2>3 DEF TermRecords
<1> HIDE DEF s
<1>4. TermOK(s, told)
  BY <1>2, <1>3 DEF TermOK, Disclosed, Subscribed, Layered
<1>5. QED
  BY <1>1, <1>2, <1>4, TermSettles DEF HistoryInv

LEMMA StartHistoryOK == ASSUME HistoryInv, NEW t \in Terminals, StartHistory(t) PROVE HistoryInv'
<1> DEFINE o == term[t]
           s == IF o.hooked THEN Resolved(t, o) ELSE o
           live == [s EXCEPT !.pc = "live"]
           n == Installed(live)
           bare == [n EXCEPT !.editor = <<>>]
<1>1. o \in TermRecords /\ Disclosed(o, told) /\ Subscribed(o) /\ Layered(o.editor) /\ o.pc = "loaded"
      /\ told \in BOOLEAN /\ config \in Configs /\ ScopeFor(t) \in Scopes
  BY TermIs, ScopesAre DEF StartHistory
<1>2. UNCHANGED <<config, hfile>>
  BY DEF StartHistory
<1>3. \/ /\ term' = [term EXCEPT ![t] = IF s.hooked /\ s.enabled THEN n ELSE live]
         /\ told' = IF s.hooked THEN Told(s) ELSE told
      \/ /\ s.hooked /\ s.enabled /\ term' = [term EXCEPT ![t] = bare] /\ told' = Told(s)
  BY DEF StartHistory
<1> HIDE DEF o
<1>4. /\ s \in TermRecords /\ s.hooked = o.hooked /\ s.noticed = o.noticed /\ s.pending = o.pending
      /\ s.chain = o.chain /\ s.writing = o.writing /\ s.command = o.command /\ s.editor = o.editor
  BY <1>1 DEF Resolved, TermRecords, Configs
<1> HIDE DEF s
<1>5. /\ live \in TermRecords /\ live.hooked = o.hooked /\ live.noticed = o.noticed
      /\ live.pending = o.pending /\ live.chain = o.chain /\ live.writing = o.writing
      /\ live.command = o.command /\ live.editor = o.editor
      /\ live.pc = "live" /\ live.enabled = s.enabled /\ live.scope = s.scope
  BY <1>4 DEF TermRecords
<1> HIDE DEF live
<1>6. Notice(live) <=> Notice(s)
  BY <1>4, <1>5 DEF Notice
<1>7. /\ n \in TermRecords /\ Layered(n.editor)
      /\ n.pc = "live" /\ n.enabled = s.enabled /\ n.scope = s.scope /\ n.hooked = o.hooked
      /\ n.chain = o.chain /\ n.writing = o.writing /\ n.command = o.command
      /\ Notice(s) => n.noticed /\ n.pending
      /\ ~Notice(s) => n.noticed = o.noticed /\ n.pending = o.pending
  BY <1>1, <1>5, <1>6, InstalledIs
<1> HIDE DEF n
<1>8. /\ bare \in TermRecords /\ bare.editor = <<>>
      /\ bare.pc = "live" /\ bare.enabled = s.enabled /\ bare.scope = s.scope /\ bare.hooked = o.hooked
      /\ bare.chain = o.chain /\ bare.writing = o.writing /\ bare.command = o.command
      /\ bare.noticed = n.noticed /\ bare.pending = n.pending
  <2>1. <<>> \in Seq({"ours", "other"})
    OBVIOUS
  <2>2. QED
    BY <1>7, <2>1 DEF TermRecords
<1> HIDE DEF bare
<1>9. told' \in BOOLEAN /\ (told => told')
  BY <1>1, <1>3, <1>4 DEF Told, TermRecords
<1>10. s.enabled \in BOOLEAN /\ s.hooked \in BOOLEAN /\ o.noticed \in BOOLEAN
  BY <1>1, <1>4 DEF TermRecords
<1>11. ASSUME s.hooked, s.enabled
       PROVE  (Notice(s) => told') /\ (s.scope = "global" => told') /\ (n.noticed => told')
  <2>1. told' = (told \/ Notice(s))
    BY <1>3, <1>11 DEF Told
  <2>2. (hfile["global"].shown => told) /\ (o.noticed => told)
    BY <1>1 DEF HistoryInv, Disclosed
  <2>3. QED
    BY <1>4, <1>7, <2>1, <2>2 DEF Notice
<1>12. CASE s.hooked /\ s.enabled /\ term' = [term EXCEPT ![t] = n]
  <2>1. TermOK(n, told')
    BY <1>1, <1>7, <1>9, <1>11, <1>12 DEF TermOK, Disclosed, Subscribed
  <2>2. QED
    BY <1>1, <1>2, <1>9, <1>12, <2>1, TermSettles DEF HistoryInv
<1>13. CASE s.hooked /\ s.enabled /\ term' = [term EXCEPT ![t] = bare]
  <2>1. TermOK(bare, told')
    BY <1>1, <1>7, <1>8, <1>9, <1>11, <1>13 DEF TermOK, Disclosed, Subscribed, Layered
  <2>2. QED
    BY <1>1, <1>2, <1>9, <1>13, <2>1, TermSettles DEF HistoryInv
<1>14. CASE ~(s.hooked /\ s.enabled) /\ term' = [term EXCEPT ![t] = live]
  <2>1. TermOK(live, told')
    BY <1>1, <1>4, <1>5, <1>9, <1>14 DEF TermOK, Disclosed, Subscribed
  <2>2. QED
    BY <1>1, <1>2, <1>9, <1>14, <2>1, TermSettles DEF HistoryInv
<1>15. QED
  BY <1>3, <1>12, <1>13, <1>14

(* The end of a session, and what it leaves of it. *)
LEMMA EndHistoryOK == ASSUME HistoryInv, NEW t \in Terminals, EndHistory(t) PROVE HistoryInv'
<1> DEFINE o == term[t]
           s == [o EXCEPT !.pc = IF o.hooked THEN "ending" ELSE "gone"]
<1>1. o \in TermRecords /\ Disclosed(o, told) /\ Subscribed(o) /\ Layered(o.editor) /\ o.pc = "live"
      /\ told \in BOOLEAN /\ o.command = NoCommand
  BY TermIs DEF EndHistory
<1>2. term' = [term EXCEPT ![t] = s] /\ UNCHANGED <<config, hfile, told>>
  BY <1>1 DEF EndHistory, HistoryInv
<1> HIDE DEF o
<1>3. TermOK(s, told)
  <2>1. /\ s \in TermRecords /\ s.pc = (IF o.hooked THEN "ending" ELSE "gone") /\ s.hooked = o.hooked
        /\ s.noticed = o.noticed /\ s.pending = o.pending /\ s.chain = o.chain /\ s.writing = o.writing
        /\ s.command = o.command /\ s.editor = o.editor
    BY <1>1 DEF TermRecords
  <2> HIDE DEF s
  <2>2. o.command.what = "none"
    BY <1>1 DEF NoCommand
  <2>3. QED
    BY <1>1, <2>1, <2>2 DEF TermOK, Disclosed, Subscribed
<1>4. QED
  BY <1>1, <1>2, <1>3, TermSettles DEF HistoryInv

LEMMA GoneOK ==
    ASSUME HistoryInv, NEW t \in Terminals, HistoryEnded(t) \/ HistoryKilled(t)
    PROVE  HistoryInv'
<1>1. term' = [term EXCEPT ![t] = OffTerminal] /\ UNCHANGED <<config, hfile, told>>
  BY DEF HistoryEnded, HistoryKilled
<1>2. told \in BOOLEAN /\ TermOK(OffTerminal, told)
  BY OffTerminalOK DEF HistoryInv
<1>3. QED
  BY <1>1, <1>2, TermSettles DEF HistoryInv

(* A prompt is queued by who is subscribed, for a place that was disclosed. *)
LEMMA SubmitOK == ASSUME HistoryInv, NEW t \in Terminals, NEW x \in Texts, Submit(t, x) PROVE HistoryInv'
<1> DEFINE o == term[t]
           w == [scope |-> o.scope, text |-> x]
           k == Append(o.chain, w)
           s == [o EXCEPT !.chain = k]
<1>1. o \in TermRecords /\ Disclosed(o, told) /\ Subscribed(o) /\ Layered(o.editor) /\ told \in BOOLEAN
      /\ o.pc = "live" /\ o.hooked /\ o.enabled /\ o.scope \in Scopes
      /\ o.chain \in Seq([scope : Scopes, text : Texts])
  BY TermIs DEF Submit
<1>2. term' = [term EXCEPT ![t] = s] /\ UNCHANGED <<config, hfile, told>>
  BY DEF Submit, HistoryInv
<1> HIDE DEF o
<1>3. w \in [scope : Scopes, text : Texts] /\ w.scope = o.scope
  BY <1>1
<1> HIDE DEF w
<1>4. /\ k \in Seq([scope : Scopes, text : Texts]) /\ k # <<>>
      /\ Len(k) = Len(o.chain) + 1 /\ Len(o.chain) \in Nat
      /\ \A i \in 1..Len(o.chain) : k[i] = o.chain[i]
      /\ k[Len(o.chain) + 1] = w
  BY <1>1, <1>3, AppendProperties
<1> HIDE DEF k
<1>5. /\ s \in TermRecords /\ s.chain = k /\ s.pc = o.pc /\ s.hooked = o.hooked /\ s.enabled = o.enabled
      /\ s.scope = o.scope /\ s.noticed = o.noticed /\ s.pending = o.pending /\ s.writing = o.writing
      /\ s.command = o.command /\ s.editor = o.editor
  BY <1>1, <1>4 DEF TermRecords
<1> HIDE DEF s
<1>6. ASSUME NEW i \in DOMAIN k, k[i].scope = "global" PROVE told
  <2>1. i \in 1..Len(o.chain) \/ i = Len(o.chain) + 1
    BY <1>4
  <2>2. \A j \in 1..Len(o.chain) : j \in DOMAIN o.chain
    BY <1>1
  <2>3. QED
    BY <1>1, <1>3, <1>4, <1>6, <2>1, <2>2 DEF Disclosed
<1>7. TermOK(s, told)
  BY <1>1, <1>4, <1>5, <1>6 DEF TermOK, Disclosed, Subscribed
<1>8. QED
  BY <1>1, <1>2, <1>7, TermSettles DEF HistoryInv

LEMMA PersistBeginsOK == ASSUME HistoryInv, NEW t \in Terminals, PersistBegins(t) PROVE HistoryInv'
<1> DEFINE o == term[t]
           w == IF o.pending /\ Head(o.chain).scope = "global" THEN "marking" ELSE "plain"
           s == [o EXCEPT !.writing = w]
<1>1. o \in TermRecords /\ Disclosed(o, told) /\ Subscribed(o) /\ Layered(o.editor) /\ told \in BOOLEAN
      /\ o.chain # <<>>
  BY TermIs DEF PersistBegins
<1>2. term' = [term EXCEPT ![t] = s] /\ UNCHANGED <<config, hfile, told>>
  BY DEF PersistBegins, HistoryInv
<1> HIDE DEF o
<1>3. w \in {"marking", "plain"} /\ (w = "marking" => o.pending)
  OBVIOUS
<1> HIDE DEF w
<1>4. /\ s \in TermRecords /\ s.chain = o.chain /\ s.pc = o.pc /\ s.hooked = o.hooked /\ s.enabled = o.enabled
      /\ s.scope = o.scope /\ s.noticed = o.noticed /\ s.pending = o.pending /\ s.writing = w
      /\ s.command = o.command /\ s.editor = o.editor
  BY <1>1, <1>3 DEF TermRecords
<1> HIDE DEF s
<1>5. TermOK(s, told)
  BY <1>1, <1>3, <1>4 DEF TermOK, Disclosed, Subscribed
<1>6. QED
  BY <1>1, <1>2, <1>5, TermSettles DEF HistoryInv

LEMMA PersistEndsOK == ASSUME HistoryInv, NEW t \in Terminals, PersistEnds(t) PROVE HistoryInv'
<1> DEFINE o == term[t]
           d == [o EXCEPT !.chain = Tail(o.chain), !.writing = "no"]
           e == [d EXCEPT !.pending = FALSE]
<1>1. o \in TermRecords /\ Disclosed(o, told) /\ Subscribed(o) /\ Layered(o.editor) /\ told \in BOOLEAN
      /\ o.writing # "no" /\ o.chain # <<>> /\ o.chain \in Seq([scope : Scopes, text : Texts])
  BY TermIs DEF PersistEnds, Subscribed
<1>2. /\ term' = [term EXCEPT ![t] = d] \/ term' = [term EXCEPT ![t] = e]
      /\ UNCHANGED <<config, told>>
  BY DEF PersistEnds
<1>3. DOMAIN hfile' = Paths /\ (hfile'["global"].shown => told)
  <2> DEFINE p == Path(t, Head(o.chain).scope)
             shown == hfile[p].shown \/ o.writing = "marking"
  <2>1. \/ hfile' = hfile
        \/ \E g : hfile' = [hfile EXCEPT ![p] = [readable |-> TRUE, shown |-> shown, entries |-> g]]
    BY DEF PersistEnds
  <2>2. DOMAIN hfile = Paths /\ (hfile["global"].shown => told) /\ "global" \in Paths
    BY DEF HistoryInv, Paths
  <2>3. p = "global" /\ shown => told
    BY <1>1, <2>2 DEF Disclosed
  <2> HIDE DEF p, shown
  <2>4. QED
    BY <2>1, <2>2, <2>3
<1> HIDE DEF o
<1>4. /\ Tail(o.chain) \in Seq([scope : Scopes, text : Texts])
      /\ \A i \in DOMAIN Tail(o.chain) : i + 1 \in DOMAIN o.chain /\ Tail(o.chain)[i] = o.chain[i + 1]
  BY <1>1
<1>5. /\ d \in TermRecords /\ d.chain = Tail(o.chain) /\ d.pc = o.pc /\ d.hooked = o.hooked
      /\ d.enabled = o.enabled /\ d.scope = o.scope /\ d.noticed = o.noticed /\ d.pending = o.pending
      /\ d.writing = "no" /\ d.command = o.command /\ d.editor = o.editor
  BY <1>1, <1>4 DEF TermRecords
<1> HIDE DEF d
<1>6. /\ e \in TermRecords /\ e.chain = Tail(o.chain) /\ e.pc = o.pc /\ e.hooked = o.hooked
      /\ e.enabled = o.enabled /\ e.scope = o.scope /\ e.noticed = o.noticed /\ ~e.pending
      /\ e.writing = "no" /\ e.command = o.command /\ e.editor = o.editor
  BY <1>5 DEF TermRecords
<1> HIDE DEF e
<1>7. o.hooked
  BY <1>1 DEF Subscribed
<1>8. \A i \in DOMAIN Tail(o.chain) : Tail(o.chain)[i].scope = "global" => told
  BY <1>1, <1>4 DEF Disclosed
<1>9. TermOK(d, told)
  BY <1>1, <1>5, <1>7, <1>8 DEF TermOK, Disclosed, Subscribed
<1>10. TermOK(e, told)
  BY <1>1, <1>6, <1>7, <1>8 DEF TermOK, Disclosed, Subscribed
<1>11. QED
  BY <1>1, <1>2, <1>3, <1>9, <1>10, TermSettles DEF HistoryInv

-----------------------------------------------------------------------------
(* The commands *)

LEMMA CommandOK ==
    ASSUME HistoryInv, NEW t \in Terminals, NEW w \in {"clear", "on", "off", "scope"}, NEW x \in Scopes,
           Command(t, [what |-> w, scope |-> x])
    PROVE  HistoryInv'
<1> DEFINE o == term[t]
           c == [what |-> w, scope |-> IF w = "clear" THEN o.scope ELSE x]
           s == [o EXCEPT !.command = c]
<1>1. o \in TermRecords /\ Disclosed(o, told) /\ Subscribed(o) /\ Layered(o.editor) /\ told \in BOOLEAN
      /\ o.pc = "live" /\ o.scope \in Scopes
  BY TermIs DEF Command
<1>2. term' = [term EXCEPT ![t] = s] /\ UNCHANGED <<config, hfile, told>>
  <2> DEFINE i == [what |-> w, scope |-> x]
  <2>1. /\ term' = [term EXCEPT ![t].command = IF i.what = "clear" THEN [i EXCEPT !.scope = o.scope] ELSE i]
        /\ UNCHANGED <<config, hfile, told>>
    BY DEF Command
  <2>2. i.what = w /\ (w = "clear" => [i EXCEPT !.scope = o.scope] = c) /\ (w # "clear" => i = c)
    OBVIOUS
  <2>3. term' = [term EXCEPT ![t].command = c]
    BY <2>1, <2>2
  <2>4. QED
    BY <2>1, <2>3 DEF HistoryInv
<1> HIDE DEF o
<1>3. c \in [what : {"none", "clear", "on", "off", "scope"}, scope : Scopes]
  BY <1>1
<1> HIDE DEF c
<1>4. /\ s \in TermRecords /\ s.chain = o.chain /\ s.pc = o.pc /\ s.hooked = o.hooked /\ s.enabled = o.enabled
      /\ s.scope = o.scope /\ s.noticed = o.noticed /\ s.pending = o.pending /\ s.writing = o.writing
      /\ s.editor = o.editor
  BY <1>1, <1>3 DEF TermRecords
<1> HIDE DEF s
<1>5. TermOK(s, told)
  BY <1>1, <1>4 DEF TermOK, Disclosed, Subscribed
<1>6. QED
  BY <1>1, <1>2, <1>5, TermSettles DEF HistoryInv

(* A command is over: its process is as before. *)
LEMMA DoneIs ==
    ASSUME HistoryInv, NEW t \in Terminals
    PROVE  LET o == term[t]
               d == [o EXCEPT !.command = NoCommand] IN
           /\ d \in TermRecords /\ d.chain = o.chain /\ d.pc = o.pc /\ d.hooked = o.hooked
           /\ d.enabled = o.enabled /\ d.scope = o.scope /\ d.noticed = o.noticed /\ d.pending = o.pending
           /\ d.writing = o.writing /\ d.editor = o.editor /\ d.command.what = "none"
           /\ TermOK(d, told)
<1> DEFINE o == term[t]
           d == [o EXCEPT !.command = NoCommand]
<1>1. o \in TermRecords /\ Disclosed(o, told) /\ Subscribed(o) /\ Layered(o.editor)
  BY TermIs
<1>2. /\ NoCommand \in [what : {"none", "clear", "on", "off", "scope"}, scope : Scopes]
      /\ NoCommand.what = "none"
  BY DEF NoCommand, Scopes
<1> HIDE DEF o
<1>3. /\ d \in TermRecords /\ d.chain = o.chain /\ d.pc = o.pc /\ d.hooked = o.hooked
      /\ d.enabled = o.enabled /\ d.scope = o.scope /\ d.noticed = o.noticed /\ d.pending = o.pending
      /\ d.writing = o.writing /\ d.editor = o.editor /\ d.command.what = "none"
  BY <1>1, <1>2 DEF TermRecords
<1> HIDE DEF d
<1>4. TermOK(d, told)
  BY <1>1, <1>3 DEF TermOK, Disclosed, Subscribed
<1>5. QED
  BY <1>3, <1>4 DEF d, o

LEMMA ClearOK == ASSUME HistoryInv, NEW t \in Terminals, ClearEnds(t) PROVE HistoryInv'
<1> DEFINE o == term[t]
           p == Path(t, o.command.scope)
           d == [o EXCEPT !.command = NoCommand]
           gone == o.scope = "global" /\ p = "global" /\ o.enabled /\ ~o.noticed
           n == Installed(d)
           w == [n EXCEPT !.noticed = TRUE, !.pending = TRUE]
<1>1. o \in TermRecords /\ Disclosed(o, told) /\ Subscribed(o) /\ Layered(o.editor) /\ told \in BOOLEAN
      /\ o.command.what = "clear" /\ o.pc = "live"
  BY TermIs DEF ClearEnds, Subscribed
<1>2. /\ d \in TermRecords /\ d.chain = o.chain /\ d.pc = o.pc /\ d.hooked = o.hooked
      /\ d.enabled = o.enabled /\ d.scope = o.scope /\ d.noticed = o.noticed /\ d.pending = o.pending
      /\ d.writing = o.writing /\ d.editor = o.editor /\ d.command.what = "none"
      /\ TermOK(d, told)
  BY DoneIs
<1>3. \/ /\ hfile' = [hfile EXCEPT ![p] = NoFile]
         /\ term' = [term EXCEPT ![t] = IF ~o.enabled THEN d ELSE IF gone THEN w ELSE n]
         /\ told' = IF gone THEN TRUE ELSE Told(o)
      \/ term' = [term EXCEPT ![t] = d] /\ UNCHANGED <<hfile, told>>
  BY DEF ClearEnds
<1>4. UNCHANGED config /\ DOMAIN hfile = Paths /\ (hfile["global"].shown => told) /\ config \in Configs
      /\ "global" \in Paths
  BY DEF ClearEnds, HistoryInv, Paths
<1> HIDE DEF o, d, p
<1>5. o.enabled \in BOOLEAN /\ o.noticed \in BOOLEAN
  BY <1>1 DEF TermRecords
<1>6. CASE term' = [term EXCEPT ![t] = d] /\ UNCHANGED <<hfile, told>>
  BY <1>1, <1>2, <1>4, <1>6, TermSettles
<1>7. CASE /\ hfile' = [hfile EXCEPT ![p] = NoFile]
           /\ term' = [term EXCEPT ![t] = IF ~o.enabled THEN d ELSE IF gone THEN w ELSE n]
           /\ told' = IF gone THEN TRUE ELSE Told(o)
  <2>1. told' \in BOOLEAN /\ (told => told')
    BY <1>1, <1>7 DEF Told
  <2>2. DOMAIN hfile' = Paths /\ (hfile'["global"].shown => told')
    <3>1. ~NoFile.shown
      BY DEF NoFile
    <3>2. hfile'["global"] = NoFile \/ hfile'["global"] = hfile["global"]
      BY <1>4, <1>7
    <3>3. QED
      BY <1>4, <1>7, <2>1, <3>1, <3>2
  <2>3. CASE ~o.enabled
    <3>1. TermOK(d, told')
      BY <1>2, <2>1 DEF TermOK, Disclosed
    <3>2. term' = [term EXCEPT ![t] = d]
      BY <1>7, <2>3
    <3>3. QED
      BY <1>4, <2>1, <2>2, <3>1, <3>2, TermSettles
  <2>4. /\ n \in TermRecords /\ Layered(n.editor)
        /\ n.pc = o.pc /\ n.enabled = o.enabled /\ n.scope = o.scope /\ n.hooked = o.hooked
        /\ n.chain = o.chain /\ n.writing = o.writing /\ n.command.what = "none"
        /\ Notice(d) => n.noticed /\ n.pending
        /\ ~Notice(d) => n.noticed = o.noticed /\ n.pending = o.pending
    BY <1>1, <1>2, InstalledIs
  <2> HIDE DEF n
  <2>5. CASE o.enabled /\ gone
    <3>1. /\ w \in TermRecords /\ Layered(w.editor)
          /\ w.pc = o.pc /\ w.enabled = o.enabled /\ w.scope = o.scope /\ w.hooked = o.hooked
          /\ w.chain = o.chain /\ w.writing = o.writing /\ w.command.what = "none" /\ w.noticed /\ w.pending
      BY <2>4 DEF TermRecords
    <3> HIDE DEF w
    <3>2. told'
      BY <1>7, <2>5
    <3>3. TermOK(w, told')
      BY <1>1, <3>1, <3>2 DEF TermOK, Disclosed, Subscribed
    <3>4. term' = [term EXCEPT ![t] = w]
      BY <1>7, <2>5
    <3>5. QED
      BY <1>4, <2>1, <2>2, <3>3, <3>4, TermSettles
  <2>6. CASE o.enabled /\ ~gone
    <3>1. told' = (told \/ Notice(o)) /\ term' = [term EXCEPT ![t] = n]
      BY <1>7, <2>6 DEF Told
    <3>2. Notice(d) <=> Notice(o)
      BY <1>2 DEF Notice
    <3>3. (n.noticed => told') /\ (n.pending => n.noticed)
      BY <1>1, <2>4, <3>1, <3>2 DEF Disclosed
    <3>4. TermOK(n, told')
      BY <1>1, <2>1, <2>4, <3>3 DEF TermOK, Disclosed, Subscribed
    <3>5. QED
      BY <1>4, <2>1, <2>2, <3>1, <3>4, TermSettles
  <2>7. QED
    BY <1>5, <2>3, <2>5, <2>6
<1>8. QED
  BY <1>3, <1>6, <1>7

LEMMA SettingOK == ASSUME HistoryInv, NEW t \in Terminals, SettingEnds(t) PROVE HistoryInv'
<1> DEFINE o == term[t]
           d == [o EXCEPT !.command = NoCommand]
           s == [d EXCEPT !.enabled = config'.enabled,
                          !.scope = IF EnvScope[t] = "none" THEN config'.scope ELSE @]
           h == [s EXCEPT !.hooked = TRUE]
           n == Installed(h)
           u == [s EXCEPT !.editor = Peeled(s.editor)]
<1>1. o \in TermRecords /\ Disclosed(o, told) /\ Subscribed(o) /\ Layered(o.editor) /\ told \in BOOLEAN
      /\ o.command.what \in {"on", "off", "scope"} /\ o.pc = "live" /\ o.command.scope \in Scopes
  BY TermIs DEF SettingEnds, Subscribed, TermRecords
<1>2. /\ d \in TermRecords /\ d.chain = o.chain /\ d.pc = o.pc /\ d.hooked = o.hooked
      /\ d.enabled = o.enabled /\ d.scope = o.scope /\ d.noticed = o.noticed /\ d.pending = o.pending
      /\ d.writing = o.writing /\ d.editor = o.editor /\ d.command.what = "none"
      /\ TermOK(d, told)
  BY DoneIs
<1>3. /\ UNCHANGED hfile /\ DOMAIN hfile = Paths /\ (hfile["global"].shown => told) /\ config \in Configs
  BY DEF SettingEnds, HistoryInv
<1>4. \/ /\ config' = IF o.command.what = "scope" THEN [config EXCEPT !.scope = o.command.scope]
                      ELSE [config EXCEPT !.enabled = o.command.what = "on"]
         /\ term' = [term EXCEPT ![t] = Rehooked(s)]
         /\ told' = IF Rehooked(s).noticed /\ ~s.noticed THEN TRUE ELSE told
      \/ term' = [term EXCEPT ![t] = d] /\ UNCHANGED <<config, told>>
  BY DEF SettingEnds
<1> HIDE DEF o, d
<1>5. CASE term' = [term EXCEPT ![t] = d] /\ UNCHANGED <<config, told>>
  BY <1>1, <1>2, <1>3, <1>5, TermSettles
<1>6. CASE /\ config' = IF o.command.what = "scope" THEN [config EXCEPT !.scope = o.command.scope]
                        ELSE [config EXCEPT !.enabled = o.command.what = "on"]
           /\ term' = [term EXCEPT ![t] = Rehooked(s)]
           /\ told' = IF Rehooked(s).noticed /\ ~s.noticed THEN TRUE ELSE told
  <2>1. config' \in Configs
    BY <1>1, <1>3, <1>6 DEF Configs
  <2>2. told' \in BOOLEAN /\ (told => told')
    BY <1>1, <1>6
  <2>3. /\ s \in TermRecords /\ s.chain = o.chain /\ s.pc = "live" /\ s.hooked = o.hooked
        /\ s.noticed = o.noticed /\ s.pending = o.pending
        /\ s.writing = o.writing /\ s.editor = o.editor /\ s.command.what = "none"
    BY <1>1, <1>2, <2>1 DEF TermRecords, Configs
  <2>4. Rehooked(s) = IF s.enabled THEN n ELSE u
    BY DEF Rehooked
  <2> HIDE DEF s
  <2>5. s.enabled \in BOOLEAN /\ s.hooked \in BOOLEAN /\ s.noticed \in BOOLEAN
    BY <2>3 DEF TermRecords
  <2>6. CASE s.enabled
    <3>1. /\ h \in TermRecords /\ h.chain = o.chain /\ h.pc = "live" /\ h.hooked /\ h.scope = s.scope
          /\ h.noticed = o.noticed /\ h.pending = o.pending
          /\ h.writing = o.writing /\ h.editor = o.editor /\ h.command.what = "none"
      BY <2>3 DEF TermRecords
    <3> HIDE DEF h
    <3>2. /\ n \in TermRecords /\ Layered(n.editor)
          /\ n.pc = "live" /\ n.scope = s.scope /\ n.hooked
          /\ n.chain = o.chain /\ n.writing = o.writing /\ n.command.what = "none"
          /\ Notice(h) => n.noticed /\ n.pending
          /\ ~Notice(h) => n.noticed = o.noticed /\ n.pending = o.pending
      <4>1. Layered(h.editor)
        BY <1>1, <3>1
      <4>2. QED
        BY <3>1, <4>1, InstalledIs
    <3> HIDE DEF n
    <3>3. Rehooked(s) = n
      BY <2>4, <2>6
    <3>4. /\ n.noticed => told'
          /\ n.pending => n.noticed
      BY <1>1, <1>6, <2>2, <2>3, <2>5, <3>2, <3>3 DEF Disclosed
    <3>5. s.scope = "global" => told'
      <4>1. CASE Notice(h)
        BY <3>2, <3>4, <4>1
      <4>2. CASE ~Notice(h)
        BY <1>1, <1>3, <2>2, <3>1, <4>2 DEF Notice, Disclosed
      <4>3. QED
        BY <4>1, <4>2
    <3>6. TermOK(n, told')
      BY <1>1, <2>2, <3>2, <3>4, <3>5 DEF TermOK, Disclosed, Subscribed
    <3>7. QED
      BY <1>3, <1>6, <2>1, <2>2, <3>3, <3>6, TermSettles
  <2>7. CASE ~s.enabled
    <3>1. s.editor \in Seq({"ours", "other"}) /\ Layered(s.editor)
      BY <1>1, <2>3 DEF TermRecords
    <3>2. Peeled(s.editor) \in Seq({"ours", "other"}) /\ Layered(Peeled(s.editor))
      BY <3>1, LayerPeeled
    <3>3. /\ u \in TermRecords /\ u.chain = o.chain /\ u.pc = "live" /\ u.hooked = o.hooked /\ ~u.enabled
          /\ u.noticed = o.noticed /\ u.pending = o.pending
          /\ u.writing = o.writing /\ Layered(u.editor) /\ u.command.what = "none"
      BY <2>3, <2>7, <3>2 DEF TermRecords
    <3> HIDE DEF u
    <3>4. Rehooked(s) = u
      BY <2>4, <2>7
    <3>5. TermOK(u, told')
      BY <1>1, <2>2, <3>3 DEF TermOK, Disclosed, Subscribed
    <3>6. QED
      BY <1>3, <1>6, <2>1, <2>2, <3>4, <3>5, TermSettles
  <2>8. QED
    BY <2>5, <2>6, <2>7
<1>7. QED
  BY <1>4, <1>5, <1>6

LEMMA OtherEditorOK == ASSUME HistoryInv, NEW t \in Terminals, OtherEditor(t) PROVE HistoryInv'
<1> DEFINE o == term[t]
           e == Append(o.editor, "other")
           s == [o EXCEPT !.editor = e]
<1>1. o \in TermRecords /\ Disclosed(o, told) /\ Subscribed(o) /\ Layered(o.editor) /\ told \in BOOLEAN
  BY TermIs
<1>2. term' = [term EXCEPT ![t] = s] /\ UNCHANGED <<config, hfile, told>>
  BY DEF OtherEditor, HistoryInv
<1> HIDE DEF o
<1>3. e \in Seq({"ours", "other"}) /\ Layered(e)
  <2>1. o.editor \in Seq({"ours", "other"})
    BY <1>1 DEF TermRecords
  <2>2. QED
    BY <1>1, <2>1, LayerAdded
<1> HIDE DEF e
<1>4. /\ s \in TermRecords /\ s.chain = o.chain /\ s.pc = o.pc /\ s.hooked = o.hooked /\ s.enabled = o.enabled
      /\ s.scope = o.scope /\ s.noticed = o.noticed /\ s.pending = o.pending /\ s.writing = o.writing
      /\ s.command = o.command /\ s.editor = e
  BY <1>1, <1>3 DEF TermRecords
<1> HIDE DEF s
<1>5. TermOK(s, told)
  BY <1>1, <1>3, <1>4 DEF TermOK, Disclosed, Subscribed
<1>6. QED
  BY <1>1, <1>2, <1>5, TermSettles DEF HistoryInv

LEMMA DamagedOK == ASSUME HistoryInv, NEW p \in Paths, FileDamaged(p) PROVE HistoryInv'
<1>1. hfile' = [hfile EXCEPT ![p] = NoFile] /\ UNCHANGED <<config, term, told>> /\ ~NoFile.shown
  BY DEF FileDamaged, NoFile
<1>2. DOMAIN hfile' = Paths /\ (hfile'["global"].shown => told)
  BY <1>1 DEF HistoryInv, Paths
<1>3. QED
  BY <1>1, <1>2 DEF HistoryInv

LEMMA HistoryInductive == HistoryInv /\ [HistoryNext]_historyVars => HistoryInv'
<1> SUFFICES ASSUME HistoryInv, [HistoryNext]_historyVars PROVE HistoryInv'
  OBVIOUS
<1>1. CASE UNCHANGED historyVars
  BY <1>1 DEF historyVars, HistoryInv
<1>2. CASE HistoryNext
  BY <1>2, LoadOK, StartHistoryOK, EndHistoryOK, GoneOK, SubmitOK, PersistBeginsOK, PersistEndsOK, ClearOK,
     SettingOK, OtherEditorOK, CommandOK, DamagedOK
     DEF HistoryNext
<1>3. QED
  BY <1>1, <1>2

LEMMA HistoryStarts == HistoryInit => HistoryInv
<1> SUFFICES ASSUME HistoryInit PROVE HistoryInv
  OBVIOUS
<1>1. /\ config \in Configs /\ told = FALSE /\ term = [t \in Terminals |-> OffTerminal]
      /\ hfile = [f \in Paths |-> NoFile]
  BY DEF HistoryInit, Configs, Scopes
<1>2. TermOK(OffTerminal, told) /\ OffTerminal \in TermRecords
  BY <1>1, OffTerminalOK DEF TermOK
<1>3. DOMAIN hfile = Paths /\ ~hfile["global"].shown
  BY <1>1 DEF Paths, NoFile
<1>4. QED
  BY <1>1, <1>2, <1>3 DEF HistoryInv

HistoryFaults == count.faults \in Nat /\ DOMAIN count = {"submits", "commands", "faults"}

LEMMA HistoryFaultsCounted ==
    /\ HistoryInit => HistoryFaults
    /\ HistoryFaults /\ [HistoryNext]_historyVars => HistoryFaults'
<1>1. HistoryInit => HistoryFaults
  BY DEF HistoryInit, HistoryFaults
<1>2. ASSUME HistoryFaults, [HistoryNext]_historyVars PROVE HistoryFaults'
  <2>1. \/ UNCHANGED count \/ Failed
        \/ count' = [count EXCEPT !.commands = @ + 1] \/ count' = [count EXCEPT !.submits = @ + 1]
    BY <1>2 DEF HistoryNext, historyVars, LoadHistory, StartHistory, EndHistory, HistoryEnded, HistoryKilled,
       Submit, PersistBegins, PersistEnds, ClearEnds, SettingEnds, OtherEditor, Command, FileDamaged
  <2>2. QED
    BY <1>2, <2>1 DEF Failed, HistoryFaults
<1>3. QED
  BY <1>1, <1>2

(* Who leaves a session's end without a fault has written all its prompts. *)
LEMMA EndedIsFlushed ==
    ASSUME HistoryInv, HistoryFaults, [HistoryNext]_historyVars, NEW t \in Terminals,
           term[t].pc \in {"ending", "gone"}, term'[t].pc = "off", count'.faults = count.faults
    PROVE  term[t].chain = <<>>
<1>1. term \in [Terminals -> TermRecords] /\ Subscribed(term[t])
  BY TermIs DEF HistoryInv
<1>2. ~HistoryKilled(t)
  <2>1. Failed => count'.faults = count.faults + 1 /\ count.faults \in Nat
    BY DEF Failed, HistoryFaults
  <2>2. QED
    BY <2>1 DEF HistoryKilled
<1>3. CASE HistoryEnded(t)
  BY <1>1, <1>3 DEF HistoryEnded, Ended, Subscribed
<1>4. ASSUME NEW q \in Terminals, NEW s, term' = [term EXCEPT ![q] = s], q = t => s.pc # "off" PROVE FALSE
  BY <1>1, <1>4
<1>5. ASSUME NEW q \in Terminals, LoadHistory(q) \/ StartHistory(q) \/ EndHistory(q) \/ OtherEditor(q)
      PROVE  FALSE
  <2>1. q # t
    BY <1>5 DEF LoadHistory, StartHistory, EndHistory, OtherEditor
  <2>2. term'[t] = term[t]
    BY <1>1, <1>5, <2>1 DEF LoadHistory, StartHistory, EndHistory, OtherEditor
  <2>3. QED
    BY <2>2
<1>6. ASSUME NEW q \in Terminals, HistoryEnded(q) \/ HistoryKilled(q), q # t PROVE FALSE
  BY <1>1, <1>6 DEF HistoryEnded, HistoryKilled
<1>7. ASSUME NEW q \in Terminals, NEW x \in Texts, Submit(q, x) PROVE FALSE
  BY <1>1, <1>7 DEF Submit
<1>8. ASSUME NEW q \in Terminals, PersistBegins(q) \/ PersistEnds(q) PROVE FALSE
  <2> DEFINE d == [term[q] EXCEPT !.chain = Tail(@), !.writing = "no"]
             e == [d EXCEPT !.pending = FALSE]
  <2>1. term[q] \in TermRecords
    BY <1>1
  <2>2. d.pc = term[q].pc /\ e.pc = term[q].pc
    BY <2>1 DEF TermRecords
  <2> HIDE DEF e
  <2>3. CASE PersistBegins(q)
    BY <1>1, <2>1, <2>3 DEF PersistBegins, TermRecords
  <2>4. CASE PersistEnds(q)
    <3>1. term' = [term EXCEPT ![q] = d] \/ term' = [term EXCEPT ![q] = e]
      BY <2>4 DEF PersistEnds, e
    <3>2. QED
      BY <1>4, <2>2, <3>1
  <2>5. QED
    BY <1>8, <2>3, <2>4
<1>9. ASSUME NEW q \in Terminals, ClearEnds(q) \/ SettingEnds(q) PROVE FALSE
  <2>1. q # t
    BY <1>1, <1>9 DEF ClearEnds, SettingEnds, Subscribed
  <2>2. \E s : term' = [term EXCEPT ![q] = s]
    BY <1>9 DEF ClearEnds, SettingEnds
  <2>3. QED
    BY <1>4, <2>1, <2>2
<1>10. ASSUME NEW q \in Terminals, NEW c, Command(q, c) PROVE FALSE
  BY <1>1, <1>10 DEF Command
<1>11. term' # term
  OBVIOUS
<1>12. ~\E p \in Paths : FileDamaged(p)
  BY <1>11 DEF FileDamaged
<1>13. QED
  BY <1>2, <1>3, <1>5, <1>6, <1>7, <1>8, <1>9, <1>10, <1>11, <1>12 DEF HistoryNext, historyVars

(* Nothing is written to the history that all directories share before its place was
   disclosed; our editor wraps none of ours; and a session that ends has written its prompts. *)
THEOREM HistoryAlwaysDisclosed == HistorySpec => HistoryIsDisclosed
<1>1. HistoryInv => DisclosedFirst /\ OneLayer
  BY TermIs DEF DisclosedFirst, OneLayer, Disclosed, Layered
<1>2. HistoryInv /\ HistoryFaults /\ [HistoryNext]_historyVars =>
         (\A t \in Terminals : term[t].pc \in {"ending", "gone"} /\ term'[t].pc = "off"
                               /\ count'.faults = count.faults => term[t].chain = <<>>)
  BY EndedIsFlushed
<1>3. QED
  BY <1>1, <1>2, HistoryStarts, HistoryInductive, HistoryFaultsCounted, PTL
     DEF HistorySpec, HistoryIsDisclosed, ShutdownFlushes

-----------------------------------------------------------------------------
(* The input history: what the filter keeps *)

(* A set of numbers that has the first and the next of each has them all. *)
LEMMA UpTo ==
    ASSUME NEW n \in Nat, NEW S, 0 \in S, \A k \in 0..n : k < n /\ k \in S => k + 1 \in S
    PROVE  \A k \in 0..n : k \in S
<1> SUFFICES ASSUME NEW m \in 0..n, m \notin S PROVE FALSE
  OBVIOUS
<1> DEFINE B == {k \in 0..n : k \notin S}
<1>1. PICK k \in B : \A j \in B : <<j, k>> \notin OpToRel(<, Nat)
  <2>1. B \subseteq Nat /\ m \in B
    OBVIOUS
  <2>2. QED
    BY <2>1, NatLessThanWellFounded, WFMin
<1>2. k \in 0..n /\ k \notin S /\ k # 0
  OBVIOUS
<1>3. k - 1 \in 0..n /\ k - 1 < n /\ (k - 1) + 1 = k /\ k - 1 \in Nat /\ k \in Nat /\ k - 1 < k
  BY <1>2
<1>4. k - 1 \notin S
  BY <1>2, <1>3
<1>5. <<k - 1, k>> \in OpToRel(<, Nat)
  BY <1>3, Zenon DEF OpToRel
<1>6. QED
  BY <1>1, <1>3, <1>4, <1>5

Distinct(e) == \A j, k \in DOMAIN e : e[j] = e[k] => j = k

(* r: the first n entries of e without x, in their order. *)
Sifted(e, x, r, n) ==
    /\ r \in Seq(Texts) /\ Len(r) + 1 >= n
    /\ (\A i \in 1..n : e[i] # x) => Len(r) >= n
    /\ \A k \in DOMAIN r : r[k] # x /\ \E i \in 1..n : e[i] = r[k]
    /\ \A i \in 1..n : e[i] # x => \E k \in DOMAIN r : r[k] = e[i]
    /\ \A j, k \in DOMAIN r : j < k => \E a, b \in 1..n : a < b /\ e[a] = r[j] /\ e[b] = r[k]
Kept(r, y, x) == IF y = x THEN r ELSE Append(r, y)

LEMMA SiftedOn ==
    ASSUME NEW e \in Seq(Texts), Distinct(e), NEW x, NEW n \in Nat, n < Len(e), NEW r, Sifted(e, x, r, n)
    PROVE  Sifted(e, x, Kept(r, e[n + 1], x), n + 1)
<1> DEFINE y == e[n + 1]
<1>1. n + 1 \in DOMAIN e /\ y \in Texts /\ \A i \in 1..n : i \in DOMAIN e /\ i \in 1..n + 1 /\ i # n + 1
  OBVIOUS
<1>2. r \in Seq(Texts) /\ Len(r) \in Nat
  BY DEF Sifted
<1>3. CASE y = x
  <2>1. \A i \in 1..n : e[i] # x
    BY <1>1, <1>3 DEF Distinct
  <2>2. Len(r) >= n
    BY <2>1 DEF Sifted
  <2>3. Kept(r, y, x) = r
    BY <1>3 DEF Kept
  <2>4. \A i \in 1..n + 1 : e[i] # x => i \in 1..n
    BY <1>3
  <2>5. n + 1 \in 1..n + 1
    OBVIOUS
  <2>6. Sifted(e, x, r, n + 1)
    BY <1>1, <1>2, <1>3, <2>2, <2>4, <2>5 DEF Sifted
  <2>7. QED
    BY <2>3, <2>6
<1>4. CASE y # x
  <2> DEFINE q == Append(r, y)
  <2>1. /\ q \in Seq(Texts) /\ Len(q) = Len(r) + 1 /\ q[Len(r) + 1] = y
        /\ \A k \in 1..Len(r) : q[k] = r[k]
        /\ DOMAIN q = 1..Len(r) + 1 /\ DOMAIN r = 1..Len(r)
    BY <1>1, <1>2, AppendProperties
  <2>2. Kept(r, y, x) = q
    BY <1>4 DEF Kept
  <2> HIDE DEF q
  <2>3. Len(q) + 1 >= n + 1 /\ ((\A i \in 1..n + 1 : e[i] # x) => Len(q) >= n + 1)
    <3>1. Len(r) + 1 >= n /\ ((\A i \in 1..n : e[i] # x) => Len(r) >= n)
      BY DEF Sifted
    <3>2. (\A i \in 1..n + 1 : e[i] # x) => \A i \in 1..n : e[i] # x
      BY <1>1
    <3>3. QED
      BY <1>2, <2>1, <3>1, <3>2
  <2>4. ASSUME NEW k \in DOMAIN q PROVE q[k] # x /\ \E i \in 1..n + 1 : e[i] = q[k]
    <3>1. CASE k = Len(r) + 1
      <4>1. n + 1 \in 1..n + 1
        OBVIOUS
      <4>2. QED
        BY <1>4, <2>1, <3>1, <4>1
    <3>2. CASE k # Len(r) + 1
      <4>1. k \in DOMAIN r /\ q[k] = r[k]
        BY <1>2, <2>1, <3>2
      <4>2. QED
        BY <1>1, <4>1 DEF Sifted
    <3>3. QED
      BY <3>1, <3>2
  <2>5. ASSUME NEW i \in 1..n + 1, e[i] # x PROVE \E k \in DOMAIN q : q[k] = e[i]
    <3>1. CASE i = n + 1
      BY <1>2, <2>1, <3>1
    <3>2. CASE i # n + 1
      <4>1. PICK k \in DOMAIN r : r[k] = e[i]
        BY <2>5, <3>2 DEF Sifted
      <4>2. k \in DOMAIN q /\ q[k] = e[i]
        BY <1>2, <2>1, <4>1
      <4>3. QED
        BY <4>2
    <3>3. QED
      BY <3>1, <3>2
  <2>6. ASSUME NEW j \in DOMAIN q, NEW k \in DOMAIN q, j < k
        PROVE  \E a, b \in 1..n + 1 : a < b /\ e[a] = q[j] /\ e[b] = q[k]
    <3>1. j \in DOMAIN r /\ q[j] = r[j]
      BY <1>2, <2>1, <2>6
    <3>2. CASE k = Len(r) + 1
      <4>1. PICK a \in 1..n : e[a] = r[j]
        BY <3>1 DEF Sifted
      <4>2. a \in 1..n + 1 /\ n + 1 \in 1..n + 1 /\ a < n + 1 /\ e[a] = q[j] /\ e[n + 1] = q[k]
        BY <2>1, <3>1, <3>2, <4>1
      <4>3. QED
        BY <4>2
    <3>3. CASE k # Len(r) + 1
      <4>1. k \in DOMAIN r /\ q[k] = r[k]
        BY <1>2, <2>1, <3>3
      <4>2. PICK a \in 1..n, b \in 1..n : a < b /\ e[a] = r[j] /\ e[b] = r[k]
        BY <2>6, <3>1, <4>1 DEF Sifted
      <4>3. QED
        BY <1>1, <3>1, <4>1, <4>2
    <3>4. QED
      BY <3>2, <3>3
  <2>7. Sifted(e, x, q, n + 1)
    BY <2>1, <2>3, <2>4, <2>5, <2>6 DEF Sifted
  <2>8. QED
    BY <2>2, <2>7
<1>5. QED
  BY <1>3, <1>4

Sifting(f, e, x, n) == f[0] = <<>> /\ \A k \in 1..n : f[k] = Kept(f[k - 1], e[k], x)

LEMMA SiftingExists ==
    ASSUME NEW e \in Seq(Texts), NEW x
    PROVE  \E f \in [0..Len(e) -> Seq(Texts)] : Sifting(f, e, x, Len(e))
<1> DEFINE n == Len(e)
           S == {k \in 0..n : \E f \in [0..k -> Seq(Texts)] : Sifting(f, e, x, k)}
<1>0. n \in Nat
  OBVIOUS
<1>1. 0 \in S
  <2>1. [k \in 0..0 |-> <<>>] \in [0..0 -> Seq(Texts)]
    OBVIOUS
  <2>2. Sifting([k \in 0..0 |-> <<>>], e, x, 0)
    BY DEF Sifting
  <2>3. \E f \in [0..0 -> Seq(Texts)] : Sifting(f, e, x, 0)
    BY <2>1, <2>2, Zenon
  <2>4. 0 \in 0..n
    BY <1>0
  <2>5. QED
    BY <2>3, <2>4
<1>2. ASSUME NEW k \in 0..n, k < n, k \in S PROVE k + 1 \in S
  <2>1. PICK f \in [0..k -> Seq(Texts)] : Sifting(f, e, x, k)
    BY <1>2
  <2> DEFINE z == Kept(f[k], e[k + 1], x)
             h == [j \in 0..k + 1 |-> IF j = k + 1 THEN z ELSE f[j]]
  <2>2. k \in Nat /\ k + 1 \in 0..n /\ f[k] \in Seq(Texts) /\ e[k + 1] \in Texts /\ z \in Seq(Texts)
    BY <1>2, AppendProperties DEF Kept
  <2> HIDE DEF z
  <2>3. h \in [0..k + 1 -> Seq(Texts)] /\ h[0] = <<>>
    BY <2>1, <2>2 DEF Sifting
  <2>5. ASSUME NEW j \in 1..k + 1 PROVE h[j] = Kept(h[j - 1], e[j], x)
    <3>1. CASE j = k + 1
      <4>1. h[j] = z /\ h[j - 1] = f[k]
        BY <2>2, <3>1
      <4>2. QED
        BY <3>1, <4>1 DEF z
    <3>2. CASE j # k + 1
      <4>1. j \in 1..k /\ j - 1 \in 0..k + 1 /\ j - 1 # k + 1 /\ j \in 0..k + 1
        BY <2>2, <3>2
      <4>2. h[j] = f[j] /\ h[j - 1] = f[j - 1]
        BY <3>2, <4>1
      <4>3. QED
        BY <2>1, <4>1, <4>2 DEF Sifting
    <3>3. QED
      BY <3>1, <3>2
  <2> HIDE DEF h
  <2>6. Sifting(h, e, x, k + 1)
    BY <2>3, <2>5 DEF Sifting
  <2>7. QED
    BY <2>2, <2>3, <2>6
<1> HIDE DEF S
<1>3. \A k \in 0..n : k \in S
  BY <1>0, <1>1, <1>2, UpTo
<1>4. n \in 0..n
  OBVIOUS
<1>5. QED
  BY <1>3, <1>4 DEF S

LEMMA WithoutIs ==
    ASSUME NEW e \in Seq(Texts), Distinct(e), NEW x
    PROVE  Sifted(e, x, Without(e, x), Len(e))
<1> DEFINE n == Len(e)
           Sequel(h) == [k \in 0..n |-> IF k = 0 THEN <<>>
                                        ELSE IF e[k] = x THEN h[k - 1] ELSE Append(h[k - 1], e[k])]
           w == CHOOSE h : h = Sequel(h)
           S == {k \in 0..n : Sifted(e, x, w[k], k)}
<1>1. Without(e, x) = w[n]
  BY DEF Without
<1>2. PICK f \in [0..n -> Seq(Texts)] : Sifting(f, e, x, n)
  BY SiftingExists
<1>3. n \in Nat
  OBVIOUS
<1>4. f = Sequel(f)
  <2>1. ASSUME NEW k \in 0..n PROVE f[k] = Sequel(f)[k]
    <3>1. CASE k = 0
      BY <1>2, <3>1 DEF Sifting
    <3>2. CASE k # 0
      <4>1. k \in 1..n
        BY <1>3, <3>2
      <4>2. f[k] = Kept(f[k - 1], e[k], x)
        BY <1>2, <4>1 DEF Sifting
      <4>3. QED
        BY <3>2, <4>2 DEF Kept
    <3>3. QED
      BY <3>1, <3>2
  <2>2. QED
    BY <1>2, <2>1
<1>5. w = Sequel(w)
  BY <1>4
<1> HIDE DEF w
<1>6. w[0] = <<>> /\ \A k \in 1..n : w[k] = Kept(w[k - 1], e[k], x)
  <2>1. w[0] = <<>>
    BY <1>3, <1>5
  <2>2. ASSUME NEW k \in 1..n PROVE w[k] = Kept(w[k - 1], e[k], x)
    <3>1. k \in 0..n /\ k # 0
      OBVIOUS
    <3>2. w[k] = IF e[k] = x THEN w[k - 1] ELSE Append(w[k - 1], e[k])
      BY <1>5, <3>1
    <3>3. QED
      BY <3>2 DEF Kept
  <2>3. QED
    BY <2>1, <2>2
<1>7. 0 \in S
  <2>1. Sifted(e, x, <<>>, 0)
    BY DEF Sifted
  <2>2. QED
    BY <1>3, <1>6, <2>1
<1>8. ASSUME NEW k \in 0..n, k < n, k \in S PROVE k + 1 \in S
  <2>1. k + 1 \in 1..n /\ k + 1 \in 0..n /\ (k + 1) - 1 = k /\ k \in Nat
    BY <1>8
  <2>2. w[k + 1] = Kept(w[k], e[k + 1], x)
    BY <1>6, <2>1
  <2>3. Sifted(e, x, Kept(w[k], e[k + 1], x), k + 1)
    BY <1>8, <2>1, SiftedOn
  <2>4. QED
    BY <2>1, <2>2, <2>3
<1> HIDE DEF S
<1>9. \A k \in 0..n : k \in S
  BY <1>3, <1>7, <1>8, UpTo
<1>10. n \in 0..n
  OBVIOUS
<1>11. QED
  BY <1>1, <1>9, <1>10 DEF S

-----------------------------------------------------------------------------
(* The input history: the entries are the prompts, the last first *)

(* The entries e of a file to which the prompts s were written. *)
ByRecency(e, s) ==
    /\ e \in Seq(Texts) /\ s \in Seq(Texts) /\ Len(e) <= MaxHistory
    /\ \A k \in DOMAIN e : e[k] \in Range(s)
    /\ \A j, k \in DOMAIN e : j < k => After(s, e[j], e[k])
    /\ \A x \in Range(s) \ Range(e) : Len(e) = MaxHistory /\ \A k \in DOMAIN e : After(s, e[k], x)

LEMMA AfterStays ==
    ASSUME NEW s \in Seq(Texts), NEW x \in Texts
    PROVE  /\ Append(s, x) \in Seq(Texts)
           /\ \A y, z : After(s, y, z) /\ z # x => After(Append(s, x), y, z)
           /\ \A z : z # x => After(Append(s, x), x, z)
           /\ \A y : y \in Range(Append(s, x)) <=> y = x \/ y \in Range(s)
<1> DEFINE q == Append(s, x)
<1>1. /\ q \in Seq(Texts) /\ Len(s) \in Nat /\ q[Len(s) + 1] = x
      /\ \A k \in 1..Len(s) : q[k] = s[k]
      /\ DOMAIN q = 1..Len(s) + 1 /\ DOMAIN s = 1..Len(s)
  BY AppendProperties
<1> HIDE DEF q
<1>2. ASSUME NEW y, NEW z, After(s, y, z), z # x PROVE After(q, y, z)
  <2>1. PICK i \in DOMAIN s : s[i] = y /\ \A j \in DOMAIN s : s[j] = z => j < i
    BY <1>2 DEF After
  <2>2. i \in DOMAIN q /\ q[i] = y
    BY <1>1, <2>1
  <2>3. ASSUME NEW j \in DOMAIN q, q[j] = z PROVE j < i
    <3>1. j # Len(s) + 1
      BY <1>1, <1>2, <2>3
    <3>2. j \in DOMAIN s /\ s[j] = z
      BY <1>1, <2>3, <3>1
    <3>3. QED
      BY <2>1, <3>2
  <2>4. QED
    BY <2>2, <2>3 DEF After
<1>3. ASSUME NEW z, z # x PROVE After(q, x, z)
  <2>1. Len(s) + 1 \in DOMAIN q
    BY <1>1
  <2>2. ASSUME NEW j \in DOMAIN q, q[j] = z PROVE j < Len(s) + 1
    <3>1. j # Len(s) + 1
      BY <1>1, <1>3, <2>2
    <3>2. QED
      BY <1>1, <3>1
  <2>3. QED
    BY <1>1, <2>1, <2>2 DEF After
<1>4. ASSUME NEW y PROVE y \in Range(q) <=> y = x \/ y \in Range(s)
  <2>1. ASSUME y \in Range(q), y # x PROVE y \in Range(s)
    <3>1. PICK j \in DOMAIN q : q[j] = y
      BY <2>1 DEF Range
    <3>2. j \in DOMAIN s /\ s[j] = y
      BY <1>1, <2>1, <3>1
    <3>3. QED
      BY <3>2 DEF Range
  <2>2. x \in Range(q)
    <3>1. Len(s) + 1 \in DOMAIN q
      BY <1>1
    <3>2. QED
      BY <1>1, <3>1 DEF Range
  <2>3. ASSUME y \in Range(s) PROVE y \in Range(q)
    <3>1. PICK j \in DOMAIN s : s[j] = y
      BY <2>3 DEF Range
    <3>2. j \in DOMAIN q /\ q[j] = y
      BY <1>1, <3>1
    <3>3. QED
      BY <3>2 DEF Range
  <2>4. QED
    BY <2>1, <2>2, <2>3
<1>5. QED
  BY <1>1, <1>2, <1>3, <1>4 DEF q

LEMMA RecentIsDistinct == ASSUME NEW e, NEW s, ByRecency(e, s) PROVE Distinct(e)
<1> SUFFICES ASSUME NEW j \in DOMAIN e, NEW k \in DOMAIN e, e[j] = e[k], j < k PROVE FALSE
  <2>1. \A j \in DOMAIN e : j \in Nat
    BY DEF ByRecency
  <2>2. QED
    BY <2>1 DEF Distinct
<1>1. PICK i \in DOMAIN s : s[i] = e[j] /\ \A m \in DOMAIN s : s[m] = e[k] => m < i
  BY DEF ByRecency, After
<1>2. i < i /\ i \in Nat
  BY <1>1 DEF ByRecency
<1>3. QED
  BY <1>2

LEMMA NothingIsRecent == ByRecency(<<>>, <<>>)
<1>1. MaxHistory \in Nat
  BY HistoryAssumption
<1>2. Range(<<>>) = {}
  BY DEF Range
<1>3. QED
  BY <1>1, <1>2 DEF ByRecency

(* The prompt at the head is written once more. *)
LEMMA SameIsRecent ==
    ASSUME NEW e, NEW s, ByRecency(e, s), e # <<>>, NEW x, x = Head(e)
    PROVE  ByRecency(e, Append(s, x))
<1>1. e \in Seq(Texts) /\ s \in Seq(Texts) /\ 1 \in DOMAIN e /\ e[1] = x /\ x \in Texts
      /\ \A k \in DOMAIN e : k \in Nat /\ (k # 1 => 1 < k)
  BY DEF ByRecency
<1> DEFINE q == Append(s, x)
<1>2. /\ q \in Seq(Texts)
      /\ \A y, z : After(s, y, z) /\ z # x => After(q, y, z)
      /\ \A z : z # x => After(q, x, z)
      /\ \A y : y \in Range(q) <=> y = x \/ y \in Range(s)
  BY <1>1, AfterStays
<1> HIDE DEF q
<1>3. Distinct(e)
  BY RecentIsDistinct
<1>4. \A k \in DOMAIN e : e[k] \in Range(q)
  BY <1>2 DEF ByRecency
<1>5. ASSUME NEW j \in DOMAIN e, NEW k \in DOMAIN e, j < k PROVE After(q, e[j], e[k])
  <2>1. After(s, e[j], e[k])
    BY <1>5 DEF ByRecency
  <2>2. k # 1
    BY <1>1, <1>5
  <2>3. e[k] # x
    BY <1>1, <1>3, <2>2 DEF Distinct
  <2>4. QED
    BY <1>2, <2>1, <2>3
<1>6. ASSUME NEW y \in Range(q) \ Range(e)
      PROVE  Len(e) = MaxHistory /\ \A k \in DOMAIN e : After(q, e[k], y)
  <2>1. x \in Range(e)
    BY <1>1 DEF Range
  <2>2. y # x /\ y \in Range(s) \ Range(e)
    BY <1>2, <2>1
  <2>3. QED
    BY <1>2, <2>2 DEF ByRecency
<1>7. QED
  BY <1>1, <1>2, <1>4, <1>5, <1>6 DEF ByRecency, q

(* What is merged: the prompt, and of the others as many as there is room for. *)
LEMMA MergedIs ==
    ASSUME NEW e \in Seq(Texts), Distinct(e), NEW x \in Texts
    PROVE  \E r : /\ Sifted(e, x, r, Len(e))
                  /\ Merged(e, x) \in Seq(Texts)
                  /\ Len(Merged(e, x)) = IF Len(r) + 1 < MaxHistory THEN Len(r) + 1 ELSE MaxHistory
                  /\ Merged(e, x)[1] = x
                  /\ \A k \in 2..Len(Merged(e, x)) : k - 1 \in DOMAIN r /\ Merged(e, x)[k] = r[k - 1]
<1> DEFINE r == Without(e, x)
           m == <<x>> \o r
           n == IF Len(m) < MaxHistory THEN Len(m) ELSE MaxHistory
<1>1. Sifted(e, x, r, Len(e)) /\ r \in Seq(Texts) /\ Len(r) \in Nat
  BY WithoutIs DEF Sifted
<1>2. Merged(e, x) = SubSeq(m, 1, n)
  BY DEF Merged, Newest
<1> HIDE DEF r
<1>3. m \in Seq(Texts) /\ Len(m) = Len(r) + 1 /\ m[1] = x /\ \A k \in 2..Len(m) : m[k] = r[k - 1]
  BY <1>1
<1> HIDE DEF m
<1>4. MaxHistory \in Nat /\ MaxHistory >= 1
  BY HistoryAssumption
<1>5. n \in 1..Len(m) /\ n = IF Len(r) + 1 < MaxHistory THEN Len(r) + 1 ELSE MaxHistory
  BY <1>1, <1>3, <1>4
<1> HIDE DEF n
<1>6. /\ SubSeq(m, 1, n) \in Seq(Texts) /\ Len(SubSeq(m, 1, n)) = n
      /\ \A k \in 1..n : SubSeq(m, 1, n)[k] = m[k]
  BY <1>3, <1>5
<1>7. ASSUME NEW k \in 2..n PROVE k - 1 \in DOMAIN r /\ SubSeq(m, 1, n)[k] = r[k - 1]
  <2>1. k \in 1..n /\ k \in 2..Len(m)
    BY <1>1, <1>3, <1>5
  <2>2. k - 1 \in DOMAIN r
    BY <1>1, <1>3, <2>1
  <2>3. QED
    BY <1>3, <1>6, <2>1, <2>2
<1>8. 1 \in 1..n
  BY <1>1, <1>3, <1>5
<1>9. SubSeq(m, 1, n)[1] = x
  BY <1>3, <1>6, <1>8
<1> DEFINE w == Merged(e, x)
<1>10. w \in Seq(Texts) /\ Len(w) = n /\ w[1] = x /\ \A k \in 2..Len(w) : k - 1 \in DOMAIN r /\ w[k] = r[k - 1]
  BY <1>2, <1>6, <1>7, <1>9
<1>11. QED
  BY <1>1, <1>5, <1>10

LEMMA MergedIsRecent ==
    ASSUME NEW e, NEW s, ByRecency(e, s), NEW x \in Texts
    PROVE  ByRecency(Merged(e, x), Append(s, x))
<1>1. e \in Seq(Texts) /\ s \in Seq(Texts) /\ Distinct(e) /\ Len(e) \in Nat /\ MaxHistory \in Nat
      /\ Len(e) <= MaxHistory /\ MaxHistory >= 1
  BY RecentIsDistinct, HistoryAssumption DEF ByRecency
<1> DEFINE m == Merged(e, x)
           q == Append(s, x)
<1>2. PICK r : /\ Sifted(e, x, r, Len(e)) /\ m \in Seq(Texts)
               /\ Len(m) = IF Len(r) + 1 < MaxHistory THEN Len(r) + 1 ELSE MaxHistory
               /\ m[1] = x
               /\ \A k \in 2..Len(m) : k - 1 \in DOMAIN r /\ m[k] = r[k - 1]
  BY <1>1, MergedIs
<1>3. /\ q \in Seq(Texts)
      /\ \A y, z : After(s, y, z) /\ z # x => After(q, y, z)
      /\ \A z : z # x => After(q, x, z)
      /\ \A y : y \in Range(q) <=> y = x \/ y \in Range(s)
  BY <1>1, AfterStays
<1> HIDE DEF m, q
<1>4. r \in Seq(Texts) /\ Len(r) \in Nat /\ Len(r) + 1 >= Len(e) /\ DOMAIN r = 1..Len(r)
      /\ Len(m) \in Nat /\ DOMAIN m = 1..Len(m)
  BY <1>2 DEF Sifted
(* what is left of the entries keeps their order, and is not x *)
<1>5. \A k \in DOMAIN r : r[k] # x /\ r[k] \in Range(s)
  <2>1. \A k \in DOMAIN r : r[k] # x /\ \E i \in 1..Len(e) : e[i] = r[k]
    BY <1>2 DEF Sifted
  <2>2. \A i \in 1..Len(e) : i \in DOMAIN e /\ e[i] \in Range(s)
    BY <1>1 DEF ByRecency
  <2>3. QED
    BY <2>1, <2>2
<1>6. ASSUME NEW j \in DOMAIN r, NEW k \in DOMAIN r, j < k PROVE After(q, r[j], r[k])
  <2>1. PICK a \in 1..Len(e), b \in 1..Len(e) : a < b /\ e[a] = r[j] /\ e[b] = r[k]
    BY <1>2, <1>6 DEF Sifted
  <2>2. After(s, e[a], e[b])
    BY <1>1, <2>1 DEF ByRecency
  <2>3. QED
    BY <1>3, <1>5, <2>1, <2>2
<1>7. \A k \in DOMAIN m : k = 1 \/ k \in 2..Len(m)
  BY <1>4
<1>8. \A k \in DOMAIN m : m[k] \in Range(q)
  BY <1>2, <1>3, <1>5, <1>7
<1>9. ASSUME NEW j \in DOMAIN m, NEW k \in DOMAIN m, j < k PROVE After(q, m[j], m[k])
  <2>1. k \in 2..Len(m) /\ k - 1 \in DOMAIN r /\ m[k] = r[k - 1]
    BY <1>2, <1>4, <1>9
  <2>2. CASE j = 1
    BY <1>2, <1>3, <1>5, <2>1, <2>2
  <2>3. CASE j # 1
    <3>1. j \in 2..Len(m)
      BY <1>7, <2>3
    <3>2. j - 1 \in DOMAIN r /\ m[j] = r[j - 1] /\ j - 1 < k - 1
      BY <1>2, <1>9, <2>1, <3>1
    <3>3. QED
      BY <1>6, <2>1, <3>2
  <2>4. QED
    BY <2>2, <2>3
(* who is missing was pushed out now or before *)
<1>10. ASSUME NEW y \in Range(q) \ Range(m)
       PROVE  Len(m) = MaxHistory /\ \A k \in DOMAIN m : After(q, m[k], y)
  <2>1. 1 \in DOMAIN m
    BY <1>1, <1>2, <1>4
  <2>2. y # x
    <3>1. x \in Range(m)
      BY <1>2, <2>1 DEF Range
    <3>2. QED
      BY <3>1
  <2>3. y \in Range(s)
    BY <1>3, <2>2
  <2>4. Len(m) = MaxHistory /\ \A k \in DOMAIN r : k + 1 \in DOMAIN m => After(q, r[k], y)
    <3>1. CASE y \in Range(e)
      <4>1. PICK i \in 1..Len(e) : e[i] = y
        BY <1>1, <3>1 DEF Range
      <4>2. PICK j \in DOMAIN r : r[j] = y
        BY <1>2, <2>2, <4>1 DEF Sifted
      <4>3. j + 1 \notin DOMAIN m
        <5> SUFFICES ASSUME j + 1 \in DOMAIN m PROVE FALSE
          OBVIOUS
        <5>1. j + 1 \in 2..Len(m) /\ (j + 1) - 1 = j
          BY <1>4
        <5>2. m[j + 1] = y
          BY <1>2, <4>2, <5>1
        <5>3. y \in Range(m)
          BY <5>2 DEF Range
        <5>4. QED
          BY <5>3
      <4>4. Len(m) = MaxHistory /\ Len(m) < j + 1
        BY <1>1, <1>2, <1>4, <4>3
      <4>5. ASSUME NEW k \in DOMAIN r, k + 1 \in DOMAIN m PROVE After(q, r[k], y)
        <5>1. k < j
          BY <1>4, <4>4, <4>5
        <5>2. QED
          BY <1>6, <4>2, <5>1
      <4>6. QED
        BY <4>4, <4>5
    <3>2. CASE y \notin Range(e)
      <4>1. Len(e) = MaxHistory /\ \A k \in DOMAIN e : After(s, e[k], y)
        BY <2>3, <3>2 DEF ByRecency
      <4>2. Len(m) = MaxHistory
        BY <1>1, <1>2, <1>4, <4>1
      <4>3. ASSUME NEW k \in DOMAIN r PROVE After(q, r[k], y)
        <5>1. PICK i \in 1..Len(e) : e[i] = r[k]
          BY <1>2 DEF Sifted
        <5>2. After(s, e[i], y)
          BY <1>1, <4>1
        <5>3. QED
          BY <1>3, <2>2, <5>1, <5>2
      <4>4. QED
        BY <4>2, <4>3
    <3>3. QED
      BY <3>1, <3>2
  <2>5. ASSUME NEW k \in DOMAIN m PROVE After(q, m[k], y)
    <3>1. CASE k = 1
      BY <1>2, <1>3, <2>2, <3>1
    <3>2. CASE k # 1
      <4>1. k \in 2..Len(m) /\ (k - 1) + 1 = k
        BY <1>4, <1>7, <3>2
      <4>2. k - 1 \in DOMAIN r /\ m[k] = r[k - 1]
        BY <1>2, <4>1
      <4>3. QED
        BY <2>4, <4>1, <4>2
    <3>3. QED
      BY <3>1, <3>2
  <2>6. QED
    BY <2>4, <2>5
<1>11. Len(m) <= MaxHistory
  BY <1>1, <1>2, <1>4
<1>12. QED
  BY <1>2, <1>3, <1>8, <1>9, <1>10, <1>11 DEF ByRecency, m, q

RecencyInv ==
    DOMAIN hfile = Paths /\ DOMAIN log = Paths /\ \A p \in Paths : ByRecency(hfile[p].entries, log[p])

LEMMA RecencyStarts == HistoryInit => RecencyInv
<1> SUFFICES ASSUME HistoryInit PROVE RecencyInv
  OBVIOUS
<1>1. /\ hfile = [f \in Paths |-> NoFile] /\ log = [f \in Paths |-> <<>>] /\ NoFile.entries = <<>>
  BY DEF HistoryInit, NoFile
<1>2. \A p \in Paths : hfile[p].entries = <<>> /\ log[p] = <<>>
  BY <1>1
<1>3. QED
  BY <1>1, <1>2, NothingIsRecent DEF RecencyInv

(* A step that changes one file. *)
LEMMA RecencySettles ==
    ASSUME RecencyInv, NEW p \in Paths, NEW l, log' = [log EXCEPT ![p] = l],
           DOMAIN hfile' = Paths, \A q \in Paths : q # p => hfile'[q] = hfile[q],
           ByRecency(hfile'[p].entries, l)
    PROVE  RecencyInv'
<1>1. DOMAIN log' = Paths /\ log'[p] = l /\ \A q \in Paths : q # p => log'[q] = log[q]
  BY DEF RecencyInv
<1>2. ASSUME NEW q \in Paths PROVE ByRecency(hfile'[q].entries, log'[q])
  <2>1. CASE q = p
    BY <1>1, <2>1
  <2>2. CASE q # p
    <3>1. ByRecency(hfile[q].entries, log[q]) /\ hfile'[q] = hfile[q] /\ log'[q] = log[q]
      BY <1>1, <2>2 DEF RecencyInv
    <3>2. QED
      BY <3>1
  <2>3. QED
    BY <2>1, <2>2
<1>3. Paths' = Paths
  BY DEF Paths
<1>4. QED
  BY <1>1, <1>2, <1>3 DEF RecencyInv

LEMMA RecencyStays ==
    ASSUME RecencyInv, UNCHANGED <<hfile, log>>
    PROVE  RecencyInv'
BY DEF RecencyInv, Paths

LEMMA GoneIsRecent ==
    ASSUME RecencyInv, NEW p \in Paths, hfile' = [hfile EXCEPT ![p] = NoFile], log' = [log EXCEPT ![p] = <<>>]
    PROVE  RecencyInv'
<1>1. /\ DOMAIN hfile' = Paths /\ hfile'[p].entries = <<>>
      /\ \A q \in Paths : q # p => hfile'[q] = hfile[q]
  BY DEF RecencyInv, NoFile
<1>2. ByRecency(hfile'[p].entries, <<>>)
  BY <1>1, NothingIsRecent
<1>3. QED
  BY <1>1, <1>2, RecencySettles

LEMMA PersistIsRecent ==
    ASSUME HistoryInv, RecencyInv, NEW t \in Terminals, PersistEnds(t)
    PROVE  RecencyInv'
<1> DEFINE w == Head(term[t].chain)
           p == Path(t, w.scope)
           f == hfile[p]
           shown == f.shown \/ term[t].writing = "marking"
           same == f.entries # <<>> /\ Head(f.entries) = w.text
           kept == IF same THEN f.entries ELSE Merged(f.entries, w.text)
<1>1. w.text \in Texts
  <2>1. term[t].chain # <<>> /\ term[t].chain \in Seq([scope : Scopes, text : Texts])
    BY TermIs DEF PersistEnds, Subscribed
  <2>2. w \in [scope : Scopes, text : Texts]
    <3> DEFINE Prompts == [scope : Scopes, text : Texts]
               k == term[t].chain
    <3>1. k \in Seq(Prompts) /\ k # <<>>
      BY <2>1
    <3> HIDE DEF Prompts, k
    <3>2. Head(k) \in Prompts
      BY <3>1
    <3>3. QED
      BY <3>2 DEF Prompts, k
  <2>3. QED
    BY <2>2
<1>2. p \in Paths
  BY DEF Path, Paths
<1>3. \/ /\ hfile' = IF same /\ shown = f.shown THEN hfile
                     ELSE [hfile EXCEPT ![p] = [readable |-> TRUE, shown |-> shown, entries |-> kept]]
         /\ log' = [log EXCEPT ![p] = Append(@, w.text)]
      \/ UNCHANGED <<hfile, log>>
  BY DEF PersistEnds
<1>4. ByRecency(f.entries, log[p]) /\ DOMAIN hfile = Paths /\ DOMAIN log = Paths
  BY <1>2 DEF RecencyInv
<1>5. ByRecency(kept, Append(log[p], w.text))
  <2>1. CASE same
    BY <1>4, <2>1, SameIsRecent
  <2>2. CASE ~same
    BY <1>1, <1>4, <2>2, MergedIsRecent
  <2>3. QED
    BY <2>1, <2>2
<1>6. same => kept = f.entries
  OBVIOUS
<1> HIDE DEF w, p, same, shown, kept
<1>7. CASE UNCHANGED <<hfile, log>>
  BY <1>7, RecencyStays
<1>8. CASE ~UNCHANGED <<hfile, log>>
  <2>1. /\ DOMAIN hfile' = Paths /\ hfile'[p].entries = kept
        /\ \A q \in Paths : q # p => hfile'[q] = hfile[q]
    BY <1>2, <1>3, <1>4, <1>6, <1>8
  <2>2. log' = [log EXCEPT ![p] = Append(log[p], w.text)]
    BY <1>3, <1>8
  <2>3. ByRecency(hfile'[p].entries, Append(log[p], w.text))
    BY <1>5, <2>1
  <2> DEFINE l == Append(log[p], w.text)
  <2> HIDE DEF l
  <2>4. log' = [log EXCEPT ![p] = l] /\ ByRecency(hfile'[p].entries, l)
    BY <2>2, <2>3 DEF l
  <2>5. QED
    BY <1>2, <2>1, <2>4, RecencySettles
<1>9. QED
  BY <1>7, <1>8

LEMMA RecencyInductive == HistoryInv /\ RecencyInv /\ [HistoryNext]_historyVars => RecencyInv'
<1> SUFFICES ASSUME HistoryInv, RecencyInv, [HistoryNext]_historyVars PROVE RecencyInv'
  OBVIOUS
<1>1. CASE UNCHANGED <<hfile, log>>
  BY <1>1, RecencyStays
<1>2. ASSUME NEW t \in Terminals, ClearEnds(t) PROVE RecencyInv'
  <2> DEFINE p == Path(t, term[t].command.scope)
  <2>1. p \in Paths
    BY DEF Path, Paths
  <2>2. \/ hfile' = [hfile EXCEPT ![p] = NoFile] /\ log' = [log EXCEPT ![p] = <<>>]
        \/ UNCHANGED <<hfile, log>>
    BY <1>2 DEF ClearEnds
  <2> HIDE DEF p
  <2>3. QED
    BY <1>1, <2>1, <2>2, GoneIsRecent
<1>3. ASSUME NEW p \in Paths, FileDamaged(p) PROVE RecencyInv'
  BY <1>3, GoneIsRecent DEF FileDamaged
<1>4. \/ UNCHANGED <<hfile, log>>
      \/ \E t \in Terminals : PersistEnds(t) \/ ClearEnds(t)
      \/ \E p \in Paths : FileDamaged(p)
  BY DEF HistoryNext, historyVars, LoadHistory, StartHistory, EndHistory, HistoryEnded, HistoryKilled,
     Submit, PersistBegins, SettingEnds, OtherEditor, Command
<1>5. QED
  BY <1>1, <1>2, <1>3, <1>4, PersistIsRecent

(* Entries are within the bound (input-history-store.ts:142-152), a notice that is
   pending was noted, and a write under way is the chain's first. *)
LEMMA HistoryTypesHold == HistoryInv /\ RecencyInv => HistoryTypeOK
<1> SUFFICES ASSUME HistoryInv, RecencyInv PROVE HistoryTypeOK
  OBVIOUS
<1>1. \A p \in Paths : Len(hfile[p].entries) <= MaxHistory
  BY DEF RecencyInv, ByRecency
<1>2. \A t \in Terminals : /\ term[t].pending => term[t].noticed
                           /\ term[t].writing # "no" => term[t].chain # <<>>
  BY TermIs DEF Disclosed, Subscribed
<1>3. QED
  BY <1>1, <1>2 DEF HistoryTypeOK

(* No file of the history outgrows its bound, no notice is pending that was not noted,
   and who writes has something to write (input-history-store.ts:142-152, input-history.ts). *)
THEOREM HistoryTypesCorrect == HistorySpec => []HistoryTypeOK
BY HistoryStarts, HistoryInductive, RecencyStarts, RecencyInductive, HistoryTypesHold, PTL DEF HistorySpec

(* For any number of processes, prompts, commands and failures: a file holds the prompts
   that were written to it since it was last gone, each once and the last first, and only the
   oldest may be missing when it is full (mergeHistoryEntry()); nothing is kept where it was
   not announced, prefilled twice, or lost at a session's end. *)
THEOREM HistoryAlwaysKept == HistorySpec => HistoryIsKept
<1>1. RecencyInv => HistoryIsByRecency
  BY DEF RecencyInv, ByRecency, HistoryIsByRecency
<1>2. HistorySpec => []HistoryIsByRecency
  BY <1>1, HistoryStarts, HistoryInductive, RecencyStarts, RecencyInductive, PTL DEF HistorySpec
<1>3. QED
  BY <1>2, HistoryAlwaysDisclosed DEF HistoryIsKept

-----------------------------------------------------------------------------
(* The scenes *)

SceneInv == TypeOK /\ LastInv /\ PricingInv /\ HistoryInv /\ RecencyInv

LEMMA SceneStarts == SceneInit => SceneInv
<1>1. SceneInit => Init /\ LastInit /\ HistoryInit /\ PricingInit
  BY DEF SceneInit
<1>2. QED
  BY <1>1, TypesStart, LastStarts, PricingStarts, HistoryStarts, RecencyStarts DEF SceneInv

(* The scene that runs keeps its invariant, the others rest. *)
LEMMA SceneKept == SceneInv /\ [SceneNext]_filesVars => SceneInv'
<1> SUFFICES ASSUME SceneInv, [SceneNext]_filesVars PROVE SceneInv'
  OBVIOUS
<1>1. [Next]_vars /\ [LastNext]_lastVars /\ [HistoryNext]_historyVars /\ [PricingNext]_pricingVars
  BY Zenon DEF SceneNext, LockStep, LastStep, HistoryStep, PricingStep, filesVars
<1>2. TypeOK' /\ LastInv'
  BY <1>1, TypesKept, LastInductive DEF SceneInv
<1>3. PricingInv'
  BY <1>1, PricingInductive DEF SceneInv
<1>4. HistoryInv' /\ RecencyInv'
  BY <1>1, HistoryInductive, RecencyInductive DEF SceneInv
<1>5. QED
  BY <1>2, <1>3, <1>4 DEF SceneInv

(* Whatever the processes do, the variables of the lock, the last model, the input
   history and the prices keep their types (util.ts, last-model.ts, input-history.ts,
   model-pricing-cache.ts). *)
THEOREM FilesTypesCorrect == SceneSpec => []FilesTypesOK
<1>1. SceneInv => FilesTypesOK
  BY LastTypesHold, PricingTypesHold, HistoryTypesHold DEF SceneInv, FilesTypesOK
<1>2. QED
  BY <1>1, SceneStarts, SceneKept, PTL DEF SceneSpec, filesVars

=============================================================================
