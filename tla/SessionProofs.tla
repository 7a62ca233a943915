---------------------------- MODULE SessionProofs ----------------------------
(***************************************************************************)
(* Proofs about what the sessions of a process do: the session events      *)
(* themselves (TpsSession), the audit of the models that answered          *)
(* (ModelAudit) and the observer of the stream (SseObserver); last, the    *)
(* types of all that a behaviour of MCSessions has.                        *)
(***************************************************************************)
EXTENDS MCSessions, IngestProofs, GatewayProofs

-----------------------------------------------------------------------------
(* Session events *)

TpsRecords ==
    [gen : Nat, active : BOOLEAN, rec : Calls \cup {None},
     coll : Calls \cup {None}, ctx : BOOLEAN, turn : BOOLEAN, stats : Nat,
     refresh : BOOLEAN, poll : BOOLEAN, dirs : BOOLEAN, watch : BOOLEAN, scan : BOOLEAN,
     bridge : Calls \cup {None}, probe : Calls \cup {None}, latch : BOOLEAN,
     shown : {"none", "turn", "settled"}]
CallRecords ==
    [pc : {"new", "stop", "close", "restore", "drain", "end", "done"}, gen : Nat,
     rec : Calls \cup {None}, coll : Calls \cup {None}]

TpsTypes ==
    /\ tps \in TpsRecords
    /\ call \in [Calls -> CallRecords]
    /\ collector \in [Calls -> {"none", "open", "closing", "closed"}]
    /\ recovery \in [Calls -> {"none", "starting", "live", "stopping", "stopped"}]
    /\ turns \in 0 .. MaxTurns

(* The generation counts the sessions that started and those that were shut down: at
   most one for each event that was begun, none yet for a shutdown that still drains. *)
Begun == {c \in Calls : call[c].pc # "new"}
Draining == {c \in Calls : call[c].pc = "drain"}
GenInv ==
    /\ tps.gen + Cardinality(Draining) <= Cardinality(Begun)
    /\ \A c \in Calls : call[c].gen <= tps.gen
    /\ \A c, d \in Calls : /\ c # d /\ call[c].gen = call[d].gen
                           /\ call[c].pc \in {"stop", "close", "restore"}
                           => call[d].pc \notin {"stop", "close", "restore"}
    /\ tps.rec # None => tps.rec = tps.coll

(* A session that is not active has nothing, and nobody restores for it. *)
RestInv ==
    /\ ~tps.active => /\ ~tps.refresh /\ ~tps.poll /\ ~tps.watch /\ ~tps.ctx /\ ~tps.dirs
                      /\ ~tps.turn /\ tps.shown = "none" /\ tps.coll = None /\ tps.rec = None
    /\ \A c \in Calls : call[c].pc = "restore" /\ call[c].gen = tps.gen =>
          tps.active /\ bridges = {} /\ probes = {}
    /\ OneListener

(* Whose collector a handler is about to close, and whose it has closed. *)
CollInv ==
    /\ \A c \in Calls : call[c].pc \in {"new", "stop", "close"} => collector[c] = "none"
    /\ \A c \in Calls : call[c].pc \in {"stop", "close"} /\ call[c].gen = tps.gen =>
          call[c].coll = tps.coll
    /\ \A c \in Calls : call[c].pc = "drain" /\ call[c].gen = tps.gen =>
          call[c].coll \in {tps.coll, None} \/ collector[call[c].coll] = "closed"
    /\ \A c \in Calls : call[c].pc = "restore" =>
          call[c].coll = None \/ collector[call[c].coll] = "closed"
    /\ \A k \in Calls : collector[k] = "closing" =>
          \E c \in Calls : call[c].pc \in {"close", "end"} /\ call[c].coll = k
    /\ CollectorsEnd

TpsInv == TpsTypes /\ GenInv /\ RestInv /\ CollInv

LEMMA NoneIsNoCall == None \notin Calls
BY TpsAssumption DEF None

LEMMA BegunFinite == IsFiniteSet(Begun) /\ IsFiniteSet(Draining)
BY TpsAssumption, FS_Subset DEF Begun, Draining

LEMMA BegunBounded == Cardinality(Begun) <= Cardinality(Calls) /\ Cardinality(Begun) \in Nat
                      /\ Cardinality(Draining) \in Nat /\ Cardinality(Calls) \in Nat
<1>1. Begun \subseteq Calls
  BY DEF Begun
<1>2. QED
  BY <1>1, BegunFinite, TpsAssumption, FS_Subset, FS_CardinalityType

(* What a handler's step does to the two counts. *)
LEMMA CallMoves ==
    ASSUME TpsTypes, NEW c \in Calls, NEW r \in CallRecords, r.pc # "new",
           call' = [call EXCEPT ![c] = r]
    PROVE  /\ Cardinality(Begun') = Cardinality(Begun) + (IF call[c].pc = "new" THEN 1 ELSE 0)
           /\ Cardinality(Draining') =
                 Cardinality(Draining) + (IF r.pc = "drain" /\ call[c].pc # "drain" THEN 1 ELSE 0)
                                       - (IF r.pc # "drain" /\ call[c].pc = "drain" THEN 1 ELSE 0)
           /\ call' \in [Calls -> CallRecords]
<1>1. /\ call' \in [Calls -> CallRecords] /\ call \in [Calls -> CallRecords]
      /\ \A d \in Calls : call'[d] = IF d = c THEN r ELSE call[d]
  BY DEF TpsTypes
<1>2. Begun' = Begun \cup {c} /\ (c \in Begun <=> call[c].pc # "new")
  BY <1>1 DEF Begun
<1>3. Draining' = (IF r.pc = "drain" THEN Draining \cup {c} ELSE Draining \ {c})
      /\ (c \in Draining <=> call[c].pc = "drain")
  BY <1>1 DEF Draining
<1>4. Cardinality(Begun \cup {c}) =
         IF c \in Begun THEN Cardinality(Begun) ELSE Cardinality(Begun) + 1
  BY BegunFinite, FS_AddElement
<1>5. Cardinality(Draining \cup {c}) =
         IF c \in Draining THEN Cardinality(Draining) ELSE Cardinality(Draining) + 1
  BY BegunFinite, FS_AddElement
<1>6. Cardinality(Draining \ {c}) =
         IF c \in Draining THEN Cardinality(Draining) - 1 ELSE Cardinality(Draining)
  BY BegunFinite, FS_RemoveElement
<1>7. QED
  BY <1>1, <1>2, <1>3, <1>4, <1>5, <1>6, BegunBounded

LEMMA TpsInitially == TpsInit => TpsInv
<1> SUFFICES ASSUME TpsInit PROVE TpsInv
  OBVIOUS
<1>1. TpsTypes
  BY TpsAssumption DEF TpsInit, TpsTypes, TpsRecords, CallRecords, Idle, None
<1>2. Begun = {} /\ Draining = {}
  BY DEF TpsInit, Begun, Draining, Idle
<1>3. GenInv
  BY <1>2, FS_EmptySet DEF TpsInit, GenInv, Idle, None
<1>4. RestInv
  BY DEF TpsInit, RestInv, OneListener, Idle, None
<1>5. CollInv
  BY DEF TpsInit, CollInv, CollectorsEnd, Idle
<1>6. QED
  BY <1>1, <1>3, <1>4, <1>5 DEF TpsInv

(* Turns, redraws, scans and watchers change neither the generation nor whose    *)
(* the recovery, the collector and the listeners are.                             *)
LEMMA DrawKeeps ==
    ASSUME TpsInv, UNCHANGED <<call, collector, bridges, probes>>,
           recovery' \in [Calls -> {"none", "starting", "live", "stopping", "stopped"}],
           turns' \in 0 .. MaxTurns, tps' \in TpsRecords,
           tps'.gen = tps.gen, tps'.active = tps.active, tps'.rec = tps.rec,
           tps'.coll = tps.coll, tps'.bridge = tps.bridge, tps'.probe = tps.probe,
           ~tps.active => /\ ~tps'.refresh /\ ~tps'.poll /\ ~tps'.watch /\ ~tps'.ctx
                          /\ ~tps'.dirs /\ ~tps'.turn /\ tps'.shown = "none"
    PROVE  TpsInv'
<1>1. TpsTypes'
  BY DEF TpsInv, TpsTypes
<1>2. Begun' = Begun /\ Draining' = Draining
  BY DEF Begun, Draining
<1>3. GenInv'
  BY <1>2 DEF TpsInv, GenInv
<1>4. RestInv'
  BY DEF TpsInv, RestInv, OneListener
<1>5. CollInv'
  <2>1. UnderWay' = UnderWay
    BY DEF UnderWay
  <2>2. QED
    BY <2>1 DEF TpsInv, CollInv, CollectorsEnd
<1>6. QED
  BY <1>1, <1>3, <1>4, <1>5 DEF TpsInv

(* Which of the session's flags a redraw may set: none of one that is not active. *)
LEMMA Redraws ==
    ASSUME TpsInv, tps.turn, ScheduleRefresh(tps)
    PROVE  /\ tps' \in TpsRecords
           /\ tps'.gen = tps.gen /\ tps'.active = tps.active /\ tps'.rec = tps.rec
           /\ tps'.coll = tps.coll /\ tps'.bridge = tps.bridge /\ tps'.probe = tps.probe
           /\ tps.active
<1>1. tps \in TpsRecords /\ tps.active
  BY DEF TpsInv, TpsTypes, RestInv
<1>2. tps' = tps \/ tps' = [tps EXCEPT !.latch = TRUE]
  BY DEF ScheduleRefresh
<1>3. QED
  BY <1>1, <1>2 DEF TpsRecords

LEMMA FooterKeeps ==
    ASSUME TpsInv,
           \/ BeforeAgentStart \/ AgentSettled \/ SettledTask \/ RefreshTick \/ RecoveryChange
           \/ WatcherEvent \/ ScanTimer
           \/ (\E m \in micro : Microtask(m)) \/ (\E b \in Calls : BridgeEvent(b))
    PROVE  TpsInv'
<1> DEFINE Same ==
       /\ tps'.gen = tps.gen /\ tps'.active = tps.active /\ tps'.rec = tps.rec
       /\ tps'.coll = tps.coll /\ tps'.bridge = tps.bridge /\ tps'.probe = tps.probe
       /\ (~tps.active => /\ ~tps'.refresh /\ ~tps'.poll /\ ~tps'.watch /\ ~tps'.ctx
                          /\ ~tps'.dirs /\ ~tps'.turn /\ tps'.shown = "none")
<1>1. /\ tps \in TpsRecords /\ turns \in 0 .. MaxTurns /\ MaxTurns \in Nat
      /\ recovery \in [Calls -> {"none", "starting", "live", "stopping", "stopped"}]
      /\ (~tps.active => /\ ~tps.refresh /\ ~tps.poll /\ ~tps.watch /\ ~tps.ctx
                         /\ ~tps.dirs /\ ~tps.turn /\ tps.shown = "none")
  BY TpsAssumption DEF TpsInv, TpsTypes, RestInv
<1>2. UNCHANGED <<call, collector, bridges, probes, recovery>>
  BY DEF BeforeAgentStart, AgentSettled, SettledTask, RefreshTick, RecoveryChange,
         WatcherEvent, ScanTimer, Microtask, BridgeEvent
<1>3. turns' \in 0 .. MaxTurns
  <2>1. turns' = turns \/ (turns < MaxTurns /\ turns' = turns + 1)
    BY DEF BeforeAgentStart, AgentSettled, SettledTask, RefreshTick, RecoveryChange,
           WatcherEvent, ScanTimer, Microtask, BridgeEvent
  <2>2. QED
    BY <1>1, <2>1
<1>4. tps' \in TpsRecords /\ Same
  <2>1. CASE BeforeAgentStart
    <3>1. CASE tps.turn
      <4>1. tps' = [tps EXCEPT !.ctx = TRUE] /\ tps.active
        BY <2>1, <3>1 DEF BeforeAgentStart
      <4>2. QED
        BY <1>1, <4>1 DEF TpsRecords
    <3>2. CASE ~tps.turn
      <4>1. /\ tps' = [tps EXCEPT !.turn = TRUE, !.ctx = TRUE, !.stats = @ + 1,
                                  !.shown = "turn", !.refresh = TRUE]
            /\ tps.active
        BY <2>1, <3>2 DEF BeforeAgentStart
      <4>2. tps.stats + 1 \in Nat
        BY <1>1 DEF TpsRecords
      <4>3. tps' \in TpsRecords
        BY <1>1, <4>1, <4>2 DEF TpsRecords
      <4>4. Same
        BY <1>1, <4>1 DEF TpsRecords
      <4>5. QED
        BY <4>3, <4>4
    <3>3. QED
      BY <3>1, <3>2
  <2>2. CASE AgentSettled
    <3>1. PICK producers \in BOOLEAN :
             tps' = [tps EXCEPT !.turn = FALSE, !.latch = FALSE, !.refresh = @ /\ producers,
                                !.scan = FALSE, !.watch = @ \/ tps.dirs]
      BY <2>2 DEF AgentSettled
    <3> DEFINE refresh == tps.refresh /\ producers
               watch == tps.watch \/ tps.dirs
    <3>2. refresh \in BOOLEAN /\ watch \in BOOLEAN
      BY Zenon
    <3>3. tps' = [tps EXCEPT !.turn = FALSE, !.latch = FALSE, !.refresh = refresh,
                             !.scan = FALSE, !.watch = watch]
      BY <3>1, Zenon
    <3> HIDE DEF refresh, watch
    <3>4. tps' \in TpsRecords
      <4>1. \A x, y \in BOOLEAN :
               [tps EXCEPT !.turn = FALSE, !.latch = FALSE, !.refresh = x,
                           !.scan = FALSE, !.watch = y] \in TpsRecords
        BY <1>1 DEF TpsRecords
      <4>2. QED
        BY <3>2, <3>3, <4>1, Zenon
    <3>5. tps.active
      BY <1>1, <2>2 DEF AgentSettled
    <3>6. Same
      BY <1>1, <3>3, <3>5 DEF TpsRecords
    <3>7. QED
      BY <3>4, <3>6
  <2>3. CASE SettledTask
    BY <1>1, <2>3 DEF SettledTask, Owns, TpsRecords
  <2>4. CASE RefreshTick
    <3>1. CASE tps.turn
      BY <1>1, <2>4, <3>1, Redraws DEF RefreshTick
    <3>2. CASE ~tps.turn
      <4>1. \/ tps' = Draws(tps, "settled")
            \/ tps' = [tps EXCEPT !.refresh = FALSE]
        BY <2>4, <3>2 DEF RefreshTick
      <4>2. CASE tps' = Draws(tps, "settled")
        BY <1>1, <4>2 DEF Draws, TpsRecords
      <4>3. CASE tps' = [tps EXCEPT !.refresh = FALSE]
        BY <1>1, <4>3 DEF TpsRecords
      <4>4. QED
        BY <4>1, <4>2, <4>3
    <3>3. QED
      BY <3>1, <3>2
  <2>5. CASE RecoveryChange
    <3>1. CASE tps.turn
      BY <1>1, <2>5, <3>1, Redraws DEF RecoveryChange
    <3>2. CASE ~tps.turn
      <4>1. tps' = [tps EXCEPT !.shown = "settled"] /\ tps.active
        BY <2>5, <3>2 DEF RecoveryChange, Owns
      <4>2. QED
        BY <1>1, <4>1 DEF TpsRecords
    <3>3. QED
      BY <3>1, <3>2
  <2>6. CASE WatcherEvent
    <3>1. tps' = [tps EXCEPT !.scan = TRUE] /\ tps.watch
      BY <2>6 DEF WatcherEvent
    <3>2. QED
      BY <1>1, <3>1 DEF TpsRecords
  <2>7. CASE ScanTimer
    <3>1. tps' = [tps EXCEPT !.scan = FALSE]
      BY <2>7 DEF ScanTimer
    <3>2. QED
      BY <1>1, <3>1 DEF TpsRecords
  <2>8. CASE \E m \in micro : Microtask(m)
    <3> DEFINE t == [tps EXCEPT !.latch = FALSE]
    <3>1. tps' = t \/ (t.turn /\ tps' = Draws(t, "turn"))
      BY <2>8 DEF Microtask
    <3>2. t \in TpsRecords /\ t.turn = tps.turn
      BY <1>1 DEF TpsRecords
    <3>3. CASE tps' = t
      BY <1>1, <3>3 DEF TpsRecords
    <3>4. CASE t.turn /\ tps' = Draws(t, "turn")
      <4>1. tps.active
        BY <1>1, <3>2, <3>4
      <4>2. QED
        BY <1>1, <3>4, <4>1 DEF Draws, TpsRecords
    <3>5. QED
      BY <3>1, <3>3, <3>4
  <2>9. CASE \E b \in Calls : BridgeEvent(b)
    <3>1. CASE tps.turn /\ ScheduleRefresh(tps)
      BY <1>1, <3>1, Redraws
    <3>2. CASE tps' = [tps EXCEPT !.scan = TRUE, !.watch = @ \/ tps.dirs]
      BY <1>1, <3>2 DEF TpsRecords
    <3>3. CASE tps' = Draws(tps, "settled")
      BY <1>1, <3>3 DEF Draws, TpsRecords
    <3>4. QED
      BY <2>9, <3>1, <3>2, <3>3 DEF BridgeEvent
  <2>10. QED
    BY <2>1, <2>2, <2>3, <2>4, <2>5, <2>6, <2>7, <2>8, <2>9
<1>5. QED
  BY <1>1, <1>2, <1>3, <1>4, DrawKeeps

LEMMA Closes ==
    ASSUME TpsTypes, NEW k \in Calls \cup {None}
    PROVE  /\ Closing(k) \in [Calls -> {"none", "open", "closing", "closed"}]
           /\ \A j \in Calls : Closing(k)[j] =
                 IF j = k /\ collector[j] = "open" THEN "closing" ELSE collector[j]
BY NoneIsNoCall DEF TpsTypes, Closing

LEMMA Stops ==
    ASSUME TpsTypes, NEW r \in Calls \cup {None}
    PROVE  Stopping(r) \in [Calls -> {"none", "starting", "live", "stopping", "stopped"}]
BY NoneIsNoCall DEF TpsTypes, Stopping

LEMMA RecoveryKeeps ==
    ASSUME TpsInv, NEW r \in Calls, RecoveryGoesOn(r)
    PROVE  TpsInv'
<1>1. UNCHANGED <<call, collector, bridges, probes, tps, turns>>
  BY DEF RecoveryGoesOn
<1>2. recovery' \in [Calls -> {"none", "starting", "live", "stopping", "stopped"}]
  BY DEF RecoveryGoesOn, TpsInv, TpsTypes
<1>3. QED
  BY <1>1, <1>2, DrawKeeps DEF TpsInv, TpsTypes, RestInv

LEMMA CloseEndKeeps ==
    ASSUME TpsInv, NEW k \in Calls, CollectorCloses(k)
    PROVE  TpsInv'
<1>1. /\ UNCHANGED <<call, recovery, bridges, probes, tps, turns>>
      /\ collector' \in [Calls -> {"none", "open", "closing", "closed"}]
      /\ collector[k] = "closing"
      /\ \A j \in Calls : collector'[j] = IF j = k THEN "closed" ELSE collector[j]
  BY DEF CollectorCloses, TpsInv, TpsTypes
<1>2. TpsTypes'
  BY <1>1 DEF TpsInv, TpsTypes
<1>3. GenInv'
  <2>1. Begun' = Begun /\ Draining' = Draining
    BY <1>1 DEF Begun, Draining
  <2>2. QED
    BY <1>1, <2>1 DEF TpsInv, GenInv
<1>4. RestInv'
  BY <1>1 DEF TpsInv, RestInv, OneListener
<1>5. CollInv'
  <2>1. UnderWay' = UnderWay
    BY <1>1 DEF UnderWay
  <2>2. call \in [Calls -> CallRecords]
    BY DEF TpsInv, TpsTypes
  <2>3. \A c \in Calls : call[c].coll # None => call[c].coll \in Calls
    BY <2>2 DEF CallRecords
  <2>4. QED
    BY <1>1, <2>1, <2>3 DEF TpsInv, CollInv, CollectorsEnd
<1>6. QED
  BY <1>2, <1>3, <1>4, <1>5 DEF TpsInv

LEMMA StartKeeps ==
    ASSUME TpsInv, NEW c \in Calls, SessionStart(c)
    PROVE  TpsInv'
<1> DEFINE r == [pc |-> "stop", gen |-> tps.gen + 1, rec |-> tps.rec, coll |-> tps.coll]
<1>1. /\ tps \in TpsRecords /\ call \in [Calls -> CallRecords]
      /\ tps' = [tps EXCEPT !.gen = @ + 1, !.rec = None]
      /\ call[c].pc = "new" /\ recovery' = Stopping(tps.rec)
      /\ UNCHANGED <<collector, bridges, probes, micro, turns>>
  BY DEF TpsInv, TpsTypes, SessionStart, May
<1>2. tps.gen \in Nat /\ tps.rec \in Calls \cup {None} /\ tps.coll \in Calls \cup {None}
  BY <1>1 DEF TpsRecords
<1>3. /\ tps' \in TpsRecords /\ tps'.gen = tps.gen + 1 /\ tps'.rec = None
      /\ tps'.coll = tps.coll /\ tps'.active = tps.active /\ tps'.refresh = tps.refresh
      /\ tps'.poll = tps.poll /\ tps'.watch = tps.watch /\ tps'.ctx = tps.ctx
      /\ tps'.dirs = tps.dirs /\ tps'.turn = tps.turn /\ tps'.shown = tps.shown
      /\ tps'.bridge = tps.bridge /\ tps'.probe = tps.probe
  <2>1. tps.gen + 1 \in Nat /\ tps'.gen = tps.gen + 1
    BY <1>1, <1>2 DEF TpsRecords
  <2>2. tps' \in TpsRecords
    BY <1>1, <2>1 DEF TpsRecords
  <2>3. QED
    BY <1>1, <2>1, <2>2 DEF TpsRecords
<1>4. call' = [call EXCEPT ![c] = r] /\ r \in CallRecords /\ r.pc = "stop"
      /\ r.gen = tps.gen + 1 /\ r.coll = tps.coll
  BY <1>2, <1>3 DEF SessionStart, CallRecords
<1> HIDE DEF r
<1>5. /\ Cardinality(Begun') = Cardinality(Begun) + 1
      /\ Cardinality(Draining') = Cardinality(Draining)
      /\ call' \in [Calls -> CallRecords]
  <2>1. TpsTypes
    BY DEF TpsInv
  <2>2. /\ Cardinality(Begun') = Cardinality(Begun) + (IF call[c].pc = "new" THEN 1 ELSE 0)
        /\ Cardinality(Draining') =
              Cardinality(Draining) + (IF r.pc = "drain" /\ call[c].pc # "drain" THEN 1 ELSE 0)
                                    - (IF r.pc # "drain" /\ call[c].pc = "drain" THEN 1 ELSE 0)
        /\ call' \in [Calls -> CallRecords]
    BY <1>4, <2>1, CallMoves
  <2>3. QED
    BY <1>1, <1>4, <2>2, BegunBounded
<1>6. \A d \in Calls : call'[d] = IF d = c THEN r ELSE call[d]
  BY <1>1, <1>4
<1>7. TpsTypes'
  BY <1>1, <1>2, <1>3, <1>5, Stops DEF TpsInv, TpsTypes
<1>8. \A d \in Calls : call[d].gen <= tps.gen /\ call[d].gen \in Nat
  BY <1>1 DEF TpsInv, GenInv, CallRecords
<1>9. GenInv'
  <2>1. tps'.gen + Cardinality(Draining') <= Cardinality(Begun')
    BY <1>2, <1>3, <1>5, BegunBounded DEF TpsInv, GenInv
  <2>2. \A d \in Calls : call'[d].gen <= tps'.gen
    BY <1>2, <1>3, <1>4, <1>6, <1>8
  <2>3. \A d, e \in Calls : /\ d # e /\ call'[d].gen = call'[e].gen
                            /\ call'[d].pc \in {"stop", "close", "restore"}
                            => call'[e].pc \notin {"stop", "close", "restore"}
    BY <1>2, <1>4, <1>6, <1>8 DEF TpsInv, GenInv
  <2>4. QED
    BY <1>3, <2>1, <2>2, <2>3 DEF GenInv
<1>10. RestInv'
  BY <1>1, <1>2, <1>3, <1>4, <1>6, <1>8 DEF TpsInv, RestInv, OneListener
<1>11. CollInv'
  <2>1. \A d \in Calls : call'[d].gen = tps'.gen => d = c
    BY <1>2, <1>3, <1>6, <1>8
  <2>2. UnderWay' = UnderWay \cup {c} /\ c \notin UnderWay
    BY <1>1, <1>4, <1>6 DEF UnderWay
  <2>3. \A k \in Calls : collector[k] = "closing" =>
           \E d \in Calls : call'[d].pc \in {"close", "end"} /\ call'[d].coll = k
    <3> SUFFICES ASSUME NEW k \in Calls, collector[k] = "closing"
                 PROVE  \E d \in Calls : call'[d].pc \in {"close", "end"} /\ call'[d].coll = k
      OBVIOUS
    <3>1. PICK d \in Calls : call[d].pc \in {"close", "end"} /\ call[d].coll = k
      BY DEF TpsInv, CollInv
    <3>2. QED
      BY <1>1, <1>6, <3>1
  <2>4. CollectorsEnd'
    <3> SUFFICES ASSUME NEW k \in Calls, collector[k] = "open", tps.coll # k
                 PROVE  \E d \in UnderWay' : call'[d].coll = k
      BY <1>1, <1>3 DEF CollectorsEnd
    <3>1. PICK d \in UnderWay : call[d].coll = k
      BY DEF TpsInv, CollInv, CollectorsEnd
    <3>2. QED
      BY <1>6, <2>2, <3>1 DEF UnderWay
  <2>5. \A d \in Calls : call'[d].pc \in {"new", "stop", "close"} => collector'[d] = "none"
    BY <1>1, <1>6 DEF TpsInv, CollInv
  <2>6. \A d \in Calls : call'[d].pc = "restore" =>
           call'[d].coll = None \/ collector'[call'[d].coll] = "closed"
    BY <1>1, <1>4, <1>6 DEF TpsInv, CollInv
  <2>7. QED
    BY <1>1, <1>3, <1>4, <1>6, <2>1, <2>3, <2>4, <2>5, <2>6 DEF CollInv
<1>12. QED
  BY <1>7, <1>9, <1>10, <1>11 DEF TpsInv

(* A handler goes on, within its event: neither the session nor who listens changes. *)
LEMMA MovesOn ==
    ASSUME TpsInv, NEW c \in Calls, NEW pc \in {"close", "end", "done"},
           call' = [call EXCEPT ![c].pc = pc], call[c].pc # "new",
           pc = "close" => call[c].pc = "stop", pc = "end" => call[c].pc = "drain",
           UNCHANGED <<tps, bridges, probes, recovery, turns>>
    PROVE  call' \in [Calls -> CallRecords] /\ GenInv' /\ RestInv'
<1> DEFINE r == [call[c] EXCEPT !.pc = pc]
<1>1. call \in [Calls -> CallRecords] /\ tps \in TpsRecords /\ tps.gen \in Nat /\ TpsTypes
  BY DEF TpsInv, TpsTypes, TpsRecords
<1>2. call' = [call EXCEPT ![c] = r] /\ r \in CallRecords /\ r.pc = pc
      /\ r.gen = call[c].gen /\ r.coll = call[c].coll
  BY <1>1 DEF CallRecords
<1> HIDE DEF r
<1>3. /\ Cardinality(Begun') = Cardinality(Begun) + (IF call[c].pc = "new" THEN 1 ELSE 0)
      /\ Cardinality(Draining') =
            Cardinality(Draining) + (IF r.pc = "drain" /\ call[c].pc # "drain" THEN 1 ELSE 0)
                                  - (IF r.pc # "drain" /\ call[c].pc = "drain" THEN 1 ELSE 0)
      /\ call' \in [Calls -> CallRecords]
  BY <1>1, <1>2, CallMoves
<1>4. \A d \in Calls : call'[d] = IF d = c THEN r ELSE call[d]
  BY <1>1, <1>2
<1>5. \A d \in Calls : /\ call'[d].pc = IF d = c THEN pc ELSE call[d].pc
                       /\ call'[d].gen = call[d].gen /\ call'[d].coll = call[d].coll
                       /\ call[d].coll # None => call[d].coll \in Calls
  BY <1>1, <1>2, <1>4 DEF CallRecords
<1>6. tps'.gen + Cardinality(Draining') <= Cardinality(Begun')
  <2>1. Cardinality(Draining') \in Int /\ Cardinality(Draining') <= Cardinality(Draining)
    BY <1>2, <1>3, BegunBounded
  <2>2. QED
    BY <1>1, <1>3, <2>1, BegunBounded DEF TpsInv, GenInv
<1>7. GenInv'
  BY <1>5, <1>6 DEF TpsInv, GenInv
<1>8. RestInv'
  BY <1>5 DEF TpsInv, RestInv, OneListener
<1>9. QED
  BY <1>3, <1>5, <1>7, <1>8

(* It has a collector closed, and waits for that. *)
LEMMA ClosingKeeps ==
    ASSUME TpsInv, NEW c \in Calls, StartCloses(c) \/ ShutdownOvertaken(c)
    PROVE  TpsInv'
<1> DEFINE k == call[c].coll
<1>1. PICK pc \in {"close", "end"} :
         /\ call' = [call EXCEPT ![c].pc = pc] /\ collector' = Closing(k)
         /\ pc = "close" => call[c].pc = "stop"
         /\ pc = "end" => call[c].pc = "drain"
         /\ UNCHANGED <<tps, bridges, probes, recovery, turns>>
  BY DEF StartCloses, ShutdownOvertaken
<1>2. TpsTypes /\ k \in Calls \cup {None}
  BY DEF TpsInv, TpsTypes, CallRecords
<1>3. /\ collector' \in [Calls -> {"none", "open", "closing", "closed"}]
      /\ \A j \in Calls : collector'[j] =
            IF j = k /\ collector[j] = "open" THEN "closing" ELSE collector[j]
  BY <1>1, <1>2, Closes
<1>4. /\ call' \in [Calls -> CallRecords] /\ GenInv' /\ RestInv'
      /\ \A d \in Calls : /\ call'[d].pc = IF d = c THEN pc ELSE call[d].pc
                          /\ call'[d].gen = call[d].gen /\ call'[d].coll = call[d].coll
                          /\ call[d].coll # None => call[d].coll \in Calls
  <2>1. call[c].pc # "new" /\ pc \in {"close", "end", "done"}
    BY <1>1
  <2>2. call' \in [Calls -> CallRecords] /\ GenInv' /\ RestInv'
    BY <1>1, <2>1, MovesOn
  <2>3. QED
    BY <1>1, <1>2, <2>2 DEF TpsTypes, CallRecords
<1>5. TpsTypes'
  BY <1>1, <1>3, <1>4 DEF TpsInv, TpsTypes
<1>6. CollInv'
  <2>1. UnderWay' = UnderWay
    BY <1>1, <1>4 DEF UnderWay
  <2>2. \A j \in Calls : collector'[j] = "closing" =>
           \E d \in Calls : call'[d].pc \in {"close", "end"} /\ call'[d].coll = j
    <3> SUFFICES ASSUME NEW j \in Calls, collector'[j] = "closing"
                 PROVE  \E d \in Calls : call'[d].pc \in {"close", "end"} /\ call'[d].coll = j
      OBVIOUS
    <3>1. CASE j = k
      BY <1>4, <3>1
    <3>2. CASE j # k
      <4>1. PICK d \in Calls : call[d].pc \in {"close", "end"} /\ call[d].coll = j
        BY <1>3, <3>2 DEF TpsInv, CollInv
      <4>2. QED
        BY <1>4, <4>1
    <3>3. QED
      BY <3>1, <3>2
  <2>3. CollectorsEnd'
    BY <1>1, <1>3, <1>4, <2>1 DEF TpsInv, CollInv, CollectorsEnd, UnderWay
  <2>4. \A d \in Calls : call'[d].pc \in {"new", "stop", "close"} => collector'[d] = "none"
    BY <1>1, <1>3, <1>4 DEF TpsInv, CollInv
  <2>5. \A d \in Calls : call'[d].pc \in {"stop", "close"} /\ call'[d].gen = tps'.gen =>
           call'[d].coll = tps'.coll
    BY <1>1, <1>4 DEF TpsInv, CollInv
  <2>6. \A d \in Calls : call[d].coll # None /\ collector[call[d].coll] = "closed" =>
           collector'[call'[d].coll] = "closed"
    BY <1>3, <1>4
  <2>7. \A d \in Calls : call'[d].pc = "drain" /\ call'[d].gen = tps'.gen =>
           call'[d].coll \in {tps'.coll, None} \/ collector'[call'[d].coll] = "closed"
    BY <1>1, <1>4, <2>6 DEF TpsInv, CollInv
  <2>8. \A d \in Calls : call'[d].pc = "restore" =>
           call'[d].coll = None \/ collector'[call'[d].coll] = "closed"
    BY <1>1, <1>4, <2>6 DEF TpsInv, CollInv
  <2>9. QED
    BY <2>2, <2>3, <2>4, <2>5, <2>7, <2>8 DEF CollInv
<1>7. QED
  BY <1>4, <1>5, <1>6 DEF TpsInv

(* It returns; the collector it spoke for is closed by then. *)
LEMMA ReturnKeeps ==
    ASSUME TpsInv, NEW c \in Calls, StartOvertaken(c) \/ RestoreOvertaken(c) \/ ShutdownEnds(c)
    PROVE  TpsInv'
<1>1. /\ call' = [call EXCEPT ![c].pc = "done"] /\ call[c].pc \in {"close", "restore", "end"}
      /\ UNCHANGED <<tps, collector, bridges, probes, recovery, turns>>
  BY DEF StartOvertaken, RestoreOvertaken, ShutdownEnds, Overtaken
<1>2. call[c].coll = None \/ collector[call[c].coll] = "closed"
  BY DEF StartOvertaken, RestoreOvertaken, ShutdownEnds, Overtaken, Closed, TpsInv, CollInv
<1>3. /\ call' \in [Calls -> CallRecords] /\ GenInv' /\ RestInv'
      /\ \A d \in Calls : /\ call'[d].pc = IF d = c THEN "done" ELSE call[d].pc
                          /\ call'[d].gen = call[d].gen /\ call'[d].coll = call[d].coll
                          /\ call[d].coll # None => call[d].coll \in Calls
  <2> DEFINE pc == "done"
  <2>1. pc \in {"close", "end", "done"} /\ pc # "close" /\ pc # "end" /\ call[c].pc # "new"
        /\ call' = [call EXCEPT ![c].pc = pc]
    BY <1>1
  <2> HIDE DEF pc
  <2>2. call' \in [Calls -> CallRecords] /\ GenInv' /\ RestInv'
    BY <1>1, <2>1, MovesOn
  <2>3. QED
    BY <1>1, <2>2 DEF TpsInv, TpsTypes, CallRecords
<1>4. TpsTypes'
  BY <1>1, <1>3 DEF TpsInv, TpsTypes
<1>5. CollInv'
  <2>1. UnderWay' = UnderWay \ {c}
    BY <1>1, <1>3 DEF UnderWay
  <2>2. \A j \in Calls : collector'[j] = "closing" =>
           \E d \in Calls : call'[d].pc \in {"close", "end"} /\ call'[d].coll = j
    <3> SUFFICES ASSUME NEW j \in Calls, collector'[j] = "closing"
                 PROVE  \E d \in Calls : call'[d].pc \in {"close", "end"} /\ call'[d].coll = j
      OBVIOUS
    <3>1. PICK d \in Calls : call[d].pc \in {"close", "end"} /\ call[d].coll = j
      BY <1>1 DEF TpsInv, CollInv
    <3>2. d # c
      BY <1>1, <1>2, <3>1, NoneIsNoCall
    <3>3. QED
      BY <1>3, <3>1, <3>2
  <2>3. CollectorsEnd'
    <3> SUFFICES ASSUME NEW k \in Calls, collector[k] = "open", tps.coll # k
                 PROVE  \E d \in UnderWay' : call'[d].coll = k
      BY <1>1 DEF CollectorsEnd
    <3>1. PICK d \in UnderWay : call[d].coll = k
      BY DEF TpsInv, CollInv, CollectorsEnd
    <3>2. d # c
      BY <1>2, <3>1, NoneIsNoCall
    <3>3. QED
      BY <1>3, <2>1, <3>1, <3>2 DEF UnderWay
  <2>4. QED
    BY <1>1, <1>3, <2>2, <2>3 DEF TpsInv, CollInv
<1>6. QED
  BY <1>3, <1>4, <1>5 DEF TpsInv

(* The old session's collector is closed when a new session takes its place. *)
LEMMA NewSessionKeeps ==
    ASSUME TpsInv, NEW c \in Calls, StartSession(c)
    PROVE  TpsInv'
<1>1. /\ call[c].pc = "close" /\ Closed(c) /\ tps.gen = call[c].gen /\ turns' = turns
      /\ bridges' = bridges \ {tps.bridge} /\ probes' = probes \ {tps.probe}
  BY DEF StartSession
<1>2. PICK primary \in BOOLEAN, audit \in BOOLEAN :
         /\ tps' = [WatchDropped(Unregistered(tps)) EXCEPT
                      !.active = TRUE, !.refresh = FALSE, !.turn = FALSE, !.shown = "none",
                      !.stats = @ + 1, !.dirs = FALSE, !.poll = primary /\ audit,
                      !.ctx = primary, !.rec = IF primary THEN c ELSE None,
                      !.coll = IF primary THEN c ELSE None]
         /\ call' = [call EXCEPT ![c].pc = IF primary THEN "restore" ELSE "done"]
         /\ collector' = [collector EXCEPT ![c] = IF primary THEN "open" ELSE @]
         /\ recovery' = [recovery EXCEPT ![c] = IF primary THEN "starting" ELSE @]
  BY DEF StartSession
<1> DEFINE pc == IF primary THEN "restore" ELSE "done"
           own == IF primary THEN c ELSE None
           poll == primary /\ audit
           r == [call[c] EXCEPT !.pc = pc]
<1>3. /\ TpsTypes /\ tps \in TpsRecords /\ call \in [Calls -> CallRecords]
      /\ collector \in [Calls -> {"none", "open", "closing", "closed"}]
      /\ recovery \in [Calls -> {"none", "starting", "live", "stopping", "stopped"}]
  BY DEF TpsInv, TpsTypes
<1>4. tps.stats + 1 \in Nat /\ tps.gen \in Nat /\ own \in Calls \cup {None}
      /\ (tps.coll # None => tps.coll \in Calls)
  BY <1>3 DEF TpsRecords
<1>5. /\ tps' \in TpsRecords
      /\ tps'.gen = tps.gen /\ tps'.active /\ tps'.rec = own /\ tps'.coll = own
      /\ tps'.bridge = None /\ tps'.probe = None
  <2>1. poll \in BOOLEAN
    BY Zenon
  <2>2. tps' = [tps EXCEPT !.watch = FALSE, !.scan = FALSE, !.bridge = None, !.probe = None,
                           !.active = TRUE, !.refresh = FALSE, !.turn = FALSE, !.shown = "none",
                           !.stats = @ + 1, !.dirs = FALSE, !.poll = poll,
                           !.ctx = primary, !.rec = own, !.coll = own]
    BY <1>2, <1>3 DEF WatchDropped, Unregistered, TpsRecords
  <2> HIDE DEF poll, own
  <2>3. tps' \in TpsRecords
    <3>1. \A x, y \in BOOLEAN :
             [tps EXCEPT !.watch = FALSE, !.scan = FALSE, !.bridge = None, !.probe = None,
                         !.active = TRUE, !.refresh = FALSE, !.turn = FALSE, !.shown = "none",
                         !.stats = @ + 1, !.dirs = FALSE, !.poll = x,
                         !.ctx = y, !.rec = own, !.coll = own] \in TpsRecords
      BY <1>3, <1>4 DEF TpsRecords
    <3>2. QED
      BY <2>1, <2>2, <3>1, Zenon
  <2>4. tps'.gen = tps.gen /\ tps'.rec = own /\ tps'.coll = own
    BY <1>3, <2>2 DEF TpsRecords
  <2>5. tps'.bridge = None /\ tps'.probe = None
    BY <1>3, <2>2 DEF TpsRecords
  <2>6. tps'.active = TRUE
    BY <1>3, <2>2 DEF TpsRecords
  <2>7. QED
    BY <2>3, <2>4, <2>5, <2>6
<1>6. /\ call' = [call EXCEPT ![c] = r] /\ r \in CallRecords /\ r.pc = pc
      /\ r.gen = call[c].gen /\ r.coll = call[c].coll /\ pc \in {"restore", "done"}
      /\ (pc = "restore" <=> primary) /\ (own = c <=> primary) /\ (own # c => own = None)
  BY <1>2, <1>3, NoneIsNoCall DEF CallRecords
<1>7. /\ collector' \in [Calls -> {"none", "open", "closing", "closed"}]
      /\ recovery' \in [Calls -> {"none", "starting", "live", "stopping", "stopped"}]
      /\ \A j \in Calls : collector'[j] =
            IF j = c /\ primary THEN "open" ELSE collector[j]
      /\ collector[c] = "none"
  BY <1>1, <1>2, <1>3 DEF TpsInv, CollInv
<1> HIDE DEF pc, own, r
<1>8. /\ Cardinality(Begun') = Cardinality(Begun) + (IF call[c].pc = "new" THEN 1 ELSE 0)
      /\ Cardinality(Draining') =
            Cardinality(Draining) + (IF r.pc = "drain" /\ call[c].pc # "drain" THEN 1 ELSE 0)
                                  - (IF r.pc # "drain" /\ call[c].pc = "drain" THEN 1 ELSE 0)
      /\ call' \in [Calls -> CallRecords]
  BY <1>3, <1>6, CallMoves
<1>9. \A d \in Calls : /\ call'[d].pc = IF d = c THEN pc ELSE call[d].pc
                       /\ call'[d].gen = call[d].gen /\ call'[d].coll = call[d].coll
                       /\ call[d].coll # None => call[d].coll \in Calls
  BY <1>3, <1>6 DEF CallRecords
<1>10. \A d \in Calls : d # c /\ call[d].gen = tps.gen => call[d].pc \notin {"stop", "close", "restore"}
  BY <1>1 DEF TpsInv, GenInv
<1>11. tps.coll = call[c].coll /\ (tps.coll = None \/ collector[tps.coll] = "closed")
  BY <1>1 DEF TpsInv, CollInv, Closed
<1>12. TpsTypes'
  BY <1>1, <1>3, <1>5, <1>7, <1>8 DEF TpsTypes
<1>13. GenInv'
  <2>1. tps'.gen + Cardinality(Draining') <= Cardinality(Begun')
    BY <1>1, <1>5, <1>6, <1>8, BegunBounded DEF TpsInv, GenInv
  <2>2. QED
    BY <1>1, <1>5, <1>6, <1>9, <2>1 DEF TpsInv, GenInv
<1>14. RestInv'
  <2>1. bridges' = {} /\ probes' = {}
    BY <1>1 DEF TpsInv, RestInv, OneListener
  <2>2. QED
    BY <1>5, <2>1 DEF RestInv, OneListener
<1>15. CollInv'
  <2>1. \A d \in Calls : call[d].coll # None /\ collector[call[d].coll] = "closed" =>
           collector'[call'[d].coll] = "closed"
    BY <1>7, <1>9
  <2>2. \A j \in Calls : collector'[j] = "closing" =>
           \E d \in Calls : call'[d].pc \in {"close", "end"} /\ call'[d].coll = j
    <3> SUFFICES ASSUME NEW j \in Calls, collector'[j] = "closing"
                 PROVE  \E d \in Calls : call'[d].pc \in {"close", "end"} /\ call'[d].coll = j
      OBVIOUS
    <3>1. PICK d \in Calls : call[d].pc \in {"close", "end"} /\ call[d].coll = j
      BY <1>7 DEF TpsInv, CollInv
    <3>2. d # c
      BY <1>7, <1>11, <3>1, NoneIsNoCall
    <3>3. QED
      BY <1>9, <3>1, <3>2
  <2>3. CollectorsEnd'
    <3> SUFFICES ASSUME NEW k \in Calls, collector'[k] = "open", own # k
                 PROVE  \E d \in UnderWay' : call'[d].coll = k
      BY <1>5 DEF CollectorsEnd
    <3>1. k # c /\ collector[k] = "open"
      BY <1>6, <1>7
    <3>2. PICK d \in UnderWay : call[d].coll = k
      BY <1>11, <3>1, NoneIsNoCall DEF TpsInv, CollInv, CollectorsEnd
    <3>3. d # c
      BY <1>11, <3>1, <3>2, NoneIsNoCall
    <3>4. QED
      BY <1>9, <3>2, <3>3 DEF UnderWay
  <2>4. \A d \in Calls : call'[d].pc \in {"new", "stop", "close"} => collector'[d] = "none"
    BY <1>6, <1>7, <1>9 DEF TpsInv, CollInv
  <2>5. \A d \in Calls : call'[d].pc \in {"stop", "close"} => call'[d].gen # tps'.gen
    BY <1>5, <1>6, <1>9, <1>10
  <2>6. \A d \in Calls : call'[d].pc = "drain" /\ call'[d].gen = tps'.gen =>
           call'[d].coll = None \/ collector'[call'[d].coll] = "closed"
    <3> SUFFICES ASSUME NEW d \in Calls, call'[d].pc = "drain", call'[d].gen = tps'.gen,
                        call'[d].coll # None
                 PROVE  collector'[call'[d].coll] = "closed"
      OBVIOUS
    <3>1. call[d].pc = "drain" /\ call[d].gen = tps.gen /\ call[d].coll # None
      BY <1>5, <1>6, <1>9
    <3>2. collector[call[d].coll] = "closed"
      BY <1>11, <3>1 DEF TpsInv, CollInv
    <3>3. QED
      BY <2>1, <3>1, <3>2
  <2>7. \A d \in Calls : call'[d].pc = "restore" =>
           call'[d].coll = None \/ collector'[call'[d].coll] = "closed"
    <3> SUFFICES ASSUME NEW d \in Calls, call'[d].pc = "restore", call'[d].coll # None
                 PROVE  collector'[call'[d].coll] = "closed"
      OBVIOUS
    <3>1. call[d].coll # None /\ collector[call[d].coll] = "closed"
      BY <1>9, <1>11 DEF TpsInv, CollInv
    <3>2. QED
      BY <2>1, <3>1
  <2>8. QED
    BY <2>2, <2>3, <2>4, <2>5, <2>6, <2>7 DEF CollInv
<1>16. QED
  BY <1>12, <1>13, <1>14, <1>15 DEF TpsInv

(* Only the handler that restored for this session adds listeners, and there are *)
(* none at that time.                                                             *)
LEMMA ListensKeeps ==
    ASSUME TpsInv, NEW c \in Calls, StartDone(c)
    PROVE  TpsInv'
<1>1. /\ call[c].pc = "restore" /\ tps.gen = call[c].gen
      /\ call' = [call EXCEPT ![c].pc = "done"] /\ probes' = probes \cup {c}
      /\ UNCHANGED <<collector, recovery, micro, turns>>
  BY DEF StartDone
<1>2. PICK subagents \in BOOLEAN :
         /\ tps' = IF subagents THEN [tps EXCEPT !.probe = c, !.dirs = TRUE, !.watch = TRUE,
                                                 !.scan = FALSE, !.bridge = c]
                   ELSE [tps EXCEPT !.probe = c]
         /\ bridges' = IF subagents THEN bridges \cup {c} ELSE bridges
  BY DEF StartDone
<1>3. TpsTypes /\ tps \in TpsRecords /\ call \in [Calls -> CallRecords]
  BY DEF TpsInv, TpsTypes
<1>4. tps.active /\ bridges = {} /\ probes = {}
  BY <1>1 DEF TpsInv, RestInv
<1>5. /\ tps' \in TpsRecords
      /\ tps'.gen = tps.gen /\ tps'.active /\ tps'.rec = tps.rec /\ tps'.coll = tps.coll
      /\ bridges' \subseteq {tps'.bridge} \ {None} /\ probes' \subseteq {tps'.probe} \ {None}
  BY <1>1, <1>2, <1>3, <1>4, NoneIsNoCall DEF TpsRecords
<1> DEFINE r == [call[c] EXCEPT !.pc = "done"]
<1>6. call' = [call EXCEPT ![c] = r] /\ r \in CallRecords /\ r.pc = "done"
      /\ r.gen = call[c].gen /\ r.coll = call[c].coll
  BY <1>1, <1>3 DEF CallRecords
<1> HIDE DEF r
<1>7. /\ Cardinality(Begun') = Cardinality(Begun) + (IF call[c].pc = "new" THEN 1 ELSE 0)
      /\ Cardinality(Draining') =
            Cardinality(Draining) + (IF r.pc = "drain" /\ call[c].pc # "drain" THEN 1 ELSE 0)
                                  - (IF r.pc # "drain" /\ call[c].pc = "drain" THEN 1 ELSE 0)
      /\ call' \in [Calls -> CallRecords]
  BY <1>3, <1>6, CallMoves
<1>8. \A d \in Calls : /\ call'[d].pc = IF d = c THEN "done" ELSE call[d].pc
                       /\ call'[d].gen = call[d].gen /\ call'[d].coll = call[d].coll
                       /\ call[d].coll # None => call[d].coll \in Calls
  BY <1>3, <1>6 DEF CallRecords
<1>9. call[c].coll = None \/ collector[call[c].coll] = "closed"
  BY <1>1 DEF TpsInv, CollInv
<1>10. TpsTypes'
  BY <1>1, <1>3, <1>5, <1>7 DEF TpsTypes
<1>11. GenInv'
  <2>1. tps'.gen + Cardinality(Draining') <= Cardinality(Begun')
    BY <1>1, <1>5, <1>6, <1>7, BegunBounded DEF TpsInv, GenInv
  <2>2. QED
    BY <1>1, <1>5, <1>8, <2>1 DEF TpsInv, GenInv
<1>12. RestInv'
  <2>1. \A d \in Calls : ~(call'[d].pc = "restore" /\ call'[d].gen = tps'.gen)
    BY <1>1, <1>5, <1>8 DEF TpsInv, GenInv
  <2>2. QED
    BY <1>5, <2>1 DEF RestInv, OneListener
<1>13. CollInv'
  <2>1. UnderWay' = UnderWay \ {c}
    BY <1>1, <1>8 DEF UnderWay
  <2>2. \A j \in Calls : collector'[j] = "closing" =>
           \E d \in Calls : call'[d].pc \in {"close", "end"} /\ call'[d].coll = j
    BY <1>1, <1>8 DEF TpsInv, CollInv
  <2>3. CollectorsEnd'
    <3> SUFFICES ASSUME NEW k \in Calls, collector[k] = "open", tps.coll # k
                 PROVE  \E d \in UnderWay' : call'[d].coll = k
      BY <1>1, <1>5 DEF CollectorsEnd
    <3>1. PICK d \in UnderWay : call[d].coll = k
      BY DEF TpsInv, CollInv, CollectorsEnd
    <3>2. d # c
      BY <1>9, <3>1, NoneIsNoCall
    <3>3. QED
      BY <1>8, <2>1, <3>1, <3>2 DEF UnderWay
  <2>4. QED
    BY <1>1, <1>5, <1>8, <2>2, <2>3 DEF TpsInv, CollInv
<1>14. QED
  BY <1>10, <1>11, <1>12, <1>13 DEF TpsInv

(* A shutdown takes the session's listeners at once, and lets its recovery drain. *)
LEMMA ShutdownKeeps ==
    ASSUME TpsInv, NEW c \in Calls, SessionShutdown(c)
    PROVE  TpsInv'
<1> DEFINE r == [pc |-> "drain", gen |-> tps.gen, rec |-> tps.rec, coll |-> tps.coll]
<1>1. /\ TpsTypes /\ tps \in TpsRecords /\ call \in [Calls -> CallRecords]
      /\ tps' = [tps EXCEPT !.bridge = None, !.probe = None, !.watch = FALSE, !.scan = FALSE,
                            !.refresh = FALSE, !.ctx = FALSE, !.shown = "none"]
      /\ call[c].pc = "new" /\ recovery' = Stopping(tps.rec)
      /\ bridges' = bridges \ {tps.bridge} /\ probes' = probes \ {tps.probe}
      /\ UNCHANGED <<collector, micro, turns>>
  BY DEF TpsInv, TpsTypes, SessionShutdown, May, WatchDropped, Unregistered, TpsRecords
<1>2. tps.gen \in Nat /\ tps.rec \in Calls \cup {None} /\ tps.coll \in Calls \cup {None}
  BY <1>1 DEF TpsRecords
<1>3. tps' \in TpsRecords
  BY <1>1 DEF TpsRecords
<1>4. /\ tps'.gen = tps.gen /\ tps'.rec = tps.rec /\ tps'.coll = tps.coll
      /\ tps'.active = tps.active
  BY <1>1 DEF TpsRecords
<1>5. /\ ~tps'.refresh /\ ~tps'.watch /\ ~tps'.ctx /\ tps'.shown = "none"
      /\ tps'.poll = tps.poll /\ tps'.dirs = tps.dirs /\ tps'.turn = tps.turn
      /\ tps'.bridge = None /\ tps'.probe = None
  BY <1>1 DEF TpsRecords
<1>6. call' = [call EXCEPT ![c] = r] /\ r \in CallRecords /\ r.pc = "drain"
      /\ r.gen = tps.gen /\ r.coll = tps.coll
  BY <1>2 DEF SessionShutdown, CallRecords
<1> HIDE DEF r
<1>7. /\ Cardinality(Begun') = Cardinality(Begun) + 1
      /\ Cardinality(Draining') = Cardinality(Draining) + 1
      /\ call' \in [Calls -> CallRecords]
  <2>1. /\ Cardinality(Begun') = Cardinality(Begun) + (IF call[c].pc = "new" THEN 1 ELSE 0)
        /\ Cardinality(Draining') =
              Cardinality(Draining) + (IF r.pc = "drain" /\ call[c].pc # "drain" THEN 1 ELSE 0)
                                    - (IF r.pc # "drain" /\ call[c].pc = "drain" THEN 1 ELSE 0)
        /\ call' \in [Calls -> CallRecords]
    BY <1>1, <1>6, CallMoves
  <2>2. QED
    BY <1>1, <1>6, <2>1, BegunBounded
<1>8. \A d \in Calls : call'[d] = IF d = c THEN r ELSE call[d]
  BY <1>1, <1>6
<1>9. TpsTypes'
  BY <1>1, <1>2, <1>3, <1>7, Stops DEF TpsTypes
<1>10. GenInv'
  <2>1. tps'.gen + Cardinality(Draining') <= Cardinality(Begun')
    BY <1>2, <1>4, <1>7, BegunBounded DEF TpsInv, GenInv
  <2>2. QED
    BY <1>2, <1>4, <1>6, <1>8, <2>1 DEF TpsInv, GenInv
<1>11. RestInv'
  BY <1>1, <1>4, <1>5, <1>6, <1>8 DEF TpsInv, RestInv, OneListener
<1>12. CollInv'
  <2>1. UnderWay' = UnderWay \cup {c} /\ c \notin UnderWay
    BY <1>1, <1>6, <1>8 DEF UnderWay
  <2>2. \A k \in Calls : collector[k] = "closing" =>
           \E d \in Calls : call'[d].pc \in {"close", "end"} /\ call'[d].coll = k
    <3> SUFFICES ASSUME NEW k \in Calls, collector[k] = "closing"
                 PROVE  \E d \in Calls : call'[d].pc \in {"close", "end"} /\ call'[d].coll = k
      OBVIOUS
    <3>1. PICK d \in Calls : call[d].pc \in {"close", "end"} /\ call[d].coll = k
      BY DEF TpsInv, CollInv
    <3>2. QED
      BY <1>1, <1>8, <3>1
  <2>3. CollectorsEnd'
    <3> SUFFICES ASSUME NEW k \in Calls, collector[k] = "open", tps.coll # k
                 PROVE  \E d \in UnderWay' : call'[d].coll = k
      BY <1>1, <1>4 DEF CollectorsEnd
    <3>1. PICK d \in UnderWay : call[d].coll = k
      BY DEF TpsInv, CollInv, CollectorsEnd
    <3>2. QED
      BY <1>8, <2>1, <3>1 DEF UnderWay
  <2>4. \A d \in Calls : call'[d].pc \in {"new", "stop", "close"} => collector'[d] = "none"
    BY <1>1, <1>6, <1>8 DEF TpsInv, CollInv
  <2>5. \A d \in Calls : call'[d].pc = "restore" =>
           call'[d].coll = None \/ collector'[call'[d].coll] = "closed"
    BY <1>1, <1>6, <1>8 DEF TpsInv, CollInv
  <2>6. \A d \in Calls : call'[d].pc \in {"stop", "close"} /\ call'[d].gen = tps'.gen =>
           call'[d].coll = tps'.coll
    BY <1>4, <1>6, <1>8 DEF TpsInv, CollInv
  <2>7. \A d \in Calls : call'[d].pc = "drain" /\ call'[d].gen = tps'.gen =>
           call'[d].coll \in {tps'.coll, None} \/ collector'[call'[d].coll] = "closed"
    BY <1>1, <1>4, <1>6, <1>8 DEF TpsInv, CollInv
  <2>8. QED
    BY <1>1, <2>2, <2>3, <2>4, <2>5, <2>6, <2>7 DEF CollInv
<1>13. QED
  BY <1>9, <1>10, <1>11, <1>12 DEF TpsInv

(* What session_shutdown leaves of a session is a session's state. *)
LEMMA SessionLeft ==
    ASSUME NEW s \in TpsRecords, NEW g \in Nat
    PROVE  [s EXCEPT !.watch = FALSE, !.scan = FALSE,
               !.gen = g, !.active = FALSE, !.rec = None, !.coll = None, !.turn = FALSE,
               !.ctx = FALSE, !.dirs = FALSE, !.refresh = FALSE, !.poll = FALSE,
               !.latch = FALSE, !.shown = "none"] \in TpsRecords
BY ZenonT(120) DEF TpsRecords

(* Drained, it takes everything down once more and closes the collector the session *)
(* has by now.                                                                       *)
LEMMA TakenDownKeeps ==
    ASSUME TpsInv, NEW c \in Calls, ShutdownSession(c)
    PROVE  TpsInv'
<1> DEFINE r == [call[c] EXCEPT !.pc = "end", !.coll = tps.coll]
           k == tps.coll
<1>1. /\ TpsTypes /\ tps \in TpsRecords /\ call \in [Calls -> CallRecords]
      /\ call[c].pc = "drain" /\ tps.gen = call[c].gen /\ collector' = Closing(k)
      /\ UNCHANGED <<recovery, bridges, probes, micro, turns>>
  BY DEF TpsInv, TpsTypes, ShutdownSession
<1>2. tps.gen \in Nat /\ tps.gen + 1 \in Nat /\ k \in Calls \cup {None}
  BY <1>1 DEF TpsRecords
<1>3. tps' = [tps EXCEPT !.watch = FALSE, !.scan = FALSE,
                 !.gen = @ + 1, !.active = FALSE, !.rec = None, !.coll = None, !.turn = FALSE,
                 !.ctx = FALSE, !.dirs = FALSE, !.refresh = FALSE, !.poll = FALSE,
                 !.latch = FALSE, !.shown = "none"]
  BY <1>1 DEF ShutdownSession, WatchDropped, TpsRecords
<1>4. tps' \in TpsRecords
  <2>1. \A g \in Nat : [tps EXCEPT !.watch = FALSE, !.scan = FALSE,
           !.gen = g, !.active = FALSE, !.rec = None, !.coll = None, !.turn = FALSE,
           !.ctx = FALSE, !.dirs = FALSE, !.refresh = FALSE, !.poll = FALSE,
           !.latch = FALSE, !.shown = "none"] \in TpsRecords
    BY <1>1, SessionLeft
  <2>2. QED
    BY <1>2, <1>3, <2>1, Zenon
<1>5. tps'.gen = tps.gen + 1 /\ tps'.rec = None /\ tps'.coll = None /\ ~tps'.active
  BY <1>1, <1>3 DEF TpsRecords
<1>6. ~tps'.refresh /\ ~tps'.watch /\ ~tps'.ctx /\ tps'.shown = "none"
  BY <1>1, <1>3 DEF TpsRecords
<1>7. ~tps'.poll /\ ~tps'.dirs /\ ~tps'.turn
  BY <1>1, <1>3 DEF TpsRecords
<1>8. tps'.bridge = tps.bridge /\ tps'.probe = tps.probe
  BY <1>1, <1>3 DEF TpsRecords
<1>9. call' = [call EXCEPT ![c] = r] /\ r \in CallRecords /\ r.pc = "end"
      /\ r.gen = tps.gen /\ r.coll = k
  BY <1>1, <1>2 DEF ShutdownSession, CallRecords
<1> HIDE DEF r
<1>10. /\ Cardinality(Begun') = Cardinality(Begun)
       /\ Cardinality(Draining') = Cardinality(Draining) - 1
       /\ call' \in [Calls -> CallRecords]
  <2>1. /\ Cardinality(Begun') = Cardinality(Begun) + (IF call[c].pc = "new" THEN 1 ELSE 0)
        /\ Cardinality(Draining') =
              Cardinality(Draining) + (IF r.pc = "drain" /\ call[c].pc # "drain" THEN 1 ELSE 0)
                                    - (IF r.pc # "drain" /\ call[c].pc = "drain" THEN 1 ELSE 0)
        /\ call' \in [Calls -> CallRecords]
    BY <1>1, <1>9, CallMoves
  <2>2. QED
    BY <1>1, <1>9, <2>1, BegunBounded
<1>11. \A d \in Calls : call'[d] = IF d = c THEN r ELSE call[d]
  BY <1>1, <1>9
<1>12. /\ collector' \in [Calls -> {"none", "open", "closing", "closed"}]
       /\ \A j \in Calls : collector'[j] =
             IF j = k /\ collector[j] = "open" THEN "closing" ELSE collector[j]
  BY <1>1, <1>2, Closes
<1>13. \A d \in Calls : call[d].coll # None => call[d].coll \in Calls
  BY <1>1 DEF CallRecords
<1>14. TpsTypes'
  BY <1>1, <1>4, <1>10, <1>12 DEF TpsTypes
<1>15. \A d \in Calls : call'[d].gen <= tps.gen /\ call'[d].gen \in Nat
  BY <1>1, <1>2, <1>9, <1>11 DEF TpsInv, GenInv, CallRecords
<1>16. GenInv'
  <2>1. tps'.gen + Cardinality(Draining') <= Cardinality(Begun')
    BY <1>2, <1>5, <1>10, BegunBounded DEF TpsInv, GenInv
  <2>2. \A d \in Calls : call'[d].gen <= tps'.gen
    BY <1>2, <1>5, <1>15
  <2>3. QED
    BY <1>1, <1>5, <1>9, <1>11, <2>1, <2>2 DEF TpsInv, GenInv
<1>17. \A d \in Calls : call'[d].gen # tps'.gen
  BY <1>2, <1>5, <1>15
<1>18. RestInv'
  BY <1>1, <1>5, <1>6, <1>7, <1>8, <1>17 DEF TpsInv, RestInv, OneListener
<1>19. CollInv'
  <2>1. \A d \in Calls : call[d].coll # None /\ collector[call[d].coll] = "closed" =>
           collector'[call[d].coll] = "closed"
    BY <1>12, <1>13
  <2>2. \A j \in Calls : collector'[j] = "closing" =>
           \E d \in Calls : call'[d].pc \in {"close", "end"} /\ call'[d].coll = j
    <3> SUFFICES ASSUME NEW j \in Calls, collector'[j] = "closing"
                 PROVE  \E d \in Calls : call'[d].pc \in {"close", "end"} /\ call'[d].coll = j
      OBVIOUS
    <3>1. CASE j = k
      BY <1>9, <1>11, <3>1
    <3>2. CASE j # k
      <4>1. PICK d \in Calls : call[d].pc \in {"close", "end"} /\ call[d].coll = j
        BY <1>12, <3>2 DEF TpsInv, CollInv
      <4>2. QED
        BY <1>1, <1>11, <4>1
    <3>3. QED
      BY <3>1, <3>2
  <2>3. CollectorsEnd'
    <3> SUFFICES ASSUME NEW j \in Calls, collector'[j] = "open"
                 PROVE  \E d \in UnderWay' : call'[d].coll = j
      BY DEF CollectorsEnd
    <3>1. j # k /\ collector[j] = "open"
      BY <1>12
    <3>2. PICK d \in UnderWay : call[d].coll = j
      BY <3>1 DEF TpsInv, CollInv, CollectorsEnd
    <3>3. d # c
      BY <1>1, <3>1, <3>2, NoneIsNoCall DEF TpsInv, CollInv
    <3>4. QED
      BY <1>11, <3>2, <3>3 DEF UnderWay
  <2>4. \A d \in Calls : call'[d].pc \in {"new", "stop", "close"} => collector'[d] = "none"
    BY <1>9, <1>11, <1>12 DEF TpsInv, CollInv
  <2>5. \A d \in Calls : call'[d].pc = "restore" =>
           call'[d].coll = None \/ collector'[call'[d].coll] = "closed"
    BY <1>9, <1>11, <2>1 DEF TpsInv, CollInv
  <2>6. QED
    BY <1>17, <2>2, <2>3, <2>4, <2>5 DEF CollInv
<1>20. QED
  BY <1>14, <1>16, <1>18, <1>19 DEF TpsInv

LEMMA TpsStepKeeps == TpsInv /\ [TpsNext]_tpsVars => TpsInv'
<1> SUFFICES ASSUME TpsInv, [TpsNext]_tpsVars PROVE TpsInv'
  OBVIOUS
<1>1. CASE UNCHANGED tpsVars
  BY <1>1, DrawKeeps DEF tpsVars, TpsInv, TpsTypes, RestInv
<1>2. CASE \E c \in Calls :
              \/ SessionStart(c) \/ StartCloses(c) \/ StartOvertaken(c) \/ StartSession(c)
              \/ RestoreOvertaken(c) \/ StartDone(c)
              \/ SessionShutdown(c) \/ ShutdownOvertaken(c) \/ ShutdownSession(c)
              \/ ShutdownEnds(c) \/ RecoveryGoesOn(c) \/ CollectorCloses(c)
  BY <1>2, StartKeeps, ClosingKeeps, ReturnKeeps, NewSessionKeeps, ListensKeeps,
     ShutdownKeeps, TakenDownKeeps, RecoveryKeeps, CloseEndKeeps
<1>3. CASE \/ BeforeAgentStart \/ AgentSettled \/ SettledTask \/ RefreshTick \/ RecoveryChange
           \/ WatcherEvent \/ ScanTimer
           \/ (\E m \in micro : Microtask(m)) \/ (\E b \in Calls : BridgeEvent(b))
  BY <1>3, FooterKeeps
<1>4. QED
  BY <1>1, <1>2, <1>3 DEF TpsNext

LEMMA TpsInvImplies == TpsInv => TpsTypeOK /\ SessionsEndClean
<1> SUFFICES ASSUME TpsInv PROVE TpsTypeOK /\ SessionsEndClean
  OBVIOUS
<1>1. TpsTypes /\ tps \in TpsRecords
  BY DEF TpsInv, TpsTypes
<1>2. tps.gen \in 0 .. 2 * Cardinality(Calls)
  BY <1>1, BegunBounded DEF TpsInv, GenInv, TpsRecords
<1>3. TpsTypeOK
  BY <1>1, <1>2 DEF TpsTypeOK, TpsTypes, TpsRecords, TpsInv, GenInv
<1>4. NothingLeaks
  <2> SUFFICES ASSUME UnderWay = {}, ~tps.active
               PROVE  /\ ~tps.refresh /\ ~tps.poll /\ ~tps.watch /\ ~tps.ctx /\ tps.shown = "none"
                      /\ tps.coll = None
                      /\ \A c \in Calls : collector[c] \in {"none", "closed"}
    BY DEF NothingLeaks
  <2>1. tps.coll = None
    BY DEF TpsInv, RestInv
  <2>2. \A c \in Calls : collector[c] # "open"
    BY <2>1, NoneIsNoCall DEF TpsInv, CollInv, CollectorsEnd
  <2>3. \A c \in Calls : collector[c] # "closing"
    BY DEF TpsInv, CollInv, UnderWay
  <2>4. QED
    BY <1>1, <2>1, <2>2, <2>3 DEF TpsInv, RestInv, TpsTypes
<1>5. QED
  BY <1>3, <1>4 DEF SessionsEndClean, TpsInv, RestInv, CollInv

(* What the handlers rely on in every state: generations are told apart, a session *)
(* that is not active has nothing left, and each collector is somebody's to close. *)
THEOREM TpsInvariant == TpsSpec => []TpsInv
<1>1. QED
  BY TpsInitially, TpsStepKeeps, PTL DEF TpsSpec

(* The status line's variables keep their types, and the generation never passes *)
(* the number of session events twice over, however they overlap (tps.ts).       *)
THEOREM TpsTypesCorrect == TpsSpec => []TpsTypeOK
<1>1. QED
  BY TpsInvariant, TpsInvImplies, PTL

(* However many session events come, and however they overlap at their awaits: a   *)
(* session that was shut down leaves no timer, watcher, poll or footer; no collector *)
(* stays open for good; one listener of each kind hears an event (tps.ts).          *)
THEOREM SessionsAlwaysEndClean == TpsSpec => []SessionsEndClean
<1>1. QED
  BY TpsInvariant, TpsInvImplies, PTL

-----------------------------------------------------------------------------
(* The model audit *)

Marker == [tok : Int, root : Roots \cup {0}, seq : Nat]
Role ==
    [kind : {"none", "owner", "follower"}, m : Marker, written : Marker, before : Marker,
     turn : BOOLEAN]
Instance ==
    [up : BOOLEAN, active : BOOLEAN, gen : Nat, role : Role, flush : SUBSET Reqs]
Request ==
    [pc : {"new", "sent", "done"}, inst : Insts \cup {0}, gen : Nat, m : Marker, at : Nat]
TurnId == [tok : Int, seq : Nat]
Turn == [of : TurnId, n : Nat]
RootEntry ==
    [root : Roots \cup {0}, all : Nat, unattributed : Nat, turns : Seq(Turn), at : Nat]
HistoryFile ==
    [status : {"ok", "missing", "corrupt", "newer"}, roots : SUBSET RootEntry, records : Seq(Reqs)]

AuditTypes ==
    /\ marker \in [Process -> Marker] /\ given \in [Process -> Marker]
    /\ inst \in [Insts -> Instance] /\ req \in [Reqs -> Request]
    /\ starts \in Nat /\ history \in HistoryFile
    /\ fate \in [Reqs -> {"none", "pending", "counted", "failed", "cleared", "lost"}]
    /\ writes = {r \in Reqs : fate[r] = "pending"}

(* A session's own instance is alone to own the marker, which then is its; a
   hosted one follows.  An owner took the process's own marker's place. *)
MarkerInv ==
    /\ MarkerIsTheMains
    /\ \A i \in Insts :
          LET role == inst[i].role IN
          /\ inst[i].active => role.kind # "none"
          /\ inst[i].gen = 0 => role = NoRole /\ ~inst[i].active
          /\ role.kind = "owner" => /\ i \in Mains /\ Valid(role.m) /\ role.written = role.m
                                    /\ role.before = given[ProcessOf(i)]
          /\ role.kind = "follower" /\ i \in Mains => Valid(given[ProcessOf(i)])

(* A request remembers the marker of its session's generation. *)
RequestsInv ==
    \A r \in Reqs :
        /\ req[r].pc # "done" => fate[r] = "none"
        /\ req[r].pc = "sent" =>
              /\ req[r].inst \in Insts /\ req[r].gen <= inst[req[r].inst].gen
              /\ req[r].gen = inst[req[r].inst].gen =>
                    /\ inst[req[r].inst].role.m.tok = req[r].m.tok
                    /\ req[r].m.seq <= inst[req[r].inst].role.m.seq

(* One entry counts for the set C of what was written for its root. *)
OfTurnIn(C, t) == {r \in C : req[r].m.seq # 0 /\ TurnOf(req[r].m) = t}
Apart(list) == \A j, k \in DOMAIN list : list[j].of = list[k].of => j = k
Counts(e, C) ==
    /\ e.all = Cardinality(C) /\ e.unattributed = Cardinality({r \in C : req[r].m.seq = 0})
    /\ Len(e.turns) <= MaxTurnsPerRoot /\ Apart(e.turns)
    /\ \A k \in DOMAIN e.turns :
          LET n == Cardinality(OfTurnIn(C, e.turns[k].of)) IN
          /\ 1 <= e.turns[k].n /\ e.turns[k].n <= n
          /\ Len(e.turns) < MaxTurnsPerRoot => e.turns[k].n = n
    /\ Len(e.turns) < MaxTurnsPerRoot =>
          \A r \in C : req[r].m.seq # 0 => \E k \in DOMAIN e.turns : e.turns[k].of = TurnOf(req[r].m)
CountsInv ==
    /\ \A e \in history.roots : Counts(e, InFile(e.root))
    /\ \A e, o \in history.roots : e.root = o.root => e = o
    /\ IsFiniteSet(history.roots) /\ Cardinality(history.roots) <= MaxRoots
    /\ Len(history.records) <= MaxRecords
    /\ history.status # "ok" => history.roots = {} /\ history.records = <<>>

AuditInv == AuditTypes /\ MarkerInv /\ RequestsInv /\ CountsInv

LEMMA RoleParts ==
    ASSUME NEW i \in Insts, AuditTypes
    PROVE  /\ inst[i] \in Instance /\ inst[i].role \in Role /\ ProcessOf(i) \in Process
           /\ inst[i].role.m \in Marker /\ inst[i].role.before \in Marker
           /\ inst[i].role.written \in Marker /\ NoMarker \in Marker /\ NoRole \in Role
           /\ marker[ProcessOf(i)] \in Marker /\ given[ProcessOf(i)] \in Marker
<1>1. inst[i] \in Instance /\ ProcessOf(i) \in Process
  BY DEF AuditTypes, ProcessOf, Process
<1>2. inst[i].role \in Role
  BY <1>1 DEF Instance
<1>3. NoMarker \in Marker
  BY DEF NoMarker, Marker
<1>4. NoRole \in Role
  BY <1>3 DEF NoRole, Role
<1>5. QED
  BY <1>1, <1>2, <1>3, <1>4 DEF Role, AuditTypes

(* The marker is its instance's, so that it is taken back for what was there
   before. *)
LEMMA MainReleases ==
    ASSUME AuditTypes, MarkerInv, NEW i \in Insts
    PROVE  Found(i) = IF i \in Mains THEN given[ProcessOf(i)] ELSE marker[ProcessOf(i)]
<1>1. CASE inst[i].role.kind = "owner"
  <2>1. i \in Mains /\ marker[ProcessOf(i)] = inst[i].role.m /\ inst[i].role.written = inst[i].role.m
        /\ inst[i].role.before = given[ProcessOf(i)]
    BY <1>1 DEF MarkerInv, MarkerIsTheMains
  <2>2. QED
    BY <1>1, <2>1 DEF Found, Release
<1>2. CASE inst[i].role.kind # "owner"
  BY <1>2 DEF Found, Release, MarkerInv, MarkerIsTheMains
<1>3. QED
  BY <1>1, <1>2

LEMMA StartTypes ==
    ASSUME AuditTypes, NEW i \in Insts, AuditStart(i)
    PROVE  AuditTypes'
<1> USE AuditAssumption
<1>1. PICK enabled \in BOOLEAN, root \in Roots :
        LET role == RoleOf(i, enabled, Found(i), [tok |-> starts', root |-> root, seq |-> 0]) IN
         /\ inst' = [inst EXCEPT ![i] = [up |-> TRUE, active |-> enabled, gen |-> @.gen + 1,
                                         role |-> role, flush |-> {}]]
         /\ marker' = [marker EXCEPT ![ProcessOf(i)] = IF role.kind = "owner" THEN role.m
                                                       ELSE Found(i)]
  BY DEF AuditStart
<1> DEFINE new == [tok |-> starts', root |-> root, seq |-> 0]
           role == RoleOf(i, enabled, Found(i), new)
<1>2. new \in Marker /\ Found(i) \in Marker /\ starts' \in Nat
  BY RoleParts DEF AuditTypes, AuditStart, Marker, Found, Release
<1>3. role \in Role
  BY <1>2, RoleParts DEF RoleOf, Role, NoRole
<1> HIDE DEF role
<1>4. [up |-> TRUE, active |-> enabled, gen |-> inst[i].gen + 1, role |-> role, flush |-> {}]
         \in Instance
  BY <1>3, RoleParts DEF Instance
<1>5. role.m \in Marker
  BY <1>3 DEF Role
<1>6. inst' \in [Insts -> Instance] /\ marker' \in [Process -> Marker]
  <2>1. /\ inst' = [inst EXCEPT ![i] = [up |-> TRUE, active |-> enabled, gen |-> @.gen + 1,
                                         role |-> role, flush |-> {}]]
        /\ marker' = [marker EXCEPT ![ProcessOf(i)] = IF role.kind = "owner" THEN role.m
                                                       ELSE Found(i)]
    BY <1>1 DEF role
  <2>2. QED
    BY <1>2, <1>4, <1>5, <2>1 DEF AuditTypes
<1>7. QED
  BY <1>2, <1>6 DEF AuditTypes, AuditStart

LEMMA StartMarkers ==
    ASSUME AuditTypes, MarkerInv, NEW i \in Insts, AuditStart(i)
    PROVE  MarkerInv'
<1> USE AuditAssumption
<1>1. PICK enabled \in BOOLEAN, root \in Roots :
        LET role == RoleOf(i, enabled, Found(i), [tok |-> starts', root |-> root, seq |-> 0]) IN
         /\ inst' = [inst EXCEPT ![i] = [up |-> TRUE, active |-> enabled, gen |-> @.gen + 1,
                                         role |-> role, flush |-> {}]]
         /\ marker' = [marker EXCEPT ![ProcessOf(i)] = IF role.kind = "owner" THEN role.m
                                                       ELSE Found(i)]
  BY DEF AuditStart
<1> DEFINE new == [tok |-> starts', root |-> root, seq |-> 0]
           role == RoleOf(i, enabled, Found(i), new)
           p == ProcessOf(i)
<1>2. starts' \in Nat /\ starts' = starts + 1 /\ given' = given /\ starts \in Nat
  BY DEF AuditTypes, AuditStart
<1>3. Valid(new)
  BY <1>2 DEF Valid
<1>4. /\ inst'[i].role = role /\ inst'[i].active = enabled /\ inst'[i].gen = inst[i].gen + 1
      /\ \A j \in Insts \ {i} : inst'[j] = inst[j]
      /\ inst[i].gen \in Nat
  <2>1. inst[i] \in Instance /\ DOMAIN inst = Insts
    BY RoleParts DEF AuditTypes
  <2> HIDE DEF role
  <2>2. inst' = [inst EXCEPT ![i] = [up |-> TRUE, active |-> enabled, gen |-> @.gen + 1,
                                         role |-> role, flush |-> {}]]
    BY <1>1 DEF role
  <2>3. \A j \in Insts \ {i} : inst'[j] = inst[j]
    BY <2>1, <2>2
  <2>4. inst'[i] = [up |-> TRUE, active |-> enabled, gen |-> inst[i].gen + 1,
                  role |-> role, flush |-> {}]
    BY <2>1, <2>2
  <2>5. QED
    BY <2>1, <2>3, <2>4 DEF Instance
<1>5. /\ marker'[p] = IF role.kind = "owner" THEN role.m ELSE Found(i)
      /\ \A q \in Process \ {p} : marker'[q] = marker[q]
  <2>1. DOMAIN marker = Process /\ p \in Process
    BY RoleParts DEF AuditTypes
  <2> HIDE DEF role
  <2>2. marker' = [marker EXCEPT ![p] = IF role.kind = "owner" THEN role.m ELSE Found(i)]
    BY <1>1 DEF role
  <2>3. QED
    BY <2>1, <2>2
<1>6. /\ role.kind = "owner" => role.m = new /\ role.written = new /\ role.before = Found(i)
      /\ role.kind = "follower" => Valid(Found(i)) /\ enabled
      /\ enabled => role.kind # "none"
  BY DEF RoleOf, NoRole
<1>7. CASE i \in Mains
  <2>1. Found(i) = given[p]
    BY <1>7, MainReleases
  <2>2. \A j \in Mains \ {i} : ProcessOf(j) # p /\ ProcessOf(j) \in Process
    BY <1>7, RoleParts
  <2> HIDE DEF role, new
  <2>3. MarkerIsTheMains'
    <3>1. ASSUME NEW j \in Mains
          PROVE  marker'[ProcessOf(j)] = IF inst'[j].role.kind = "owner" THEN inst'[j].role.m
                                         ELSE given'[ProcessOf(j)]
      <4>1. CASE j = i
        BY <1>2, <1>4, <1>5, <1>6, <2>1, <4>1
      <4>2. CASE j # i
        BY <1>2, <1>4, <1>5, <2>2, <4>2 DEF MarkerInv, MarkerIsTheMains
      <4>3. QED
        BY <4>1, <4>2
    <3>2. QED
      BY <3>1 DEF MarkerIsTheMains
  <2>4. QED
    BY <1>2, <1>3, <1>4, <1>6, <1>7, <2>1, <2>3 DEF MarkerInv, Valid
<1>8. CASE i \notin Mains
  <2>1. Found(i) = marker[p]
    BY <1>8, MainReleases
  <2>2. PICK j \in Mains : ProcessOf(j) = p /\ inst[j].active
    BY <1>8 DEF AuditStart, Hosted, In
  <2>3. Valid(marker[p])
    <3>1. inst[j].role \in Role
      BY RoleParts
    <3>2. inst[j].role.kind \in {"owner", "follower"}
      BY <2>2, <3>1 DEF MarkerInv, Role
    <3>3. QED
      BY <2>2, <3>2 DEF MarkerInv, MarkerIsTheMains
  <2>4. role.kind # "owner" /\ role.kind \in {"none", "follower"}
    BY <1>8, <2>1, <2>3 DEF RoleOf, NoRole
  <2> HIDE DEF role, new
  <2>5. MarkerIsTheMains'
    <3>1. \A q \in Process : marker'[q] = marker[q]
      BY <1>5, <2>1, <2>4
    <3>2. \A k \in Mains : inst'[k] = inst[k] /\ ProcessOf(k) \in Process
      BY <1>4, <1>8, RoleParts
    <3>3. QED
      BY <1>2, <3>1, <3>2 DEF MarkerInv, MarkerIsTheMains
  <2>6. QED
    BY <1>2, <1>4, <1>6, <1>8, <2>4, <2>5 DEF MarkerInv
<1>9. QED
  BY <1>7, <1>8


(* A step that gives no marker or session away: of the instances, only what
   their writes wait for, and of the environment, nothing. *)
LEMMA MarkersStay ==
    ASSUME MarkerInv, UNCHANGED <<marker, given>>,
           \A i \in Insts : /\ inst'[i].role = inst[i].role /\ inst'[i].active = inst[i].active
                            /\ inst'[i].gen = inst[i].gen
    PROVE  MarkerInv'
BY AuditAssumption DEF MarkerInv, MarkerIsTheMains

LEMMA TurnStep ==
    ASSUME AuditTypes, MarkerInv, NEW i \in Insts, BeforeTurn(i)
    PROVE  /\ AuditTypes' /\ MarkerInv'
           /\ \A j \in Insts : inst'[j].gen = inst[j].gen /\ inst'[j].active = inst[j].active
           /\ \A j \in Insts : /\ inst'[j].role.m.tok = inst[j].role.m.tok
                               /\ inst[j].role.m.seq <= inst'[j].role.m.seq
<1> USE AuditAssumption
<1> DEFINE role == inst[i].role
           next == [role EXCEPT !.m.seq = @ + 1, !.turn = TRUE]
           p == ProcessOf(i)
           after == [next EXCEPT !.written = IF marker[p] = @ THEN next.m ELSE @]
<1>1. /\ role.kind = "owner"
      /\ marker' = [marker EXCEPT ![p] = Publish(@, next)] /\ inst' = [inst EXCEPT ![i].role = after]
      /\ UNCHANGED <<given, req, writes, history, starts, fate>>
  BY DEF BeforeTurn
<1>2. /\ i \in Mains /\ Valid(role.m) /\ role.written = role.m /\ role.before = given[p]
      /\ marker[p] = role.m /\ role \in Role /\ inst[i] \in Instance /\ p \in Process
  BY <1>1, RoleParts DEF MarkerInv, MarkerIsTheMains
<1>3. /\ next.m = [role.m EXCEPT !.seq = @ + 1] /\ next.written = role.written /\ next \in Role
      /\ next.kind = role.kind /\ next.before = role.before
      /\ next.m \in Marker /\ next.m.tok = role.m.tok /\ role.m.seq <= next.m.seq
  <2>1. ASSUME NEW x \in Role
        PROVE  LET y == [x EXCEPT !.m.seq = @ + 1, !.turn = TRUE] IN
               /\ y.m = [x.m EXCEPT !.seq = @ + 1] /\ y.written = x.written
               /\ y.kind = x.kind /\ y.before = x.before /\ y.m \in Marker
               /\ y.m.tok = x.m.tok /\ x.m.seq <= y.m.seq /\ y \in Role
    <3>1. x.m \in Marker
      BY DEF Role
    <3>2. [x.m EXCEPT !.seq = @ + 1] \in Marker /\ [x.m EXCEPT !.seq = @ + 1].tok = x.m.tok
          /\ x.m.seq <= [x.m EXCEPT !.seq = @ + 1].seq
      BY <3>1 DEF Marker
    <3>3. [x EXCEPT !.m.seq = @ + 1, !.turn = TRUE]
          = [x EXCEPT !.m = [x.m EXCEPT !.seq = @ + 1], !.turn = TRUE]
      BY DEF Role
    <3>4. QED
      BY <3>2, <3>3 DEF Role
  <2>2. QED
    BY <1>2, <2>1
<1> HIDE DEF next, role
<1>4. after = [next EXCEPT !.written = next.m]
  BY <1>2, <1>3
<1>5. after \in Role /\ after.m = next.m /\ after.written = next.m /\ after.kind = next.kind
      /\ after.before = next.before
  BY <1>3, <1>4 DEF Role
<1> HIDE DEF after
<1>6. /\ inst'[i] = [inst[i] EXCEPT !.role = after] /\ DOMAIN inst = Insts
      /\ \A j \in Insts \ {i} : inst'[j] = inst[j]
      /\ marker'[p] = next.m /\ \A q \in Process \ {p} : marker'[q] = marker[q]
  BY <1>1, <1>2, <1>3 DEF AuditTypes, Publish
<1>7. inst'[i] \in Instance /\ inst'[i].role = after /\ inst'[i].gen = inst[i].gen
      /\ inst'[i].active = inst[i].active
  BY <1>2, <1>5, <1>6 DEF Instance
<1>8. AuditTypes'
  <2>1. inst' \in [Insts -> Instance]
    BY <1>1, <1>5, <1>6, <1>7 DEF AuditTypes
  <2>2. marker' \in [Process -> Marker]
    BY <1>1, <1>2, <1>3 DEF AuditTypes, Publish
  <2>3. QED
    BY <1>1, <2>1, <2>2 DEF AuditTypes
<1>9. MarkerIsTheMains'
  <2>1. \A j \in Mains \ {i} : ProcessOf(j) # p /\ ProcessOf(j) \in Process
    BY <1>2, RoleParts
  <2>2. ASSUME NEW j \in Mains
        PROVE  marker'[ProcessOf(j)] = IF inst'[j].role.kind = "owner" THEN inst'[j].role.m
                                       ELSE given'[ProcessOf(j)]
    <3>1. CASE j = i
      BY <1>1, <1>3, <1>5, <1>6, <1>7, <3>1 DEF role
    <3>2. CASE j # i
      BY <1>1, <1>6, <2>1, <3>2 DEF MarkerInv, MarkerIsTheMains
    <3>3. QED
      BY <3>1, <3>2
  <2>3. QED
    BY <2>2 DEF MarkerIsTheMains
<1>10. MarkerInv'
  <2>1. Valid(after.m) /\ after.kind = "owner" /\ after.written = after.m /\ after.before = given[p]
    BY <1>1, <1>2, <1>3, <1>5 DEF Valid
  <2>2. inst[i].gen # 0
    BY <1>1 DEF MarkerInv, NoRole, role
  <2>3. ASSUME NEW j \in Insts
        PROVE  LET r == inst'[j].role IN
               /\ inst'[j].active => r.kind # "none"
               /\ inst'[j].gen = 0 => r = NoRole /\ ~inst'[j].active
               /\ r.kind = "owner" => /\ j \in Mains /\ Valid(r.m) /\ r.written = r.m
                                      /\ r.before = given'[ProcessOf(j)]
               /\ r.kind = "follower" /\ j \in Mains => Valid(given'[ProcessOf(j)])
    <3>1. CASE j = i
      BY <1>1, <1>2, <1>7, <2>1, <2>2, <3>1
    <3>2. CASE j # i
      BY <1>1, <1>6, <3>2 DEF MarkerInv
    <3>3. QED
      BY <3>1, <3>2
  <2>4. QED
    BY <1>9, <2>3 DEF MarkerInv
<1>11. \A j \in Insts : inst[j].role.m \in Marker /\ inst[j].role.m.seq <= inst[j].role.m.seq
  BY RoleParts DEF Marker
<1>12. QED
  BY <1>3, <1>5, <1>6, <1>7, <1>8, <1>10, <1>11 DEF role

LEMMA ShutdownStep ==
    ASSUME AuditTypes, MarkerInv, NEW i \in Insts, AuditShutdown(i)
    PROVE  AuditTypes' /\ MarkerInv'
<1> USE AuditAssumption
<1> DEFINE p == ProcessOf(i)
<1>1. /\ inst' = [inst EXCEPT ![i] = [up |-> FALSE, active |-> FALSE, gen |-> @.gen + 1, role |-> NoRole,
                                    flush |-> Pending(i)]]
      /\ marker' = [marker EXCEPT ![p] = Found(i)]
      /\ UNCHANGED <<given, req, writes, history, starts, fate>>
  BY DEF AuditShutdown, Found
<1>2. Found(i) = IF i \in Mains THEN given[p] ELSE marker[p]
  BY MainReleases
<1>3. Pending(i) \in SUBSET Reqs /\ inst[i].gen \in Nat /\ p \in Process
      /\ given[p] \in Marker /\ marker[p] \in Marker
  BY RoleParts DEF Pending, AuditTypes, Instance
<1>4. [up |-> FALSE, active |-> FALSE, gen |-> inst[i].gen + 1, role |-> NoRole, flush |-> Pending(i)]
         \in Instance
  BY <1>3, RoleParts DEF Instance
<1>5. AuditTypes'
  <2>1. inst' \in [Insts -> Instance] /\ marker' \in [Process -> Marker]
    BY <1>1, <1>2, <1>3, <1>4 DEF AuditTypes
  <2>2. QED
    BY <1>1, <2>1 DEF AuditTypes
<1>6. /\ inst'[i].role = NoRole /\ inst'[i].active = FALSE /\ inst'[i].gen = inst[i].gen + 1
      /\ \A j \in Insts \ {i} : inst'[j] = inst[j]
      /\ marker'[p] = Found(i) /\ \A q \in Process \ {p} : marker'[q] = marker[q]
  BY <1>1, <1>3 DEF AuditTypes
<1>7. MarkerIsTheMains'
  <2>1. ASSUME NEW j \in Mains
        PROVE  marker'[ProcessOf(j)] = IF inst'[j].role.kind = "owner" THEN inst'[j].role.m
                                       ELSE given'[ProcessOf(j)]
    <3>1. CASE j = i
      BY <1>1, <1>2, <1>6, <3>1 DEF NoRole
    <3>2. CASE j # i
      <4>1. marker'[ProcessOf(j)] = marker[ProcessOf(j)]
        BY <1>2, <1>6, <3>2, RoleParts
      <4>2. QED
        BY <1>1, <1>6, <3>2, <4>1 DEF MarkerInv, MarkerIsTheMains
    <3>3. QED
      BY <3>1, <3>2
  <2>2. QED
    BY <2>1 DEF MarkerIsTheMains
<1>8. MarkerInv'
  <2>1. inst'[i].gen # 0 /\ inst'[i].role.kind = "none"
    BY <1>3, <1>6 DEF NoRole
  <2>2. QED
    BY <1>1, <1>6, <1>7, <2>1 DEF MarkerInv
<1>9. QED
  BY <1>5, <1>8

LEMMA QuietTypes ==
    ASSUME AuditTypes, NEW i \in Insts, TurnSettled(i) \/ FlushEnds(i)
    PROVE  /\ AuditTypes' /\ UNCHANGED <<marker, given, req, history, fate>>
           /\ \A j \in Insts : /\ inst'[j].role.kind = inst[j].role.kind /\ inst'[j].role.m = inst[j].role.m
                               /\ inst'[j].role.written = inst[j].role.written
                               /\ inst'[j].role.before = inst[j].role.before
                               /\ inst[j].role = NoRole => inst'[j].role = NoRole
                               /\ inst'[j].gen = inst[j].gen /\ inst'[j].active = inst[j].active
<1>1. PICK x : /\ inst' = [inst EXCEPT ![i] = x]
               /\ x \in {[inst[i] EXCEPT !.role = [@ EXCEPT !.turn = FALSE]], [inst[i] EXCEPT !.flush = {}]}
               /\ UNCHANGED <<marker, given, req, writes, history, starts, fate>>
               /\ inst[i].role = NoRole => x.role = NoRole
  <2>1. CASE TurnSettled(i)
    <3>1. inst[i].role # NoRole
      BY <2>1 DEF TurnSettled, NoRole
    <3>2. inst[i] \in Instance /\ DOMAIN inst = Insts
      BY RoleParts DEF AuditTypes
    <3>3. inst' = [inst EXCEPT ![i] = [inst[i] EXCEPT !.role = [@ EXCEPT !.turn = FALSE]]]
      BY <2>1, <3>2 DEF TurnSettled, Instance
    <3>4. QED
      BY <2>1, <3>1, <3>3 DEF TurnSettled
  <2>2. CASE FlushEnds(i)
    <3>1. inst[i] \in Instance /\ DOMAIN inst = Insts
      BY RoleParts DEF AuditTypes
    <3>2. inst' = [inst EXCEPT ![i] = [inst[i] EXCEPT !.flush = {}]]
      BY <2>2, <3>1 DEF FlushEnds, Instance
    <3>3. [inst[i] EXCEPT !.flush = {}].role = inst[i].role
      BY <3>1 DEF Instance
    <3>4. QED
      BY <2>2, <3>2, <3>3 DEF FlushEnds
  <2>3. QED
    BY <2>1, <2>2
<1>2. inst[i] \in Instance /\ inst[i].role \in Role
  BY RoleParts
<1>3. [inst[i].role EXCEPT !.turn = FALSE] \in Role
  BY <1>2 DEF Role
<1>4. [inst[i] EXCEPT !.role = [@ EXCEPT !.turn = FALSE]] \in Instance
      /\ [inst[i] EXCEPT !.role = [@ EXCEPT !.turn = FALSE]].role = [inst[i].role EXCEPT !.turn = FALSE]
      /\ [inst[i] EXCEPT !.flush = {}] \in Instance
      /\ [inst[i] EXCEPT !.flush = {}].role = inst[i].role
  BY <1>2, <1>3 DEF Instance
<1>5. x \in Instance /\ x.gen = inst[i].gen /\ x.active = inst[i].active
      /\ x.role \in {inst[i].role, [inst[i].role EXCEPT !.turn = FALSE]}
  BY <1>1, <1>2, <1>4 DEF Instance
<1>6. x.role.kind = inst[i].role.kind /\ x.role.m = inst[i].role.m
      /\ x.role.written = inst[i].role.written /\ x.role.before = inst[i].role.before
  BY <1>2, <1>5 DEF Role
<1>7. AuditTypes'
  <2>1. inst' \in [Insts -> Instance]
    BY <1>1, <1>5 DEF AuditTypes
  <2>2. QED
    BY <1>1, <2>1 DEF AuditTypes
<1>8. ASSUME NEW j \in Insts
      PROVE  inst'[j] = IF j = i THEN x ELSE inst[j]
  BY <1>1 DEF AuditTypes
<1>9. QED
  BY <1>1, <1>5, <1>6, <1>7, <1>8

LEMMA QuietMarkers ==
    ASSUME AuditTypes, MarkerInv, NEW i \in Insts, TurnSettled(i) \/ FlushEnds(i)
    PROVE  MarkerInv'
<1>1. UNCHANGED <<marker, given>>
      /\ \A j \in Insts : /\ inst'[j].role.kind = inst[j].role.kind /\ inst'[j].role.m = inst[j].role.m
                          /\ inst'[j].role.written = inst[j].role.written
                          /\ inst'[j].role.before = inst[j].role.before
                          /\ inst[j].role = NoRole => inst'[j].role = NoRole
                          /\ inst'[j].gen = inst[j].gen /\ inst'[j].active = inst[j].active
  BY QuietTypes
<1>2. MarkerIsTheMains'
  BY <1>1, AuditAssumption DEF MarkerInv, MarkerIsTheMains
<1>3. QED
  BY <1>1, <1>2 DEF MarkerInv

LEMMA SpawnStep ==
    ASSUME AuditTypes, MarkerInv, Spawn
    PROVE  AuditTypes' /\ MarkerInv'
<1> USE AuditAssumption
<1>1. /\ marker'["child"] = marker["parent"] /\ marker'["parent"] = marker["parent"]
      /\ given'["child"] = marker["parent"] /\ given'["parent"] = given["parent"]
      /\ UNCHANGED <<inst, req, writes, history, starts, fate>>
      /\ marker' \in [Process -> Marker] /\ given' \in [Process -> Marker]
  BY DEF Spawn, AuditTypes, Process
<1>2. ASSUME NEW i \in Insts
      PROVE  \/ ProcessOf(i) = "child" /\ inst[i].role = NoRole /\ ~inst[i].active
             \/ ProcessOf(i) = "parent"
  <2>1. CASE ProcessOf(i) = "child"
    <3>1. i \in In("child")
      BY <2>1 DEF In
    <3>2. inst[i].gen = 0
      BY <3>1 DEF Spawn
    <3>3. QED
      BY <2>1, <3>2 DEF MarkerInv
  <2>2. QED
    BY <2>1 DEF ProcessOf
<1>3. MarkerIsTheMains'
  <2>1. ASSUME NEW i \in Mains
        PROVE  marker'[ProcessOf(i)] = IF inst'[i].role.kind = "owner" THEN inst'[i].role.m
                                       ELSE given'[ProcessOf(i)]
    <3>1. CASE ProcessOf(i) = "child" /\ inst[i].role = NoRole
      BY <1>1, <3>1 DEF NoRole
    <3>2. CASE ProcessOf(i) = "parent"
      BY <1>1, <3>2 DEF MarkerInv, MarkerIsTheMains
    <3>3. QED
      BY <1>2, <3>1, <3>2
  <2>2. QED
    BY <2>1 DEF MarkerIsTheMains
<1>4. MarkerInv'
  <2>1. ASSUME NEW i \in Insts
        PROVE  LET role == inst[i].role IN
               /\ inst[i].active => role.kind # "none"
               /\ inst[i].gen = 0 => role = NoRole /\ ~inst[i].active
               /\ role.kind = "owner" => /\ i \in Mains /\ Valid(role.m) /\ role.written = role.m
                                         /\ role.before = given'[ProcessOf(i)]
               /\ role.kind = "follower" /\ i \in Mains => Valid(given'[ProcessOf(i)])
    <3>1. CASE ProcessOf(i) = "child" /\ inst[i].role = NoRole /\ ~inst[i].active
      BY <3>1 DEF NoRole
    <3>2. CASE ProcessOf(i) = "parent"
      BY <1>1, <3>2 DEF MarkerInv
    <3>3. QED
      BY <1>2, <3>1, <3>2
  <2>2. QED
    BY <1>1, <1>3, <2>1 DEF MarkerInv
<1>5. QED
  BY <1>1, <1>4 DEF AuditTypes

LEMMA ExitStep ==
    ASSUME AuditTypes, MarkerInv, NEW p \in Process, Exit(p)
    PROVE  AuditTypes' /\ MarkerInv'
<1> USE AuditAssumption
<1>1. /\ inst' = [i \in Insts |-> IF i \in In(p) THEN [inst[i] EXCEPT !.up = FALSE, !.active = FALSE, !.gen = @ + 1,
                                                     !.role = NoRole, !.flush = {}] ELSE inst[i]]
      /\ marker' = [marker EXCEPT ![p] = given[p]]
      /\ req' = [r \in Reqs |-> IF req[r].pc = "sent" /\ req[r].inst \in In(p)
                              THEN [req[r] EXCEPT !.pc = "done"] ELSE req[r]]
      /\ UNCHANGED <<given, history, starts>>
      /\ writes' = writes \ {w \in writes : req[w].inst \in In(p)}
      /\ fate' = [r \in Reqs |-> IF r \in {w \in writes : req[w].inst \in In(p)} THEN "lost" ELSE fate[r]]
  BY DEF Exit
<1>2. ASSUME NEW x \in Instance
      PROVE  LET y == [x EXCEPT !.up = FALSE, !.active = FALSE, !.gen = @ + 1, !.role = NoRole, !.flush = {}]
             IN  y \in Instance /\ y.role = NoRole /\ ~y.active /\ y.gen = x.gen + 1 /\ x.gen \in Nat
  <2>1. ASSUME NEW g \in Nat, NEW ro \in Role, NEW fl \in SUBSET Reqs
        PROVE  [x EXCEPT !.up = FALSE, !.active = FALSE, !.gen = g, !.role = ro, !.flush = fl] \in Instance
    BY DEF Instance
  <2>2. x.gen + 1 \in Nat /\ x.gen \in Nat /\ NoRole \in Role /\ {} \in SUBSET Reqs
    BY DEF Instance, NoRole, Role, NoMarker, Marker
  <2>3. [x EXCEPT !.up = FALSE, !.active = FALSE, !.gen = @ + 1, !.role = NoRole, !.flush = {}] \in Instance
    BY <2>1, <2>2
  <2>4. QED
    BY <2>2, <2>3 DEF Instance
<1>3. \A i \in Insts : /\ i \in In(p) => inst'[i].role = NoRole /\ ~inst'[i].active /\ inst'[i].gen # 0
                       /\ i \notin In(p) => inst'[i] = inst[i]
                       /\ inst'[i] \in Instance
  <2>1. ASSUME NEW i \in Insts PROVE inst[i] \in Instance
    BY DEF AuditTypes
  <2>2. ASSUME NEW i \in Insts, i \in In(p)
        PROVE  inst'[i].role = NoRole /\ ~inst'[i].active /\ inst'[i].gen # 0 /\ inst'[i] \in Instance
    <3> DEFINE y == [inst[i] EXCEPT !.up = FALSE, !.active = FALSE, !.gen = @ + 1, !.role = NoRole, !.flush = {}]
    <3>1. inst'[i] = y
      BY <1>1, <2>2
    <3>2. y \in Instance /\ y.role = NoRole /\ ~y.active /\ y.gen = inst[i].gen + 1 /\ inst[i].gen \in Nat
      BY <1>2, <2>1
    <3> HIDE DEF y
    <3>3. QED
      BY <3>1, <3>2
  <2>3. ASSUME NEW i \in Insts, i \notin In(p)
        PROVE  inst'[i] = inst[i] /\ inst'[i] \in Instance
    BY <1>1, <2>1, <2>3
  <2>4. QED
    BY <2>2, <2>3
<1>4. AuditTypes'
  <2>1. inst' \in [Insts -> Instance]
    BY <1>1, <1>3
  <2>2. marker' \in [Process -> Marker]
    BY <1>1 DEF AuditTypes
  <2>3. req' \in [Reqs -> Request]
    <3>1. \A r \in Reqs : [req[r] EXCEPT !.pc = "done"] \in Request /\ req[r] \in Request
      BY DEF AuditTypes, Request
    <3>2. QED
      BY <1>1, <3>1
  <2>4. fate' \in [Reqs -> {"none", "pending", "counted", "failed", "cleared", "lost"}]
        /\ writes' = {r \in Reqs : fate'[r] = "pending"}
    BY <1>1 DEF AuditTypes
  <2>5. QED
    BY <1>1, <2>1, <2>2, <2>3, <2>4 DEF AuditTypes
<1>5. /\ marker'[p] = given[p] /\ \A q \in Process \ {p} : marker'[q] = marker[q]
      /\ \A i \in Insts : ProcessOf(i) \in Process /\ (i \in In(p) <=> ProcessOf(i) = p)
  BY <1>1, RoleParts DEF AuditTypes, In
<1>6. \A i \in Insts : i \in In(p) => inst'[i].role.kind = "none"
  BY <1>3 DEF NoRole
<1>7. MarkerInv'
  <2>1. MarkerIsTheMains'
    <3>1. ASSUME NEW i \in Mains
          PROVE  marker'[ProcessOf(i)] = IF inst'[i].role.kind = "owner" THEN inst'[i].role.m
                                         ELSE given'[ProcessOf(i)]
      <4>1. CASE i \in In(p)
        BY <1>1, <1>5, <1>6, <4>1
      <4>2. CASE i \notin In(p)
        BY <1>1, <1>3, <1>5, <4>2 DEF MarkerInv, MarkerIsTheMains
      <4>3. QED
        BY <4>1, <4>2
    <3>2. QED
      BY <3>1 DEF MarkerIsTheMains
  <2>2. ASSUME NEW i \in Insts
        PROVE  LET role == inst'[i].role IN
               /\ inst'[i].active => role.kind # "none"
               /\ inst'[i].gen = 0 => role = NoRole /\ ~inst'[i].active
               /\ role.kind = "owner" => /\ i \in Mains /\ Valid(role.m) /\ role.written = role.m
                                         /\ role.before = given'[ProcessOf(i)]
               /\ role.kind = "follower" /\ i \in Mains => Valid(given'[ProcessOf(i)])
    <3>1. CASE i \in In(p)
      BY <1>3, <1>6, <3>1
    <3>2. CASE i \notin In(p)
      BY <1>1, <1>3, <3>2 DEF MarkerInv
    <3>3. QED
      BY <3>1, <3>2
  <2>3. QED
    BY <2>1, <2>2 DEF MarkerInv
<1>8. QED
  BY <1>4, <1>7

LEMMA ObserveStep ==
    ASSUME AuditTypes, MarkerInv, RequestsInv, NEW i \in Insts, NEW r \in Reqs, ObserveStream(i, r)
    PROVE  AuditTypes' /\ MarkerInv' /\ RequestsInv'
<1> DEFINE x == [pc |-> "sent", inst |-> i, gen |-> inst[i].gen, m |-> inst[i].role.m, at |-> 0]
<1>1. /\ req' = [req EXCEPT ![r] = x] /\ req[r].pc = "new"
      /\ UNCHANGED <<marker, given, inst, writes, history, starts, faults, fate>>
  BY DEF ObserveStream
<1>2. x \in Request /\ inst[i].gen \in Nat /\ inst[i].role.m.seq \in Nat
  BY RoleParts DEF Request, Instance, Marker
<1>3. req'[r] = x /\ \A q \in Reqs \ {r} : req'[q] = req[q]
  BY <1>1 DEF AuditTypes
<1>4. AuditTypes'
  BY <1>1, <1>2 DEF AuditTypes
<1>5. MarkerInv'
  BY <1>1 DEF MarkerInv, MarkerIsTheMains
<1>6. RequestsInv'
  <2>1. ASSUME NEW q \in Reqs
        PROVE  /\ req'[q].pc # "done" => fate[q] = "none"
               /\ req'[q].pc = "sent" =>
                    /\ req'[q].inst \in Insts /\ req'[q].gen <= inst[req'[q].inst].gen
                    /\ req'[q].gen = inst[req'[q].inst].gen =>
                          /\ inst[req'[q].inst].role.m.tok = req'[q].m.tok
                          /\ req'[q].m.seq <= inst[req'[q].inst].role.m.seq
    <3>1. CASE q = r
      <4>1. fate[q] = "none"
        BY <1>1, <3>1 DEF RequestsInv
      <4>2. req'[q].inst = i /\ req'[q].gen = inst[i].gen /\ req'[q].m = inst[i].role.m
        BY <1>3, <3>1
      <4>3. QED
        BY <1>2, <4>1, <4>2
    <3>2. CASE q # r
      BY <1>3, <3>2 DEF RequestsInv
    <3>3. QED
      BY <3>1, <3>2
  <2>2. QED
    BY <1>1, <2>1 DEF RequestsInv
<1>7. QED
  BY <1>4, <1>5, <1>6

(* The sessions that end or start are of another generation, and within one
   the turns count up. *)
LEMMA RequestsStay ==
    ASSUME AuditTypes, RequestsInv,
           \A r \in Reqs : /\ req'[r].inst = req[r].inst /\ req'[r].gen = req[r].gen
                           /\ req'[r].m = req[r].m /\ req'[r].pc \in {req[r].pc, "done"}
                           /\ req[r].pc # "done" => fate'[r] = fate[r] \/ req'[r].pc = "done",
           \A i \in Insts :
              \/ /\ inst'[i].gen = inst[i].gen /\ inst'[i].role.m.tok = inst[i].role.m.tok
                 /\ inst[i].role.m.seq <= inst'[i].role.m.seq /\ inst'[i].role.m.seq \in Nat
              \/ inst'[i].gen = inst[i].gen + 1,
           \A r \in Reqs : req[r].pc = "done" => req'[r].pc = "done"
    PROVE  RequestsInv'
<1>1. ASSUME NEW r \in Reqs, req'[r].pc # "done" PROVE fate'[r] = "none"
  BY <1>1 DEF RequestsInv
<1>2. ASSUME NEW r \in Reqs, req'[r].pc = "sent"
      PROVE  /\ req'[r].inst \in Insts /\ req'[r].gen <= inst'[req'[r].inst].gen
             /\ req'[r].gen = inst'[req'[r].inst].gen =>
                   /\ inst'[req'[r].inst].role.m.tok = req'[r].m.tok
                   /\ req'[r].m.seq <= inst'[req'[r].inst].role.m.seq
  <2> DEFINE i == req[r].inst
  <2>1. /\ i \in Insts /\ req[r].gen <= inst[i].gen
        /\ req[r].gen = inst[i].gen => inst[i].role.m.tok = req[r].m.tok /\ req[r].m.seq <= inst[i].role.m.seq
        /\ req'[r].inst = i /\ req'[r].gen = req[r].gen /\ req'[r].m = req[r].m
    BY <1>2 DEF RequestsInv
  <2>2. req[r].gen \in Nat /\ inst[i].gen \in Nat /\ req[r].m.seq \in Nat /\ inst[i].role.m.seq \in Nat
    <3>1. req[r] \in Request /\ inst[i].role.m \in Marker /\ inst[i] \in Instance
      BY <2>1, RoleParts DEF AuditTypes
    <3>2. QED
      BY <3>1 DEF Request, Marker, Instance
  <2> HIDE DEF i
  <2>3. CASE inst'[i].gen = inst[i].gen + 1
    BY <2>1, <2>2, <2>3
  <2>4. CASE /\ inst'[i].gen = inst[i].gen /\ inst'[i].role.m.tok = inst[i].role.m.tok
             /\ inst[i].role.m.seq <= inst'[i].role.m.seq /\ inst'[i].role.m.seq \in Nat
    BY <2>1, <2>2, <2>4
  <2>5. QED
    BY <2>1, <2>3, <2>4
<1>3. QED
  BY <1>1, <1>2 DEF RequestsInv

LEMMA InstancesStay ==
    ASSUME AuditTypes, NEW i \in Insts, inst'[i] = inst[i]
    PROVE  /\ inst'[i].gen = inst[i].gen /\ inst'[i].role.m.tok = inst[i].role.m.tok
           /\ inst[i].role.m.seq <= inst'[i].role.m.seq /\ inst'[i].role.m.seq \in Nat
BY RoleParts DEF Marker

LEMMA SessionRequests ==
    ASSUME AuditTypes, MarkerInv, RequestsInv, NEW i \in Insts,
           AuditStart(i) \/ BeforeTurn(i) \/ TurnSettled(i) \/ AuditShutdown(i) \/ FlushEnds(i)
    PROVE  RequestsInv'
<1>1. UNCHANGED <<req, fate>>
  BY DEF AuditStart, BeforeTurn, TurnSettled, AuditShutdown, FlushEnds
<1>2. ASSUME NEW j \in Insts
      PROVE  \/ /\ inst'[j].gen = inst[j].gen /\ inst'[j].role.m.tok = inst[j].role.m.tok
                /\ inst[j].role.m.seq <= inst'[j].role.m.seq /\ inst'[j].role.m.seq \in Nat
             \/ inst'[j].gen = inst[j].gen + 1
  <2>1. CASE AuditStart(i)
    <3>1. inst'[j] = inst[j] \/ inst'[j].gen = inst[j].gen + 1
      BY <2>1 DEF AuditStart, AuditTypes
    <3>2. QED
      BY <3>1, InstancesStay
  <2>2. CASE AuditShutdown(i)
    <3>1. inst'[j] = inst[j] \/ inst'[j].gen = inst[j].gen + 1
      BY <2>2 DEF AuditShutdown, AuditTypes
    <3>2. QED
      BY <3>1, InstancesStay
  <2>3. CASE BeforeTurn(i)
    <3>1. AuditTypes' /\ inst'[j].gen = inst[j].gen /\ inst'[j].role.m.tok = inst[j].role.m.tok
          /\ inst[j].role.m.seq <= inst'[j].role.m.seq
      BY <2>3, TurnStep
    <3>2. inst'[j].role.m.seq \in Nat
      <4>1. inst'[j] \in Instance
        BY <3>1 DEF AuditTypes
      <4>2. QED
        BY <4>1 DEF Instance, Role, Marker
    <3>3. QED
      BY <3>1, <3>2
  <2>4. CASE TurnSettled(i) \/ FlushEnds(i)
    <3>1. inst'[j].gen = inst[j].gen /\ inst'[j].role.m = inst[j].role.m
      BY <2>4, QuietTypes
    <3>2. inst[j].role.m.seq \in Nat
      BY RoleParts DEF Marker
    <3>3. QED
      BY <3>1, <3>2
  <2>5. QED
    BY <2>1, <2>2, <2>3, <2>4
<1>3. QED
  BY <1>1, <1>2, RequestsStay

LEMMA ExitRequests ==
    ASSUME AuditTypes, RequestsInv, NEW p \in Process, Exit(p)
    PROVE  /\ RequestsInv' /\ \A r \in Reqs : req'[r].m = req[r].m /\ (fate'[r] = "counted" <=> fate[r] = "counted")
<1>1. /\ inst' = [i \in Insts |-> IF i \in In(p) THEN [inst[i] EXCEPT !.up = FALSE, !.active = FALSE, !.gen = @ + 1,
                                                     !.role = NoRole, !.flush = {}] ELSE inst[i]]
      /\ req' = [r \in Reqs |-> IF req[r].pc = "sent" /\ req[r].inst \in In(p)
                              THEN [req[r] EXCEPT !.pc = "done"] ELSE req[r]]
      /\ fate' = [r \in Reqs |-> IF r \in {w \in writes : req[w].inst \in In(p)} THEN "lost" ELSE fate[r]]
  BY DEF Exit
<1>2. ASSUME NEW r \in Reqs
      PROVE  /\ req'[r].inst = req[r].inst /\ req'[r].gen = req[r].gen
             /\ req'[r].m = req[r].m /\ req'[r].pc \in {req[r].pc, "done"}
             /\ req[r].pc = "done" => req'[r].pc = "done"
  <2>1. req[r] \in Request
    BY DEF AuditTypes
  <2>2. req'[r] \in {req[r], [req[r] EXCEPT !.pc = "done"]}
    BY <1>1
  <2>3. QED
    BY <2>1, <2>2 DEF Request
<1>3. ASSUME NEW r \in Reqs
      PROVE  /\ req[r].pc # "done" => fate'[r] = fate[r]
             /\ fate'[r] = "counted" <=> fate[r] = "counted"
  <2>1. r \in writes <=> fate[r] = "pending"
    BY DEF AuditTypes
  <2>2. fate'[r] = IF r \in writes /\ req[r].inst \in In(p) THEN "lost" ELSE fate[r]
    BY <1>1
  <2>3. QED
    BY <2>1, <2>2 DEF RequestsInv
<1>4. ASSUME NEW i \in Insts
      PROVE  \/ /\ inst'[i].gen = inst[i].gen /\ inst'[i].role.m.tok = inst[i].role.m.tok
                /\ inst[i].role.m.seq <= inst'[i].role.m.seq /\ inst'[i].role.m.seq \in Nat
             \/ inst'[i].gen = inst[i].gen + 1
  <2>1. inst[i] \in Instance
    BY DEF AuditTypes
  <2>2. [inst[i] EXCEPT !.up = FALSE, !.active = FALSE, !.gen = @ + 1, !.role = NoRole, !.flush = {}].gen
          = inst[i].gen + 1
    BY <2>1 DEF Instance
  <2>3. inst'[i] = inst[i] \/ inst'[i].gen = inst[i].gen + 1
    BY <1>1, <2>2
  <2>4. QED
    BY <2>3, InstancesStay
<1>5. QED
  BY <1>2, <1>3, <1>4, RequestsStay

LEMMA FinalizeStep ==
    ASSUME AuditTypes, MarkerInv, RequestsInv, NEW r \in Reqs, Finalize(r)
    PROVE  /\ AuditTypes' /\ MarkerInv' /\ RequestsInv' /\ history' = history
           /\ \A q \in Reqs : req'[q].m = req[q].m /\ (fate'[q] = "counted" <=> fate[q] = "counted")
           /\ \A q \in writes' \ writes :
                 LET i == req[q].inst IN
                 inst[i].role.m.tok = req[q].m.tok /\ req[q].m.seq <= inst[i].role.m.seq
<1> DEFINE n == Cardinality({q \in Reqs : req[q].at > 0}) + 1
<1>1. /\ req[r].pc = "sent" /\ req' = [req EXCEPT ![r].pc = "done", ![r].at = n]
      /\ \/ Current(r) /\ writes' = writes \cup {r} /\ fate' = [fate EXCEPT ![r] = "pending"]
         \/ UNCHANGED <<writes, fate>>
      /\ UNCHANGED <<marker, given, inst, history, starts>>
  BY DEF Finalize
<1>2. n \in Nat
  <2>1. IsFiniteSet({q \in Reqs : req[q].at > 0})
    BY AuditAssumption, FS_Subset
  <2>2. QED
    BY <2>1, FS_CardinalityType
<1> HIDE DEF n
<1>3. req[r] \in Request
  BY DEF AuditTypes
<1>4. /\ req'[r] = [req[r] EXCEPT !.pc = "done", !.at = n]
      /\ \A q \in Reqs \ {r} : req'[q] = req[q] /\ fate'[q] = fate[q]
      /\ fate'[r] \in {"pending", fate[r]} /\ fate[r] = "none"
      /\ r \in writes' <=> fate'[r] = "pending"
      /\ \A q \in Reqs \ {r} : q \in writes' <=> q \in writes
      /\ writes' \subseteq Reqs
  BY <1>1 DEF AuditTypes, RequestsInv
<1>5. req'[r] \in Request /\ req'[r].m = req[r].m /\ req'[r].inst = req[r].inst
      /\ req'[r].gen = req[r].gen /\ req'[r].pc = "done"
  BY <1>2, <1>3, <1>4 DEF Request
<1>6. AuditTypes'
  <2>1. req' \in [Reqs -> Request]
    BY <1>1, <1>4, <1>5 DEF AuditTypes
  <2>2. fate' \in [Reqs -> {"none", "pending", "counted", "failed", "cleared", "lost"}]
    BY <1>1 DEF AuditTypes
  <2>3. writes' = {q \in Reqs : fate'[q] = "pending"}
    BY <1>4 DEF AuditTypes
  <2>4. QED
    BY <1>1, <2>1, <2>2, <2>3 DEF AuditTypes
<1>7. MarkerInv'
  BY <1>1 DEF MarkerInv, MarkerIsTheMains
<1>8. RequestsInv'
  <2>1. \A q \in Reqs : /\ req'[q].inst = req[q].inst /\ req'[q].gen = req[q].gen
                        /\ req'[q].m = req[q].m /\ req'[q].pc \in {req[q].pc, "done"}
                        /\ req[q].pc # "done" => fate'[q] = fate[q] \/ req'[q].pc = "done"
                        /\ req[q].pc = "done" => req'[q].pc = "done"
    BY <1>4, <1>5
  <2>2. \A i \in Insts : inst'[i] = inst[i]
    BY <1>1
  <2>3. QED
    BY <2>1, <2>2, InstancesStay, RequestsStay
<1>9. ASSUME NEW q \in writes' \ writes
      PROVE  inst[req[q].inst].role.m.tok = req[q].m.tok /\ req[q].m.seq <= inst[req[q].inst].role.m.seq
  <2>1. q = r /\ Current(r)
    BY <1>1, <1>9
  <2>2. QED
    BY <1>1, <2>1 DEF Current, RequestsInv
<1>10. QED
  BY <1>1, <1>4, <1>5, <1>6, <1>7, <1>8, <1>9

LEMMA SmallestOf ==
    ASSUME NEW S, S \subseteq Nat, NEW n \in S
    PROVE  \E k \in S : \A m \in S : k <= m
<1>1. PICK k \in S : \A m \in S : <<m, k>> \notin OpToRel(<, Nat)
  BY NatLessThanWellFounded, WFMin
<1>2. \A m \in S : ~(m < k)
  BY <1>1, Zenon DEF OpToRel
<1>3. \A m \in S : m \in Nat /\ k \in Nat
  OBVIOUS
<1>4. QED
  BY <1>2, <1>3

LEMMA LesserOf ==
    ASSUME NEW m \in Nat, NEW n \in Nat
    PROVE  Min({m, n}) = IF m <= n THEN m ELSE n
BY DEF Min

LEMMA TrimIs ==
    ASSUME NEW list \in Seq(Turn), Len(list) <= MaxTurnsPerRoot + 1
    PROVE  /\ Trim(list) \in Seq(Turn)
           /\ Len(list) <= MaxTurnsPerRoot => Trim(list) = list
           /\ Len(list) = MaxTurnsPerRoot + 1 =>
                 /\ Len(Trim(list)) = MaxTurnsPerRoot
                 /\ \A k \in 1..MaxTurnsPerRoot : Trim(list)[k] = list[k + 1]
<1>1. MaxTurnsPerRoot \in Nat \ {0} /\ Len(list) \in Nat
  BY AuditAssumption
<1> DEFINE n == Len(list)
           low == n - Min({n, MaxTurnsPerRoot}) + 1
<1>2. Min({n, MaxTurnsPerRoot}) = IF n <= MaxTurnsPerRoot THEN n ELSE MaxTurnsPerRoot
  BY <1>1, LesserOf
<1>3. low = IF n <= MaxTurnsPerRoot THEN 1 ELSE n - MaxTurnsPerRoot + 1
  BY <1>1, <1>2
<1>4. Trim(list) = SubSeq(list, low, n)
  BY DEF Trim
<1> HIDE DEF low
<1>5. CASE n <= MaxTurnsPerRoot
  <2>1. SubSeq(list, 1, n) = list
    BY <1>1
  <2>2. low = 1
    BY <1>3, <1>5
  <2>3. Trim(list) = list
    BY <1>4, <2>1, <2>2
  <2>4. Len(list) # MaxTurnsPerRoot + 1
    BY <1>1, <1>5
  <2>5. QED
    BY <2>3, <2>4
<1>6. CASE n = MaxTurnsPerRoot + 1
  <2>1. low = 2
    BY <1>1, <1>3, <1>6
  <2>2. Trim(list) = SubSeq(list, 2, n)
    BY <1>4, <2>1
  <2>3. SubSeq(list, 2, n) \in Seq(Turn) /\ Len(SubSeq(list, 2, n)) = n - 1
        /\ \A k \in 1..n - 1 : SubSeq(list, 2, n)[k] = list[k + 1]
    BY <1>1, <1>6
  <2>4. QED
    BY <1>1, <1>6, <2>2, <2>3
<1>7. QED
  BY <1>1, <1>5, <1>6

LEMMA OneMore ==
    ASSUME NEW x \in Turn
    PROVE  /\ [x EXCEPT !.n = @ + 1] \in Turn /\ [x EXCEPT !.n = @ + 1].of = x.of
           /\ [x EXCEPT !.n = @ + 1].n = x.n + 1
<1>1. Turn = [of : TurnId, n : Nat]
  BY DEF Turn
<1>2. x.n \in Nat /\ x.of \in TurnId /\ x = [of |-> x.of, n |-> x.n]
  BY <1>1
<1>3. [x EXCEPT !.n = @ + 1] = [of |-> x.of, n |-> x.n + 1]
  BY <1>2
<1>4. x.n + 1 \in Nat
  BY <1>2
<1>5. QED
  BY <1>1, <1>2, <1>3, <1>4

(* One more in turn t: the turn that had one has one more, or it is new, and
   the oldest may have gone for it. *)
OneMoreTurn(list, t, b) ==
    /\ b \in Seq(Turn) /\ Len(b) <= MaxTurnsPerRoot /\ Apart(b)
    /\ \A k \in DOMAIN b :
          \/ b[k].of # t /\ \E j \in DOMAIN list : list[j] = b[k]
          \/ b[k].of = t /\ \E j \in DOMAIN list : list[j].of = t /\ b[k].n = list[j].n + 1
          \/ b[k].of = t /\ b[k].n = 1 /\ \A j \in DOMAIN list : list[j].of # t
    /\ Len(b) < MaxTurnsPerRoot =>
          /\ Len(list) < MaxTurnsPerRoot
          /\ \E k \in DOMAIN b : b[k].of = t
          /\ \A j \in DOMAIN list : \E k \in DOMAIN b : b[k].of = list[j].of
LEMMA BumpedIs ==
    ASSUME NEW list \in Seq(Turn), NEW t \in TurnId,
           Len(list) <= MaxTurnsPerRoot, Apart(list)
    PROVE  OneMoreTurn(list, t, Bumped(list, t))
<1> DEFINE b == Bumped(list, t)
<1>1. /\ MaxTurnsPerRoot \in Nat \ {0} /\ Len(list) \in Nat /\ DOMAIN list = 1..Len(list)
      /\ \A k \in DOMAIN list : list[k] \in Turn
  BY AuditAssumption
<1>2. CASE \E k \in DOMAIN list : list[k].of = t
  <2> DEFINE c == [k \in DOMAIN list |-> IF list[k].of = t THEN [list[k] EXCEPT !.n = @ + 1] ELSE list[k]]
  <2>1. b = c
    BY <1>2 DEF Bumped
  <2>2. ASSUME NEW k \in DOMAIN list
        PROVE  /\ c[k] \in Turn /\ c[k].of = list[k].of
               /\ c[k].of = t => c[k].n = list[k].n + 1
               /\ c[k].of # t => c[k] = list[k]
    <3>1. list[k] \in Turn
      BY <1>1
    <3>2. QED
      BY <3>1, OneMore
  <2>3. DOMAIN c = 1..Len(list)
    BY <1>1
  <2> HIDE DEF c
  <2>4. c \in Seq(Turn) /\ Len(c) = Len(list)
    <3>1. c \in [1..Len(list) -> Turn]
      <4>1. \A k \in 1..Len(list) : c[k] \in Turn
        BY <1>1, <2>2
      <4>2. c = [k \in 1..Len(list) |-> c[k]]
        BY <1>1 DEF c
      <4>3. QED
        BY <4>1, <4>2
    <3>2. c \in Seq(Turn)
      BY <1>1, <3>1
    <3>3. QED
      BY <1>1, <2>3, <3>2
  <2>5. Apart(c)
    BY <1>1, <2>2, <2>3 DEF Apart
  <2>6. QED
    BY <1>1, <1>2, <2>1, <2>2, <2>3, <2>4, <2>5 DEF OneMoreTurn
<1>3. CASE ~\E k \in DOMAIN list : list[k].of = t
  <2> DEFINE x == [of |-> t, n |-> 1]
             a == Append(list, x)
             n == Len(list)
  <2>1. x \in Turn /\ x.of = t /\ x.n = 1
    BY DEF Turn
  <2> HIDE DEF x
  <2>2. /\ a \in Seq(Turn) /\ Len(a) = n + 1 /\ a[n + 1] = x
        /\ \A k \in 1..n : a[k] = list[k]
        /\ DOMAIN a = 1..n + 1
    BY <1>1, <2>1
  <2> HIDE DEF a
  <2>3. b = Trim(a)
    BY <1>3 DEF Bumped, a, x
  <2>4. Apart(a)
    <3>1. ASSUME NEW j \in 1..n + 1, NEW k \in 1..n + 1, a[j].of = a[k].of PROVE j = k
      <4>1. j \in 1..n \/ j = n + 1
        BY <1>1
      <4>2. k \in 1..n \/ k = n + 1
        BY <1>1
      <4>3. QED
        BY <1>1, <1>3, <2>1, <2>2, <3>1, <4>1, <4>2 DEF Apart
    <3>2. QED
      BY <2>2, <3>1 DEF Apart
  <2>5. CASE n < MaxTurnsPerRoot
    <3>1. b = a
      BY <1>1, <2>2, <2>3, <2>5, TrimIs
    <3>2. \A k \in 1..n + 1 : k \in 1..n \/ k = n + 1
      BY <1>1
    <3>3. n + 1 \in 1..n + 1 /\ \A k \in 1..n : k \in 1..n + 1
      BY <1>1
    <3>4. \A k \in DOMAIN a : \/ a[k].of # t /\ \E j \in DOMAIN list : list[j] = a[k]
                              \/ a[k].of = t /\ a[k].n = 1 /\ \A j \in DOMAIN list : list[j].of # t
      BY <1>1, <1>3, <2>1, <2>2, <3>2
    <3>5. /\ \E k \in DOMAIN a : a[k].of = t
          /\ \A j \in DOMAIN list : \E k \in DOMAIN a : a[k].of = list[j].of
      BY <1>1, <2>1, <2>2, <3>3
    <3>6. n + 1 <= MaxTurnsPerRoot
      BY <1>1, <2>5
    <3>7. QED
      BY <2>2, <2>4, <2>5, <3>1, <3>4, <3>5, <3>6 DEF OneMoreTurn
  <2>6. CASE n = MaxTurnsPerRoot
    <3>1. /\ b \in Seq(Turn) /\ Len(b) = MaxTurnsPerRoot
          /\ \A k \in 1..MaxTurnsPerRoot : b[k] = a[k + 1]
      BY <1>1, <2>2, <2>3, <2>6, TrimIs
    <3>2. DOMAIN b = 1..MaxTurnsPerRoot
      BY <3>1
    <3>3. \A k \in 1..MaxTurnsPerRoot : k + 1 \in 1..n + 1 /\ (k + 1 \in 1..n \/ k + 1 = n + 1)
      BY <1>1, <2>6
    <3>4. Apart(b)
      <4>1. ASSUME NEW j \in 1..MaxTurnsPerRoot, NEW k \in 1..MaxTurnsPerRoot, b[j].of = b[k].of
            PROVE  j = k
        <5>1. j + 1 \in DOMAIN a /\ k + 1 \in DOMAIN a
          BY <2>2, <3>3
        <5>2. a[j + 1].of = a[k + 1].of
          BY <3>1, <4>1
        <5>3. j + 1 = k + 1
          BY <2>4, <5>1, <5>2 DEF Apart
        <5>4. j \in Nat /\ k \in Nat
          BY <1>1
        <5>5. QED
          BY <5>3, <5>4
      <4>2. QED
        BY <3>2, <4>1 DEF Apart
    <3>5. \A k \in DOMAIN b : \/ b[k].of # t /\ \E j \in DOMAIN list : list[j] = b[k]
                              \/ b[k].of = t /\ b[k].n = 1 /\ \A j \in DOMAIN list : list[j].of # t
      <4>1. ASSUME NEW k \in 1..MaxTurnsPerRoot
            PROVE  \/ b[k].of # t /\ \E j \in DOMAIN list : list[j] = b[k]
                   \/ b[k].of = t /\ b[k].n = 1 /\ \A j \in DOMAIN list : list[j].of # t
        <5>1. b[k] = a[k + 1]
          BY <3>1
        <5>2. CASE k + 1 \in 1..n
          BY <1>1, <1>3, <2>2, <5>1, <5>2
        <5>3. CASE k + 1 = n + 1
          BY <1>3, <2>1, <2>2, <5>1, <5>3
        <5>4. QED
          BY <3>3, <5>2, <5>3
      <4>2. QED
        BY <3>2, <4>1
    <3>6. ~(Len(b) < MaxTurnsPerRoot) /\ Len(b) <= MaxTurnsPerRoot
      BY <1>1, <3>1
    <3>7. QED
      BY <3>1, <3>4, <3>5, <3>6 DEF OneMoreTurn
  <2>7. n < MaxTurnsPerRoot \/ n = MaxTurnsPerRoot
    <3>1. \A i, j \in Nat : i <= j => i < j \/ i = j
      OBVIOUS
    <3>2. n \in Nat /\ MaxTurnsPerRoot \in Nat /\ n <= MaxTurnsPerRoot
      BY <1>1
    <3>3. QED
      BY <3>1, <3>2
  <2>8. QED
    BY <2>5, <2>6, <2>7
<1>4. QED
  BY <1>2, <1>3

(* The entry of a root as one more mismatch leaves it. *)
LEMMA UpdatedIs ==
    ASSUME AuditTypes, NEW r \in Reqs, NEW old \in RootEntry
    PROVE  Updated(old, r) =
             [root |-> old.root, all |-> old.all + 1,
              unattributed |-> IF req[r].m.seq = 0 THEN old.unattributed + 1 ELSE old.unattributed,
              turns |-> IF req[r].m.seq = 0 THEN old.turns ELSE Bumped(old.turns, TurnOf(req[r].m)),
              at |-> req[r].at]
<1> DEFINE up == [old EXCEPT !.all = @ + 1, !.at = req[r].at]
<1>1. old = [root |-> old.root, all |-> old.all, unattributed |-> old.unattributed,
             turns |-> old.turns, at |-> old.at]
  BY DEF RootEntry
<1>2. up = [root |-> old.root, all |-> old.all + 1, unattributed |-> old.unattributed,
            turns |-> old.turns, at |-> req[r].at]
  <2>1. [old EXCEPT !.all = old.all + 1]
        = [root |-> old.root, all |-> old.all + 1, unattributed |-> old.unattributed,
           turns |-> old.turns, at |-> old.at]
    BY <1>1
  <2>2. up = [[old EXCEPT !.all = old.all + 1] EXCEPT !.at = req[r].at]
    OBVIOUS
  <2> HIDE DEF up
  <2>3. QED
    BY <2>1, <2>2
<1>3. Updated(old, r) = IF req[r].m.seq = 0 THEN [up EXCEPT !.unattributed = up.unattributed + 1]
                        ELSE [up EXCEPT !.turns = Bumped(up.turns, TurnOf(req[r].m))]
  BY DEF Updated
<1> HIDE DEF up
<1>4. QED
  BY <1>2, <1>3

LEMMA RequestParts ==
    ASSUME AuditTypes, NEW r \in Reqs
    PROVE  /\ req[r] \in Request /\ req[r].m \in Marker /\ req[r].at \in Nat
           /\ req[r].m.seq \in Nat /\ req[r].m.tok \in Int /\ req[r].m.root \in Roots \cup {0}
           /\ TurnOf(req[r].m) \in TurnId
<1>1. req[r] \in Request
  BY DEF AuditTypes
<1>2. req[r].m \in Marker /\ req[r].at \in Nat
  BY <1>1 DEF Request
<1>3. QED
  BY <1>1, <1>2 DEF Marker, TurnOf, TurnId

(* What one more mismatch does to the sets an entry counts. *)
LEMMA OneMoreOf ==
    ASSUME NEW r \in Reqs, NEW C \in SUBSET Reqs, r \notin C
    PROVE  /\ Cardinality(C \cup {r}) = Cardinality(C) + 1
           /\ Cardinality({q \in C \cup {r} : req[q].m.seq = 0})
                = IF req[r].m.seq = 0 THEN Cardinality({q \in C : req[q].m.seq = 0}) + 1
                  ELSE Cardinality({q \in C : req[q].m.seq = 0})
<1>1. IsFiniteSet(Reqs) /\ IsFiniteSet(C)
  BY AuditAssumption, FS_Subset
<1>2. Cardinality(C \cup {r}) = Cardinality(C) + 1
  BY <1>1, FS_AddElement
<1> DEFINE none(D) == {q \in D : req[q].m.seq = 0}
<1>3. Cardinality(none(C \cup {r})) = IF req[r].m.seq = 0 THEN Cardinality(none(C)) + 1 ELSE Cardinality(none(C))
  <2>1. IsFiniteSet(none(C)) /\ r \notin none(C)
    BY <1>1, FS_Subset
  <2>2. none(C \cup {r}) = IF req[r].m.seq = 0 THEN none(C) \cup {r} ELSE none(C)
    OBVIOUS
  <2> HIDE DEF none
  <2>3. QED
    BY <2>1, <2>2, FS_AddElement
<1>4. QED
  BY <1>2, <1>3

LEMMA OneMoreOfTurn ==
    ASSUME NEW r \in Reqs, NEW C \in SUBSET Reqs, r \notin C, NEW t
    PROVE  /\ Cardinality(OfTurnIn(C, t)) \in Nat
           /\ Cardinality(OfTurnIn(C \cup {r}, t))
                = IF req[r].m.seq # 0 /\ TurnOf(req[r].m) = t
                  THEN Cardinality(OfTurnIn(C, t)) + 1 ELSE Cardinality(OfTurnIn(C, t))
<1>1. IsFiniteSet(Reqs) /\ IsFiniteSet(C)
  BY AuditAssumption, FS_Subset
<1>2. OfTurnIn(C, t) \subseteq C /\ r \notin OfTurnIn(C, t)
  BY DEF OfTurnIn
<1>3. IsFiniteSet(OfTurnIn(C, t)) /\ Cardinality(OfTurnIn(C, t)) \in Nat
  BY <1>1, <1>2, FS_Subset, FS_CardinalityType
<1>4. OfTurnIn(C \cup {r}, t) = IF req[r].m.seq # 0 /\ TurnOf(req[r].m) = t
                                THEN OfTurnIn(C, t) \cup {r} ELSE OfTurnIn(C, t)
  BY DEF OfTurnIn
<1>5. QED
  BY <1>2, <1>3, <1>4, FS_AddElement

(* An entry that counts for C counts, updated, for C and the new mismatch. *)
LEMMA UpdatedCounts ==
    ASSUME AuditTypes, NEW r \in Reqs, NEW old \in RootEntry, NEW C \in SUBSET Reqs, r \notin C,
           Counts(old, C)
    PROVE  /\ Updated(old, r) \in RootEntry /\ Updated(old, r).root = old.root
           /\ Counts(Updated(old, r), C \cup {r})
<1> DEFINE new == Updated(old, r)
           D == C \cup {r}
           T == TurnOf(req[r].m)
           none == req[r].m.seq = 0
<1>1. /\ new.root = old.root /\ new.all = old.all + 1 /\ new.at = req[r].at
      /\ new.unattributed = IF none THEN old.unattributed + 1 ELSE old.unattributed
      /\ new.turns = IF none THEN old.turns ELSE Bumped(old.turns, T)
      /\ new = [root |-> new.root, all |-> new.all, unattributed |-> new.unattributed,
                turns |-> new.turns, at |-> new.at]
  BY UpdatedIs
<1>2. /\ old.root \in Roots \cup {0} /\ old.all \in Nat /\ old.unattributed \in Nat
      /\ old.turns \in Seq(Turn)
  BY DEF RootEntry
<1>3. /\ Len(old.turns) <= MaxTurnsPerRoot /\ Apart(old.turns)
      /\ MaxTurnsPerRoot \in Nat \ {0} /\ req[r].at \in Nat /\ T \in TurnId
  BY AuditAssumption, RequestParts DEF Counts
<1> HIDE DEF new
<1>4. new.all = Cardinality(D) /\ new.unattributed = Cardinality({q \in D : req[q].m.seq = 0})
  <2>1. /\ Cardinality(C \cup {r}) = Cardinality(C) + 1
        /\ Cardinality({q \in C \cup {r} : req[q].m.seq = 0})
             = IF req[r].m.seq = 0 THEN Cardinality({q \in C : req[q].m.seq = 0}) + 1
               ELSE Cardinality({q \in C : req[q].m.seq = 0})
    BY OneMoreOf
  <2>2. old.all = Cardinality(C) /\ old.unattributed = Cardinality({q \in C : req[q].m.seq = 0})
    BY DEF Counts
  <2>3. new.all = Cardinality(D)
    BY <1>1, <2>1, <2>2
  <2>4. new.unattributed = Cardinality({q \in D : req[q].m.seq = 0})
    BY <1>1, <2>1, <2>2
  <2>5. QED
    BY <2>3, <2>4
<1>41. \A t : /\ Cardinality(OfTurnIn(C, t)) \in Nat
             /\ Cardinality(OfTurnIn(D, t))
                  = IF ~none /\ T = t
                    THEN Cardinality(OfTurnIn(C, t)) + 1 ELSE Cardinality(OfTurnIn(C, t))
  <2>1. ASSUME NEW t
        PROVE  /\ Cardinality(OfTurnIn(C, t)) \in Nat
               /\ Cardinality(OfTurnIn(C \cup {r}, t))
                  = IF req[r].m.seq # 0 /\ TurnOf(req[r].m) = t
                    THEN Cardinality(OfTurnIn(C, t)) + 1 ELSE Cardinality(OfTurnIn(C, t))
    BY OneMoreOfTurn
  <2>2. QED
    BY <2>1
<1>5. CASE none
  <2>1. new.turns = old.turns
    BY <1>1, <1>5
  <2>2. new \in RootEntry
    BY <1>1, <1>2, <1>3, <2>1 DEF RootEntry
  <2>3. \A t : Cardinality(OfTurnIn(D, t)) = Cardinality(OfTurnIn(C, t))
    BY <1>5, <1>41
  <2>4. \A q \in D : req[q].m.seq # 0 => q \in C
    BY <1>5
  <2> HIDE DEF none, D
  <2>5. QED
    BY <1>1, <1>4, <2>1, <2>2, <2>3, <2>4 DEF Counts, new, D
<1>6. CASE ~none
  <2> DEFINE b == Bumped(old.turns, T)
  <2>1. /\ b \in Seq(Turn) /\ Len(b) <= MaxTurnsPerRoot /\ Apart(b)
        /\ \A k \in DOMAIN b :
              \/ b[k].of # T /\ \E j \in DOMAIN old.turns : old.turns[j] = b[k]
              \/ b[k].of = T /\ \E j \in DOMAIN old.turns : old.turns[j].of = T /\ b[k].n = old.turns[j].n + 1
              \/ b[k].of = T /\ b[k].n = 1 /\ \A j \in DOMAIN old.turns : old.turns[j].of # T
        /\ Len(b) < MaxTurnsPerRoot =>
              /\ Len(old.turns) < MaxTurnsPerRoot
              /\ \E k \in DOMAIN b : b[k].of = T
              /\ \A j \in DOMAIN old.turns : \E k \in DOMAIN b : b[k].of = old.turns[j].of
    <3>1. /\ old.turns \in Seq(Turn) /\ T \in TurnId
          /\ Len(old.turns) <= MaxTurnsPerRoot /\ Apart(old.turns)
      BY <1>2, <1>3
    <3>2. OneMoreTurn(old.turns, T, b)
      BY <3>1, BumpedIs
    <3> HIDE DEF T, b
    <3>3. QED
      BY <3>2 DEF OneMoreTurn
  <2>2. new.turns = b
    BY <1>1, <1>6
  <2>3. new \in RootEntry
    BY <1>1, <1>2, <1>3, <2>1, <2>2 DEF RootEntry
  <2>4. \A t : /\ t # T => Cardinality(OfTurnIn(D, t)) = Cardinality(OfTurnIn(C, t))
               /\ Cardinality(OfTurnIn(D, T)) = Cardinality(OfTurnIn(C, T)) + 1
               /\ Cardinality(OfTurnIn(C, t)) \in Nat
    BY <1>6, <1>41
  <2> HIDE DEF b, D
  <2>5. \A j \in DOMAIN old.turns :
           LET n == Cardinality(OfTurnIn(C, old.turns[j].of)) IN
           /\ old.turns[j] \in Turn /\ 1 <= old.turns[j].n /\ old.turns[j].n <= n
           /\ Len(old.turns) < MaxTurnsPerRoot => old.turns[j].n = n
    BY <1>2 DEF Counts
  <2>6. ASSUME NEW k \in DOMAIN b
        PROVE  LET n == Cardinality(OfTurnIn(D, b[k].of)) IN
               /\ 1 <= b[k].n /\ b[k].n <= n
               /\ Len(b) < MaxTurnsPerRoot => b[k].n = n
    <3>1. CASE b[k].of # T /\ \E j \in DOMAIN old.turns : old.turns[j] = b[k]
      BY <2>1, <2>4, <2>5, <3>1
    <3>2. CASE b[k].of = T /\ \E j \in DOMAIN old.turns : old.turns[j].of = T /\ b[k].n = old.turns[j].n + 1
      <4>1. PICK j \in DOMAIN old.turns : old.turns[j].of = T /\ b[k].n = old.turns[j].n + 1
        BY <3>2
      <4>2. old.turns[j].n \in Nat
        BY <2>5 DEF Turn
      <4>3. QED
        BY <2>1, <2>4, <2>5, <3>2, <4>1, <4>2
    <3>3. CASE b[k].of = T /\ b[k].n = 1 /\ \A j \in DOMAIN old.turns : old.turns[j].of # T
      <4>1. ASSUME Len(b) < MaxTurnsPerRoot PROVE Cardinality(OfTurnIn(C, T)) = 0
        <5>1. \A q \in C : req[q].m.seq # 0 => TurnOf(req[q].m) # T
          BY <2>1, <3>3, <4>1 DEF Counts
        <5>2. OfTurnIn(C, T) = {}
          BY <5>1 DEF OfTurnIn
        <5>3. QED
          BY <5>2, FS_EmptySet
      <4>2. QED
        BY <2>4, <3>3, <4>1
    <3>4. QED
      BY <2>1, <3>1, <3>2, <3>3
  <2>7. ASSUME Len(b) < MaxTurnsPerRoot, NEW q \in D, req[q].m.seq # 0
        PROVE  \E k \in DOMAIN b : b[k].of = TurnOf(req[q].m)
    <3>1. CASE q = r
      BY <2>1, <2>7, <3>1
    <3>2. CASE q \in C
      <4>1. PICK j \in DOMAIN old.turns : old.turns[j].of = TurnOf(req[q].m)
        BY <2>1, <2>7, <3>2 DEF Counts
      <4>2. QED
        BY <2>1, <2>7, <4>1
    <3>3. QED
      BY <3>1, <3>2 DEF D
  <2>8. QED
    BY <1>1, <1>4, <2>1, <2>2, <2>3, <2>6, <2>7 DEF Counts, new, D
<1>7. QED
  BY <1>5, <1>6

(* What is trimmed is one root, the one last updated the longest ago. *)
LEMMA LatestIs ==
    ASSUME NEW roots \in SUBSET RootEntry, IsFiniteSet(roots), Cardinality(roots) <= MaxRoots + 1
    PROVE  /\ Latest(roots) \subseteq roots /\ IsFiniteSet(Latest(roots))
           /\ Cardinality(Latest(roots)) <= MaxRoots
<1>1. MaxRoots \in Nat \ {0} /\ Cardinality(roots) \in Nat
  BY AuditAssumption, FS_CardinalityType
<1>2. CASE Cardinality(roots) <= MaxRoots
  BY <1>2 DEF Latest
<1>3. CASE ~(Cardinality(roots) <= MaxRoots)
  <2> DEFINE ats == {e.at : e \in roots}
             gone == CHOOSE e \in roots : \A o \in roots : e.at <= o.at
  <2>1. roots # {}
    BY <1>1, <1>3, FS_EmptySet
  <2>2. ats \subseteq Nat /\ \E n : n \in ats
    BY <2>1 DEF RootEntry
  <2>3. PICK k \in ats : \A m \in ats : k <= m
    BY <2>2, SmallestOf
  <2>4. PICK e \in roots : e.at = k
    BY <2>3
  <2>5. \A o \in roots : o.at \in ats
    OBVIOUS
  <2>6. \A o \in roots : e.at <= o.at
    BY <2>3, <2>4, <2>5
  <2>7. gone \in roots
    BY <2>6
  <2> HIDE DEF gone
  <2>8. Latest(roots) = roots \ {gone}
    BY <1>3 DEF Latest, gone
  <2>9. IsFiniteSet(roots \ {gone}) /\ Cardinality(roots \ {gone}) = Cardinality(roots) - 1
    BY <2>7, FS_RemoveElement
  <2>10. QED
    BY <1>1, <2>8, <2>9
<1>4. QED
  BY <1>2, <1>3

(* The entry a mismatch is counted in: that of its root, or a new one. *)
LEMMA RootIs ==
    ASSUME AuditTypes, NEW r \in Reqs, NEW roots \in SUBSET RootEntry
    PROVE  LET old == RootFor(roots, req[r].m) IN
           /\ old \in RootEntry /\ old.root = req[r].m.root
           /\ (\E e \in roots : e.root = req[r].m.root) => old \in roots
           /\ ~(\E e \in roots : e.root = req[r].m.root) => Counts(old, {})
<1> DEFINE m == req[r].m
           fresh == [root |-> m.root, all |-> 0, unattributed |-> 0, turns |-> <<>>, at |-> 0]
<1>1. CASE \E e \in roots : e.root = m.root
  <2> DEFINE old == CHOOSE e \in roots : e.root = m.root
  <2>1. old \in roots /\ old.root = m.root
    BY <1>1
  <2> HIDE DEF old
  <2>2. RootFor(roots, m) = old
    BY <1>1 DEF RootFor, old
  <2>3. QED
    BY <1>1, <2>1, <2>2
<1>2. CASE ~\E e \in roots : e.root = m.root
  <2>1. RootFor(roots, m) = fresh
    BY <1>2 DEF RootFor
  <2>2. fresh \in RootEntry /\ fresh.root = m.root
    <3>1. m.root \in Roots \cup {0} /\ <<>> \in Seq(Turn)
      BY RequestParts
    <3>2. QED
      BY <3>1 DEF RootEntry
  <2>3. Counts(fresh, {})
    <3>1. {q \in {} : req[q].m.seq = 0} = {} /\ Cardinality({}) = 0
      BY FS_EmptySet
    <3>2. /\ fresh.all = 0 /\ fresh.unattributed = 0 /\ fresh.turns = <<>>
          /\ DOMAIN fresh.turns = {} /\ Len(fresh.turns) = 0
      OBVIOUS
    <3>3. MaxTurnsPerRoot \in Nat
      BY AuditAssumption
    <3> HIDE DEF fresh
    <3>4. QED
      BY <3>1, <3>2, <3>3 DEF Counts, Apart
  <2>4. QED
    BY <1>2, <2>1, <2>2, <2>3
<1>3. QED
  BY <1>1, <1>2

(* What is loaded is the file's: another than a good one has no counts. *)
LEMMA LoadedIs ==
    ASSUME AuditTypes, CountsInv
    PROVE  /\ Loaded.roots = history.roots /\ Loaded.records = history.records
           /\ history.roots \in SUBSET RootEntry /\ history.records \in Seq(Reqs)
<1>1. history.roots \in SUBSET RootEntry /\ history.records \in Seq(Reqs)
  BY DEF AuditTypes, HistoryFile
<1>2. CASE history.status = "ok"
  BY <1>1, <1>2 DEF Loaded
<1>3. CASE history.status # "ok"
  BY <1>1, <1>3 DEF Loaded, EmptyFile, CountsInv
<1>4. QED
  BY <1>2, <1>3

LEMMA ShownIs ==
    ASSUME NEW r \in Reqs, NEW records \in Seq(Reqs)
    PROVE  LET s == SubSeq(<<r>> \o records, 1, Min({Len(records) + 1, MaxRecords})) IN
           s \in Seq(Reqs) /\ Len(s) <= MaxRecords
<1> DEFINE all == <<r>> \o records
           n == Min({Len(records) + 1, MaxRecords})
<1>1. MaxRecords \in Nat \ {0} /\ Len(records) \in Nat
  BY AuditAssumption
<1>2. n = IF Len(records) + 1 <= MaxRecords THEN Len(records) + 1 ELSE MaxRecords
  <2>1. Len(records) + 1 \in Nat /\ MaxRecords \in Nat
    BY <1>1
  <2>2. QED
    BY <2>1, LesserOf
<1>3. all \in Seq(Reqs) /\ Len(all) = Len(records) + 1
  BY <1>1
<1> HIDE DEF all, n
<1>4. n \in 1..Len(all) /\ n <= MaxRecords
  BY <1>1, <1>2, <1>3
<1>5. SubSeq(all, 1, n) \in Seq(Reqs) /\ Len(SubSeq(all, 1, n)) = n
  BY <1>3, <1>4
<1>6. QED
  BY <1>4, <1>5 DEF all, n

(* The counts of a file written with one more mismatch. *)
LEMMA CountedIs ==
    ASSUME AuditTypes, CountsInv, NEW r \in Reqs, fate[r] # "counted"
    PROVE  LET m == req[r].m
               roots == history.roots
               C == Counted(roots, r) IN
           /\ C \in SUBSET RootEntry /\ IsFiniteSet(C) /\ Cardinality(C) <= MaxRoots
           /\ \A e, o \in C : e.root = o.root => e = o
           /\ \A e \in C :
                 /\ e.root # m.root => e \in roots /\ Counts(e, InFile(e.root))
                 /\ e.root = m.root =>
                       Counts(e, IF \E o \in roots : o.root = m.root THEN InFile(m.root) \cup {r} ELSE {r})
<1> DEFINE m == req[r].m
           roots == history.roots
           old == RootFor(roots, m)
           new == Updated(old, r)
           kept == roots \ {old}
           had == \E o \in roots : o.root = m.root
<1>1. roots \in SUBSET RootEntry
  BY LoadedIs
<1>2. /\ old \in RootEntry /\ old.root = m.root
      /\ had => old \in roots
      /\ ~had => Counts(old, {})
  BY <1>1, RootIs
<1>3. Counted(roots, r) = Latest(kept \cup {new})
  BY DEF Counted
<1>4. /\ new \in RootEntry /\ new.root = m.root
      /\ Counts(new, IF had THEN InFile(m.root) \cup {r} ELSE {r})
  <2>1. CASE had
    <3>1. Counts(old, InFile(m.root)) /\ InFile(m.root) \in SUBSET Reqs /\ r \notin InFile(m.root)
      BY <1>2, <2>1 DEF CountsInv, InFile
    <3> HIDE DEF old
    <3>2. QED
      BY <1>2, <2>1, <3>1, UpdatedCounts
  <2>2. CASE ~had
    <3>1. {} \in SUBSET Reqs /\ r \notin {} /\ {} \cup {r} = {r}
      OBVIOUS
    <3> HIDE DEF old, had, m
    <3>2. /\ Updated(old, r) \in RootEntry /\ Updated(old, r).root = old.root
          /\ Counts(Updated(old, r), {} \cup {r})
      BY <1>2, <2>2, <3>1, UpdatedCounts
    <3>3. QED
      BY <1>2, <2>2, <3>1, <3>2
  <2>3. QED
    BY <2>1, <2>2
<1> HIDE DEF old, new
<1>5. \A e \in kept : e \in roots /\ e.root # m.root
  BY <1>2 DEF CountsInv
<1>6. kept \cup {new} \in SUBSET RootEntry
  BY <1>1, <1>4
<1>7. IsFiniteSet(kept \cup {new}) /\ Cardinality(kept \cup {new}) <= MaxRoots + 1
  <2>1. IsFiniteSet(roots) /\ Cardinality(roots) <= MaxRoots /\ kept \subseteq roots
    BY DEF CountsInv
  <2>2. IsFiniteSet(kept) /\ Cardinality(kept) <= Cardinality(roots)
    BY <2>1, FS_Subset
  <2>3. IsFiniteSet(kept \cup {new}) /\ Cardinality(kept \cup {new}) <= Cardinality(kept) + 1
    <3> HIDE DEF kept
    <3>1. Cardinality(kept) \in Nat
      BY <2>2, FS_CardinalityType
    <3>2. CASE new \in kept
      <4>1. kept \cup {new} = kept
        BY <3>2
      <4>2. Cardinality(kept) <= Cardinality(kept) + 1
        BY <3>1
      <4>3. QED
        BY <2>2, <4>1, <4>2
    <3>3. CASE new \notin kept
      <4>1. IsFiniteSet(kept \cup {new}) /\ Cardinality(kept \cup {new}) = Cardinality(kept) + 1
        BY <2>2, <3>3, FS_AddElement
      <4>2. QED
        BY <3>1, <4>1
    <3>4. QED
      BY <3>2, <3>3
  <2>4. Cardinality(kept) \in Nat /\ Cardinality(roots) \in Nat /\ MaxRoots \in Nat
        /\ Cardinality(kept \cup {new}) \in Nat
    BY <2>1, <2>2, <2>3, FS_CardinalityType, AuditAssumption
  <2> HIDE DEF kept, roots
  <2>5. QED
    BY <2>1, <2>2, <2>3, <2>4
<1>8. /\ Latest(kept \cup {new}) \subseteq kept \cup {new} /\ IsFiniteSet(Latest(kept \cup {new}))
      /\ Cardinality(Latest(kept \cup {new})) <= MaxRoots
  <2> HIDE DEF kept
  <2>1. QED
    BY <1>6, <1>7, LatestIs
<1> DEFINE C == Latest(kept \cup {new})
<1>9. \A e, o \in C : e.root = o.root => e = o
  BY <1>4, <1>5, <1>8 DEF CountsInv
<1>10. ASSUME NEW e \in C
       PROVE  /\ e.root # m.root => e \in roots /\ Counts(e, InFile(e.root))
              /\ e.root = m.root => Counts(e, IF had THEN InFile(m.root) \cup {r} ELSE {r})
  <2>1. CASE e = new
    BY <1>4, <2>1
  <2>2. CASE e \in kept
    BY <1>5, <2>2 DEF CountsInv
  <2>3. QED
    BY <1>8, <2>1, <2>2
<1>11. C \in SUBSET RootEntry
  BY <1>6, <1>8
<1> HIDE DEF C
<1>12. QED
  BY <1>3, <1>8, <1>9, <1>10, <1>11 DEF C

(* What is forgotten is what was counted for a root that has no entry left. *)
LEMMA ForgottenIs ==
    ASSUME NEW f, NEW roots, NEW r \in Reqs
    PROVE  /\ Forgotten(f, roots)[r] = "counted"
                <=> f[r] = "counted" /\ \E e \in roots : e.root = req[r].m.root
           /\ f[r] # "counted" => Forgotten(f, roots)[r] = f[r]
           /\ f[r] = "counted" => Forgotten(f, roots)[r] \in {"counted", "cleared"}
BY DEF Forgotten

Fates == {"none", "pending", "counted", "failed", "cleared", "lost"}

(* A step of the file: what was done or not yet asked stays so. *)
LEMMA FileRequests ==
    ASSUME AuditTypes, RequestsInv, UNCHANGED <<inst, req>>,
           \A r \in Reqs : fate[r] = "none" => fate'[r] = "none"
    PROVE  RequestsInv'
BY DEF RequestsInv

LEMMA WrittenStep ==
    ASSUME AuditTypes, MarkerInv, RequestsInv, CountsInv, NEW r \in Reqs, r \in writes,
           writes' = writes \ {r}, Writable, history' = Appended(Loaded, r),
           fate' = Forgotten([Forgotten(fate, Loaded.roots) EXCEPT ![r] = "counted"], history'.roots),
           UNCHANGED <<marker, given, inst, req, starts>>
    PROVE  AuditInv'
<1> DEFINE m == req[r].m
           roots == history.roots
           f == Forgotten(fate, roots)
           g == [f EXCEPT ![r] = "counted"]
           C == Counted(roots, r)
           had == \E o \in roots : o.root = m.root
<1>1. fate[r] = "pending" /\ fate[r] # "counted"
  BY DEF AuditTypes
<1>2. /\ Loaded.roots = roots /\ Loaded.records = history.records
      /\ roots \in SUBSET RootEntry /\ history.records \in Seq(Reqs)
  BY LoadedIs
<1>3. /\ history'.status = "ok" /\ history'.roots = C /\ history'.records = Shown(Loaded, r)
      /\ history' = [status |-> "ok", roots |-> C, records |-> Shown(Loaded, r)]
  BY <1>2 DEF Appended
<1>4. /\ C \in SUBSET RootEntry /\ IsFiniteSet(C) /\ Cardinality(C) <= MaxRoots
      /\ \A e, o \in C : e.root = o.root => e = o
      /\ \A e \in C :
            /\ e.root # m.root => e \in roots /\ Counts(e, InFile(e.root))
            /\ e.root = m.root => Counts(e, IF had THEN InFile(m.root) \cup {r} ELSE {r})
  BY <1>1, CountedIs
<1> HIDE DEF C
<1>5. Shown(Loaded, r) \in Seq(Reqs) /\ Len(Shown(Loaded, r)) <= MaxRecords
  <2>1. Shown(Loaded, r) = SubSeq(<<r>> \o history.records, 1, Min({Len(history.records) + 1, MaxRecords}))
    BY <1>2 DEF Shown
  <2>2. QED
    BY <1>2, <2>1, ShownIs
<1>6. history' \in HistoryFile
  BY <1>3, <1>4, <1>5 DEF HistoryFile
<1>7. \A q \in Reqs : /\ f[q] = "counted" <=> fate[q] = "counted" /\ \E e \in roots : e.root = req[q].m.root
                      /\ fate[q] # "counted" => f[q] = fate[q]
                      /\ fate[q] = "counted" => f[q] \in {"counted", "cleared"}
  BY ForgottenIs
<1>8. \A q \in Reqs : g[q] = IF q = r THEN "counted" ELSE f[q]
  BY DEF Forgotten
<1>9. fate' = Forgotten(g, C)
  BY <1>2, <1>3
<1> HIDE DEF f, g
<1>10. \A q \in Reqs : /\ fate'[q] = "counted" <=> g[q] = "counted" /\ \E e \in C : e.root = req[q].m.root
                       /\ g[q] # "counted" => fate'[q] = g[q]
                       /\ g[q] = "counted" => fate'[q] \in {"counted", "cleared"}
  BY <1>9, ForgottenIs
<1>11. \A q \in Reqs : /\ fate'[q] \in Fates
                       /\ fate[q] = "none" => fate'[q] = "none"
                       /\ fate'[q] = "pending" <=> fate[q] = "pending" /\ q # r
  <2>1. \A q \in Reqs : fate[q] \in Fates
    BY DEF AuditTypes, Fates
  <2>2. QED
    BY <1>1, <1>7, <1>8, <1>10, <2>1 DEF Fates
<1>12. AuditTypes'
  <2>1. fate' \in [Reqs -> Fates]
    <3>1. fate' = [q \in Reqs |-> fate'[q]]
      BY <1>9 DEF Forgotten
    <3>2. QED
      BY <1>11, <3>1
  <2>2. writes' = {q \in Reqs : fate'[q] = "pending"}
    BY <1>11 DEF AuditTypes
  <2>3. QED
    BY <1>6, <2>1, <2>2 DEF AuditTypes, Fates
<1>13. ASSUME NEW e \in C
       PROVE  Counts(e, InFile(e.root)')
  <2>1. InFile(e.root)' = {q \in Reqs : fate'[q] = "counted" /\ req[q].m.root = e.root}
    BY DEF InFile
  <2>2. \A q \in Reqs : req[q].m.root = e.root =>
           (fate'[q] = "counted" <=> q = r \/ (fate[q] = "counted" /\ \E o \in roots : o.root = e.root))
    BY <1>7, <1>8, <1>10
  <2>3. CASE e.root # m.root
    <3>1. InFile(e.root)' = InFile(e.root)
      BY <1>4, <2>1, <2>2, <2>3 DEF InFile
    <3>2. QED
      BY <1>4, <2>3, <3>1
  <2>4. CASE e.root = m.root
    <3>1. InFile(e.root)' = IF had THEN InFile(m.root) \cup {r} ELSE {r}
      BY <2>1, <2>2, <2>4 DEF InFile
    <3>2. QED
      BY <1>4, <2>4, <3>1
  <2>5. QED
    BY <2>3, <2>4
<1>14. ASSUME NEW e \in C
       PROVE  Counts(e, InFile(e.root))'
  <2> DEFINE D == InFile(e.root)'
  <2>1. Counts(e, D)
    BY <1>13
  <2> HIDE DEF D
  <2>2. /\ {q \in D : req'[q].m.seq = 0} = {q \in D : req[q].m.seq = 0}
        /\ \A t : {q \in D : req'[q].m.seq # 0 /\ TurnOf(req'[q].m) = t} = OfTurnIn(D, t)
    BY DEF OfTurnIn
  <2>3. QED
    BY <2>1, <2>2 DEF Counts, Apart, D, OfTurnIn
<1>15. CountsInv'
  <2>1. \A e \in history'.roots : Counts(e, InFile(e.root))'
    BY <1>3, <1>14
  <2>2. QED
    BY <1>3, <1>4, <1>5, <2>1 DEF CountsInv
<1>16. MarkerInv' /\ RequestsInv'
  <2>1. RequestsInv'
    BY <1>11, FileRequests
  <2>2. MarkerInv'
    BY DEF MarkerInv, MarkerIsTheMains
  <2>3. QED
    BY <2>1, <2>2
<1>17. QED
  BY <1>12, <1>15, <1>16 DEF AuditInv

(* A step that leaves the file, and what is counted in it, as they are. *)
LEMMA CountsStay ==
    ASSUME AuditTypes, CountsInv, history' = history,
           \A r \in Reqs : req'[r].m = req[r].m /\ (fate'[r] = "counted" <=> fate[r] = "counted")
    PROVE  CountsInv'
<1>1. ASSUME NEW e \in history.roots
      PROVE  Counts(e, InFile(e.root))'
  <2> DEFINE D == InFile(e.root)'
  <2>1. D = InFile(e.root) /\ D \in SUBSET Reqs
    BY DEF InFile
  <2>2. Counts(e, D)
    BY <2>1 DEF CountsInv
  <2> HIDE DEF D
  <2>3. \A q \in D : req'[q].m = req[q].m
    BY <2>1
  <2>4. /\ {q \in D : req'[q].m.seq = 0} = {q \in D : req[q].m.seq = 0}
        /\ \A t : {q \in D : req'[q].m.seq # 0 /\ TurnOf(req'[q].m) = t} = OfTurnIn(D, t)
    BY <2>3 DEF OfTurnIn
  <2>5. QED
    BY <2>2, <2>3, <2>4 DEF Counts, Apart, OfTurnIn, D
<1>2. QED
  BY <1>1 DEF CountsInv

(* A step after which the file has no counts. *)
LEMMA EmptiedStep ==
    ASSUME AuditTypes, MarkerInv, RequestsInv,
           NEW s \in {"ok", "missing", "corrupt", "newer"},
           history' = [EmptyFile EXCEPT !.status = s], fate' = Forgotten(fate, {}),
           UNCHANGED <<marker, given, inst, req, writes, starts>>
    PROVE  AuditInv'
<1>1. history' = [status |-> s, roots |-> {}, records |-> <<>>]
  BY DEF EmptyFile
<1>2. \A q \in Reqs : /\ fate[q] # "counted" => fate'[q] = fate[q]
                      /\ fate[q] = "counted" => fate'[q] \in {"counted", "cleared"}
  BY ForgottenIs
<1>3. \A q \in Reqs : fate[q] \in Fates
  BY DEF AuditTypes, Fates
<1>4. \A q \in Reqs : fate'[q] \in Fates /\ (fate'[q] = "pending" <=> fate[q] = "pending")
  BY <1>2, <1>3 DEF Fates
<1>5. fate' = [q \in Reqs |-> fate'[q]]
  BY DEF Forgotten
<1>6. AuditTypes'
  <2>1. fate' \in [Reqs -> Fates]
    BY <1>4, <1>5
  <2>2. writes' = {q \in Reqs : fate'[q] = "pending"}
    BY <1>4 DEF AuditTypes
  <2>3. history' \in HistoryFile
    <3>1. ASSUME NEW x \in {"ok", "missing", "corrupt", "newer"}
          PROVE  [status |-> x, roots |-> {}, records |-> <<>>] \in HistoryFile
      <4>1. {} \in SUBSET RootEntry /\ <<>> \in Seq(Reqs)
        OBVIOUS
      <4>2. QED
        BY <4>1 DEF HistoryFile
    <3>2. [status |-> s, roots |-> {}, records |-> <<>>] \in HistoryFile
      BY <3>1
    <3>3. QED
      BY <1>1, <3>2
  <2>4. QED
    BY <2>1, <2>2, <2>3 DEF AuditTypes, Fates
<1>7. CountsInv'
  <2>1. IsFiniteSet({}) /\ Cardinality({}) = 0 /\ Len(<<>>) = 0
    BY FS_EmptySet
  <2>2. MaxRoots \in Nat /\ MaxRecords \in Nat
    BY AuditAssumption
  <2>3. QED
    BY <1>1, <2>1, <2>2 DEF CountsInv
<1>8. RequestsInv'
  BY <1>2, FileRequests
<1>9. MarkerInv'
  BY DEF MarkerInv, MarkerIsTheMains
<1>10. QED
  BY <1>6, <1>7, <1>8, <1>9 DEF AuditInv

(* A write that is refused or fails leaves what was counted. *)
LEMMA FailedStep ==
    ASSUME AuditTypes, MarkerInv, RequestsInv, CountsInv, NEW r \in Reqs, r \in writes,
           writes' = writes \ {r}, fate' = [fate EXCEPT ![r] = "failed"],
           \/ history' = history
           \/ history.status = "corrupt" /\ history' = [history EXCEPT !.status = "missing"],
           UNCHANGED <<marker, given, inst, req, starts>>
    PROVE  AuditInv'
<1>1. fate[r] = "pending"
  BY DEF AuditTypes
<1>2. \A q \in Reqs : fate'[q] = IF q = r THEN "failed" ELSE fate[q]
  BY DEF AuditTypes
<1>3. history \in HistoryFile
  BY DEF AuditTypes
<1>4. /\ history' \in HistoryFile /\ history'.roots = history.roots /\ history'.records = history.records
      /\ history'.status = "ok" <=> history.status = "ok"
  <2>1. CASE history' = history
    BY <1>3, <2>1
  <2>2. CASE history.status = "corrupt" /\ history' = [history EXCEPT !.status = "missing"]
    BY <1>3, <2>2 DEF HistoryFile
  <2>3. QED
    BY <2>1, <2>2
<1>5. AuditTypes'
  <2>1. fate' \in [Reqs -> {"none", "pending", "counted", "failed", "cleared", "lost"}]
    BY DEF AuditTypes
  <2>2. writes' = {q \in Reqs : fate'[q] = "pending"}
    BY <1>2 DEF AuditTypes
  <2>3. QED
    BY <1>4, <2>1, <2>2 DEF AuditTypes
<1>6. RequestsInv'
  BY <1>1, <1>2, FileRequests
<1>7. MarkerInv'
  BY DEF MarkerInv, MarkerIsTheMains
<1>8. CountsInv'
  <2>1. \A q \in Reqs : req'[q].m = req[q].m /\ (fate'[q] = "counted" <=> fate[q] = "counted")
    BY <1>1, <1>2
  <2>2. ASSUME NEW e \in history.roots
        PROVE  Counts(e, InFile(e.root))'
    <3>1. InFile(e.root)' = InFile(e.root)
      BY <2>1 DEF InFile
    <3> DEFINE D == InFile(e.root)'
    <3>2. Counts(e, D)
      BY <3>1 DEF CountsInv
    <3> HIDE DEF D
    <3>3. QED
      BY <3>2 DEF Counts, OfTurnIn, Apart, D
  <2>3. history.status # "ok" => history.roots = {} /\ history.records = <<>>
    BY DEF CountsInv
  <2>4. QED
    BY <1>4, <2>2, <2>3 DEF CountsInv
<1>9. QED
  BY <1>5, <1>6, <1>7, <1>8 DEF AuditInv

(* What is counted of a file is kept or forgotten as a whole, by every step of
   it: the write of a mismatch, a clear, a change from outside. *)
LEMMA AppendStep ==
    ASSUME AuditTypes, MarkerInv, RequestsInv, CountsInv, NEW r \in Reqs, AppendWrite(r)
    PROVE  AuditInv'
<1>1. /\ r \in writes /\ writes' = writes \ {r} /\ UNCHANGED <<marker, given, inst, req, starts>>
      /\ \/ /\ Writable /\ history' = Appended(Loaded, r)
            /\ fate' = Forgotten([Forgotten(fate, Loaded.roots) EXCEPT ![r] = "counted"], history'.roots)
         \/ /\ fate' = [fate EXCEPT ![r] = "failed"]
            /\ \/ history' = history
               \/ history.status = "corrupt" /\ history' = [history EXCEPT !.status = "missing"]
  BY DEF AppendWrite
<1>2. QED
  BY <1>1, WrittenStep, FailedStep

LEMMA OutsideStep ==
    ASSUME AuditTypes, MarkerInv, RequestsInv, ClearHistory \/ FileChanges
    PROVE  AuditInv'
<1>1. CASE ClearHistory
  <2>1. EmptyFile = [EmptyFile EXCEPT !.status = "ok"]
    BY DEF EmptyFile
  <2>2. QED
    BY <1>1, <2>1, EmptiedStep DEF ClearHistory
<1>2. CASE FileChanges
  <2>1. PICK s \in {"corrupt", "newer"} : history' = [EmptyFile EXCEPT !.status = s]
    BY <1>2 DEF FileChanges
  <2>2. QED
    BY <1>2, <2>1, EmptiedStep DEF FileChanges
<1>3. QED
  BY <1>1, <1>2

LEMMA AuditStarts == ASSUME AuditInit PROVE AuditInv
<1> USE AuditAssumption
<1>1. PICK m \in {NoMarker, Garbage} : marker = [p \in Process |-> m]
  BY DEF AuditInit
<1> DEFINE none == [up |-> FALSE, active |-> FALSE, gen |-> 0, role |-> NoRole, flush |-> {}]
           new == [pc |-> "new", inst |-> 0, gen |-> 0, m |-> NoMarker, at |-> 0]
<1>2. /\ given = marker /\ inst = [i \in Insts |-> none] /\ req = [r \in Reqs |-> new]
      /\ writes = {} /\ starts = 0 /\ fate = [r \in Reqs |-> "none"]
      /\ history = [status |-> "missing", roots |-> {}, records |-> <<>>]
  BY DEF AuditInit, EmptyFile
<1>3. m \in Marker /\ NoMarker \in Marker
  BY DEF NoMarker, Garbage, Marker
<1>4. NoRole \in Role /\ NoRole.kind = "none"
  BY <1>3 DEF NoRole, Role
<1>5. none \in Instance /\ new \in Request
  BY <1>3, <1>4 DEF Instance, Request
<1>6. history \in HistoryFile
  <2>1. {} \in SUBSET RootEntry /\ <<>> \in Seq(Reqs)
    OBVIOUS
  <2>2. QED
    BY <1>2, <2>1 DEF HistoryFile
<1>7. /\ \A i \in Insts : inst[i].role = NoRole /\ inst[i].active = FALSE
      /\ \A r \in Reqs : req[r].pc = "new" /\ fate[r] = "none"
  BY <1>2
<1> HIDE DEF none, new
<1>8. AuditTypes
  BY <1>1, <1>2, <1>3, <1>5, <1>6 DEF AuditTypes
<1>9. MarkerInv
  <2>1. \A i \in Mains : i \in Insts /\ ProcessOf(i) \in Process
    BY DEF ProcessOf, Process
  <2>2. MarkerIsTheMains
    BY <1>2, <1>4, <1>7, <2>1 DEF MarkerIsTheMains
  <2>3. QED
    BY <1>4, <1>7, <2>2 DEF MarkerInv
<1>10. RequestsInv
  BY <1>7 DEF RequestsInv
<1>11. CountsInv
  <2>1. IsFiniteSet({}) /\ Cardinality({}) = 0 /\ Len(<<>>) = 0
    BY FS_EmptySet
  <2>2. MaxRoots \in Nat /\ MaxRecords \in Nat
    OBVIOUS
  <2>3. QED
    BY <1>2, <2>1, <2>2 DEF CountsInv
<1>12. QED
  BY <1>8, <1>9, <1>10, <1>11 DEF AuditInv

(* One case per action: those of the sessions and requests leave the file,
   those of the file leave sessions and requests. *)
LEMMA AuditSteps ==
    ASSUME AuditInv, [AuditNext]_auditVars
    PROVE  AuditInv'
<1>1. AuditTypes /\ MarkerInv /\ RequestsInv /\ CountsInv
  BY DEF AuditInv
<1>2. CASE \E i \in Insts : AuditStart(i) \/ BeforeTurn(i) \/ TurnSettled(i) \/ AuditShutdown(i) \/ FlushEnds(i)
  <2>1. PICK i \in Insts : AuditStart(i) \/ BeforeTurn(i) \/ TurnSettled(i) \/ AuditShutdown(i) \/ FlushEnds(i)
    BY <1>2
  <2>2. UNCHANGED <<req, fate, history>>
    BY <2>1 DEF AuditStart, BeforeTurn, TurnSettled, AuditShutdown, FlushEnds
  <2>3. CountsInv'
    BY <1>1, <2>2, CountsStay
  <2>4. RequestsInv'
    BY <1>1, <2>1, SessionRequests
  <2>5. AuditTypes' /\ MarkerInv'
    BY <1>1, <2>1, StartTypes, StartMarkers, TurnStep, ShutdownStep, QuietTypes, QuietMarkers
  <2>6. QED
    BY <2>3, <2>4, <2>5 DEF AuditInv
<1>3. CASE \E i \in Insts, r \in Reqs : ObserveStream(i, r)
  <2>1. PICK i \in Insts, r \in Reqs : ObserveStream(i, r)
    BY <1>3
  <2>2. AuditTypes' /\ MarkerInv' /\ RequestsInv'
    BY <1>1, <2>1, ObserveStep
  <2>3. CountsInv'
    <3>1. /\ history' = history /\ fate' = fate /\ req[r].pc = "new" /\ fate[r] = "none"
          /\ \A q \in Reqs \ {r} : req'[q] = req[q]
      BY <1>1, <2>1 DEF ObserveStream, RequestsInv, AuditTypes
    <3>2. ASSUME NEW e \in history.roots
          PROVE  Counts(e, InFile(e.root))'
      <4> DEFINE D == InFile(e.root)'
      <4>1. D = InFile(e.root) /\ D \subseteq Reqs \ {r}
        <5>1. \A q \in Reqs : q # r => req'[q] = req[q]
          BY <3>1
        <5>2. fate'[r] = "none" /\ fate[r] = "none"
          BY <3>1
        <5>3. QED
          BY <3>1, <5>1, <5>2 DEF InFile
      <4>2. Counts(e, D)
        BY <1>1, <4>1 DEF CountsInv
      <4> HIDE DEF D
      <4>3. \A q \in D : req'[q].m = req[q].m
        BY <3>1, <4>1
      <4>4. /\ {q \in D : req'[q].m.seq = 0} = {q \in D : req[q].m.seq = 0}
            /\ \A t : {q \in D : req'[q].m.seq # 0 /\ TurnOf(req'[q].m) = t} = OfTurnIn(D, t)
        BY <4>3 DEF OfTurnIn
      <4>5. QED
        BY <4>2, <4>3, <4>4 DEF Counts, Apart, OfTurnIn, D
    <3>3. QED
      BY <1>1, <3>1, <3>2 DEF CountsInv
  <2>4. QED
    BY <2>2, <2>3 DEF AuditInv
<1>4. CASE \E r \in Reqs : Finalize(r)
  <2>1. PICK r \in Reqs : Finalize(r)
    BY <1>4
  <2>2. /\ AuditTypes' /\ MarkerInv' /\ RequestsInv' /\ history' = history
        /\ \A q \in Reqs : req'[q].m = req[q].m /\ (fate'[q] = "counted" <=> fate[q] = "counted")
    BY <1>1, <2>1, FinalizeStep
  <2>3. CountsInv'
    BY <1>1, <2>2, CountsStay
  <2>4. QED
    BY <2>2, <2>3 DEF AuditInv
<1>5. CASE \E r \in Reqs : AppendWrite(r)
  BY <1>1, <1>5, AppendStep
<1>6. CASE Spawn
  <2>1. AuditTypes' /\ MarkerInv'
    BY <1>1, <1>6, SpawnStep
  <2>2. UNCHANGED <<inst, req, fate, history>>
    BY <1>6 DEF Spawn
  <2>3. CountsInv'
    BY <1>1, <2>2, CountsStay
  <2>4. RequestsInv'
    BY <1>1, <2>2, FileRequests
  <2>5. QED
    BY <2>1, <2>3, <2>4 DEF AuditInv
<1>7. CASE ClearHistory \/ FileChanges
  BY <1>1, <1>7, OutsideStep
<1>8. CASE \E p \in Process : Exit(p)
  <2>1. PICK p \in Process : Exit(p)
    BY <1>8
  <2>2. AuditTypes' /\ MarkerInv'
    BY <1>1, <2>1, ExitStep
  <2>3. /\ RequestsInv'
        /\ \A r \in Reqs : req'[r].m = req[r].m /\ (fate'[r] = "counted" <=> fate[r] = "counted")
    BY <1>1, <2>1, ExitRequests
  <2>4. history' = history
    BY <2>1 DEF Exit
  <2>5. CountsInv'
    BY <1>1, <2>3, <2>4, CountsStay
  <2>6. QED
    BY <2>2, <2>3, <2>5 DEF AuditInv
<1>9. CASE UNCHANGED auditVars
  <2>1. UNCHANGED <<marker, given, inst, req, writes, history, starts, fate>>
    BY <1>9 DEF auditVars
  <2>2. AuditTypes' /\ MarkerInv'
    BY <1>1, <2>1 DEF AuditTypes, MarkerInv, MarkerIsTheMains
  <2>3. RequestsInv'
    BY <1>1, <2>1, FileRequests
  <2>4. CountsInv'
    BY <1>1, <2>1, CountsStay
  <2>5. QED
    BY <2>2, <2>3, <2>4 DEF AuditInv
<1>10. QED
  BY <1>2, <1>3, <1>4, <1>5, <1>6, <1>7, <1>8, <1>9 DEF AuditNext

LEMMA AuditInvariant == AuditSpec => []AuditInv
<1>1. AuditInit => AuditInv
  BY AuditStarts
<1>2. AuditInv /\ [AuditNext]_auditVars => AuditInv'
  BY AuditSteps
<1>3. QED
  BY <1>1, <1>2, PTL DEF AuditSpec

LEMMA AuditInvGives ==
    ASSUME AuditInv
    PROVE  AuditTypeOK /\ MarkerIsTheMains /\ CountsOutliveRecords
<1>1. AuditTypes /\ MarkerInv /\ CountsInv
  BY DEF AuditInv
<1>2. AuditTypeOK
  <2>1. history.status \in {"ok", "missing", "corrupt", "newer"}
    BY <1>1 DEF AuditTypes, HistoryFile
  <2>2. \A i \in Insts : inst[i].active => inst[i].role.kind # "none"
    BY <1>1 DEF MarkerInv
  <2>3. /\ Len(history.records) <= MaxRecords /\ Cardinality(history.roots) <= MaxRoots
        /\ \A e \in history.roots : Len(e.turns) <= MaxTurnsPerRoot
    BY <1>1 DEF CountsInv, Counts
  <2>4. QED
    BY <1>1, <2>1, <2>2, <2>3 DEF AuditTypeOK, AuditTypes
<1>3. MarkerIsTheMains
  BY <1>1 DEF MarkerInv
<1>4. CountsOutliveRecords
  <2>1. ASSUME NEW e \in history.roots
        PROVE  LET all == InFile(e.root)
                   whole == Len(e.turns) < MaxTurnsPerRoot IN
               /\ e.all = Cardinality(all)
               /\ e.unattributed = Cardinality({r \in all : req[r].m.seq = 0})
               /\ \A k \in DOMAIN e.turns :
                     LET n == Cardinality(OfTurn(e.root, e.turns[k].of)) IN
                     e.turns[k].n \in 1..n /\ (whole => e.turns[k].n = n)
               /\ whole => \A r \in all : req[r].m.seq # 0 =>
                              \E k \in DOMAIN e.turns : e.turns[k].of = TurnOf(req[r].m)
               /\ \A j, k \in DOMAIN e.turns : e.turns[j].of = e.turns[k].of => j = k
    <3> DEFINE all == InFile(e.root)
    <3>1. Counts(e, all)
      BY <1>1 DEF CountsInv
    <3>2. all \in SUBSET Reqs /\ IsFiniteSet(all)
      BY AuditAssumption, FS_Subset DEF InFile
    <3>3. \A t : OfTurn(e.root, t) = OfTurnIn(all, t)
      BY DEF OfTurn, OfTurnIn
    <3>4. e \in RootEntry
      BY <1>1 DEF AuditTypes, HistoryFile
    <3>5. \A k \in DOMAIN e.turns : e.turns[k].n \in Nat
      <4>1. e.turns \in Seq(Turn)
        BY <3>4 DEF RootEntry
      <4>2. \A k \in DOMAIN e.turns : e.turns[k] \in Turn
        BY <4>1
      <4>3. QED
        BY <4>2 DEF Turn
    <3> HIDE DEF all
    <3>6. \A t : Cardinality(OfTurnIn(all, t)) \in Nat
      <4>1. ASSUME NEW t PROVE Cardinality(OfTurnIn(all, t)) \in Nat
        <5>1. OfTurnIn(all, t) \subseteq all
          BY DEF OfTurnIn
        <5>2. QED
          BY <3>2, <5>1, FS_Subset, FS_CardinalityType
      <4>2. QED
        BY <4>1
    <3>7. \A k \in DOMAIN e.turns :
             LET n == Cardinality(OfTurnIn(all, e.turns[k].of)) IN
             e.turns[k].n \in 1..n /\ (Len(e.turns) < MaxTurnsPerRoot => e.turns[k].n = n)
      BY <3>1, <3>5, <3>6 DEF Counts
    <3>8. QED
      BY <3>1, <3>3, <3>7 DEF Counts, Apart, all
  <2>2. QED
    BY <2>1 DEF CountsOutliveRecords
<1>5. QED
  BY <1>2, <1>3, <1>4

(* The audit's state is well formed: an active session has a role, the file is
   within its limits, and what waits to be written is what was not yet. *)
THEOREM AuditTypesCorrect == AuditSpec => []AuditTypeOK
BY AuditInvariant, AuditInvGives, PTL

LEMMA LateStep ==
    ASSUME AuditInv, [AuditNext]_auditVars
    PROVE  [\A r \in writes' \ writes :
              LET i == req[r].inst IN
              inst[i].role.m.tok = req[r].m.tok /\ req[r].m.seq <= inst[i].role.m.seq]_auditVars
<1>1. CASE \E r \in Reqs : Finalize(r)
  BY <1>1, FinalizeStep DEF AuditInv
<1>2. CASE ~\E r \in Reqs : Finalize(r)
  <2>1. writes' \subseteq writes
    BY <1>2 DEF AuditNext, AuditStart, BeforeTurn, TurnSettled, AuditShutdown, FlushEnds, ObserveStream,
       AppendWrite, Spawn, ClearHistory, FileChanges, Exit, auditVars
  <2>2. QED
    BY <2>1
<1>3. QED
  BY <1>1, <1>2

LEMMA NewerStep ==
    ASSUME [AuditNext]_auditVars
    PROVE  history.status = "newer" => history' = history
BY DEF AuditNext, AuditStart, BeforeTurn, TurnSettled, AuditShutdown, FlushEnds, ObserveStream, Finalize,
       AppendWrite, Writable, Spawn, ClearHistory, FileChanges, Exit, auditVars

(* The marker of a process is its own session's or what the process was given;
   the counts of the file are those of the mismatches written since they were
   cleared; what comes after the session's end is dropped; and the file of a
   newer version is left alone: with any number of instances, requests, roots
   and turns, and any limits. *)
THEOREM AuditAlwaysSound == AuditSpec => AuditIsSound
<1>1. AuditInv => MarkerIsTheMains /\ CountsOutliveRecords
  BY AuditInvGives
<1>2. AuditSpec => LateIsDropped
  BY AuditInvariant, LateStep, PTL DEF AuditSpec, LateIsDropped
<1>3. AuditSpec => NewerIsKept
  BY NewerStep, PTL DEF AuditSpec, NewerIsKept
<1>4. QED
  BY <1>1, <1>2, <1>3, AuditInvariant, PTL DEF AuditIsSound

-----------------------------------------------------------------------------
(* The observer of the stream *)

(* A set of numbers that has 0 and, with one below n, the next, has all up to n. *)
LEMMA UpTo ==
    ASSUME NEW n \in Nat, NEW S, 0 \in S, \A k \in 0..n : k < n /\ k \in S => k + 1 \in S
    PROVE  \A k \in 0..n : k \in S
<1> SUFFICES ASSUME NEW z \in 0..n, z \notin S PROVE FALSE
  OBVIOUS
<1> DEFINE Out == {k \in 0..n : k \notin S}
<1>1. Out \subseteq Nat /\ z \in Out
  OBVIOUS
<1>2. PICK k \in Out : \A m \in Out : k <= m
  <2> HIDE DEF Out
  <2>1. QED
    BY <1>1, SmallestOf
<1>3. k \in 0..n /\ k \notin S /\ k # 0
  BY <1>2
<1>4. k - 1 \in 0..n /\ k - 1 < n /\ (k - 1) + 1 = k
  BY <1>3
<1>5. k - 1 \notin Out
  BY <1>2, <1>4
<1>6. QED
  BY <1>3, <1>4, <1>5

(* What a step makes of a first value, one number after the other. *)
Follows(f, base, g, n) ==
    f[0] = base /\ \A k \in 1..n : f[k] = g[k][f[k - 1]]

LEMMA SequelExists ==
    ASSUME NEW X, NEW base \in X, NEW g \in [Nat -> [X -> X]], NEW n \in Nat
    PROVE  \E f \in [0..n -> X] : Follows(f, base, g, n)
<1> DEFINE S == {k \in 0..n : \E f \in [0..k -> X] : Follows(f, base, g, k)}
<1>1. 0 \in S
  <2>1. [k \in 0..0 |-> base] \in [0..0 -> X]
    OBVIOUS
  <2>2. Follows([k \in 0..0 |-> base], base, g, 0)
    BY DEF Follows
  <2>3. QED
    BY <2>1, <2>2
<1>2. ASSUME NEW k \in 0..n, k < n, k \in S PROVE k + 1 \in S
  <2>1. PICK f \in [0..k -> X] : Follows(f, base, g, k)
    BY <1>2
  <2>2. k \in Nat /\ k + 1 \in 0..n /\ f[k] \in X /\ g[k + 1] \in [X -> X] /\ g[k + 1][f[k]] \in X
    BY <1>2
  <2> DEFINE h == [j \in 0..k + 1 |-> IF j = k + 1 THEN g[k + 1][f[k]] ELSE f[j]]
  <2>3. h \in [0..k + 1 -> X]
    BY <2>2
  <2>4. h[0] = base
    BY <2>1, <2>2 DEF Follows
  <2>5. ASSUME NEW j \in 1..k + 1 PROVE h[j] = g[j][h[j - 1]]
    <3>1. CASE j = k + 1
      <4>1. h[j] = g[k + 1][f[k]] /\ h[j - 1] = f[k]
        BY <2>2, <3>1
      <4>2. QED
        BY <3>1, <4>1
    <3>2. CASE j # k + 1
      <4>1. j \in 1..k /\ j - 1 \in 0..k + 1 /\ j - 1 # k + 1 /\ j \in 0..k + 1
        BY <2>2, <3>2
      <4>2. h[j] = f[j] /\ h[j - 1] = f[j - 1]
        BY <3>2, <4>1
      <4>3. QED
        BY <2>1, <4>1, <4>2 DEF Follows
    <3>3. QED
      BY <3>1, <3>2
  <2> HIDE DEF h
  <2>6. Follows(h, base, g, k + 1)
    BY <2>4, <2>5 DEF Follows
  <2>7. QED
    BY <2>2, <2>3, <2>6
<1> HIDE DEF S
<1>3. \A k \in 0..n : k \in S
  BY <1>1, <1>2, UpTo
<1>4. n \in 0..n
  OBVIOUS
<1>5. QED
  BY <1>3, <1>4 DEF S

LEMMA SequelIn ==
    ASSUME NEW X, NEW base \in X, NEW g \in [Nat -> [X -> X]], NEW n \in Nat, NEW f,
           Follows(f, base, g, n)
    PROVE  \A k \in 0..n : f[k] \in X
<1> DEFINE S == {k \in 0..n : f[k] \in X}
<1>1. 0 \in S
  BY DEF Follows
<1>2. ASSUME NEW k \in 0..n, k < n, k \in S PROVE k + 1 \in S
  <2>1. k + 1 \in 1..n /\ k + 1 \in 0..n /\ (k + 1) - 1 = k /\ k + 1 \in Nat
    BY <1>2
  <2>2. f[k + 1] = g[k + 1][f[k]]
    BY <2>1 DEF Follows
  <2>3. QED
    BY <1>2, <2>1, <2>2
<1> HIDE DEF S
<1>3. \A k \in 0..n : k \in S
  BY <1>1, <1>2, UpTo
<1>4. QED
  BY <1>3 DEF S

(* It is what it is whatever comes after. *)
BothFollow(e, g, n, f, h, m, base) ==
    /\ n \in Nat /\ m \in Nat /\ n <= m
    /\ Follows(e, base, g, n) /\ Follows(f, base, h, m)
    /\ \A k \in 1..n : g[k] = h[k]
AreOne(e, f, n) == \A k \in 0..n : e[k] = f[k]
LEMMA SequelIsOne ==
    ASSUME NEW e, NEW g, NEW n, NEW f, NEW h, NEW m, NEW base,
           BothFollow(e, g, n, f, h, m, base)
    PROVE  AreOne(e, f, n)
<1> USE DEF BothFollow, AreOne
<1> DEFINE S == {k \in 0..n : e[k] = f[k]}
<1>1. 0 \in S
  BY DEF Follows
<1>2. ASSUME NEW k \in 0..n, k < n, k \in S PROVE k + 1 \in S
  <2>1. k + 1 \in 1..n /\ k + 1 \in 1..m /\ k + 1 \in 0..n /\ (k + 1) - 1 = k
    BY <1>2
  <2>2. e[k + 1] = g[k + 1][e[k]] /\ f[k + 1] = h[k + 1][f[k]]
    BY <2>1 DEF Follows
  <2>3. QED
    BY <1>2, <2>1, <2>2
<1> HIDE DEF S
<1>3. \A k \in 0..n : k \in S
  BY <1>1, <1>2, UpTo
<1>4. QED
  BY <1>3 DEF S

(* What a mask keeps, member by member. *)
Adds(T, s, keep) ==
    [n \in Nat |-> [x \in Seq(T) |-> IF n \in 1..Len(s) /\ keep[n] THEN Append(x, s[n]) ELSE x]]

LEMMA WhereFollows ==
    ASSUME NEW T, NEW s \in Seq(T), NEW keep
    PROVE  \E f \in [0..Len(s) -> Seq(T)] :
              Follows(f, <<>>, Adds(T, s, keep), Len(s)) /\ Where(s, keep) = f[Len(s)]
<1> DEFINE N == Len(s)
           g == Adds(T, s, keep)
           Sequel(h) == [n \in 0..N |-> IF n = 0 THEN <<>>
                                        ELSE IF keep[n] THEN Append(h[n - 1], s[n]) ELSE h[n - 1]]
           w == CHOOSE h : h = Sequel(h)
<1>1. N \in Nat /\ <<>> \in Seq(T) /\ \A n \in 1..N : s[n] \in T
  OBVIOUS
<1>2. g \in [Nat -> [Seq(T) -> Seq(T)]]
  <2>1. ASSUME NEW n \in Nat, NEW x \in Seq(T)
        PROVE  (IF n \in 1..Len(s) /\ keep[n] THEN Append(x, s[n]) ELSE x) \in Seq(T)
    BY <1>1
  <2>2. QED
    BY <2>1 DEF Adds
<1>3. \A n \in 1..N, x \in Seq(T) : g[n][x] = IF keep[n] THEN Append(x, s[n]) ELSE x
  BY DEF Adds
<1> HIDE DEF g, N
<1>4. PICK f \in [0..N -> Seq(T)] : Follows(f, <<>>, g, N)
  BY <1>1, <1>2, SequelExists
<1>5. \A n \in 1..N : n - 1 \in 0..N /\ n \in 0..N /\ n # 0
  BY <1>1
<1>6. \A n \in 1..N : f[n] = IF keep[n] THEN Append(f[n - 1], s[n]) ELSE f[n - 1]
  <2>1. ASSUME NEW n \in 1..N
        PROVE  f[n] = IF keep[n] THEN Append(f[n - 1], s[n]) ELSE f[n - 1]
    <3>1. f[n] = g[n][f[n - 1]] /\ f[n - 1] \in Seq(T)
      BY <1>4, <1>5 DEF Follows
    <3>2. QED
      BY <1>3, <3>1
  <2>2. QED
    BY <2>1
<1>7. f = Sequel(f)
  <2>1. \A n \in 0..N : f[n] = Sequel(f)[n]
    <3>1. f[0] = <<>>
      BY <1>4 DEF Follows
    <3>2. \A n \in 0..N : n = 0 \/ n \in 1..N
      BY <1>1
    <3>3. QED
      BY <1>6, <3>1, <3>2
  <2>2. DOMAIN f = 0..N
    BY <1>4
  <2>3. f = [n \in 0..N |-> f[n]]
    BY <1>4
  <2>4. QED
    BY <2>1, <2>3
<1>8. w = Sequel(w)
  <2> HIDE DEF Sequel
  <2>1. QED
    BY <1>7, Zenon
<1> HIDE DEF w
<1>9. w[0] = <<>> /\ \A n \in 1..N : w[n] = IF keep[n] THEN Append(w[n - 1], s[n]) ELSE w[n - 1]
  <2>1. \A n \in 0..N : w[n] = Sequel(w)[n]
    BY <1>8
  <2>2. 0 \in 0..N
    BY <1>1
  <2>3. QED
    BY <1>5, <2>1, <2>2
<1>10. \A n \in 0..N : w[n] = f[n]
  <2> DEFINE S == {n \in 0..N : w[n] = f[n]}
  <2>1. 0 \in S
    BY <1>1, <1>4, <1>9 DEF Follows
  <2>2. ASSUME NEW n \in 0..N, n < N, n \in S PROVE n + 1 \in S
    <3>1. n + 1 \in 1..N /\ n + 1 \in 0..N /\ (n + 1) - 1 = n
      BY <1>1, <2>2
    <3>2. QED
      BY <1>6, <1>9, <2>2, <3>1
  <2> HIDE DEF S
  <2>3. \A n \in 0..N : n \in S
    BY <1>1, <2>1, <2>2, UpTo
  <2>4. QED
    BY <2>3 DEF S
<1>11. Where(s, keep) = w[N]
  BY DEF Where, w, N
<1>12. N \in 0..N
  BY <1>1
<1>13. QED
  BY <1>4, <1>10, <1>11, <1>12 DEF g, N

LEMMA WhereIn ==
    ASSUME NEW T, NEW s \in Seq(T), NEW keep
    PROVE  Where(s, keep) \in Seq(T)
<1>1. PICK f \in [0..Len(s) -> Seq(T)] : Where(s, keep) = f[Len(s)]
  BY WhereFollows
<1>2. Len(s) \in 0..Len(s)
  OBVIOUS
<1>3. QED
  BY <1>1, <1>2

LEMMA WhereEmpty ==
    ASSUME NEW keep
    PROVE  Where(<<>>, keep) = <<>>
<1>1. <<>> \in Seq({}) /\ Len(<<>>) = 0
  OBVIOUS
<1>2. PICK f \in [0..0 -> Seq({})] : Where(<<>>, keep) = f[0] /\ f[0] = <<>>
  <2>1. PICK f \in [0..Len(<<>>) -> Seq({})] :
           Follows(f, <<>>, Adds({}, <<>>, keep), Len(<<>>)) /\ Where(<<>>, keep) = f[Len(<<>>)]
    BY <1>1, WhereFollows
  <2>2. QED
    BY <1>1, <2>1 DEF Follows
<1>3. QED
  BY <1>2

(* Only what the mask says of the members matters. *)
AlikeSoFar(s, j, t, k) ==
    Len(s) <= Len(t) /\ \A n \in 1..Len(s) : s[n] = t[n] /\ j[n] = k[n]
LEMMA WhereAlike ==
    ASSUME NEW T, NEW s \in Seq(T), NEW t \in Seq(T), NEW j, NEW k,
           AlikeSoFar(s, j, t, k)
    PROVE  \E f \in [0..Len(t) -> Seq(T)] :
              /\ Follows(f, <<>>, Adds(T, t, k), Len(t)) /\ Where(t, k) = f[Len(t)]
              /\ Where(s, j) = f[Len(s)]
<1>1. PICK e \in [0..Len(s) -> Seq(T)] :
         Follows(e, <<>>, Adds(T, s, j), Len(s)) /\ Where(s, j) = e[Len(s)]
  BY WhereFollows
<1>2. PICK f \in [0..Len(t) -> Seq(T)] :
         Follows(f, <<>>, Adds(T, t, k), Len(t)) /\ Where(t, k) = f[Len(t)]
  BY WhereFollows
<1>3. /\ Len(s) \in Nat /\ Len(t) \in Nat /\ Len(s) \in 0..Len(s) /\ Len(s) <= Len(t)
      /\ \A n \in 1..Len(s) : s[n] = t[n] /\ j[n] = k[n]
  BY DEF AlikeSoFar
<1>4. \A n \in 1..Len(s) : n \in Nat /\ n \in 1..Len(t)
  BY <1>3
<1>5. \A n \in 1..Len(s) : Adds(T, s, j)[n] = Adds(T, t, k)[n]
  <2>1. ASSUME NEW n \in 1..Len(s) PROVE Adds(T, s, j)[n] = Adds(T, t, k)[n]
    <3>1. /\ Adds(T, s, j)[n] = [x \in Seq(T) |-> IF n \in 1..Len(s) /\ j[n] THEN Append(x, s[n]) ELSE x]
          /\ Adds(T, t, k)[n] = [x \in Seq(T) |-> IF n \in 1..Len(t) /\ k[n] THEN Append(x, t[n]) ELSE x]
      BY <1>4 DEF Adds
    <3>2. s[n] = t[n] /\ j[n] = k[n] /\ n \in 1..Len(t)
      BY <1>3, <1>4
    <3>3. QED
      BY <3>1, <3>2
  <2>2. QED
    BY <2>1
<1>6. \A n \in 0..Len(s) : e[n] = f[n]
  <2>1. BothFollow(e, Adds(T, s, j), Len(s), f, Adds(T, t, k), Len(t), <<>>)
    BY <1>1, <1>2, <1>3, <1>5 DEF BothFollow
  <2>2. QED
    BY <2>1, SequelIsOne DEF AreOne
<1>7. QED
  BY <1>1, <1>2, <1>3, <1>6

LEMMA WhereSame ==
    ASSUME NEW T, NEW s \in Seq(T), NEW j, NEW k, \A n \in 1..Len(s) : j[n] = k[n]
    PROVE  Where(s, j) = Where(s, k)
<1>1. AlikeSoFar(s, j, s, k)
  BY DEF AlikeSoFar
<1>2. QED
  BY <1>1, WhereAlike

(* One more member. *)
LEMMA WhereAppend ==
    ASSUME NEW T, NEW s \in Seq(T), NEW x \in T, NEW j, NEW k, \A n \in 1..Len(s) : j[n] = k[n]
    PROVE  Where(Append(s, x), k) = IF k[Len(s) + 1] THEN Append(Where(s, j), x) ELSE Where(s, j)
<1> DEFINE t == Append(s, x)
           N == Len(s)
<1>1. /\ t \in Seq(T) /\ Len(t) = N + 1 /\ N \in Nat /\ t[N + 1] = x
      /\ \A n \in 1..N : s[n] = t[n]
  OBVIOUS
<1> HIDE DEF t
<1>2. PICK f \in [0..Len(t) -> Seq(T)] :
         /\ Follows(f, <<>>, Adds(T, t, k), Len(t)) /\ Where(t, k) = f[Len(t)]
         /\ Where(s, j) = f[N]
  <2>1. AlikeSoFar(s, j, t, k)
    BY <1>1 DEF AlikeSoFar
  <2>2. QED
    BY <1>1, <2>1, WhereAlike
<1>3. N + 1 \in 1..Len(t) /\ (N + 1) - 1 = N /\ N \in 0..Len(t) /\ f[N] \in Seq(T) /\ N + 1 \in Nat
  BY <1>1
<1>4. f[N + 1] = Adds(T, t, k)[N + 1][f[N]]
  BY <1>2, <1>3 DEF Follows
<1>5. Adds(T, t, k)[N + 1][f[N]] = IF k[N + 1] THEN Append(f[N], t[N + 1]) ELSE f[N]
  BY <1>3 DEF Adds
<1>6. QED
  BY <1>1, <1>2, <1>4, <1>5 DEF t

(* The characters of the data lines before the n-th, line by line. *)
Sizes(b) ==
    [k \in Nat |-> [x \in Nat |-> x + IF k \in 1..Len(b) /\ IsData(b[k]) THEN Len(b[k]) ELSE 0]]

LEMMA SizeFollows ==
    ASSUME NEW T, NEW b \in Seq(Seq(T)), NEW n \in 0..Len(b)
    PROVE  \E f \in [0..n -> Nat] : Follows(f, 0, Sizes(b), n) /\ SizeOf(b, n) = f[n]
<1> DEFINE Sequel(h) == [k \in 0..n |-> IF k = 0 THEN 0
                                        ELSE h[k - 1] + IF IsData(b[k]) THEN Len(b[k]) ELSE 0]
           w == CHOOSE h : h = Sequel(h)
           g == Sizes(b)
<1>1. n \in Nat /\ Len(b) \in Nat /\ \A k \in 1..Len(b) : b[k] \in Seq(T) /\ Len(b[k]) \in Nat
  OBVIOUS
<1>2. g \in [Nat -> [Nat -> Nat]]
  <2>1. ASSUME NEW k \in Nat, NEW x \in Nat
        PROVE  (x + IF k \in 1..Len(b) /\ IsData(b[k]) THEN Len(b[k]) ELSE 0) \in Nat
    <3>1. (IF k \in 1..Len(b) /\ IsData(b[k]) THEN Len(b[k]) ELSE 0) \in Nat
      BY <1>1
    <3>2. QED
      BY <3>1
  <2>2. QED
    BY <2>1 DEF Sizes
<1>3. \A k \in 1..n, x \in Nat : g[k][x] = x + IF IsData(b[k]) THEN Len(b[k]) ELSE 0
  <2>1. \A k \in 1..n : k \in Nat /\ k \in 1..Len(b)
    BY <1>1
  <2>2. QED
    BY <2>1 DEF Sizes
<1> HIDE DEF g
<1>4. PICK f \in [0..n -> Nat] : Follows(f, 0, g, n)
  BY <1>1, <1>2, SequelExists
<1>5. \A k \in 1..n : k - 1 \in 0..n /\ k \in 0..n /\ k # 0
  BY <1>1
<1>6. ASSUME NEW k \in 1..n PROVE f[k] = f[k - 1] + IF IsData(b[k]) THEN Len(b[k]) ELSE 0
  <2>1. f[k] = g[k][f[k - 1]] /\ f[k - 1] \in Nat
    BY <1>4, <1>5 DEF Follows
  <2>2. QED
    BY <1>3, <2>1
<1>7. f = Sequel(f)
  <2>1. f[0] = 0
    BY <1>4 DEF Follows
  <2>2. \A k \in 0..n : k = 0 \/ k \in 1..n
    BY <1>1
  <2>3. \A k \in 0..n : f[k] = Sequel(f)[k]
    BY <1>6, <2>1, <2>2
  <2>4. f = [k \in 0..n |-> f[k]]
    BY <1>4
  <2>5. QED
    BY <2>3, <2>4
<1>8. w = Sequel(w)
  <2> HIDE DEF Sequel
  <2>1. QED
    BY <1>7, Zenon
<1> HIDE DEF w
<1>9. \A k \in 0..n : w[k] = f[k]
  <2> DEFINE S == {k \in 0..n : w[k] = f[k]}
  <2>1. \A k \in 0..n : w[k] = Sequel(w)[k]
    BY <1>8
  <2>2. 0 \in S
    BY <1>1, <1>4, <2>1 DEF Follows
  <2>3. ASSUME NEW k \in 0..n, k < n, k \in S PROVE k + 1 \in S
    <3>1. k + 1 \in 1..n /\ k + 1 \in 0..n /\ (k + 1) - 1 = k /\ k + 1 # 0
      BY <1>1, <2>3
    <3>2. w[k + 1] = w[k] + IF IsData(b[k + 1]) THEN Len(b[k + 1]) ELSE 0
      BY <2>1, <3>1
    <3>3. f[k + 1] = f[k] + IF IsData(b[k + 1]) THEN Len(b[k + 1]) ELSE 0
      BY <1>6, <3>1
    <3>4. QED
      BY <2>3, <3>1, <3>2, <3>3
  <2> HIDE DEF S
  <2>4. \A k \in 0..n : k \in S
    BY <1>1, <2>2, <2>3, UpTo
  <2>5. QED
    BY <2>4 DEF S
<1>10. SizeOf(b, n) = w[n]
  BY DEF SizeOf, w
<1>11. n \in 0..n
  BY <1>1
<1>12. QED
  BY <1>4, <1>9, <1>10, <1>11 DEF g

LEMMA SizeNone ==
    ASSUME NEW T, NEW b \in Seq(Seq(T))
    PROVE  SizeOf(b, 0) = 0
<1>1. 0 \in 0..Len(b)
  OBVIOUS
<1>2. PICK f \in [0..0 -> Nat] : Follows(f, 0, Sizes(b), 0) /\ SizeOf(b, 0) = f[0]
  BY <1>1, SizeFollows
<1>3. QED
  BY <1>2 DEF Follows

LEMMA SizeIn ==
    ASSUME NEW T, NEW b \in Seq(Seq(T)), NEW n \in 0..Len(b)
    PROVE  SizeOf(b, n) \in Nat
<1>1. PICK f \in [0..n -> Nat] : SizeOf(b, n) = f[n]
  BY SizeFollows
<1>2. n \in 0..n
  OBVIOUS
<1>3. QED
  BY <1>1, <1>2

(* A line adds to the size, and lines after it do not. *)
LEMMA SizeStep ==
    ASSUME NEW T, NEW b \in Seq(Seq(T)), NEW c \in Seq(Seq(T)), NEW n \in Nat,
           n <= Len(b), n <= Len(c), \A k \in 1..n : b[k] = c[k]
    PROVE  /\ SizeOf(b, n) = SizeOf(c, n)
           /\ n < Len(c) => SizeOf(c, n + 1) = SizeOf(b, n) + IF IsData(c[n + 1]) THEN Len(c[n + 1]) ELSE 0
<1>1. n \in 0..Len(b) /\ n \in 0..Len(c) /\ n \in 0..n
  OBVIOUS
<1>2. PICK e \in [0..n -> Nat] : Follows(e, 0, Sizes(b), n) /\ SizeOf(b, n) = e[n]
  BY <1>1, SizeFollows
<1>3. \A k \in 1..n : Sizes(b)[k] = Sizes(c)[k]
  <2>1. ASSUME NEW k \in 1..n PROVE Sizes(b)[k] = Sizes(c)[k]
    <3>1. k \in Nat /\ k \in 1..Len(b) /\ k \in 1..Len(c) /\ b[k] = c[k]
      OBVIOUS
    <3>2. /\ Sizes(b)[k] = [x \in Nat |-> x + IF k \in 1..Len(b) /\ IsData(b[k]) THEN Len(b[k]) ELSE 0]
          /\ Sizes(c)[k] = [x \in Nat |-> x + IF k \in 1..Len(c) /\ IsData(c[k]) THEN Len(c[k]) ELSE 0]
      BY <3>1 DEF Sizes
    <3>3. QED
      BY <3>1, <3>2
  <2>2. QED
    BY <2>1
<1>4. PICK f \in [0..n -> Nat] : Follows(f, 0, Sizes(c), n) /\ SizeOf(c, n) = f[n]
  BY <1>1, SizeFollows
<1>5. e[n] = f[n]
  <2>1. BothFollow(e, Sizes(b), n, f, Sizes(c), n, 0)
    BY <1>2, <1>3, <1>4 DEF BothFollow
  <2>2. AreOne(e, f, n)
    BY <2>1, SequelIsOne
  <2>3. QED
    BY <1>1, <2>2 DEF AreOne
<1>6. ASSUME n < Len(c)
      PROVE SizeOf(c, n + 1) = SizeOf(b, n) + IF IsData(c[n + 1]) THEN Len(c[n + 1]) ELSE 0
  <2>1. /\ n + 1 \in 0..Len(c) /\ n + 1 \in Nat /\ n <= n + 1 /\ n + 1 \in 1..n + 1
        /\ (n + 1) - 1 = n /\ n \in 0..n + 1 /\ n + 1 \in 1..Len(c)
    BY <1>6
  <2>2. PICK h \in [0..n + 1 -> Nat] : Follows(h, 0, Sizes(c), n + 1) /\ SizeOf(c, n + 1) = h[n + 1]
    BY <2>1, SizeFollows
  <2>3. e[n] = h[n]
    <3>1. BothFollow(e, Sizes(b), n, h, Sizes(c), n + 1, 0)
      BY <1>2, <1>3, <2>1, <2>2 DEF BothFollow
    <3>2. AreOne(e, h, n)
      BY <3>1, SequelIsOne
    <3>3. QED
      BY <1>1, <3>2 DEF AreOne
  <2>4. h[n + 1] = Sizes(c)[n + 1][h[n]] /\ h[n] \in Nat
    BY <2>1, <2>2 DEF Follows
  <2>5. Sizes(c)[n + 1][h[n]] = h[n] + IF IsData(c[n + 1]) THEN Len(c[n + 1]) ELSE 0
    BY <2>1, <2>4 DEF Sizes
  <2>6. QED
    BY <1>2, <2>2, <2>3, <2>4, <2>5
<1>7. QED
  BY <1>2, <1>4, <1>5, <1>6

(* The places a mask marks. *)
LEMMA PositionsIn ==
    ASSUME NEW n \in Nat, NEW keep, DOMAIN keep = 1..n
    PROVE  Positions(keep) \in Seq(1..n)
<1>1. [k \in DOMAIN keep |-> k] \in Seq(1..n)
  OBVIOUS
<1>2. QED
  BY <1>1, WhereIn DEF Positions

LEMMA PositionsGrow ==
    ASSUME NEW n \in Nat, NEW j, DOMAIN j = 1..n, NEW k, DOMAIN k = 1..n + 1,
           \A i \in 1..n : j[i] = k[i]
    PROVE  Positions(k) = IF k[n + 1] THEN Append(Positions(j), n + 1) ELSE Positions(j)
<1> DEFINE s == [i \in 1..n |-> i]
<1>1. s \in Seq(1..n + 1) /\ Len(s) = n /\ n + 1 \in 1..n + 1
  OBVIOUS
<1>2. Append(s, n + 1) = [i \in 1..n + 1 |-> i]
  OBVIOUS
<1>3. Positions(j) = Where(s, j) /\ Positions(k) = Where(Append(s, n + 1), k)
  BY <1>2 DEF Positions
<1> HIDE DEF s
<1>4. \A i \in 1..Len(s) : j[i] = k[i]
  BY <1>1
<1>5. Where(Append(s, n + 1), k) = IF k[Len(s) + 1] THEN Append(Where(s, j), n + 1) ELSE Where(s, j)
  <2> DEFINE x == n + 1
             U == 1..n + 1
  <2>1. s \in Seq(U) /\ x \in U
    BY <1>1
  <2> HIDE DEF x, U
  <2>2. Where(Append(s, x), k) = IF k[Len(s) + 1] THEN Append(Where(s, j), x) ELSE Where(s, j)
    BY <1>4, <2>1, WhereAppend
  <2>3. QED
    BY <2>2 DEF x
<1>6. QED
  BY <1>1, <1>3, <1>5

LEMMA EndsIn ==
    ASSUME NEW T, NEW t \in Seq(T)
    PROVE  EndsOf(t) \in Seq(0..Len(t)) /\ Len(EndsOf(t)) >= 1
<1> DEFINE keep == [i \in DOMAIN t |-> IsEnd(t, i)]
<1>1. Len(t) \in Nat /\ DOMAIN keep = 1..Len(t)
  OBVIOUS
<1> HIDE DEF keep
<1>2. Positions(keep) \in Seq(1..Len(t))
  BY <1>1, PositionsIn
<1>3. \A p \in Seq(1..Len(t)) : <<0>> \o p \in Seq(0..Len(t)) /\ Len(<<0>> \o p) >= 1
  BY <1>1
<1>4. QED
  BY <1>2, <1>3 DEF EndsOf, keep

LEMMA EndsGrow ==
    ASSUME NEW T, NEW t \in Seq(T), NEW c \in T
    PROVE  LET u == Append(t, c) IN
           EndsOf(u) = IF IsEnd(u, Len(u)) THEN Append(EndsOf(t), Len(u)) ELSE EndsOf(t)
<1> DEFINE u == Append(t, c)
           n == Len(t)
           j == [i \in DOMAIN t |-> IsEnd(t, i)]
           k == [i \in DOMAIN u |-> IsEnd(u, i)]
<1>1. /\ n \in Nat /\ u \in Seq(T) /\ Len(u) = n + 1 /\ DOMAIN t = 1..n /\ DOMAIN u = 1..n + 1
      /\ \A i \in 1..n : u[i] = t[i]
  OBVIOUS
<1>2. DOMAIN j = 1..n /\ DOMAIN k = 1..n + 1 /\ k[n + 1] = IsEnd(u, n + 1)
  <2>1. n + 1 \in 1..n + 1
    BY <1>1
  <2>2. QED
    BY <1>1, <2>1
<1> HIDE DEF u, n
<1>3. \A i \in 1..n : j[i] = k[i]
  <2>1. ASSUME NEW i \in 1..n PROVE j[i] = k[i]
    <3>1. i \in 1..n + 1 /\ u[i] = t[i] /\ (i # 1 => i - 1 \in 1..n)
      BY <1>1
    <3>2. IsEnd(u, i) = IsEnd(t, i)
      BY <1>1, <3>1 DEF IsEnd
    <3>3. QED
      BY <1>1, <3>1, <3>2
  <2>2. QED
    BY <2>1
<1> HIDE DEF j, k
<1>4. Positions(k) = IF k[n + 1] THEN Append(Positions(j), n + 1) ELSE Positions(j)
  BY <1>1, <1>2, <1>3, PositionsGrow
<1>5. Positions(j) \in Seq(1..n)
  BY <1>1, <1>2, PositionsIn
<1>6. EndsOf(t) = <<0>> \o Positions(j) /\ EndsOf(u) = <<0>> \o Positions(k)
  BY DEF EndsOf, j, k
<1>7. <<0>> \o Append(Positions(j), n + 1) = Append(<<0>> \o Positions(j), n + 1)
  <2>1. \A s, p \in Seq(Nat), x \in Nat : s \o Append(p, x) = Append(s \o p, x)
    OBVIOUS
  <2>2. <<0>> \in Seq(Nat) /\ Positions(j) \in Seq(Nat) /\ n + 1 \in Nat
    BY <1>1, <1>5
  <2>3. QED
    BY <2>1, <2>2
<1>8. EndsOf(u) = IF IsEnd(u, Len(u)) THEN Append(EndsOf(t), Len(u)) ELSE EndsOf(t)
  BY <1>1, <1>2, <1>4, <1>6, <1>7
<1>9. QED
  BY <1>8 DEF u

(* A line is made of what stands between two ends. *)
LEMMA LineIn ==
    ASSUME NEW T, NEW t \in Seq(T), NEW i \in Nat, NEW j \in Nat, i <= Len(t), j <= Len(t) + 1
    PROVE  LineOf(t, i, j) \in Seq(T)
<1>1. SubSeq(t, i + 1, j - 1) \in Seq(T)
  OBVIOUS
<1>2. QED
  BY <1>1, WhereIn DEF LineOf

LEMMA LineStays ==
    ASSUME NEW T, NEW t \in Seq(T), NEW c \in T, NEW i \in Nat, NEW j \in Nat, j <= Len(t) + 1
    PROVE  LineOf(Append(t, c), i, j) = LineOf(t, i, j)
<1>1. SubSeq(Append(t, c), i + 1, j - 1) = SubSeq(t, i + 1, j - 1)
  <2>1. \A k \in (i + 1)..(j - 1) : Append(t, c)[k] = t[k]
    OBVIOUS
  <2>2. QED
    BY <2>1
<1>2. QED
  BY <1>1 DEF LineOf

LEMMA SliceGrows ==
    ASSUME NEW T, NEW t \in Seq(T), NEW c \in T, NEW i \in 0..Len(t)
    PROVE  SubSeq(Append(t, c), i + 1, Len(t) + 1) = Append(SubSeq(t, i + 1, Len(t)), c)
<1> DEFINE s == SubSeq(t, i + 1, Len(t))
           u == Append(s, c)
<1>1. s \in Seq(T) /\ Len(s) = Len(t) - i /\ Len(t) \in Nat
  OBVIOUS
<1> DEFINE v == SubSeq(Append(t, c), i + 1, Len(t) + 1)
<1>2. v \in Seq(T) /\ Len(v) = Len(t) - i + 1 /\ Append(t, c) \in Seq(T) /\ u \in Seq(T) /\ Len(u) = Len(t) - i + 1
  BY <1>1
<1>3. ASSUME NEW k \in 1..Len(t) - i + 1 PROVE v[k] = u[k]
  <2>1. v[k] = Append(t, c)[(i + 1) + k - 1]
    BY <1>2
  <2>2. CASE k = Len(t) - i + 1
    <3>1. (i + 1) + k - 1 = Len(t) + 1
      BY <1>1, <2>2
    <3>2. v[k] = c
      BY <2>1, <3>1
    <3>3. u[k] = c
      BY <1>1, <2>2
    <3>4. QED
      BY <3>2, <3>3
  <2>3. CASE k # Len(t) - i + 1
    <3>1. (i + 1) + k - 1 \in 1..Len(t) /\ k \in 1..Len(s)
      BY <1>1, <2>3
    <3>2. v[k] = t[(i + 1) + k - 1] /\ s[k] = t[(i + 1) + k - 1]
      BY <2>1, <3>1
    <3>3. u[k] = s[k]
      BY <1>1, <3>1
    <3>4. QED
      BY <3>2, <3>3
  <2>4. QED
    BY <2>2, <2>3
<1> HIDE DEF v, u
<1>4. v = u
  BY <1>2, <1>3
<1>5. QED
  BY <1>4 DEF v, u, s

LEMMA LineGrows ==
    ASSUME NEW T, NEW t \in Seq(T), NEW c \in T, NEW i \in 0..Len(t)
    PROVE  LineOf(Append(t, c), i, Len(t) + 2)
             = IF c = "lf" THEN LineOf(t, i, Len(t) + 1) ELSE Append(LineOf(t, i, Len(t) + 1), c)
<1> DEFINE s == SubSeq(t, i + 1, Len(t))
           j == [k \in DOMAIN s |-> s[k] # "lf"]
           u == Append(s, c)
           m == [k \in DOMAIN u |-> u[k] # "lf"]
<1>1. s \in Seq(T) /\ Len(s) = Len(t) - i /\ Len(t) \in Nat
  OBVIOUS
<1>2. SubSeq(Append(t, c), i + 1, Len(t) + 1) = u
  BY SliceGrows
<1>3. (Len(t) + 2) - 1 = Len(t) + 1 /\ (Len(t) + 1) - 1 = Len(t)
  BY <1>1
<1>4. LineOf(t, i, Len(t) + 1) = Where(s, j) /\ LineOf(Append(t, c), i, Len(t) + 2) = Where(u, m)
  BY <1>2, <1>3 DEF LineOf
<1> HIDE DEF s
<1>5. /\ DOMAIN s = 1..Len(s) /\ DOMAIN u = 1..Len(s) + 1 /\ u[Len(s) + 1] = c
      /\ \A k \in 1..Len(s) : u[k] = s[k] /\ k \in 1..Len(s) + 1
      /\ Len(s) + 1 \in 1..Len(s) + 1
  BY <1>1
<1>6. m[Len(s) + 1] = (c # "lf") /\ \A k \in 1..Len(s) : j[k] = m[k]
  BY <1>5
<1> HIDE DEF j, m
<1>7. Where(u, m) = IF m[Len(s) + 1] THEN Append(Where(s, j), c) ELSE Where(s, j)
  BY <1>1, <1>6, WhereAppend
<1>8. QED
  BY <1>4, <1>6, <1>7

LEMMA LinesIn ==
    ASSUME NEW T, NEW t \in Seq(T)
    PROVE  WholeLines(t) \in Seq(Seq(T)) /\ RestOf(t) \in Seq(T)
<1> DEFINE e == EndsOf(t)
           n == Len(e) - 1
<1>1. e \in Seq(0..Len(t)) /\ Len(e) >= 1
  BY EndsIn
<1>2. Len(t) \in Nat /\ n \in Nat /\ \A k \in 1..Len(e) : e[k] \in Nat /\ e[k] <= Len(t)
  BY <1>1
<1> HIDE DEF e
<1>3. ASSUME NEW k \in 1..n PROVE LineOf(t, e[k], e[k + 1]) \in Seq(T)
  <2>1. k \in 1..Len(e) /\ k + 1 \in 1..Len(e)
    BY <1>1, <1>2
  <2>2. e[k] \in Nat /\ e[k] <= Len(t) /\ e[k + 1] \in Nat /\ e[k + 1] <= Len(t) + 1
    BY <1>2, <2>1
  <2>3. QED
    BY <2>2, LineIn
<1>4. RestOf(t) \in Seq(T)
  <2>1. Len(e) \in 1..Len(e)
    BY <1>1
  <2>2. e[Len(e)] \in Nat /\ e[Len(e)] <= Len(t) /\ Len(t) + 1 \in Nat /\ Len(t) + 1 <= Len(t) + 1
    BY <1>2, <2>1
  <2>3. QED
    BY <2>2, LineIn DEF RestOf, e
<1>5. WholeLines(t) = [k \in 1..n |-> LineOf(t, e[k], e[k + 1])]
  BY DEF WholeLines, e
<1>6. QED
  BY <1>2, <1>3, <1>4, <1>5

AfterCr(t) == t # <<>> /\ t[Len(t)] = "cr"

(* One more character of a stream: a line feed after a carriage return changes
   nothing, another line end completes the line. *)
LEMMA TextGrows ==
    ASSUME NEW t \in Seq(Tokens), NEW c \in Tokens
    PROVE  LET u == Append(t, c) IN
           /\ AfterCr(u) <=> c = "cr"
           /\ c = "lf" /\ AfterCr(t) => WholeLines(u) = WholeLines(t) /\ RestOf(u) = RestOf(t)
           /\ c \in LineEnds /\ ~(c = "lf" /\ AfterCr(t)) =>
                WholeLines(u) = Append(WholeLines(t), RestOf(t)) /\ RestOf(u) = <<>>
           /\ c \notin LineEnds => WholeLines(u) = WholeLines(t) /\ RestOf(u) = Append(RestOf(t), c)
<1> DEFINE u == Append(t, c)
           n == Len(t)
           e == EndsOf(t)
           f == EndsOf(u)
<1>1. /\ n \in Nat /\ u \in Seq(Tokens) /\ Len(u) = n + 1 /\ u[n + 1] = c /\ u # <<>>
      /\ \A i \in 1..n : u[i] = t[i]
  OBVIOUS
<1>2. t = <<>> <=> n = 0
  OBVIOUS
<1>3. f = IF IsEnd(u, Len(u)) THEN Append(e, Len(u)) ELSE e
  BY EndsGrow
<1>4. e \in Seq(0..n) /\ Len(e) >= 1
  BY EndsIn
<1> HIDE DEF u, n, e, f
<1>5. IsEnd(u, n + 1) <=> c = "cr" \/ (c = "lf" /\ ~AfterCr(t))
  <2>1. CASE n = 0
    BY <1>1, <1>2, <2>1 DEF IsEnd, AfterCr
  <2>2. CASE n # 0
    <3>1. n \in 1..n /\ (n + 1) - 1 = n /\ n + 1 # 1
      BY <1>1, <2>2
    <3>2. u[(n + 1) - 1] = t[n]
      BY <1>1, <3>1
    <3>3. QED
      BY <1>1, <1>2, <2>2, <3>1, <3>2 DEF IsEnd, AfterCr, n
  <2>3. QED
    BY <2>1, <2>2
<1>6. AfterCr(u) <=> c = "cr"
  BY <1>1 DEF AfterCr
<1>7. \A k \in 1..Len(e) : e[k] \in Nat /\ e[k] \in 0..n /\ e[k] <= n + 1
  BY <1>1, <1>4
<1> DEFINE last == e[Len(e)]
<1>8. Len(e) \in 1..Len(e) /\ Len(e) \in Nat /\ last \in 0..n /\ last \in Nat /\ Len(e) - 1 \in Nat
  BY <1>4, <1>7
<1>9. \A i \in Nat, j \in Nat : j <= n + 1 => LineOf(u, i, j) = LineOf(t, i, j)
  BY LineStays DEF u, n
<1>10. /\ WholeLines(t) = [k \in 1..Len(e) - 1 |-> LineOf(t, e[k], e[k + 1])]
       /\ RestOf(t) = LineOf(t, last, n + 1)
       /\ WholeLines(u) = [k \in 1..Len(f) - 1 |-> LineOf(u, f[k], f[k + 1])]
       /\ RestOf(u) = LineOf(u, f[Len(f)], Len(u) + 1)
  BY DEF WholeLines, RestOf, e, f, n
<1>11. \A k \in 1..Len(e) - 1 : LineOf(u, e[k], e[k + 1]) = LineOf(t, e[k], e[k + 1])
  <2>1. \A k \in 1..Len(e) - 1 : k \in 1..Len(e) /\ k + 1 \in 1..Len(e)
    BY <1>8
  <2>2. QED
    BY <1>7, <1>9, <2>1
<1> HIDE DEF last
<1>12. ASSUME ~IsEnd(u, n + 1)
       PROVE  /\ WholeLines(u) = WholeLines(t)
              /\ RestOf(u) = IF c = "lf" THEN RestOf(t) ELSE Append(RestOf(t), c)
  <2>1. f = e
    BY <1>1, <1>3, <1>12
  <2>2. WholeLines(u) = WholeLines(t)
    BY <1>10, <1>11, <2>1
  <2>3. RestOf(u) = LineOf(u, last, n + 2)
    <3>1. Len(u) + 1 = n + 2
      BY <1>1
    <3>2. QED
      BY <1>10, <2>1, <3>1 DEF last
  <2>4. LineOf(u, last, n + 2) = IF c = "lf" THEN LineOf(t, last, n + 1) ELSE Append(LineOf(t, last, n + 1), c)
    BY <1>8, LineGrows DEF u, n
  <2>5. QED
    BY <1>10, <2>2, <2>3, <2>4
<1>13. ASSUME IsEnd(u, n + 1)
       PROVE  WholeLines(u) = Append(WholeLines(t), RestOf(t)) /\ RestOf(u) = <<>>
  <2> DEFINE m == Len(e)
  <2>1. f = Append(e, n + 1)
    BY <1>1, <1>3, <1>13
  <2>2. /\ Len(f) = m + 1 /\ f[m + 1] = n + 1 /\ m \in Nat
        /\ \A k \in 1..m : f[k] = e[k]
    BY <1>4, <2>1
  <2>3. RestOf(u) = <<>>
    <3>1. RestOf(u) = LineOf(u, n + 1, n + 2)
      <4>1. Len(u) + 1 = n + 2 /\ f[Len(f)] = n + 1
        BY <1>1, <2>2
      <4>2. QED
        BY <1>10, <4>1
    <3>2. SubSeq(u, (n + 1) + 1, (n + 2) - 1) = <<>>
      BY <1>1
    <3>3. QED
      BY <3>1, <3>2, WhereEmpty DEF LineOf
  <2>4. WholeLines(u) = [k \in 1..m |-> LineOf(u, f[k], f[k + 1])]
    <3>1. Len(f) - 1 = m
      BY <2>2
    <3>2. QED
      BY <1>10, <3>1
  <2>5. LineOf(u, f[m], f[m + 1]) = RestOf(t)
    <3>1. f[m] = last
      BY <1>8, <2>2 DEF last
    <3>2. n + 1 \in Nat /\ n + 1 <= n + 1
      BY <1>1
    <3>3. QED
      BY <1>8, <1>9, <1>10, <2>2, <3>1, <3>2
  <2>6. /\ WholeLines(t) \in Seq(Seq(Tokens)) /\ RestOf(t) \in Seq(Tokens)
    BY LinesIn
  <2>7. Len(WholeLines(t)) = m - 1
    BY <1>8, <1>10
  <2>8. \A k \in 1..m : WholeLines(u)[k] = Append(WholeLines(t), RestOf(t))[k]
    <3>1. ASSUME NEW k \in 1..m PROVE WholeLines(u)[k] = Append(WholeLines(t), RestOf(t))[k]
      <4>1. CASE k = m
        <5>1. Append(WholeLines(t), RestOf(t))[m] = RestOf(t)
          BY <1>8, <2>6, <2>7
        <5>2. QED
          BY <2>4, <2>5, <4>1, <5>1
      <4>2. CASE k # m
        <5>1. k \in 1..Len(e) - 1 /\ k + 1 \in 1..m
          BY <1>8, <4>2
        <5>2. WholeLines(u)[k] = LineOf(u, e[k], e[k + 1])
          BY <2>2, <2>4, <5>1
        <5>3. Append(WholeLines(t), RestOf(t))[k] = WholeLines(t)[k]
          BY <2>6, <2>7, <5>1
        <5>4. QED
          BY <1>10, <1>11, <5>1, <5>2, <5>3
      <4>3. QED
        BY <4>1, <4>2
    <3>2. QED
      BY <3>1
  <2>9. Append(WholeLines(t), RestOf(t)) = [k \in 1..m |-> Append(WholeLines(t), RestOf(t))[k]]
    <3> DEFINE z == Append(WholeLines(t), RestOf(t))
    <3>1. z \in Seq(Seq(Tokens)) /\ Len(z) = Len(WholeLines(t)) + 1
      BY <2>6
    <3>2. Len(z) = m
      BY <1>8, <2>7, <3>1
    <3> HIDE DEF z, m
    <3>3. z = [k \in 1..Len(z) |-> z[k]]
      BY <3>1
    <3>4. QED
      BY <3>2, <3>3 DEF z
  <2>10. WholeLines(u) = [k \in 1..m |-> WholeLines(u)[k]]
    BY <2>4
  <2>11. WholeLines(u) = Append(WholeLines(t), RestOf(t))
    <3> HIDE DEF m
    <3>1. QED
      BY <2>8, <2>9, <2>10
  <2>12. QED
    BY <2>3, <2>11
<1>14. c \in LineEnds <=> c = "cr" \/ c = "lf"
  BY DEF LineEnds
<1>15. QED
  BY <1>5, <1>6, <1>12, <1>13, <1>14, Zenon DEF u

LEMMA BlanksIn ==
    ASSUME NEW T, NEW L \in Seq(Seq(T))
    PROVE  BlanksOf(L) \in Seq(0..Len(L)) /\ Len(BlanksOf(L)) >= 1
<1> DEFINE keep == [k \in DOMAIN L |-> L[k] = <<>>]
<1>1. Len(L) \in Nat /\ DOMAIN keep = 1..Len(L)
  OBVIOUS
<1> HIDE DEF keep
<1>2. Positions(keep) \in Seq(1..Len(L))
  BY <1>1, PositionsIn
<1>3. \A p \in Seq(1..Len(L)) : <<0>> \o p \in Seq(0..Len(L)) /\ Len(<<0>> \o p) >= 1
  BY <1>1
<1>4. QED
  BY <1>2, <1>3 DEF BlanksOf, keep

LEMMA BlanksGrow ==
    ASSUME NEW T, NEW L \in Seq(Seq(T)), NEW l \in Seq(T)
    PROVE  BlanksOf(Append(L, l)) = IF l = <<>> THEN Append(BlanksOf(L), Len(L) + 1) ELSE BlanksOf(L)
<1> DEFINE M == Append(L, l)
           n == Len(L)
           j == [i \in DOMAIN L |-> L[i] = <<>>]
           k == [i \in DOMAIN M |-> M[i] = <<>>]
<1>1. /\ n \in Nat /\ M \in Seq(Seq(T)) /\ DOMAIN L = 1..n /\ DOMAIN M = 1..n + 1
      /\ M[n + 1] = l /\ n + 1 \in 1..n + 1
      /\ \A i \in 1..n : M[i] = L[i] /\ i \in 1..n + 1
  OBVIOUS
<1> HIDE DEF M, n
<1>2. DOMAIN j = 1..n /\ DOMAIN k = 1..n + 1 /\ k[n + 1] = (l = <<>>)
  BY <1>1
<1>3. \A i \in 1..n : j[i] = k[i]
  BY <1>1
<1> HIDE DEF j, k
<1>4. Positions(k) = IF k[n + 1] THEN Append(Positions(j), n + 1) ELSE Positions(j)
  BY <1>1, <1>2, <1>3, PositionsGrow
<1>5. Positions(j) \in Seq(1..n)
  BY <1>1, <1>2, PositionsIn
<1>6. BlanksOf(L) = <<0>> \o Positions(j) /\ BlanksOf(M) = <<0>> \o Positions(k)
  BY DEF BlanksOf, j, k
<1>7. <<0>> \o Append(Positions(j), n + 1) = Append(<<0>> \o Positions(j), n + 1)
  <2>1. \A s, p \in Seq(Nat), x \in Nat : s \o Append(p, x) = Append(s \o p, x)
    OBVIOUS
  <2>2. <<0>> \in Seq(Nat) /\ Positions(j) \in Seq(Nat) /\ n + 1 \in Nat
    BY <1>1, <1>5
  <2>3. QED
    BY <2>1, <2>2
<1>8. QED
  BY <1>2, <1>4, <1>6, <1>7 DEF M, n

LEMMA BlocksIn ==
    ASSUME NEW T, NEW L \in Seq(Seq(T))
    PROVE  WholeBlocks(L) \in Seq(Seq(Seq(T))) /\ LastBlock(L) \in Seq(Seq(T))
<1> DEFINE e == BlanksOf(L)
           n == Len(e) - 1
<1>1. e \in Seq(0..Len(L)) /\ Len(e) >= 1
  BY BlanksIn
<1>2. Len(L) \in Nat /\ n \in Nat /\ \A k \in 1..Len(e) : e[k] \in Nat /\ e[k] <= Len(L)
  BY <1>1
<1>3. /\ WholeBlocks(L) = [k \in 1..n |-> SubSeq(L, e[k] + 1, e[k + 1] - 1)]
      /\ LastBlock(L) = SubSeq(L, e[Len(e)] + 1, Len(L))
  BY DEF WholeBlocks, LastBlock
<1>4. \A i \in Nat, j \in Nat : i <= Len(L) /\ j <= Len(L) + 1 => SubSeq(L, i + 1, j - 1) \in Seq(Seq(T))
  BY <1>2
<1> HIDE DEF e
<1>5. ASSUME NEW k \in 1..n PROVE SubSeq(L, e[k] + 1, e[k + 1] - 1) \in Seq(Seq(T))
  <2>1. k \in 1..Len(e) /\ k + 1 \in 1..Len(e)
    BY <1>1, <1>2
  <2>2. e[k] \in Nat /\ e[k] <= Len(L) /\ e[k + 1] \in Nat /\ e[k + 1] <= Len(L) + 1
    BY <1>2, <2>1
  <2>3. QED
    BY <1>4, <2>2
<1>6. LastBlock(L) \in Seq(Seq(T))
  <2>1. Len(e) \in 1..Len(e)
    BY <1>1
  <2>2. e[Len(e)] \in Nat /\ e[Len(e)] <= Len(L) /\ Len(L) + 1 \in Nat /\ (Len(L) + 1) - 1 = Len(L)
    BY <1>2, <2>1
  <2>3. QED
    BY <1>3, <2>2
<1>7. QED
  BY <1>2, <1>3, <1>5, <1>6

(* One more line: a blank one completes the block. *)
LEMMA LinesGrow ==
    ASSUME NEW T, NEW L \in Seq(Seq(T)), NEW l \in Seq(T)
    PROVE  LET M == Append(L, l) IN
           /\ l = <<>> => WholeBlocks(M) = Append(WholeBlocks(L), LastBlock(L)) /\ LastBlock(M) = <<>>
           /\ l # <<>> => WholeBlocks(M) = WholeBlocks(L) /\ LastBlock(M) = Append(LastBlock(L), l)
<1> DEFINE M == Append(L, l)
           n == Len(L)
           e == BlanksOf(L)
           f == BlanksOf(M)
           last == e[Len(e)]
<1>1. /\ n \in Nat /\ M \in Seq(Seq(T)) /\ Len(M) = n + 1 /\ M[n + 1] = l
      /\ \A i \in 1..n : M[i] = L[i]
  OBVIOUS
<1>2. f = IF l = <<>> THEN Append(e, n + 1) ELSE e
  BY BlanksGrow
<1>3. e \in Seq(0..n) /\ Len(e) >= 1
  BY BlanksIn
<1>4. \A i \in Nat, j \in Nat : j <= n + 1 => SubSeq(M, i + 1, j - 1) = SubSeq(L, i + 1, j - 1)
  <2>1. ASSUME NEW i \in Nat, NEW j \in Nat, j <= n + 1
        PROVE  SubSeq(M, i + 1, j - 1) = SubSeq(L, i + 1, j - 1)
    <3>1. \A k \in (i + 1)..(j - 1) : M[k] = L[k]
      BY <1>1, <2>1
    <3>2. QED
      BY <1>1, <2>1, <3>1
  <2>2. QED
    BY <2>1
<1>5. /\ WholeBlocks(L) = [k \in 1..Len(e) - 1 |-> SubSeq(L, e[k] + 1, e[k + 1] - 1)]
      /\ LastBlock(L) = SubSeq(L, last + 1, n)
      /\ WholeBlocks(M) = [k \in 1..Len(f) - 1 |-> SubSeq(M, f[k] + 1, f[k + 1] - 1)]
      /\ LastBlock(M) = SubSeq(M, f[Len(f)] + 1, Len(M))
  BY DEF WholeBlocks, LastBlock
<1> HIDE DEF n, e, f, M
<1>6. \A k \in 1..Len(e) : e[k] \in Nat /\ e[k] \in 0..n /\ e[k] <= n + 1
  BY <1>1, <1>3
<1>7. Len(e) \in 1..Len(e) /\ Len(e) \in Nat /\ last \in 0..n /\ last \in Nat /\ Len(e) - 1 \in Nat
  BY <1>3, <1>6
<1>8. \A k \in 1..Len(e) - 1 : SubSeq(M, e[k] + 1, e[k + 1] - 1) = SubSeq(L, e[k] + 1, e[k + 1] - 1)
  <2>1. \A k \in 1..Len(e) - 1 : k \in 1..Len(e) /\ k + 1 \in 1..Len(e)
    BY <1>7
  <2>2. QED
    BY <1>4, <1>6, <2>1
<1> HIDE DEF last
<1>9. ASSUME l # <<>>
      PROVE  WholeBlocks(M) = WholeBlocks(L) /\ LastBlock(M) = Append(LastBlock(L), l)
  <2>1. f = e
    BY <1>2, <1>9
  <2>2. WholeBlocks(M) = WholeBlocks(L)
    BY <1>5, <1>8, <2>1
  <2>3. LastBlock(M) = SubSeq(M, last + 1, n + 1)
    BY <1>1, <1>5, <2>1 DEF last
  <2>4. SubSeq(M, last + 1, n + 1) = Append(SubSeq(L, last + 1, n), l)
    <3>1. last \in 0..Len(L)
      BY <1>7 DEF n
    <3> DEFINE S == Seq(T)
    <3>2. L \in Seq(S) /\ l \in S
      OBVIOUS
    <3> HIDE DEF S
    <3>3. QED
      BY <3>1, <3>2, SliceGrows DEF M, n
  <2>5. QED
    BY <1>5, <2>2, <2>3, <2>4
<1>10. ASSUME l = <<>>
       PROVE  WholeBlocks(M) = Append(WholeBlocks(L), LastBlock(L)) /\ LastBlock(M) = <<>>
  <2> DEFINE m == Len(e)
             z == Append(WholeBlocks(L), LastBlock(L))
  <2>1. f = Append(e, n + 1)
    BY <1>2, <1>10
  <2>2. /\ Len(f) = m + 1 /\ f[m + 1] = n + 1 /\ m \in Nat
        /\ \A k \in 1..m : f[k] = e[k]
    BY <1>3, <2>1
  <2>3. LastBlock(M) = <<>>
    <3>1. LastBlock(M) = SubSeq(M, (n + 1) + 1, n + 1)
      BY <1>1, <1>5, <2>2
    <3>2. QED
      BY <1>1, <3>1
  <2>4. WholeBlocks(M) = [k \in 1..m |-> SubSeq(M, f[k] + 1, f[k + 1] - 1)]
    <3>1. Len(f) - 1 = m
      BY <2>2
    <3>2. QED
      BY <1>5, <3>1
  <2>5. SubSeq(M, f[m] + 1, f[m + 1] - 1) = LastBlock(L)
    <3>1. f[m] = last /\ f[m + 1] = n + 1
      BY <1>7, <2>2 DEF last
    <3>2. n + 1 \in Nat /\ n + 1 <= n + 1 /\ (n + 1) - 1 = n
      BY <1>1
    <3>3. SubSeq(M, last + 1, (n + 1) - 1) = SubSeq(L, last + 1, (n + 1) - 1)
      BY <1>4, <1>7, <3>2
    <3>4. QED
      BY <1>5, <3>1, <3>2, <3>3
  <2>6. WholeBlocks(L) \in Seq(Seq(Seq(T))) /\ LastBlock(L) \in Seq(Seq(T))
    BY BlocksIn
  <2>7. Len(WholeBlocks(L)) = m - 1
    BY <1>5, <1>7
  <2>8. \A k \in 1..m : WholeBlocks(M)[k] = z[k]
    <3>1. ASSUME NEW k \in 1..m PROVE WholeBlocks(M)[k] = z[k]
      <4>1. CASE k = m
        <5>1. z[m] = LastBlock(L)
          BY <1>7, <2>6, <2>7
        <5>2. QED
          BY <2>4, <2>5, <4>1, <5>1
      <4>2. CASE k # m
        <5>1. k \in 1..Len(e) - 1 /\ k + 1 \in 1..m
          BY <1>7, <4>2
        <5>2. WholeBlocks(M)[k] = SubSeq(M, e[k] + 1, e[k + 1] - 1)
          BY <2>2, <2>4, <5>1
        <5>3. z[k] = WholeBlocks(L)[k]
          BY <2>6, <2>7, <5>1
        <5>4. QED
          BY <1>5, <1>8, <5>1, <5>2, <5>3
      <4>3. QED
        BY <4>1, <4>2
    <3>2. QED
      BY <3>1
  <2>9. z \in Seq(Seq(Seq(T))) /\ Len(z) = m
    BY <1>7, <2>6, <2>7
  <2>10. WholeBlocks(M) = [k \in 1..m |-> WholeBlocks(M)[k]]
    BY <2>4
  <2> HIDE DEF m, z
  <2>11. z = [k \in 1..m |-> z[k]]
    BY <2>9
  <2>12. WholeBlocks(M) = z
    BY <2>8, <2>10, <2>11
  <2>13. QED
    BY <2>3, <2>12 DEF z
<1>11. QED
  BY <1>9, <1>10, Zenon DEF M

(* What an event is made of. *)
Datas == {DataOf(b) : b \in Seq(Seq(Tokens))}
Payloads == {PayloadOf(b) : b \in Seq(Seq(Tokens))}

LEMMA NoBlock ==
    /\ SizeOf(<<>>, Len(<<>>)) = 0 /\ ~TooLong(<<>>) /\ DataOf(<<>>) = <<>> /\ PayloadOf(<<>>) = <<>>
    /\ <<>> \in Datas
<1>1. <<>> \in Seq(Seq(Tokens)) /\ Len(<<>>) = 0 /\ DOMAIN <<>> = {}
  OBVIOUS
<1>2. SizeOf(<<>>, Len(<<>>)) = 0
  BY <1>1, SizeNone
<1>3. ~TooLong(<<>>)
  BY <1>1 DEF TooLong
<1>4. DataOf(<<>>) = <<>>
  <2>1. Where(<<>>, [k \in DOMAIN <<>> |-> IsData(<<>>[k])]) = <<>>
    BY WhereEmpty
  <2>2. DataOf(<<>>) = [k \in DOMAIN <<>> |-> Tail(<<>>[k])]
    BY <2>1 DEF DataOf
  <2>3. QED
    BY <1>1, <2>2
<1>5. QED
  BY <1>1, <1>2, <1>3, <1>4 DEF PayloadOf, Datas

(* One more line of an event. *)
LEMMA BlockGrows ==
    ASSUME NEW b \in Seq(Seq(Tokens)), NEW l \in Seq(Tokens)
    PROVE  LET c == Append(b, l) IN
           /\ SizeOf(b, Len(b)) \in Nat
           /\ SizeOf(c, Len(c)) = SizeOf(b, Len(b)) + IF IsData(l) THEN Len(l) ELSE 0
           /\ TooLong(c) <=> TooLong(b) \/ SizeOf(b, Len(b)) + Len(l) > MaxEventChars
           /\ DataOf(c) = IF IsData(l) THEN Append(DataOf(b), Tail(l)) ELSE DataOf(b)
<1> DEFINE c == Append(b, l)
           n == Len(b)
<1>1. /\ c \in Seq(Seq(Tokens)) /\ Len(c) = n + 1 /\ n \in Nat /\ c[n + 1] = l
      /\ \A k \in 1..n : b[k] = c[k]
      /\ DOMAIN b = 1..n /\ DOMAIN c = 1..n + 1
  OBVIOUS
<1>2. SizeOf(b, n) \in Nat
  <2>1. n \in 0..Len(b)
    BY <1>1
  <2>2. QED
    BY <2>1, SizeIn
<1> HIDE DEF c
<1>3. SizeOf(c, Len(c)) = SizeOf(b, n) + IF IsData(l) THEN Len(l) ELSE 0
  <2>1. n <= Len(b) /\ n < Len(c) /\ n <= Len(c)
    BY <1>1
  <2>2. SizeOf(c, n + 1) = SizeOf(b, n) + IF IsData(c[n + 1]) THEN Len(c[n + 1]) ELSE 0
    BY <1>1, <2>1, SizeStep
  <2>3. QED
    BY <1>1, <2>2
<1>4. \A k \in 0..n : SizeOf(b, k) = SizeOf(c, k)
  <2>1. ASSUME NEW k \in 0..n PROVE SizeOf(b, k) = SizeOf(c, k)
    <3>1. k \in Nat /\ k <= Len(b) /\ k <= Len(c) /\ \A i \in 1..k : b[i] = c[i]
      BY <1>1
    <3>2. QED
      BY <1>1, <3>1, SizeStep
  <2>2. QED
    BY <2>1
<1>5. TooLong(c) <=> TooLong(b) \/ SizeOf(b, n) + Len(l) > MaxEventChars
  <2>1. ASSUME TooLong(b) PROVE TooLong(c)
    <3>1. PICK k \in 1..n : SizeOf(b, k - 1) + Len(b[k]) > MaxEventChars
      BY <1>1, <2>1 DEF TooLong
    <3>2. k \in 1..n + 1 /\ k - 1 \in 0..n
      BY <1>1
    <3>3. SizeOf(c, k - 1) + Len(c[k]) > MaxEventChars
      BY <1>1, <1>4, <3>1, <3>2
    <3>4. QED
      BY <1>1, <3>2, <3>3 DEF TooLong
  <2>2. ASSUME SizeOf(b, n) + Len(l) > MaxEventChars PROVE TooLong(c)
    <3>1. n + 1 \in 1..n + 1 /\ (n + 1) - 1 = n /\ n \in 0..n
      BY <1>1
    <3>2. SizeOf(c, (n + 1) - 1) + Len(c[n + 1]) > MaxEventChars
      BY <1>1, <1>4, <2>2, <3>1
    <3>3. QED
      BY <1>1, <3>1, <3>2 DEF TooLong
  <2>3. ASSUME TooLong(c) PROVE TooLong(b) \/ SizeOf(b, n) + Len(l) > MaxEventChars
    <3>1. PICK k \in 1..n + 1 : SizeOf(c, k - 1) + Len(c[k]) > MaxEventChars
      BY <1>1, <2>3 DEF TooLong
    <3>2. CASE k = n + 1
      <4>1. k - 1 = n /\ n \in 0..n
        BY <1>1, <3>2
      <4>2. QED
        BY <1>1, <1>4, <3>1, <3>2, <4>1
    <3>3. CASE k # n + 1
      <4>1. k \in 1..n /\ k - 1 \in 0..n
        BY <1>1, <3>3
      <4>2. SizeOf(b, k - 1) + Len(b[k]) > MaxEventChars
        BY <1>1, <1>4, <3>1, <4>1
      <4>3. QED
        BY <1>1, <4>1, <4>2 DEF TooLong
    <3>4. QED
      BY <3>2, <3>3
  <2>4. QED
    BY <2>1, <2>2, <2>3
<1>6. DataOf(c) = IF IsData(l) THEN Append(DataOf(b), Tail(l)) ELSE DataOf(b)
  <2> DEFINE j == [k \in DOMAIN b |-> IsData(b[k])]
             m == [k \in DOMAIN c |-> IsData(c[k])]
             d == Where(b, j)
             S == {Tail(x) : x \in Seq(Tokens)}
  <2>1. /\ \A k \in 1..n : k \in 1..n + 1
        /\ n + 1 \in 1..n + 1
    BY <1>1
  <2>2. m[n + 1] = IsData(l) /\ \A k \in 1..n : j[k] = m[k]
    BY <1>1, <2>1
  <2>3. DataOf(b) = [k \in DOMAIN d |-> Tail(d[k])]
    BY DEF DataOf
  <2>4. DataOf(c) = [k \in DOMAIN Where(c, m) |-> Tail(Where(c, m)[k])]
    BY DEF DataOf
  <2> HIDE DEF j, m
  <2>5. d \in Seq(Seq(Tokens))
    BY WhereIn
  <2>6. Where(c, m) = IF IsData(l) THEN Append(d, l) ELSE d
    <3> DEFINE X == Seq(Tokens)
    <3>1. b \in Seq(X) /\ l \in X
      OBVIOUS
    <3> HIDE DEF X
    <3>2. QED
      BY <2>2, <3>1, WhereAppend DEF c
  <2> HIDE DEF d
  <2>7. CASE IsData(l)
    <3> DEFINE u == Append(d, l)
               v == [k \in DOMAIN d |-> Tail(d[k])]
               w == Append(v, Tail(l))
               z == [k \in DOMAIN u |-> Tail(u[k])]
    <3>1. /\ Len(d) \in Nat /\ DOMAIN d = 1..Len(d) /\ DOMAIN u = 1..Len(d) + 1 /\ u[Len(d) + 1] = l
          /\ \A k \in 1..Len(d) : u[k] = d[k] /\ k \in 1..Len(d) + 1
      BY <2>5
    <3>2. v \in Seq(S) /\ Len(v) = Len(d) /\ Tail(l) \in S
      <4>1. \A k \in 1..Len(d) : d[k] \in Seq(Tokens)
        BY <2>5
      <4>2. \A k \in 1..Len(d) : Tail(d[k]) \in S
        BY <4>1
      <4> HIDE DEF S
      <4>3. v = [k \in 1..Len(d) |-> Tail(d[k])]
        BY <3>1
      <4>4. v \in Seq(S) /\ Len(v) = Len(d)
        BY <3>1, <4>2, <4>3
      <4>5. QED
        BY <4>4 DEF S
    <3>3. /\ w \in Seq(S) /\ Len(w) = Len(d) + 1 /\ w[Len(d) + 1] = Tail(l)
          /\ \A k \in 1..Len(d) : w[k] = v[k]
      <4> HIDE DEF v, S
      <4>1. QED
        BY <3>2
    <3> HIDE DEF u, w
    <3>4. \A k \in 1..Len(d) + 1 : w[k] = Tail(u[k])
      <4>1. \A k \in 1..Len(d) + 1 : k = Len(d) + 1 \/ k \in 1..Len(d)
        BY <3>1
      <4>2. \A k \in 1..Len(d) : v[k] = Tail(d[k])
        BY <3>1
      <4>3. QED
        BY <3>1, <3>3, <4>1, <4>2
    <3>5. w = [k \in 1..Len(d) + 1 |-> w[k]]
      <4>1. w = [k \in 1..Len(w) |-> w[k]]
        <5> HIDE DEF S
        <5>1. QED
          BY <3>3
      <4>2. QED
        BY <3>3, <4>1
    <3>6. z = w
      BY <3>1, <3>4, <3>5
    <3>7. QED
      BY <2>3, <2>4, <2>6, <2>7, <3>6 DEF u, w
  <2>8. CASE ~IsData(l)
    BY <2>3, <2>4, <2>6, <2>8
  <2>9. QED
    BY <2>7, <2>8
<1>7. QED
  BY <1>2, <1>3, <1>5, <1>6 DEF c

(* The lines of an event that is not too long fit. *)
LEMMA SizeFits ==
    ASSUME NEW b \in Seq(Seq(Tokens)), ~TooLong(b)
    PROVE  SizeOf(b, Len(b)) <= MaxEventChars
<1>1. CASE b = <<>>
  BY <1>1, NoBlock, ObserverAssumption DEF ObserverAssumption
<1>2. CASE b # <<>>
  <2> DEFINE S == Seq(Tokens)
  <2>1. PICK a \in Seq(S), l \in S : b = Append(a, l)
    <3>1. b \in Seq(S)
      OBVIOUS
    <3> HIDE DEF S
    <3>2. QED
      BY <1>2, <3>1, SequenceEmptyOrAppend
  <2>2. /\ SizeOf(a, Len(a)) \in Nat
        /\ SizeOf(b, Len(b)) = SizeOf(a, Len(a)) + IF IsData(l) THEN Len(l) ELSE 0
        /\ ~(SizeOf(a, Len(a)) + Len(l) > MaxEventChars)
    BY <2>1, BlockGrows
  <2>3. Len(l) \in Nat
    BY <2>1
  <2>4. QED
    BY <2>2, <2>3, ObserverAssumption DEF ObserverAssumption
<1>3. QED
  BY <1>1, <1>2

(* One more block. *)
LEMMA EventsIn ==
    ASSUME NEW blocks \in Seq(Seq(Seq(Tokens)))
    PROVE  EventsOf(blocks) \in Seq(Payloads)
<1> DEFINE p == [k \in DOMAIN blocks |-> PayloadOf(blocks[k])]
<1>1. p \in Seq(Payloads)
  BY DEF Payloads
<1> HIDE DEF p
<1>2. QED
  BY <1>1, WhereIn DEF EventsOf, p

LEMMA EventsGrow ==
    ASSUME NEW blocks \in Seq(Seq(Seq(Tokens))), NEW b \in Seq(Seq(Tokens))
    PROVE  EventsOf(Append(blocks, b))
             = IF PayloadOf(b) = <<>> THEN EventsOf(blocks) ELSE Append(EventsOf(blocks), PayloadOf(b))
<1> DEFINE c == Append(blocks, b)
           n == Len(blocks)
           p == [k \in DOMAIN blocks |-> PayloadOf(blocks[k])]
           q == [k \in DOMAIN c |-> PayloadOf(c[k])]
<1>1. /\ n \in Nat /\ DOMAIN blocks = 1..n /\ DOMAIN c = 1..n + 1 /\ c[n + 1] = b /\ n + 1 \in 1..n + 1
      /\ \A k \in 1..n : c[k] = blocks[k] /\ k \in 1..n + 1 /\ blocks[k] \in Seq(Seq(Tokens))
  OBVIOUS
<1>2. p \in Seq(Payloads) /\ Len(p) = n /\ PayloadOf(b) \in Payloads
  BY <1>1 DEF Payloads
<1> HIDE DEF c, n
<1>3. q = Append(p, PayloadOf(b))
  <2> DEFINE w == Append(p, PayloadOf(b))
             x == PayloadOf(b)
  <2>1. /\ w \in Seq(Payloads) /\ Len(w) = n + 1 /\ w[n + 1] = x
        /\ \A k \in 1..n : w[k] = p[k]
    <3> HIDE DEF p, x
    <3>1. QED
      BY <1>2 DEF x
  <2>2. q = [k \in 1..n + 1 |-> PayloadOf(c[k])]
    BY <1>1
  <2>3. \A k \in 1..n + 1 : w[k] = PayloadOf(c[k])
    <3>1. \A k \in 1..n + 1 : k = n + 1 \/ k \in 1..n
      BY <1>1
    <3>2. \A k \in 1..n : p[k] = PayloadOf(c[k])
      BY <1>1
    <3> HIDE DEF w, p
    <3>3. QED
      BY <1>1, <2>1, <3>1, <3>2
  <2> HIDE DEF w
  <2>4. w = [k \in 1..n + 1 |-> w[k]]
    BY <2>1
  <2>5. QED
    BY <2>2, <2>3, <2>4 DEF w
<1>4. /\ EventsOf(blocks) = Where(p, [k \in DOMAIN p |-> p[k] # <<>>])
      /\ EventsOf(c) = Where(q, [k \in DOMAIN q |-> q[k] # <<>>])
  BY DEF EventsOf
<1> DEFINE j == [k \in DOMAIN p |-> p[k] # <<>>]
           m == [k \in DOMAIN q |-> q[k] # <<>>]
<1>5. /\ DOMAIN p = 1..n /\ DOMAIN q = 1..n + 1 /\ q[n + 1] = PayloadOf(b)
      /\ \A k \in 1..n : q[k] = p[k]
  BY <1>1
<1> HIDE DEF p, q
<1>6. m[n + 1] = (PayloadOf(b) # <<>>) /\ \A k \in 1..n : j[k] = m[k]
  BY <1>1, <1>5
<1> HIDE DEF j, m
<1>7. Where(q, m) = IF m[n + 1] THEN Append(Where(p, j), PayloadOf(b)) ELSE Where(p, j)
  BY <1>2, <1>3, <1>6, WhereAppend
<1>8. QED
  BY <1>4, <1>6, <1>7 DEF c, j, m

-----------------------------------------------------------------------------
(* What the parser holds, in the middle of the line l of an event whose lines
   so far are b. *)
Parser == [line : Seq(Tokens), chars : Nat, data : Datas, dataChars : Nat,
           overflow : BOOLEAN, skip : BOOLEAN, out : Seq(Payloads)]
Holds(q, b, l) ==
    /\ q.chars = Len(l)
    /\ q.overflow <=> TooLong(Append(b, l))
    /\ q.overflow => q.line = <<>> /\ q.data = <<>> /\ q.dataChars = 0
    /\ ~q.overflow => q.line = l /\ q.data = DataOf(b) /\ q.dataChars = SizeOf(b, Len(b))

LEMMA HoldsChar ==
    ASSUME NEW b \in Seq(Seq(Tokens)), NEW l \in Seq(Tokens), NEW c \in Tokens,
           NEW q \in Parser, Holds(q, b, l)
    PROVE  LET z == PartAppended(q, c) IN
           z \in Parser /\ Holds(z, b, Append(l, c)) /\ z.out = q.out /\ (z.skip <=> q.skip)
<1> DEFINE r == [q EXCEPT !.chars = @ + 1]
           z == PartAppended(q, c)
           m == Append(l, c)
           n == SizeOf(b, Len(b))
<1>1. m \in Seq(Tokens) /\ Len(m) = Len(l) + 1 /\ Len(l) \in Nat
  OBVIOUS
<1>2. /\ n \in Nat
      /\ TooLong(Append(b, l)) <=> TooLong(b) \/ n + Len(l) > MaxEventChars
      /\ TooLong(Append(b, m)) <=> TooLong(b) \/ n + Len(m) > MaxEventChars
  BY <1>1, BlockGrows
<1>3. /\ r \in Parser /\ r.chars = Len(m) /\ r.line = q.line /\ r.data = q.data
      /\ r.dataChars = q.dataChars /\ r.out = q.out /\ (r.skip <=> q.skip) /\ (r.overflow <=> q.overflow)
  BY <1>1 DEF Parser, Holds
<1>4. CASE q.overflow
  <2>1. z = r
    BY <1>4 DEF PartAppended
  <2>2. TooLong(Append(b, m))
    BY <1>1, <1>2, <1>4, ObserverAssumption DEF Holds, ObserverAssumption
  <2> HIDE DEF r, z, m, n
  <2>3. Holds(r, b, m)
    BY <1>3, <1>4, <2>2 DEF Holds
  <2>4. QED
    BY <1>3, <2>1, <2>3 DEF z, m
<1>5. CASE ~q.overflow /\ q.dataChars + Len(q.line) + 1 > MaxEventChars
  <2>1. z = [r EXCEPT !.overflow = TRUE, !.line = <<>>, !.data = <<>>, !.dataChars = 0]
    BY <1>5 DEF PartAppended
  <2>2. TooLong(Append(b, m))
    BY <1>1, <1>2, <1>5 DEF Holds
  <2> HIDE DEF r, m, n
  <2>3. /\ z \in Parser /\ z.chars = r.chars /\ z.line = <<>> /\ z.data = <<>>
        /\ z.dataChars = 0 /\ z.out = r.out /\ (z.skip <=> r.skip) /\ z.overflow
    <3>1. <<>> \in Seq(Tokens) /\ <<>> \in Datas
      BY NoBlock
    <3> HIDE DEF z
    <3>2. QED
      BY <1>3, <2>1, <3>1 DEF Parser
  <2> HIDE DEF z
  <2>4. Holds(z, b, m)
    BY <1>3, <2>2, <2>3 DEF Holds
  <2>5. QED
    BY <1>3, <2>3, <2>4 DEF z, m
<1>6. CASE ~q.overflow /\ ~(q.dataChars + Len(q.line) + 1 > MaxEventChars)
  <2>1. z = [r EXCEPT !.line = Append(r.line, c)]
    BY <1>6 DEF PartAppended
  <2>2. ~TooLong(Append(b, m))
    BY <1>1, <1>2, <1>6 DEF Holds
  <2>3. q.line = l /\ q.data = DataOf(b) /\ q.dataChars = n
    BY <1>6 DEF Holds
  <2> HIDE DEF r, m, n
  <2>4. /\ z \in Parser /\ z.chars = r.chars /\ z.line = m /\ z.data = r.data
        /\ z.dataChars = r.dataChars /\ z.out = r.out /\ (z.skip <=> r.skip) /\ (z.overflow <=> r.overflow)
    <3>1. Append(r.line, c) = m
      BY <1>3, <2>3 DEF m
    <3> HIDE DEF z
    <3>2. QED
      BY <1>1, <1>3, <2>1, <3>1 DEF Parser
  <2> HIDE DEF z
  <2>5. Holds(z, b, m)
    BY <1>3, <1>6, <2>2, <2>3, <2>4 DEF Holds, n
  <2>6. QED
    BY <1>3, <2>4, <2>5 DEF z, m
<1>7. QED
  BY <1>4, <1>5, <1>6, Zenon

LEMMA HoldsLine ==
    ASSUME NEW b \in Seq(Seq(Tokens)), NEW l \in Seq(Tokens), l # <<>>,
           NEW q \in Parser, Holds(q, b, l)
    PROVE  LET z == LineEnded(q) IN
           z \in Parser /\ Holds(z, Append(b, l), <<>>) /\ z.out = q.out /\ (z.skip <=> q.skip)
<1> DEFINE r == [q EXCEPT !.line = <<>>, !.chars = 0]
           z == LineEnded(q)
           c == Append(b, l)
           n == SizeOf(b, Len(b))
<1>1. c \in Seq(Seq(Tokens)) /\ <<>> \in Seq(Tokens) /\ Len(<<>>) = 0 /\ Len(l) # 0 /\ Len(l) \in Nat
  OBVIOUS
<1>2. /\ n \in Nat /\ SizeOf(c, Len(c)) = n + IF IsData(l) THEN Len(l) ELSE 0
      /\ DataOf(c) = IF IsData(l) THEN Append(DataOf(b), Tail(l)) ELSE DataOf(b)
  BY BlockGrows
<1>3. TooLong(Append(c, <<>>)) <=> TooLong(c)
  <2>1. /\ SizeOf(c, Len(c)) \in Nat
        /\ TooLong(Append(c, <<>>)) <=> TooLong(c) \/ SizeOf(c, Len(c)) + 0 > MaxEventChars
    BY <1>1, BlockGrows
  <2>2. ~TooLong(c) => SizeOf(c, Len(c)) <= MaxEventChars
    BY <1>1, SizeFits
  <2>3. QED
    BY <2>1, <2>2, ObserverAssumption DEF ObserverAssumption
<1>4. DataOf(c) \in Datas
  BY <1>1 DEF Datas
<1> HIDE DEF c, n
<1>5. /\ r \in Parser /\ r.chars = 0 /\ r.line = <<>> /\ r.data = q.data
      /\ r.dataChars = q.dataChars /\ r.out = q.out /\ (r.skip <=> q.skip) /\ (r.overflow <=> q.overflow)
  BY <1>1 DEF Parser
<1>6. q.chars # 0
  BY <1>1 DEF Holds
<1> DEFINE D == ~q.overflow /\ IsData(q.line)
<1>7. z = IF D THEN [r EXCEPT !.data = Append(r.data, Tail(q.line)), !.dataChars = r.dataChars + Len(q.line)]
          ELSE r
  BY <1>6 DEF LineEnded, IsData
<1> HIDE DEF r, z
<1>8. CASE q.overflow
  <2>1. z = r
    BY <1>7, <1>8
  <2>2. Holds(r, c, <<>>)
    BY <1>1, <1>3, <1>5, <1>8 DEF Holds, c
  <2>3. QED
    BY <1>5, <2>1, <2>2 DEF z, c
<1>9. CASE ~q.overflow /\ IsData(l)
  <2>1. q.line = l /\ q.data = DataOf(b) /\ q.dataChars = n
    BY <1>9 DEF Holds, n
  <2>2. z = [r EXCEPT !.data = DataOf(c), !.dataChars = SizeOf(c, Len(c))]
    BY <1>2, <1>5, <1>7, <1>9, <2>1
  <2>3. SizeOf(c, Len(c)) \in Nat
    BY <1>1, <1>2
  <2>4. /\ z \in Parser /\ z.chars = 0 /\ z.line = <<>> /\ z.data = DataOf(c)
        /\ z.dataChars = SizeOf(c, Len(c)) /\ z.out = q.out /\ (z.skip <=> q.skip) /\ (z.overflow <=> q.overflow)
    BY <1>4, <1>5, <2>2, <2>3 DEF Parser
  <2>5. Holds(z, c, <<>>)
    BY <1>1, <1>3, <1>9, <2>4 DEF Holds, c
  <2>6. QED
    BY <2>4, <2>5 DEF z, c
<1>10. CASE ~q.overflow /\ ~IsData(l)
  <2>1. q.line = l /\ q.data = DataOf(b) /\ q.dataChars = n
    BY <1>10 DEF Holds, n
  <2>2. z = r
    BY <1>7, <1>10, <2>1
  <2>3. SizeOf(c, Len(c)) = n /\ DataOf(c) = DataOf(b)
    BY <1>2, <1>10
  <2>4. Holds(r, c, <<>>)
    BY <1>1, <1>3, <1>5, <1>10, <2>1, <2>3 DEF Holds, c
  <2>5. QED
    BY <1>5, <2>2, <2>4 DEF z, c
<1>11. QED
  BY <1>8, <1>9, <1>10, Zenon

LEMMA HoldsBlank ==
    ASSUME NEW b \in Seq(Seq(Tokens)), NEW q \in Parser, Holds(q, b, <<>>)
    PROVE  LET z == Dispatched(q) IN
           /\ z \in Parser /\ Holds(z, <<>>, <<>>) /\ (z.skip <=> q.skip)
           /\ z.out = IF PayloadOf(b) = <<>> THEN q.out ELSE Append(q.out, PayloadOf(b))
           /\ PayloadOf(b) \in Payloads
<1> DEFINE z == Dispatched(q)
<1>1. <<>> \in Seq(Tokens) /\ Len(<<>>) = 0 /\ <<>> \in Seq(Seq(Tokens))
  OBVIOUS
<1>2. TooLong(Append(b, <<>>)) <=> TooLong(b)
  <2>1. /\ SizeOf(b, Len(b)) \in Nat
        /\ TooLong(Append(b, <<>>)) <=> TooLong(b) \/ SizeOf(b, Len(b)) + 0 > MaxEventChars
    BY <1>1, BlockGrows
  <2>2. ~TooLong(b) => SizeOf(b, Len(b)) <= MaxEventChars
    BY SizeFits
  <2>3. QED
    BY <2>1, <2>2, ObserverAssumption DEF ObserverAssumption
<1>3. ~TooLong(Append(<<>>, <<>>))
  <2>1. TooLong(Append(<<>>, <<>>)) <=> TooLong(<<>>) \/ SizeOf(<<>>, Len(<<>>)) + Len(<<>>) > MaxEventChars
    BY <1>1, BlockGrows
  <2>2. SizeOf(<<>>, Len(<<>>)) = 0 /\ ~TooLong(<<>>)
    BY NoBlock
  <2>3. QED
    BY <1>1, <2>1, <2>2, ObserverAssumption DEF ObserverAssumption
<1>4. PayloadOf(b) \in Payloads
  BY DEF Payloads
<1>5. PayloadOf(b) = IF q.overflow THEN <<>> ELSE q.data
  BY <1>2 DEF PayloadOf, Holds
<1> DEFINE o == IF PayloadOf(b) = <<>> THEN q.out ELSE Append(q.out, PayloadOf(b))
<1>6. z = [q EXCEPT !.data = <<>>, !.dataChars = 0, !.overflow = FALSE, !.out = o]
  BY <1>5 DEF Dispatched
<1>7. o \in Seq(Payloads)
  <2>1. q.out \in Seq(Payloads)
    BY DEF Parser
  <2>2. QED
    BY <1>4, <2>1
<1>8. q.chars = 0 /\ q.line = <<>>
  BY <1>1 DEF Holds
<1> HIDE DEF z, o
<1>9. /\ z \in Parser /\ z.chars = 0 /\ z.line = <<>> /\ z.data = <<>> /\ z.dataChars = 0
      /\ ~z.overflow /\ (z.skip <=> q.skip) /\ z.out = o
  BY <1>6, <1>7, <1>8, NoBlock DEF Parser
<1>10. Holds(z, <<>>, <<>>)
  BY <1>1, <1>3, <1>9, NoBlock DEF Holds
<1>11. QED
  BY <1>4, <1>9, <1>10 DEF z, o

LEMMA ConcatGrows ==
    ASSUME NEW S, NEW s \in Seq(S), NEW p \in Seq(S), NEW x \in S
    PROVE  s \o Append(p, x) = Append(s \o p, x)
OBVIOUS

(* The parser, after a text of which "before" was surfaced and taken away. *)
OpenBlock(t) == LastBlock(WholeLines(t))
Surfaced(t) == EventsOf(WholeBlocks(WholeLines(t)))
Reads(q, t, before) ==
    /\ q \in Parser /\ (q.skip <=> AfterCr(t))
    /\ Holds(q, OpenBlock(t), RestOf(t))
    /\ before \o q.out = Surfaced(t)

LEMMA SurfacedIn ==
    ASSUME NEW t \in Seq(Tokens)
    PROVE  Surfaced(t) \in Seq(Payloads) /\ OpenBlock(t) \in Seq(Seq(Tokens))
<1>1. WholeLines(t) \in Seq(Seq(Tokens))
  BY LinesIn
<1>2. WholeBlocks(WholeLines(t)) \in Seq(Seq(Seq(Tokens))) /\ LastBlock(WholeLines(t)) \in Seq(Seq(Tokens))
  BY <1>1, BlocksIn
<1>3. QED
  BY <1>2, EventsIn DEF Surfaced, OpenBlock

(* What a character does to the events of a text: it may complete one. *)
LEMMA SurfacedGrows ==
    ASSUME NEW t \in Seq(Tokens), NEW c \in Tokens
    PROVE  LET u == Append(t, c)
               b == OpenBlock(t) IN
           /\ c = "lf" /\ AfterCr(t) => Surfaced(u) = Surfaced(t) /\ OpenBlock(u) = b
           /\ c \in LineEnds /\ ~(c = "lf" /\ AfterCr(t)) /\ RestOf(t) # <<>> =>
                Surfaced(u) = Surfaced(t) /\ OpenBlock(u) = Append(b, RestOf(t))
           /\ c \in LineEnds /\ ~(c = "lf" /\ AfterCr(t)) /\ RestOf(t) = <<>> =>
                /\ Surfaced(u) = IF PayloadOf(b) = <<>> THEN Surfaced(t)
                                 ELSE Append(Surfaced(t), PayloadOf(b))
                /\ OpenBlock(u) = <<>>
           /\ c \notin LineEnds => Surfaced(u) = Surfaced(t) /\ OpenBlock(u) = b
<1> DEFINE u == Append(t, c)
           W == WholeLines(t)
           l == RestOf(t)
           b == OpenBlock(t)
<1>1. W \in Seq(Seq(Tokens)) /\ l \in Seq(Tokens) /\ b \in Seq(Seq(Tokens))
  BY LinesIn, SurfacedIn
<1>2. /\ c = "lf" /\ AfterCr(t) => WholeLines(u) = W
      /\ c \in LineEnds /\ ~(c = "lf" /\ AfterCr(t)) => WholeLines(u) = Append(W, l)
      /\ c \notin LineEnds => WholeLines(u) = W
  BY TextGrows
<1>3. /\ l = <<>> => WholeBlocks(Append(W, l)) = Append(WholeBlocks(W), b) /\ LastBlock(Append(W, l)) = <<>>
      /\ l # <<>> => WholeBlocks(Append(W, l)) = WholeBlocks(W) /\ LastBlock(Append(W, l)) = Append(b, l)
  <2>1. b = LastBlock(W)
    BY DEF OpenBlock
  <2> HIDE DEF W, l, b
  <2>2. QED
    BY <1>1, <2>1, LinesGrow
<1>4. WholeBlocks(W) \in Seq(Seq(Seq(Tokens)))
  BY <1>1, BlocksIn
<1>5. EventsOf(Append(WholeBlocks(W), b))
        = IF PayloadOf(b) = <<>> THEN EventsOf(WholeBlocks(W)) ELSE Append(EventsOf(WholeBlocks(W)), PayloadOf(b))
  <2> HIDE DEF W, l, b
  <2>1. QED
    BY <1>1, <1>4, EventsGrow
<1>6. Surfaced(t) = EventsOf(WholeBlocks(W)) /\ b = LastBlock(W)
      /\ Surfaced(u) = EventsOf(WholeBlocks(WholeLines(u))) /\ OpenBlock(u) = LastBlock(WholeLines(u))
  BY DEF Surfaced, OpenBlock
<1> HIDE DEF u, W, l, b
<1>7. QED
  BY <1>2, <1>3, <1>5, <1>6 DEF u, b, l

LEMMA TakenReads ==
    ASSUME NEW t \in Seq(Tokens), NEW c \in Tokens, NEW before \in Seq(Payloads),
           NEW q, Reads(q, t, before)
    PROVE  Reads(Taken(q, c), Append(t, c), before)
<1> DEFINE u == Append(t, c)
           b == OpenBlock(t)
           l == RestOf(t)
           r == [q EXCEPT !.skip = c = "cr"]
           z == Taken(q, c)
<1>1. b \in Seq(Seq(Tokens)) /\ l \in Seq(Tokens)
  BY LinesIn, SurfacedIn
<1>2. /\ q \in Parser /\ (q.skip <=> AfterCr(t)) /\ Holds(q, b, l) /\ before \o q.out = Surfaced(t)
      /\ q.out \in Seq(Payloads)
  BY DEF Reads, Parser
<1>3. /\ r \in Parser /\ r.chars = q.chars /\ r.line = q.line /\ r.data = q.data
      /\ r.dataChars = q.dataChars /\ r.out = q.out /\ (r.skip <=> c = "cr") /\ (r.overflow <=> q.overflow)
  BY <1>2 DEF Parser
<1>4. AfterCr(u) <=> c = "cr"
  BY TextGrows
<1>5. z = IF c = "lf" /\ q.skip THEN r ELSE IF c \in LineEnds THEN LineEnded(r) ELSE PartAppended(r, c)
  BY DEF Taken
<1> HIDE DEF r, z
<1>6. Holds(r, b, l)
  <2> HIDE DEF b, l
  <2>1. QED
    BY <1>2, <1>3 DEF Holds
<1>7. CASE c = "lf" /\ AfterCr(t)
  <2>1. z = r
    BY <1>2, <1>5, <1>7
  <2>2. Surfaced(u) = Surfaced(t) /\ OpenBlock(u) = b /\ RestOf(u) = l
    BY <1>7, SurfacedGrows, TextGrows
  <2> HIDE DEF b, l, u
  <2>3. QED
    BY <1>2, <1>3, <1>4, <1>6, <2>1, <2>2 DEF Reads, u, z
<1>8. CASE c \in LineEnds /\ ~(c = "lf" /\ AfterCr(t)) /\ l # <<>>
  <2>1. z = LineEnded(r)
    BY <1>2, <1>5, <1>8
  <2>2. Surfaced(u) = Surfaced(t) /\ OpenBlock(u) = Append(b, l) /\ RestOf(u) = <<>>
    BY <1>8, SurfacedGrows, TextGrows
  <2> HIDE DEF b, l, u
  <2>3. z \in Parser /\ Holds(z, Append(b, l), <<>>) /\ z.out = r.out /\ (z.skip <=> r.skip)
    BY <1>1, <1>3, <1>6, <1>8, <2>1, HoldsLine
  <2>4. QED
    BY <1>2, <1>3, <1>4, <2>2, <2>3 DEF Reads, u, z
<1>9. CASE c \in LineEnds /\ ~(c = "lf" /\ AfterCr(t)) /\ l = <<>>
  <2>1. z = LineEnded(r)
    BY <1>2, <1>5, <1>9
  <2>2. LineEnded(r) = Dispatched(r)
    <3>1. r.chars = 0 /\ r.line = <<>>
      <4>1. Len(<<>>) = 0
        OBVIOUS
      <4> HIDE DEF b, l
      <4>2. QED
        BY <1>6, <1>9, <4>1 DEF Holds
    <3>2. [r EXCEPT !.line = <<>>, !.chars = 0] = r
      BY <1>3, <3>1 DEF Parser
    <3>3. QED
      BY <3>1, <3>2 DEF LineEnded
  <2>3. /\ Surfaced(u) = IF PayloadOf(b) = <<>> THEN Surfaced(t) ELSE Append(Surfaced(t), PayloadOf(b))
        /\ OpenBlock(u) = <<>> /\ RestOf(u) = <<>>
    BY <1>9, SurfacedGrows, TextGrows
  <2> HIDE DEF b, l, u
  <2>4. /\ z \in Parser /\ Holds(z, <<>>, <<>>) /\ (z.skip <=> r.skip)
        /\ z.out = IF PayloadOf(b) = <<>> THEN r.out ELSE Append(r.out, PayloadOf(b))
        /\ PayloadOf(b) \in Payloads
    BY <1>1, <1>3, <1>6, <1>9, <2>1, <2>2, HoldsBlank
  <2>5. before \o z.out = Surfaced(u)
    <3>1. \A p \in Payloads : before \o Append(q.out, p) = Append(before \o q.out, p)
      BY <1>2, ConcatGrows
    <3>2. QED
      BY <1>2, <1>3, <2>3, <2>4, <3>1
  <2>6. QED
    BY <1>3, <1>4, <2>3, <2>4, <2>5 DEF Reads, u, z
<1>10. CASE c \notin LineEnds
  <2>1. z = PartAppended(r, c)
    BY <1>5, <1>10 DEF LineEnds
  <2>2. Surfaced(u) = Surfaced(t) /\ OpenBlock(u) = b /\ RestOf(u) = Append(l, c)
    BY <1>10, SurfacedGrows, TextGrows
  <2> HIDE DEF b, l, u
  <2>3. z \in Parser /\ Holds(z, b, Append(l, c)) /\ z.out = r.out /\ (z.skip <=> r.skip)
    BY <1>1, <1>3, <1>6, <2>1, HoldsChar
  <2>4. QED
    BY <1>2, <1>3, <1>4, <2>2, <2>3 DEF Reads, u, z
<1>11. QED
  BY <1>7, <1>8, <1>9, <1>10

(* A text with the first characters of a chunk. *)
LEMMA ChunkGrows ==
    ASSUME NEW T, NEW t \in Seq(T), NEW chunk \in Seq(T)
    PROVE  /\ t \o SubSeq(chunk, 1, 0) = t /\ t \o SubSeq(chunk, 1, Len(chunk)) = t \o chunk
           /\ \A k \in 0..Len(chunk) : t \o SubSeq(chunk, 1, k) \in Seq(T)
           /\ \A k \in 0..Len(chunk) - 1 :
                t \o SubSeq(chunk, 1, k + 1) = Append(t \o SubSeq(chunk, 1, k), chunk[k + 1])
<1>1. Len(chunk) \in Nat
  OBVIOUS
<1>2. t \o SubSeq(chunk, 1, 0) = t
  <2>1. SubSeq(chunk, 1, 0) = <<>>
    OBVIOUS
  <2>2. QED
    BY <2>1
<1>3. SubSeq(chunk, 1, Len(chunk)) = chunk
  BY SubSeqFull
<1>4. \A k \in 0..Len(chunk) : SubSeq(chunk, 1, k) \in Seq(T)
  BY <1>1
<1>5. ASSUME NEW k \in 0..Len(chunk) - 1
      PROVE  t \o SubSeq(chunk, 1, k + 1) = Append(t \o SubSeq(chunk, 1, k), chunk[k + 1])
  <2>1. /\ k + 1 \in 1..Len(chunk) /\ 1 \in 1..Len(chunk) /\ k + 1 \in 1..Len(chunk) /\ (k + 1) - 1 = k
        /\ k \in 0..Len(chunk) /\ chunk[k + 1] \in T
    BY <1>1
  <2>2. SubSeq(chunk, 1, k + 1) = SubSeq(chunk, 1, (k + 1) - 1) \o <<chunk[k + 1]>>
    BY <2>1, SubSeqRecursiveSecond
  <2>3. \A x \in Seq(T), y \in T : t \o (x \o <<y>>) = Append(t \o x, y)
    OBVIOUS
  <2>4. SubSeq(chunk, 1, k + 1) = SubSeq(chunk, 1, k) \o <<chunk[k + 1]>>
    BY <2>1, <2>2
  <2>5. QED
    BY <1>4, <2>1, <2>3, <2>4
<1>6. QED
  BY <1>2, <1>3, <1>4, <1>5

(* A chunk is read character by character. *)
LEMMA PushedReads ==
    ASSUME NEW t \in Seq(Tokens), NEW chunk \in Seq(Tokens), NEW before \in Seq(Payloads),
           NEW q, Reads(q, t, before)
    PROVE  Reads(Pushed(q, chunk), t \o chunk, before)
<1> DEFINE N == Len(chunk)
           X == {x \in Parser : \E u \in Seq(Tokens) : Reads(x, u, before)}
           g == [k \in Nat |-> [x \in X |-> IF k \in 1..N THEN Taken(x, chunk[k]) ELSE x]]
           Sequel(h) == [n \in 0..N |-> IF n = 0 THEN q ELSE Taken(h[n - 1], chunk[n])]
           w == CHOOSE h : h = Sequel(h)
<1>1. N \in Nat /\ \A k \in 1..N : chunk[k] \in Tokens
  OBVIOUS
<1>2. q \in X
  BY DEF Reads
<1>3. \A x \in X, c \in Tokens : Taken(x, c) \in X
  <2>1. ASSUME NEW x \in X, NEW c \in Tokens PROVE Taken(x, c) \in X
    <3>1. PICK u \in Seq(Tokens) : Reads(x, u, before)
      OBVIOUS
    <3>2. Append(u, c) \in Seq(Tokens) /\ Reads(Taken(x, c), Append(u, c), before)
      BY <3>1, TakenReads
    <3>3. Taken(x, c) \in Parser
      BY <3>2 DEF Reads
    <3>4. QED
      BY <3>2, <3>3
  <2>2. QED
    BY <2>1
<1> HIDE DEF X, N
<1>4. g \in [Nat -> [X -> X]]
  <2>1. ASSUME NEW k \in Nat, NEW x \in X PROVE (IF k \in 1..N THEN Taken(x, chunk[k]) ELSE x) \in X
    BY <1>1, <1>3
  <2>2. QED
    BY <2>1
<1>5. \A k \in 1..N, x \in X : g[k][x] = Taken(x, chunk[k])
  <2>1. \A k \in 1..N : k \in Nat
    BY <1>1
  <2>2. QED
    BY <2>1
<1> HIDE DEF g
<1>6. PICK f \in [0..N -> X] : Follows(f, q, g, N)
  BY <1>1, <1>2, <1>4, SequelExists
<1>7. \A n \in 1..N : n - 1 \in 0..N /\ n \in 0..N /\ n # 0
  BY <1>1
<1>8. f[0] = q /\ \A n \in 1..N : f[n] = Taken(f[n - 1], chunk[n])
  BY <1>5, <1>6, <1>7 DEF Follows
<1>9. f = Sequel(f)
  <2>1. \A n \in 0..N : n = 0 \/ n \in 1..N
    BY <1>1
  <2>2. \A n \in 0..N : f[n] = Sequel(f)[n]
    BY <1>8, <2>1
  <2>3. f = [n \in 0..N |-> f[n]]
    BY <1>6
  <2>4. QED
    BY <2>2, <2>3
<1>10. w = Sequel(w)
  <2> HIDE DEF Sequel
  <2>1. QED
    BY <1>9, Zenon
<1> HIDE DEF w
<1>11. w[0] = q /\ \A n \in 1..N : w[n] = Taken(w[n - 1], chunk[n])
  <2>1. \A n \in 0..N : w[n] = Sequel(w)[n]
    BY <1>10
  <2>2. 0 \in 0..N
    BY <1>1
  <2>3. QED
    BY <1>7, <2>1, <2>2
<1> DEFINE S == {n \in 0..N : Reads(w[n], t \o SubSeq(chunk, 1, n), before)}
<1>12. 0 \in S
  <2>1. t \o SubSeq(chunk, 1, 0) = t
    BY ChunkGrows
  <2>2. Reads(w[0], t \o SubSeq(chunk, 1, 0), before)
    BY <1>11, <2>1, Zenon
  <2>3. 0 \in 0..N
    BY <1>1
  <2>4. QED
    BY <2>2, <2>3
<1>13. ASSUME NEW n \in 0..N, n < N, n \in S PROVE n + 1 \in S
  <2> DEFINE u == t \o SubSeq(chunk, 1, n)
  <2>1. n + 1 \in 1..N /\ n + 1 \in 0..N /\ (n + 1) - 1 = n /\ n \in 0..Len(chunk) - 1 /\ n \in 0..Len(chunk)
    BY <1>1, <1>13 DEF N
  <2>2. u \in Seq(Tokens) /\ t \o SubSeq(chunk, 1, n + 1) = Append(u, chunk[n + 1])
    BY <2>1, ChunkGrows
  <2>3. Reads(w[n], u, before) /\ chunk[n + 1] \in Tokens
    BY <1>1, <1>13, <2>1
  <2>4. w[n + 1] = Taken(w[n], chunk[n + 1])
    BY <1>11, <2>1
  <2> HIDE DEF u
  <2>5. Reads(Taken(w[n], chunk[n + 1]), Append(u, chunk[n + 1]), before)
    BY <2>2, <2>3, TakenReads
  <2>6. QED
    BY <2>1, <2>2, <2>4, <2>5
<1> HIDE DEF S
<1>14. \A n \in 0..N : n \in S
  BY <1>1, <1>12, <1>13, UpTo
<1>15. Reads(w[N], t \o SubSeq(chunk, 1, N), before)
  <2>1. N \in 0..N
    BY <1>1
  <2>2. QED
    BY <1>14, <2>1 DEF S
<1>16. Pushed(q, chunk) = w[N]
  BY DEF Pushed, w, N
<1>17. QED
  BY <1>15, <1>16, ChunkGrows DEF N

(* The events of a stream, by whether it has ended. *)
LastLines(t) == IF RestOf(t) # <<>> THEN Append(WholeLines(t), RestOf(t)) ELSE WholeLines(t)
SurfacedAtEnd(t) == EventsOf(Append(WholeBlocks(LastLines(t)), LastBlock(LastLines(t))))

LEMMA EventsAre ==
    Events = IF over THEN SurfacedAtEnd(text) ELSE Surfaced(text)
BY Zenon DEF Events, Lines, LastLines, SurfacedAtEnd, Surfaced

(* The last event counts, its last line included. *)
LastOf(t) == PayloadOf(IF RestOf(t) # <<>> THEN Append(OpenBlock(t), RestOf(t)) ELSE OpenBlock(t))
LEMMA EndGrows ==
    ASSUME NEW t \in Seq(Tokens)
    PROVE  /\ LastOf(t) \in Payloads
           /\ SurfacedAtEnd(t) = IF LastOf(t) = <<>> THEN Surfaced(t) ELSE Append(Surfaced(t), LastOf(t))
<1> DEFINE W == WholeLines(t)
           l == RestOf(t)
           b == OpenBlock(t)
           c == IF l # <<>> THEN Append(b, l) ELSE b
           L == LastLines(t)
<1>1. W \in Seq(Seq(Tokens)) /\ l \in Seq(Tokens) /\ b \in Seq(Seq(Tokens))
  BY LinesIn, SurfacedIn
<1>2. b = LastBlock(W) /\ Surfaced(t) = EventsOf(WholeBlocks(W)) /\ LastOf(t) = PayloadOf(c)
      /\ L = IF l # <<>> THEN Append(W, l) ELSE W
  BY DEF OpenBlock, Surfaced, LastOf, LastLines
<1> HIDE DEF W, l, b, L
<1>3. WholeBlocks(L) = WholeBlocks(W) /\ LastBlock(L) = c
  BY <1>1, <1>2, LinesGrow
<1>4. c \in Seq(Seq(Tokens))
  BY <1>1
<1>5. WholeBlocks(W) \in Seq(Seq(Seq(Tokens)))
  BY <1>1, BlocksIn
<1>6. SurfacedAtEnd(t) = EventsOf(Append(WholeBlocks(W), c))
  BY <1>3 DEF SurfacedAtEnd, L
<1> HIDE DEF c
<1>7. QED
  BY <1>2, <1>4, <1>5, <1>6, EventsGrow DEF Payloads

(* What end() surfaces is the last event. *)
EndRead(q, t, before) ==
    /\ q \in Parser /\ q.line = <<>> /\ q.data = <<>> /\ q.dataChars = 0
    /\ before \o q.out = SurfacedAtEnd(t)
LEMMA EndedReads ==
    ASSUME NEW t \in Seq(Tokens), NEW before \in Seq(Payloads), NEW q, Reads(q, t, before)
    PROVE  EndRead(Ended(q), t, before)
<1> DEFINE b == OpenBlock(t)
           l == RestOf(t)
           c == IF l # <<>> THEN Append(b, l) ELSE b
           r == IF q.chars > 0 THEN LineEnded(q) ELSE q
           z == Ended(q)
<1>1. b \in Seq(Seq(Tokens)) /\ l \in Seq(Tokens) /\ Len(<<>>) = 0
  BY LinesIn, SurfacedIn
<1>2. /\ q \in Parser /\ Holds(q, b, l) /\ before \o q.out = Surfaced(t) /\ q.out \in Seq(Payloads)
  BY DEF Reads, Parser
<1>3. LastOf(t) = PayloadOf(c) /\ z = Dispatched(r)
  BY DEF LastOf, Ended
<1> HIDE DEF b, l, z
<1>4. c \in Seq(Seq(Tokens)) /\ r \in Parser /\ Holds(r, c, <<>>) /\ r.out = q.out
  <2>1. q.chars = Len(l) /\ Len(l) \in Nat /\ (Len(l) = 0 <=> l = <<>>)
    BY <1>1, <1>2 DEF Holds
  <2>2. CASE l # <<>>
    <3>1. r = LineEnded(q) /\ c = Append(b, l)
      BY <2>1, <2>2
    <3>2. c \in Seq(Seq(Tokens))
      BY <1>1, <3>1
    <3> HIDE DEF c, r
    <3>3. QED
      BY <1>1, <1>2, <2>2, <3>1, <3>2, HoldsLine
  <2>3. CASE l = <<>>
    BY <1>1, <1>2, <2>1, <2>3
  <2>4. QED
    BY <2>2, <2>3
<1> HIDE DEF c, r
<1>5. /\ z \in Parser /\ Holds(z, <<>>, <<>>)
      /\ z.out = IF PayloadOf(c) = <<>> THEN r.out ELSE Append(r.out, PayloadOf(c))
      /\ PayloadOf(c) \in Payloads
  BY <1>3, <1>4, HoldsBlank
<1>6. z.line = <<>> /\ z.data = <<>> /\ z.dataChars = 0
  BY <1>5, NoBlock DEF Holds
<1>7. before \o z.out = SurfacedAtEnd(t)
  <2>1. \A p \in Payloads : before \o Append(q.out, p) = Append(before \o q.out, p)
    <3> DEFINE o == q.out
    <3>1. o \in Seq(Payloads)
      BY <1>2
    <3> HIDE DEF o
    <3>2. \A p \in Payloads : before \o Append(o, p) = Append(before \o o, p)
      BY <3>1, ConcatGrows
    <3>3. QED
      BY <3>2 DEF o
  <2>2. QED
    BY <1>2, <1>3, <1>4, <1>5, <2>1, EndGrows
<1>8. QED
  BY <1>5, <1>6, <1>7 DEF EndRead, z

-----------------------------------------------------------------------------
(* What the events of a text declare to a request r. *)
Words == Declarations \cup {"none"}
Declares(r, m) == m # "none" /\ ~(m = "final" /\ r.api = "completions")
AllFor(r, ev) ==
    LET d == [k \in DOMAIN ev |-> Declared(ev[k])]
    IN Where(d, [k \in DOMAIN d |-> Declares(r, d[k])])

LEMMA AllIsFor ==
    ASSUME NEW ev
    PROVE  AllOf(ev) = AllFor(request, ev)
BY DEF AllOf, AllFor, Declares

LEMMA DeclaredIn ==
    ASSUME NEW p
    PROVE  Declared(p) \in Words
BY DEF Declared, Words

LEMMA AllIn ==
    ASSUME NEW r, NEW T, NEW ev \in Seq(T)
    PROVE  AllFor(r, ev) \in Seq(Words)
<1> DEFINE d == [k \in DOMAIN ev |-> Declared(ev[k])]
<1>1. d \in Seq(Words)
  BY DeclaredIn
<1> HIDE DEF d
<1>2. QED
  BY <1>1, WhereIn DEF AllFor, d

LEMMA AllGrows ==
    ASSUME NEW r, NEW T, NEW ev \in Seq(T), NEW p \in T
    PROVE  AllFor(r, Append(ev, p))
             = IF Declares(r, Declared(p)) THEN Append(AllFor(r, ev), Declared(p)) ELSE AllFor(r, ev)
<1> DEFINE c == Append(ev, p)
           n == Len(ev)
           m == Declared(p)
           d == [k \in DOMAIN ev |-> Declared(ev[k])]
           e == [k \in DOMAIN c |-> Declared(c[k])]
           i == [k \in DOMAIN d |-> Declares(r, d[k])]
           j == [k \in DOMAIN e |-> Declares(r, e[k])]
<1>1. /\ n \in Nat /\ DOMAIN ev = 1..n /\ DOMAIN c = 1..n + 1 /\ c[n + 1] = p /\ n + 1 \in 1..n + 1
      /\ \A k \in 1..n : c[k] = ev[k] /\ k \in 1..n + 1
  OBVIOUS
<1>2. d \in Seq(Words) /\ Len(d) = n /\ m \in Words /\ DOMAIN d = 1..n
  BY <1>1, DeclaredIn
<1> HIDE DEF c, n, m
<1>3. /\ DOMAIN e = 1..n + 1 /\ e[n + 1] = m
      /\ \A k \in 1..n : e[k] = d[k]
  BY <1>1 DEF m
<1>4. e = Append(d, m)
  <2> DEFINE w == Append(d, m)
  <2> HIDE DEF d
  <2>1. /\ w \in Seq(Words) /\ Len(w) = n + 1 /\ w[n + 1] = m
        /\ \A k \in 1..n : w[k] = d[k]
    BY <1>2
  <2> HIDE DEF w
  <2>2. w = [k \in 1..n + 1 |-> w[k]]
    BY <2>1
  <2>3. e = [k \in 1..n + 1 |-> e[k]]
    BY <1>3
  <2>4. \A k \in 1..n + 1 : w[k] = e[k]
    <3> HIDE DEF e
    <3>1. \A k \in 1..n + 1 : k = n + 1 \/ k \in 1..n
      BY <1>1
    <3>2. QED
      BY <1>3, <2>1, <3>1
  <2> HIDE DEF e
  <2>5. QED
    BY <2>2, <2>3, <2>4 DEF w
<1>5. AllFor(r, ev) = Where(d, i) /\ AllFor(r, c) = Where(e, j)
  BY DEF AllFor
<1> HIDE DEF d, e
<1>6. j[n + 1] = Declares(r, m) /\ \A k \in 1..n : i[k] = j[k]
  BY <1>1, <1>2, <1>3
<1> HIDE DEF i, j
<1>7. Where(e, j) = IF j[n + 1] THEN Append(Where(d, i), m) ELSE Where(d, i)
  <2>1. \A k \in 1..Len(d) : i[k] = j[k]
    BY <1>2, <1>6
  <2>2. Where(Append(d, m), j) = IF j[Len(d) + 1] THEN Append(Where(d, i), m) ELSE Where(d, i)
    BY <1>2, <2>1, WhereAppend
  <2>3. QED
    BY <1>2, <1>4, <2>2
<1>8. QED
  BY <1>5, <1>6, <1>7 DEF c, m

LEMMA EarlyGrows ==
    ASSUME NEW all \in Seq(Words), NEW m \in Words
    PROVE  /\ EarlyOf(all) \in Seq(Words)
           /\ EarlyOf(Append(all, m)) = IF m # "final" THEN Append(EarlyOf(all), m) ELSE EarlyOf(all)
<1> DEFINE c == Append(all, m)
           n == Len(all)
           i == [k \in DOMAIN all |-> all[k] # "final"]
           j == [k \in DOMAIN c |-> c[k] # "final"]
<1>1. /\ n \in Nat /\ DOMAIN all = 1..n /\ DOMAIN c = 1..n + 1 /\ c[n + 1] = m /\ n + 1 \in 1..n + 1
      /\ \A k \in 1..n : c[k] = all[k] /\ k \in 1..n + 1
  OBVIOUS
<1> HIDE DEF c
<1>2. j[n + 1] = (m # "final") /\ \A k \in 1..n : i[k] = j[k]
  BY <1>1
<1>3. EarlyOf(all) = Where(all, i) /\ EarlyOf(c) = Where(c, j)
  BY DEF EarlyOf
<1> HIDE DEF i, j
<1>4. Where(c, j) = IF j[n + 1] THEN Append(Where(all, i), m) ELSE Where(all, i)
  BY <1>2, WhereAppend DEF c
<1>5. Where(all, i) \in Seq(Words)
  BY WhereIn
<1>6. QED
  BY <1>2, <1>3, <1>4, <1>5 DEF c

LEMMA OthersGrow ==
    ASSUME NEW all \in Seq(Words), NEW m \in Words
    PROVE  /\ OthersOf(all) \in Seq(Words)
           /\ OthersOf(Append(all, m))
                = IF m \notin {"final", "same"} THEN Append(OthersOf(all), m) ELSE OthersOf(all)
<1> DEFINE c == Append(all, m)
           n == Len(all)
           i == [k \in DOMAIN all |-> all[k] \notin {"final", "same"}]
           j == [k \in DOMAIN c |-> c[k] \notin {"final", "same"}]
<1>1. /\ n \in Nat /\ DOMAIN all = 1..n /\ DOMAIN c = 1..n + 1 /\ c[n + 1] = m /\ n + 1 \in 1..n + 1
      /\ \A k \in 1..n : c[k] = all[k] /\ k \in 1..n + 1
  OBVIOUS
<1> HIDE DEF c
<1>2. j[n + 1] = (m \notin {"final", "same"}) /\ \A k \in 1..n : i[k] = j[k]
  BY <1>1
<1>3. OthersOf(all) = Where(all, i) /\ OthersOf(c) = Where(c, j)
  BY DEF OthersOf
<1> HIDE DEF i, j
<1>4. Where(c, j) = IF j[n + 1] THEN Append(Where(all, i), m) ELSE Where(all, i)
  BY <1>2, WhereAppend DEF c
<1>5. Where(all, i) \in Seq(Words)
  BY WhereIn
<1>6. QED
  BY <1>2, <1>3, <1>4, <1>5 DEF c

LEMMA FinalStays ==
    ASSUME NEW all \in Seq(Words), NEW m \in Words
    PROVE  Contains(Append(all, m), "final") <=> Contains(all, "final") \/ m = "final"
<1> DEFINE c == Append(all, m)
           n == Len(all)
<1>1. /\ n \in Nat /\ Len(c) = n + 1 /\ c[n + 1] = m /\ n + 1 \in 1..n + 1
      /\ \A k \in 1..n : c[k] = all[k] /\ k \in 1..n + 1
      /\ \A k \in 1..n + 1 : k = n + 1 \/ k \in 1..n
  OBVIOUS
<1> HIDE DEF c, n
<1>2. Contains(all, "final") <=> \E k \in 1..n : all[k] = "final"
  BY DEF Contains, n
<1>3. Contains(c, "final") <=> \E k \in 1..n + 1 : c[k] = "final"
  BY <1>1 DEF Contains
<1>4. QED
  BY <1>1, <1>2, <1>3, Zenon DEF c

(* What the tracker has of the events ev, for a request r. *)
Tracker == [first : Words, differs : Words, terminal : Words, concluded : BOOLEAN]
FirstOf(s) == IF s # <<>> THEN s[1] ELSE "none"
Silent(t) == t.first = "none" /\ t.differs = "none" /\ t.terminal = "none"
Open(t, all) ==
    /\ t.terminal = "none" /\ ~Contains(all, "final")
    /\ t.first = FirstOf(EarlyOf(all)) /\ (t.first = "none" <=> EarlyOf(all) = <<>>)
    /\ t.differs = FirstOf(OthersOf(all)) /\ (t.differs = "none" <=> OthersOf(all) = <<>>)
Settles(r, t, all) ==
    \/ r.api = "responses" /\ t.terminal = "final" /\ Contains(all, "final")
    \/ /\ r.api = "completions" /\ t.terminal = "none" /\ ~Contains(all, "final")
       /\ t.differs # "none" /\ OthersOf(all) # <<>> /\ t.differs = OthersOf(all)[1]
Track(r, t, ev) ==
    /\ t \in Tracker
    /\ ~r.known => Silent(t)
    /\ r.known => IF t.concluded THEN Settles(r, t, AllFor(r, ev)) ELSE Open(t, AllFor(r, ev))

LEMMA AppendFirst ==
    ASSUME NEW T, NEW s \in Seq(T), NEW x \in T
    PROVE  /\ Append(s, x) # <<>>
           /\ FirstOf(Append(s, x)) = IF s = <<>> THEN x ELSE FirstOf(s)
           /\ s # <<>> => Append(s, x)[1] = s[1]
<1>1. Append(s, x) # <<>>
  BY AppendProperties
<1>2. s = <<>> => Append(s, x)[1] = x
  OBVIOUS
<1>3. s # <<>> => Append(s, x)[1] = s[1]
  OBVIOUS
<1>4. QED
  BY <1>1, <1>2, <1>3 DEF FirstOf

(* A conclusion stands, whatever comes. *)
LEMMA SettlesStays ==
    ASSUME NEW r, NEW t, NEW T, NEW ev \in Seq(T), NEW p \in T, Settles(r, t, AllFor(r, ev))
    PROVE  Settles(r, t, AllFor(r, Append(ev, p)))
<1> DEFINE all == AllFor(r, ev)
           m == Declared(p)
<1>1. all \in Seq(Words) /\ m \in Words
  BY AllIn, DeclaredIn
<1>2. AllFor(r, Append(ev, p)) = IF Declares(r, m) THEN Append(all, m) ELSE all
  BY AllGrows
<1>3. Settles(r, t, all)
  OBVIOUS
<1> HIDE DEF all, m
<1>4. ASSUME Declares(r, m) PROVE Settles(r, t, Append(all, m))
  <2>1. CASE r.api = "responses" /\ t.terminal = "final" /\ Contains(all, "final")
    BY <1>1, <2>1, FinalStays DEF Settles
  <2>2. CASE /\ r.api = "completions" /\ t.terminal = "none" /\ ~Contains(all, "final")
             /\ t.differs # "none" /\ OthersOf(all) # <<>> /\ t.differs = OthersOf(all)[1]
    <3>1. m # "final"
      BY <1>4, <2>2 DEF Declares
    <3>2. ~Contains(Append(all, m), "final")
      BY <1>1, <2>2, <3>1, FinalStays
    <3>3. OthersOf(all) \in Seq(Words)
      BY <1>1, OthersGrow
    <3>4. OthersOf(Append(all, m)) = Append(OthersOf(all), m) \/ OthersOf(Append(all, m)) = OthersOf(all)
      BY <1>1, OthersGrow
    <3>5. Append(OthersOf(all), m) # <<>> /\ Append(OthersOf(all), m)[1] = OthersOf(all)[1]
      BY <1>1, <2>2, <3>3, AppendFirst
    <3>6. OthersOf(Append(all, m)) # <<>> /\ OthersOf(Append(all, m))[1] = OthersOf(all)[1]
      BY <2>2, <3>4, <3>5
    <3>7. QED
      BY <2>2, <3>2, <3>6 DEF Settles
  <2>3. QED
    BY <1>3, <2>1, <2>2 DEF Settles
<1>5. QED
  BY <1>2, <1>3, <1>4

LEMMA OfferedTracks ==
    ASSUME NEW T, NEW ev \in Seq(T), NEW p \in T, NEW t, Track(request, t, ev),
           request.api \in {"completions", "responses"}
    PROVE  Track(request, Offered(t, p), Append(ev, p))
<1> DEFINE r == request
           all == AllFor(r, ev)
           m == Declared(p)
           z == Offered(t, p)
           next == AllFor(r, Append(ev, p))
<1>1. all \in Seq(Words) /\ m \in Words
  BY AllIn, DeclaredIn
<1>2. next = IF Declares(r, m) THEN Append(all, m) ELSE all
  BY AllGrows
<1>3. t \in Tracker /\ t.concluded \in BOOLEAN
  BY DEF Track, Tracker
<1>4. CASE t.concluded
  <2>1. z = t
    BY <1>4 DEF Offered
  <2>2. r.known => Settles(r, t, next)
    BY <1>4, SettlesStays DEF Track
  <2>3. QED
    BY <1>4, <2>1, <2>2 DEF Track
<1>5. CASE ~t.concluded /\ ~r.known
  <2>1. z = [t EXCEPT !.concluded = TRUE]
    BY <1>5 DEF Offered
  <2> HIDE DEF z
  <2>2. z \in Tracker /\ z.first = t.first /\ z.differs = t.differs /\ z.terminal = t.terminal
    BY <1>3, <2>1 DEF Tracker
  <2>3. QED
    BY <1>5, <2>2 DEF Track, Silent, z
<1>6. CASE ~t.concluded /\ r.known
  <2>1. Open(t, all)
    BY <1>6 DEF Track
  <2>2. CASE ~Declares(r, m)
    <3>1. z = t
      BY <1>6, <2>2 DEF Offered, Declares
    <3>2. QED
      BY <1>2, <1>3, <1>6, <2>1, <2>2, <3>1 DEF Track
  <2>3. CASE Declares(r, m) /\ m = "final"
    <3>1. r.api = "responses"
      BY <2>3 DEF Declares
    <3>2. z = [t EXCEPT !.terminal = m, !.concluded = TRUE]
      BY <1>6, <2>3, <3>1 DEF Offered
    <3> HIDE DEF z
    <3>3. z \in Tracker /\ z.terminal = "final" /\ z.concluded
      BY <1>1, <1>3, <2>3, <3>2 DEF Tracker
    <3>4. Contains(next, "final")
      <4> HIDE DEF all, m, next
      <4>1. QED
        BY <1>1, <1>2, <2>3, FinalStays
    <3>5. QED
      BY <1>6, <3>1, <3>3, <3>4 DEF Track, Settles, z
  <2>4. CASE Declares(r, m) /\ m # "final"
    <3> DEFINE first == IF t.first = "none" THEN m ELSE t.first
               differs == IF t.differs = "none" /\ m # "same" THEN m ELSE t.differs
               over1 == r.api = "completions" /\ m # "same"
    <3>1. z = [t EXCEPT !.first = first, !.differs = differs, !.concluded = over1]
      BY <1>6, <2>4 DEF Offered, Declares
    <3>2. next = Append(all, m) /\ m # "none"
      BY <1>2, <2>4 DEF Declares
    <3> HIDE DEF all, m, z, next, r
    <3>3. first \in Words /\ differs \in Words /\ over1 \in BOOLEAN
      BY <1>1, <1>3 DEF Tracker
    <3> HIDE DEF first, differs, over1
    <3>4. z \in Tracker /\ z.terminal = t.terminal /\ z.first = first /\ z.differs = differs /\ (z.concluded <=> over1)
      BY <1>3, <3>1, <3>3 DEF Tracker
    <3>5. /\ EarlyOf(all) \in Seq(Words) /\ OthersOf(all) \in Seq(Words)
          /\ EarlyOf(next) = Append(EarlyOf(all), m)
          /\ OthersOf(next) = IF m # "same" THEN Append(OthersOf(all), m) ELSE OthersOf(all)
          /\ ~Contains(next, "final")
      <4>1. EarlyOf(all) \in Seq(Words) /\ EarlyOf(next) = Append(EarlyOf(all), m)
        BY <1>1, <2>4, <3>2, EarlyGrows
      <4>2. /\ OthersOf(all) \in Seq(Words)
            /\ OthersOf(next) = IF m # "same" THEN Append(OthersOf(all), m) ELSE OthersOf(all)
        BY <1>1, <2>4, <3>2, OthersGrow
      <4>3. ~Contains(next, "final")
        BY <1>1, <2>1, <2>4, <3>2, FinalStays DEF Open
      <4>4. QED
        BY <4>1, <4>2, <4>3
    <3>6. first = FirstOf(EarlyOf(next)) /\ first # "none" /\ EarlyOf(next) # <<>>
      <4>1. EarlyOf(next) # <<>> /\ FirstOf(EarlyOf(next)) = IF EarlyOf(all) = <<>> THEN m ELSE FirstOf(EarlyOf(all))
        BY <1>1, <3>5, AppendFirst
      <4>2. QED
        BY <2>1, <3>2, <4>1 DEF Open, first
    <3>7. differs = FirstOf(OthersOf(next)) /\ (differs = "none" <=> OthersOf(next) = <<>>)
          /\ (m # "same" => OthersOf(next) # <<>> /\ differs # "none")
      <4>1. CASE m # "same"
        <5>1. /\ OthersOf(next) # <<>>
              /\ FirstOf(OthersOf(next)) = IF OthersOf(all) = <<>> THEN m ELSE FirstOf(OthersOf(all))
          BY <1>1, <3>5, <4>1, AppendFirst
        <5>2. QED
          BY <2>1, <3>2, <4>1, <5>1 DEF Open, differs
      <4>2. CASE m = "same"
        BY <2>1, <3>5, <4>2 DEF Open, differs
      <4>3. QED
        BY <4>1, <4>2
    <3>8. t.terminal = "none"
      BY <2>1 DEF Open
    <3>9. CASE over1
      <4>1. r.api = "completions" /\ m # "same"
        BY <3>9 DEF over1
      <4>2. Settles(r, z, next)
        BY <3>4, <3>5, <3>7, <3>8, <4>1 DEF Settles, FirstOf
      <4>3. QED
        BY <1>6, <3>4, <3>9, <4>2 DEF Track, z, next, r
    <3>10. CASE ~over1
      <4>1. Open(z, next)
        BY <3>4, <3>5, <3>6, <3>7, <3>8 DEF Open
      <4>2. QED
        BY <1>6, <3>4, <3>10, <4>1 DEF Track, z, next, r
    <3>11. QED
      BY <3>9, <3>10
  <2>5. QED
    BY <2>2, <2>3, <2>4
<1>7. QED
  BY <1>3, <1>4, <1>5, <1>6

(* The payloads of a chunk are offered one after the other. *)
LEMMA OfferedAllTracks ==
    ASSUME NEW T, NEW ev \in Seq(T), NEW payloads \in Seq(T), NEW t, Track(request, t, ev),
           request.api \in {"completions", "responses"}
    PROVE  Track(request, OfferedAll(t, payloads), ev \o payloads)
<1> DEFINE N == Len(payloads)
           X == {x \in Tracker : \E u \in Seq(T) : Track(request, x, u)}
           g == [k \in Nat |-> [x \in X |-> IF k \in 1..N THEN Offered(x, payloads[k]) ELSE x]]
           Sequel(h) == [n \in 0..N |-> IF n = 0 THEN t ELSE Offered(h[n - 1], payloads[n])]
           w == CHOOSE h : h = Sequel(h)
<1>1. N \in Nat /\ \A k \in 1..N : payloads[k] \in T
  OBVIOUS
<1>2. t \in X
  BY DEF Track
<1>3. \A x \in X, p \in T : Offered(x, p) \in X
  <2>1. ASSUME NEW x \in X, NEW p \in T PROVE Offered(x, p) \in X
    <3>1. PICK u \in Seq(T) : Track(request, x, u)
      OBVIOUS
    <3>2. Append(u, p) \in Seq(T) /\ Track(request, Offered(x, p), Append(u, p))
      BY <3>1, OfferedTracks
    <3>3. Offered(x, p) \in Tracker
      BY <3>2 DEF Track
    <3>4. QED
      BY <3>2, <3>3
  <2>2. QED
    BY <2>1
<1> HIDE DEF X, N
<1>4. g \in [Nat -> [X -> X]]
  <2>1. ASSUME NEW k \in Nat, NEW x \in X PROVE (IF k \in 1..N THEN Offered(x, payloads[k]) ELSE x) \in X
    BY <1>1, <1>3
  <2>2. QED
    BY <2>1
<1>5. \A k \in 1..N, x \in X : g[k][x] = Offered(x, payloads[k])
  <2>1. \A k \in 1..N : k \in Nat
    BY <1>1
  <2>2. QED
    BY <2>1
<1> HIDE DEF g
<1>6. PICK f \in [0..N -> X] : Follows(f, t, g, N)
  BY <1>1, <1>2, <1>4, SequelExists
<1>7. \A n \in 1..N : n - 1 \in 0..N /\ n \in 0..N /\ n # 0
  BY <1>1
<1>8. f[0] = t /\ \A n \in 1..N : f[n] = Offered(f[n - 1], payloads[n])
  BY <1>5, <1>6, <1>7 DEF Follows
<1>9. f = Sequel(f)
  <2>1. \A n \in 0..N : n = 0 \/ n \in 1..N
    BY <1>1
  <2>2. \A n \in 0..N : f[n] = Sequel(f)[n]
    BY <1>8, <2>1
  <2>3. f = [n \in 0..N |-> f[n]]
    BY <1>6
  <2>4. QED
    BY <2>2, <2>3
<1>10. w = Sequel(w)
  <2> HIDE DEF Sequel
  <2>1. QED
    BY <1>9, Zenon
<1> HIDE DEF w
<1>11. w[0] = t /\ \A n \in 1..N : w[n] = Offered(w[n - 1], payloads[n])
  <2>1. \A n \in 0..N : w[n] = Sequel(w)[n]
    BY <1>10
  <2>2. 0 \in 0..N
    BY <1>1
  <2>3. QED
    BY <1>7, <2>1, <2>2
<1> DEFINE S == {n \in 0..N : Track(request, w[n], ev \o SubSeq(payloads, 1, n))}
<1>12. 0 \in S
  <2>1. ev \o SubSeq(payloads, 1, 0) = ev
    BY ChunkGrows
  <2>2. Track(request, w[0], ev \o SubSeq(payloads, 1, 0))
    BY <1>11, <2>1, Zenon
  <2>3. 0 \in 0..N
    BY <1>1
  <2>4. QED
    BY <2>2, <2>3
<1>13. ASSUME NEW n \in 0..N, n < N, n \in S PROVE n + 1 \in S
  <2> DEFINE u == ev \o SubSeq(payloads, 1, n)
  <2>1. n + 1 \in 1..N /\ n + 1 \in 0..N /\ (n + 1) - 1 = n /\ n \in 0..Len(payloads) - 1 /\ n \in 0..Len(payloads)
    BY <1>1, <1>13 DEF N
  <2>2. u \in Seq(T) /\ ev \o SubSeq(payloads, 1, n + 1) = Append(u, payloads[n + 1])
    BY <2>1, ChunkGrows
  <2>3. Track(request, w[n], u) /\ payloads[n + 1] \in T
    BY <1>1, <1>13, <2>1
  <2>4. w[n + 1] = Offered(w[n], payloads[n + 1])
    BY <1>11, <2>1
  <2> HIDE DEF u
  <2>5. Track(request, Offered(w[n], payloads[n + 1]), Append(u, payloads[n + 1]))
    BY <2>2, <2>3, OfferedTracks
  <2>6. QED
    BY <2>1, <2>2, <2>4, <2>5
<1> HIDE DEF S
<1>14. \A n \in 0..N : n \in S
  BY <1>1, <1>12, <1>13, UpTo
<1>15. Track(request, w[N], ev \o SubSeq(payloads, 1, N))
  <2>1. N \in 0..N
    BY <1>1
  <2>2. QED
    BY <1>14, <2>1 DEF S
<1>16. OfferedAll(t, payloads) = w[N]
  BY DEF OfferedAll, w, N
<1>17. ev \o SubSeq(payloads, 1, N) = ev \o payloads
  BY ChunkGrows DEF N
<1>18. QED
  BY <1>15, <1>16, <1>17, Zenon

(* Of a tracker that follows the events, the report is the right one. *)
Report(t) ==
    IF t.terminal # "none" THEN t.terminal ELSE IF t.differs # "none" THEN t.differs ELSE t.first
LEMMA TrackReports ==
    ASSUME NEW r, NEW T, NEW ev \in Seq(T), NEW t, Track(r, t, ev)
    PROVE  /\ Report(t) \in Words
           /\ LET all == AllFor(r, ev) IN
              Report(t) = IF ~r.known THEN "none"
                          ELSE IF Contains(all, "final") THEN "final"
                          ELSE IF OthersOf(all) # <<>> THEN OthersOf(all)[1]
                          ELSE IF EarlyOf(all) # <<>> THEN EarlyOf(all)[1] ELSE "none"
<1>1. Report(t) \in Words
  BY DEF Track, Tracker, Report
<1> DEFINE all == AllFor(r, ev)
<1>2. CASE ~r.known
  BY <1>1, <1>2 DEF Track, Silent, Report
<1>3. CASE r.known /\ t.concluded
  <2>1. Settles(r, t, all)
    BY <1>3 DEF Track
  <2> HIDE DEF all
  <2>2. QED
    BY <1>1, <1>3, <2>1 DEF Settles, Report, all
<1>4. CASE r.known /\ ~t.concluded
  <2>1. Open(t, all)
    BY <1>4 DEF Track
  <2> HIDE DEF all
  <2>2. QED
    BY <1>1, <1>4, <2>1 DEF Open, Report, FirstOf, all
<1>5. QED
  BY <1>2, <1>3, <1>4

(* What was surfaced stays the first of the events. *)
LEMMA PrefixStays ==
    ASSUME NEW T, NEW s \in Seq(T), NEW t \in Seq(T), NEW x \in T, IsPrefix(s, t)
    PROVE  IsPrefix(s, Append(t, x))
<1>1. Len(s) \in Nat /\ Len(t) \in Nat /\ Len(s) <= Len(t) /\ Len(Append(t, x)) = Len(t) + 1
  BY DEF IsPrefix
<1>2. \A k \in 1..Len(s) : Append(t, x)[k] = t[k]
  BY <1>1
<1>3. SubSeq(Append(t, x), 1, Len(s)) = SubSeq(t, 1, Len(s))
  BY <1>1, <1>2
<1>4. QED
  BY <1>1, <1>3 DEF IsPrefix

LEMMA SurfacedStep ==
    ASSUME NEW t \in Seq(Tokens), NEW c \in Tokens
    PROVE  \/ Surfaced(Append(t, c)) = Surfaced(t)
           \/ \E p \in Payloads : Surfaced(Append(t, c)) = Append(Surfaced(t), p)
<1>1. PayloadOf(OpenBlock(t)) \in Payloads
  BY SurfacedIn DEF Payloads
<1>2. QED
  BY <1>1, SurfacedGrows

(* After the conclusion the rest of the stream changes nothing. *)
Concluded(r, t, before, ev) == Track(r, t, ev) /\ t.concluded /\ IsPrefix(before, ev)
LEMMA ConcludedStep ==
    ASSUME NEW r, NEW t, NEW T, NEW before \in Seq(T), NEW ev \in Seq(T), NEW p \in T,
           Concluded(r, t, before, ev)
    PROVE  Concluded(r, t, before, Append(ev, p))
<1>1. IsPrefix(before, Append(ev, p))
  BY PrefixStays DEF Concluded
<1>2. r.known => Settles(r, t, AllFor(r, Append(ev, p)))
  BY SettlesStays DEF Concluded, Track
<1>3. QED
  BY <1>1, <1>2 DEF Concluded, Track

LEMMA ConcludedReads ==
    ASSUME NEW r, NEW t, NEW before \in Seq(Payloads), NEW u \in Seq(Tokens), NEW chunk \in Seq(Tokens),
           Concluded(r, t, before, Surfaced(u))
    PROVE  Concluded(r, t, before, Surfaced(u \o chunk))
<1> DEFINE N == Len(chunk)
           S == {n \in 0..N : Concluded(r, t, before, Surfaced(u \o SubSeq(chunk, 1, n)))}
<1>1. N \in Nat /\ \A k \in 1..N : chunk[k] \in Tokens
  OBVIOUS
<1>2. 0 \in S
  <2>1. u \o SubSeq(chunk, 1, 0) = u
    BY ChunkGrows
  <2>2. Concluded(r, t, before, Surfaced(u \o SubSeq(chunk, 1, 0)))
    BY <2>1, Zenon
  <2>3. 0 \in 0..N
    BY <1>1
  <2>4. QED
    BY <2>2, <2>3
<1>3. ASSUME NEW n \in 0..N, n < N, n \in S PROVE n + 1 \in S
  <2> DEFINE v == u \o SubSeq(chunk, 1, n)
  <2>1. n + 1 \in 1..N /\ n + 1 \in 0..N /\ n \in 0..Len(chunk) - 1 /\ n \in 0..Len(chunk)
    BY <1>1, <1>3
  <2>2. v \in Seq(Tokens) /\ u \o SubSeq(chunk, 1, n + 1) = Append(v, chunk[n + 1])
    BY <2>1, ChunkGrows
  <2>3. Concluded(r, t, before, Surfaced(v)) /\ chunk[n + 1] \in Tokens
    BY <1>1, <1>3, <2>1
  <2> HIDE DEF v
  <2>4. Surfaced(v) \in Seq(Payloads)
    BY <2>2, SurfacedIn
  <2>5. \/ Surfaced(Append(v, chunk[n + 1])) = Surfaced(v)
        \/ \E p \in Payloads : Surfaced(Append(v, chunk[n + 1])) = Append(Surfaced(v), p)
    BY <2>2, <2>3, SurfacedStep
  <2>6. Concluded(r, t, before, Surfaced(Append(v, chunk[n + 1])))
    BY <2>3, <2>4, <2>5, ConcludedStep
  <2>7. QED
    BY <2>1, <2>2, <2>6
<1> HIDE DEF S
<1>4. \A n \in 0..N : n \in S
  BY <1>1, <1>2, <1>3, UpTo
<1>5. Concluded(r, t, before, Surfaced(u \o SubSeq(chunk, 1, N)))
  <2>1. N \in 0..N
    BY <1>1
  <2>2. QED
    BY <1>4, <2>1 DEF S
<1>6. u \o SubSeq(chunk, 1, N) = u \o chunk
  BY ChunkGrows
<1>7. QED
  BY <1>5, <1>6, Zenon

-----------------------------------------------------------------------------
(* The inductive invariant *)

EventsBy(t, atEnd) == IF atEnd THEN SurfacedAtEnd(t) ELSE Surfaced(t)
Fits(q) ==
    /\ q \in Parser /\ q.out = <<>>
    /\ q.dataChars + Len(q.line) <= MaxEventChars /\ Len(q.line) <= q.chars
(* Until the tracker concludes, the parser has read the whole text and the
   tracker has been offered every event; what was concluded then holds for
   every longer text. *)
ObserverInv ==
    /\ request \in Requests /\ text \in Seq(Tokens) /\ told \in Seq(Payloads)
    /\ over \in BOOLEAN /\ stopped \in BOOLEAN /\ (stopped <=> tracker.concluded)
    /\ Fits(parser)
    /\ Track(request, tracker, EventsBy(text, over))
    /\ IsPrefix(told, EventsBy(text, over))
    /\ ~stopped => told = EventsBy(text, over)
    /\ ~over /\ ~stopped => Reads(parser, text, told)

LEMMA EventsByIn ==
    ASSUME NEW t \in Seq(Tokens), NEW atEnd
    PROVE  EventsBy(t, atEnd) \in Seq(Payloads)
<1>1. Surfaced(t) \in Seq(Payloads) /\ LastOf(t) \in Payloads
  BY SurfacedIn, EndGrows
<1>2. SurfacedAtEnd(t) = Surfaced(t) \/ SurfacedAtEnd(t) = Append(Surfaced(t), LastOf(t))
  BY EndGrows
<1>3. QED
  BY <1>1, <1>2 DEF EventsBy

LEMMA NoText ==
    /\ WholeLines(<<>>) = <<>> /\ RestOf(<<>>) = <<>> /\ OpenBlock(<<>>) = <<>> /\ Surfaced(<<>>) = <<>>
    /\ ~AfterCr(<<>>)
<1>1. /\ <<>> \in Seq(Seq(Seq(Tokens))) /\ Len(<<>>) = 0 /\ DOMAIN <<>> = {} /\ Len(<<0>>) = 1 /\ <<0>>[1] = 0
      /\ <<0>> \o <<>> = <<0>>
  OBVIOUS
<1>2. ASSUME NEW keep, DOMAIN keep = {} PROVE Positions(keep) = <<>>
  <2>1. [k \in DOMAIN keep |-> k] = <<>>
    BY <1>2
  <2>2. QED
    BY <2>1, WhereEmpty DEF Positions
<1>3. EndsOf(<<>>) = <<0>> /\ BlanksOf(<<>>) = <<0>>
  <2>1. DOMAIN [i \in DOMAIN <<>> |-> IsEnd(<<>>, i)] = {} /\ DOMAIN [k \in DOMAIN <<>> |-> <<>>[k] = <<>>] = {}
    BY <1>1
  <2>2. Positions([i \in DOMAIN <<>> |-> IsEnd(<<>>, i)]) = <<>> /\ Positions([k \in DOMAIN <<>> |-> <<>>[k] = <<>>]) = <<>>
    BY <1>2, <2>1
  <2>3. QED
    BY <1>1, <2>2 DEF EndsOf, BlanksOf
<1>4. 1..(Len(<<0>>) - 1) = {}
  OBVIOUS
<1>5. WholeLines(<<>>) = <<>>
  <2>1. WholeLines(<<>>) = [k \in 1..(Len(<<0>>) - 1) |-> LineOf(<<>>, <<0>>[k], <<0>>[k + 1])]
    BY <1>3 DEF WholeLines
  <2>2. QED
    BY <1>4, <2>1
<1>6. RestOf(<<>>) = <<>>
  <2>1. RestOf(<<>>) = LineOf(<<>>, 0, 1)
    BY <1>1, <1>3 DEF RestOf
  <2>2. SubSeq(<<>>, 0 + 1, 1 - 1) = <<>>
    OBVIOUS
  <2>3. LineOf(<<>>, 0, 1) = Where(<<>>, [k \in DOMAIN <<>> |-> <<>>[k] # "lf"])
    BY <2>2 DEF LineOf
  <2>4. QED
    BY <2>1, <2>3, WhereEmpty
<1>7. WholeBlocks(<<>>) = <<>> /\ LastBlock(<<>>) = <<>>
  <2>1. /\ WholeBlocks(<<>>) = [k \in 1..(Len(<<0>>) - 1) |-> SubSeq(<<>>, <<0>>[k] + 1, <<0>>[k + 1] - 1)]
        /\ LastBlock(<<>>) = SubSeq(<<>>, <<0>>[Len(<<0>>)] + 1, Len(<<>>))
    BY <1>3 DEF WholeBlocks, LastBlock
  <2>2. SubSeq(<<>>, 0 + 1, 0) = <<>>
    OBVIOUS
  <2>3. LastBlock(<<>>) = <<>>
    BY <1>1, <2>1, <2>2
  <2>4. QED
    BY <1>4, <2>1, <2>3
<1>8. EventsOf(<<>>) = <<>>
  <2>1. [k \in DOMAIN <<>> |-> PayloadOf(<<>>[k])] = <<>>
    BY <1>1
  <2>2. QED
    BY <2>1, WhereEmpty DEF EventsOf
<1>9. QED
  BY <1>5, <1>6, <1>7, <1>8 DEF OpenBlock, Surfaced, AfterCr

LEMMA NoEvents ==
    ASSUME NEW r
    PROVE  AllFor(r, <<>>) = <<>> /\ EarlyOf(<<>>) = <<>> /\ OthersOf(<<>>) = <<>> /\ ~Contains(<<>>, "final")
<1>1. [k \in DOMAIN <<>> |-> Declared(<<>>[k])] = <<>> /\ Len(<<>>) = 0
  OBVIOUS
<1>2. AllFor(r, <<>>) = <<>>
  BY <1>1, WhereEmpty DEF AllFor
<1>3. EarlyOf(<<>>) = <<>> /\ OthersOf(<<>>) = <<>>
  BY WhereEmpty DEF EarlyOf, OthersOf
<1>4. QED
  BY <1>1, <1>2, <1>3 DEF Contains

LEMMA ObserverInitCorrect == ObserverInit => ObserverInv
<1> SUFFICES ASSUME ObserverInit PROVE ObserverInv
  OBVIOUS
<1>1. /\ request \in Requests /\ text = <<>> /\ told = <<>> /\ over = FALSE /\ stopped = FALSE
      /\ tracker = [first |-> "none", differs |-> "none", terminal |-> "none", concluded |-> FALSE]
      /\ parser = [line |-> <<>>, chars |-> 0, data |-> <<>>, dataChars |-> 0,
                   overflow |-> FALSE, skip |-> FALSE, out |-> <<>>]
  BY DEF ObserverInit
<1>2. <<>> \in Seq(Tokens) /\ <<>> \in Seq(Payloads) /\ Len(<<>>) = 0 /\ <<>> \o <<>> = <<>> /\ <<>> \in Seq(Seq(Tokens))
  OBVIOUS
<1>3. /\ parser \in Parser /\ parser.line = <<>> /\ parser.chars = 0 /\ parser.data = <<>> /\ parser.dataChars = 0
      /\ ~parser.overflow /\ ~parser.skip /\ parser.out = <<>>
  BY <1>1, <1>2, NoBlock DEF Parser
<1>4. Fits(parser)
  BY <1>2, <1>3, ObserverAssumption DEF Fits, ObserverAssumption
<1>5. EventsBy(text, over) = <<>>
  BY <1>1, NoText DEF EventsBy
<1>6. Track(request, tracker, <<>>)
  <2>1. tracker \in Tracker
    BY <1>1 DEF Tracker, Words
  <2>2. Silent(tracker) /\ ~tracker.concluded
    BY <1>1 DEF Silent
  <2>3. Open(tracker, <<>>)
    BY <2>2, NoEvents DEF Open, Silent, FirstOf
  <2>4. QED
    BY <2>1, <2>2, <2>3, NoEvents DEF Track
<1>7. Reads(parser, <<>>, <<>>)
  <2>1. ~TooLong(Append(<<>>, <<>>))
    <3>1. TooLong(Append(<<>>, <<>>)) <=> TooLong(<<>>) \/ SizeOf(<<>>, Len(<<>>)) + Len(<<>>) > MaxEventChars
      BY <1>2, BlockGrows
    <3>2. SizeOf(<<>>, Len(<<>>)) = 0 /\ ~TooLong(<<>>)
      BY NoBlock
    <3>3. QED
      BY <1>2, <3>1, <3>2, ObserverAssumption DEF ObserverAssumption
  <2>2. Holds(parser, <<>>, <<>>)
    BY <1>2, <1>3, <2>1, NoBlock DEF Holds
  <2>3. QED
    BY <1>2, <1>3, <2>2, NoText DEF Reads
<1>8. IsPrefix(<<>>, <<>>)
  BY <1>2 DEF IsPrefix
<1>9. QED
  BY <1>1, <1>2, <1>4, <1>5, <1>6, <1>7, <1>8 DEF ObserverInv

(* Feeding what was surfaced, when it makes told all the events. *)
LEMMA FeedKeeps ==
    ASSUME NEW q \in Parser, Feed(q), NEW ev \in Seq(Payloads), told \o q.out = ev, told \in Seq(Payloads),
           Track(request, tracker, told), request \in Requests
    PROVE  /\ told' = ev /\ Track(request, tracker', ev) /\ IsPrefix(told', ev)
           /\ stopped' \in BOOLEAN /\ (stopped' <=> tracker'.concluded)
           /\ parser' = [q EXCEPT !.out = <<>>]
<1>1. request.api \in {"completions", "responses"}
  BY ObserverAssumption DEF ObserverAssumption
<1>2. q.out \in Seq(Payloads)
  BY DEF Parser
<1>3. Track(request, OfferedAll(tracker, q.out), told \o q.out)
  BY <1>1, <1>2, OfferedAllTracks
<1>4. told' = ev /\ tracker' = OfferedAll(tracker, q.out) /\ stopped' = tracker'.concluded
      /\ parser' = [q EXCEPT !.out = <<>>]
  BY DEF Feed
<1>5. Track(request, tracker', ev)
  BY <1>3, <1>4
<1>6. tracker'.concluded \in BOOLEAN
  BY <1>5 DEF Track, Tracker
<1>7. IsPrefix(ev, ev)
  BY DEF IsPrefix
<1>8. QED
  BY <1>4, <1>5, <1>6, <1>7

(* The parser holds no more than a line end away from the cap. *)
LEMMA ReadsFits ==
    ASSUME NEW t \in Seq(Tokens), NEW before \in Seq(Payloads), NEW q, Reads(q, t, before), q.out = <<>>
    PROVE  Fits(q)
<1> DEFINE b == OpenBlock(t)
           l == RestOf(t)
<1>1. b \in Seq(Seq(Tokens)) /\ l \in Seq(Tokens) /\ Len(l) \in Nat /\ Len(<<>>) = 0
  <2>1. b \in Seq(Seq(Tokens)) /\ l \in Seq(Tokens)
    BY LinesIn, SurfacedIn
  <2> HIDE DEF b, l
  <2>2. QED
    BY <2>1
<1>2. q \in Parser /\ Holds(q, b, l)
  BY DEF Reads
<1> HIDE DEF b, l
<1>3. SizeOf(b, Len(b)) \in Nat /\ (TooLong(Append(b, l)) <=> TooLong(b) \/ SizeOf(b, Len(b)) + Len(l) > MaxEventChars)
  BY <1>1, BlockGrows
<1>4. CASE q.overflow
  BY <1>1, <1>2, <1>4, ObserverAssumption DEF Fits, Holds, ObserverAssumption
<1>5. CASE ~q.overflow
  BY <1>1, <1>2, <1>3, <1>5, ObserverAssumption DEF Fits, Holds, ObserverAssumption
<1>6. QED
  BY <1>4, <1>5

LEMMA OutTaken ==
    ASSUME NEW q \in Parser
    PROVE  LET z == [q EXCEPT !.out = <<>>] IN
           /\ z \in Parser /\ z.line = q.line /\ z.chars = q.chars /\ z.data = q.data
           /\ z.dataChars = q.dataChars /\ z.out = <<>> /\ (z.skip <=> q.skip) /\ (z.overflow <=> q.overflow)
<1>1. <<>> \in Seq(Payloads)
  OBVIOUS
<1>2. QED
  BY <1>1 DEF Parser

LEMMA ChunkKeeps ==
    ASSUME ObserverInv, NEW chunk \in Seq(Tokens), ChunkArrives(chunk)
    PROVE  ObserverInv'
<1>1. /\ request \in Requests /\ text \in Seq(Tokens) /\ told \in Seq(Payloads)
      /\ stopped \in BOOLEAN /\ (stopped <=> tracker.concluded)
      /\ Fits(parser) /\ Track(request, tracker, EventsBy(text, over)) /\ IsPrefix(told, EventsBy(text, over))
      /\ ~stopped => told = EventsBy(text, over)
      /\ ~over /\ ~stopped => Reads(parser, text, told)
  BY DEF ObserverInv
<1>2. ~over /\ over' = over /\ request' = request /\ text' = text \o chunk
  BY DEF ChunkArrives
<1> DEFINE u == text \o chunk
<1>3. u \in Seq(Tokens)
  BY <1>1
<1>4. EventsBy(text, over) = Surfaced(text) /\ EventsBy(text', over') = Surfaced(u)
  BY <1>2 DEF EventsBy
<1> HIDE DEF u
<1>5. Surfaced(u) \in Seq(Payloads)
  BY <1>3, SurfacedIn
<1>6. CASE stopped
  <2>1. parser' = parser /\ tracker' = tracker /\ stopped' = stopped /\ told' = told
    BY <1>6 DEF ChunkArrives
  <2>2. Concluded(request, tracker, told, Surfaced(text))
    BY <1>1, <1>4, <1>6 DEF Concluded
  <2>3. Concluded(request, tracker, told, Surfaced(text \o chunk))
    BY <1>1, <2>2, ConcludedReads
  <2>4. Track(request, tracker, Surfaced(u)) /\ IsPrefix(told, Surfaced(u))
    BY <2>3 DEF Concluded, u
  <2>5. QED
    BY <1>1, <1>2, <1>3, <1>4, <1>6, <2>1, <2>4 DEF ObserverInv, u
<1>7. CASE ~stopped
  <2> DEFINE q == Pushed(parser, chunk)
  <2>1. Feed(q)
    BY <1>7 DEF ChunkArrives
  <2>2. Reads(parser, text, told) /\ told = Surfaced(text)
    BY <1>1, <1>2, <1>4, <1>7
  <2>3. Reads(q, u, told)
    BY <1>1, <2>2, PushedReads DEF u
  <2> HIDE DEF q
  <2>4. q \in Parser /\ told \o q.out = Surfaced(u)
    BY <2>3 DEF Reads
  <2>5. Track(request, tracker, told)
    BY <1>1, <1>4, <2>2
  <2>6. /\ told' = Surfaced(u) /\ Track(request, tracker', Surfaced(u)) /\ IsPrefix(told', Surfaced(u))
        /\ stopped' \in BOOLEAN /\ (stopped' <=> tracker'.concluded)
        /\ parser' = [q EXCEPT !.out = <<>>]
    BY <1>1, <1>5, <2>1, <2>4, <2>5, FeedKeeps
  <2> DEFINE z == [q EXCEPT !.out = <<>>]
  <2>7. /\ z \in Parser /\ z.line = q.line /\ z.chars = q.chars /\ z.data = q.data
        /\ z.dataChars = q.dataChars /\ z.out = <<>> /\ (z.skip <=> q.skip) /\ (z.overflow <=> q.overflow)
    BY <2>4, OutTaken
  <2> HIDE DEF z
  <2>8. Surfaced(u) \o <<>> = Surfaced(u)
    BY <1>5
  <2>9. Reads(z, u, Surfaced(u))
    <3>1. Holds(z, OpenBlock(u), RestOf(u))
      BY <2>3, <2>7 DEF Reads, Holds
    <3>2. QED
      BY <2>3, <2>7, <2>8, <3>1 DEF Reads
  <2>10. Fits(z)
    BY <1>3, <1>5, <2>7, <2>9, ReadsFits
  <2>11. parser' = z
    BY <2>6 DEF z
  <2>12. QED
    BY <1>1, <1>2, <1>3, <1>4, <1>5, <2>6, <2>9, <2>10, <2>11 DEF ObserverInv, u
<1>8. QED
  BY <1>1, <1>6, <1>7

LEMMA EndKeeps ==
    ASSUME ObserverInv, StreamEnds
    PROVE  ObserverInv'
<1>1. /\ request \in Requests /\ text \in Seq(Tokens) /\ told \in Seq(Payloads)
      /\ stopped \in BOOLEAN /\ (stopped <=> tracker.concluded)
      /\ Fits(parser) /\ Track(request, tracker, EventsBy(text, over)) /\ IsPrefix(told, EventsBy(text, over))
      /\ ~stopped => told = EventsBy(text, over)
      /\ ~over /\ ~stopped => Reads(parser, text, told)
  BY DEF ObserverInv
<1>2. ~over /\ over' = TRUE /\ request' = request /\ text' = text
  BY DEF StreamEnds
<1> DEFINE ev == SurfacedAtEnd(text)
<1>3. EventsBy(text, over) = Surfaced(text) /\ EventsBy(text', over') = ev
  BY <1>2 DEF EventsBy
<1>4. ev \in Seq(Payloads)
  <2>1. EventsBy(text, TRUE) \in Seq(Payloads)
    BY <1>1, EventsByIn
  <2>2. QED
    BY <2>1 DEF EventsBy
<1>5. Surfaced(text) \in Seq(Payloads)
  BY <1>1, SurfacedIn
<1>6. LastOf(text) \in Payloads /\ (ev = Surfaced(text) \/ ev = Append(Surfaced(text), LastOf(text)))
  BY <1>1, EndGrows
<1> HIDE DEF ev
<1>7. CASE stopped
  <2>1. parser' = parser /\ tracker' = tracker /\ stopped' = stopped /\ told' = told
    BY <1>7 DEF StreamEnds
  <2>2. Concluded(request, tracker, told, Surfaced(text))
    BY <1>1, <1>3, <1>7 DEF Concluded
  <2>3. Concluded(request, tracker, told, Append(Surfaced(text), LastOf(text)))
    BY <1>1, <1>5, <1>6, <2>2, ConcludedStep
  <2>4. Track(request, tracker, ev) /\ IsPrefix(told, ev)
    BY <1>6, <2>2, <2>3 DEF Concluded
  <2>5. QED
    BY <1>1, <1>2, <1>3, <1>7, <2>1, <2>4 DEF ObserverInv
<1>8. CASE ~stopped
  <2> DEFINE q == Ended(parser)
  <2>1. Feed(q)
    BY <1>8 DEF StreamEnds
  <2>2. Reads(parser, text, told) /\ told = Surfaced(text)
    BY <1>1, <1>2, <1>3, <1>8
  <2>3. EndRead(q, text, told)
    BY <1>1, <2>2, EndedReads
  <2> HIDE DEF q
  <2>4. q \in Parser /\ told \o q.out = ev /\ q.line = <<>> /\ q.dataChars = 0
    BY <2>3 DEF EndRead, ev
  <2>5. Track(request, tracker, told)
    BY <1>1, <1>3, <2>2
  <2>6. /\ told' = ev /\ Track(request, tracker', ev) /\ IsPrefix(told', ev)
        /\ stopped' \in BOOLEAN /\ (stopped' <=> tracker'.concluded)
        /\ parser' = [q EXCEPT !.out = <<>>]
    BY <1>1, <1>4, <2>1, <2>4, <2>5, FeedKeeps
  <2> DEFINE z == [q EXCEPT !.out = <<>>]
  <2>7. z \in Parser /\ z.line = q.line /\ z.chars = q.chars /\ z.dataChars = q.dataChars /\ z.out = <<>>
    BY <2>4, OutTaken
  <2> HIDE DEF z
  <2>8. Fits(z)
    <3>1. Len(<<>>) = 0 /\ z.chars \in Nat
      BY <2>7 DEF Parser
    <3>2. QED
      BY <2>4, <2>7, <3>1, ObserverAssumption DEF Fits, ObserverAssumption
  <2>9. parser' = z
    BY <2>6 DEF z
  <2>10. QED
    BY <1>1, <1>2, <1>3, <1>4, <2>6, <2>8, <2>9 DEF ObserverInv
<1>9. QED
  BY <1>1, <1>7, <1>8

LEMMA ObserverStepCorrect == ObserverInv /\ [ObserverNext]_observerVars => ObserverInv'
<1> SUFFICES ASSUME ObserverInv, [ObserverNext]_observerVars PROVE ObserverInv'
  OBVIOUS
<1>1. ASSUME NEW n \in 1..MaxChunk, NEW chunk \in [1..n -> Tokens], ChunkArrives(chunk) PROVE ObserverInv'
  <2>1. n \in Nat
    BY ObserverAssumption DEF ObserverAssumption
  <2>2. chunk \in Seq(Tokens)
    BY <2>1
  <2>3. QED
    BY <1>1, <2>2, ChunkKeeps
<1>2. CASE StreamEnds
  BY <1>2, EndKeeps
<1>3. CASE UNCHANGED observerVars
  BY <1>3 DEF ObserverInv, observerVars, Fits, Parser, Track, Tracker, Reads, EventsBy, Holds
<1>4. QED
  BY <1>1, <1>2, <1>3 DEF ObserverNext

LEMMA ObserverInvIsSound ==
    ASSUME ObserverInv
    PROVE  ObserverTypeOK /\ ObservedAsDeclared
<1> DEFINE ev == EventsBy(text, over)
<1>1. /\ text \in Seq(Tokens) /\ Fits(parser) /\ (stopped <=> tracker.concluded)
      /\ Track(request, tracker, ev) /\ IsPrefix(told, ev) /\ (~stopped => told = ev)
  BY DEF ObserverInv
<1>2. Events = ev
  BY EventsAre DEF EventsBy
<1>3. ev \in Seq(Payloads)
  BY <1>1, EventsByIn
<1>4. Reported = Report(tracker)
  BY DEF Reported, Report
<1>5. AllOf(Events) = AllFor(request, ev)
  BY <1>2, AllIsFor
<1> HIDE DEF ev
<1>6. /\ Report(tracker) \in Words
      /\ LET all == AllFor(request, ev) IN
         Report(tracker) = IF ~request.known THEN "none"
                           ELSE IF Contains(all, "final") THEN "final"
                           ELSE IF OthersOf(all) # <<>> THEN OthersOf(all)[1]
                           ELSE IF EarlyOf(all) # <<>> THEN EarlyOf(all)[1] ELSE "none"
  BY <1>1, <1>3, TrackReports
<1>7. ObserverTypeOK
  BY <1>1, <1>4, <1>6 DEF ObserverTypeOK, Fits, Words
<1>8. EventsAreWhole
  BY <1>1, <1>2 DEF EventsAreWhole
<1>9. ReportIsRight
  BY <1>4, <1>5, <1>6, Zenon DEF ReportIsRight
<1>10. QED
  BY <1>7, <1>8, <1>9 DEF ObservedAsDeclared

LEMMA ObserverIsInductive == ObserverSpec => []ObserverInv
<1>1. ObserverInit => ObserverInv
  BY ObserverInitCorrect
<1>2. ObserverInv /\ [ObserverNext]_observerVars => ObserverInv'
  BY ObserverStepCorrect
<1>3. QED
  BY <1>1, <1>2, PTL DEF ObserverSpec

(* What the parser of a stream holds never passes the cap, whatever the upstream
   sends and however it arrives (model-audit/observer.ts). *)
THEOREM ObserverTypesCorrect == ObserverSpec => []ObserverTypeOK
<1>1. ObserverInv => ObserverTypeOK
  BY ObserverInvIsSound
<1>2. QED
  BY <1>1, ObserverIsInductive, PTL

(* The payloads surfaced are the events of the stream, however it was cut, and
   the model reported is the one they declare. *)
THEOREM ObservedAlwaysAsDeclared == ObserverSpec => []ObservedAsDeclared
<1>1. ObserverInv => ObservedAsDeclared
  BY ObserverInvIsSound
<1>2. QED
  BY <1>1, ObserverIsInductive, PTL

-----------------------------------------------------------------------------
(* The scenes *)

SceneInv == TpsInv /\ IngestInv /\ AuditInv /\ ObserverInv /\ RequestInv /\ EndpointInv
sceneVars == <<scene, tpsVars, ingestVars, auditVars, observerVars, requestVars, endpointVars>>

LEMMA SceneInitially == SceneInit => SceneInv
<1>1. SceneInit => TpsInit /\ IngestInit /\ AuditInit /\ ObserverInit /\ RequestInit /\ EndpointInit
  BY DEF SceneInit
<1>2. AuditInit => AuditInv
  BY AuditStarts
<1>3. QED
  BY <1>1, <1>2, TpsInitially, IngestInitInv, ObserverInitCorrect, RequestInvInit, EndpointInvInit DEF SceneInv

(* The scene that runs keeps its invariant, the others rest. *)
LEMMA SceneStep == SceneInv /\ [SceneNext]_sceneVars => SceneInv'
<1> SUFFICES ASSUME SceneInv, [SceneNext]_sceneVars PROVE SceneInv'
  OBVIOUS
<1>1. /\ [TpsNext]_tpsVars /\ [IngestNext]_ingestVars /\ [AuditNext]_auditVars
      /\ [ObserverNext]_observerVars /\ [RequestNext]_requestVars /\ [EndpointNext]_endpointVars
  BY Zenon DEF SceneNext, TpsStep, IngestStep, AuditStep, ObserverStep, RequestStep, EndpointStep, sceneVars
<1>2. TpsInv' /\ IngestInv'
  BY <1>1, TpsStepKeeps, IngestSteps DEF SceneInv
<1>3. AuditInv'
  BY <1>1, AuditSteps DEF SceneInv
<1>4. ObserverInv' /\ RequestInv' /\ EndpointInv'
  BY <1>1, ObserverStepCorrect, RequestInvStep, EndpointInvStep DEF SceneInv
<1>5. QED
  BY <1>2, <1>3, <1>4 DEF SceneInv

(* Whatever the sessions of a process do, the variables of the status line, of
   the ingest, the audit, the observer, a request and the endpoint commands keep
   their types (tps.ts, tps-subagent.ts, model-audit/, http.ts, balance.ts). *)
THEOREM SessionsTypesCorrect == SceneSpec => []SessionsTypesOK
<1>1. SceneSpec => []SceneInv
  <2>1. SceneInit => SceneInv
    BY SceneInitially
  <2>2. SceneInv /\ [SceneNext]_sceneVars => SceneInv'
    BY SceneStep
  <2>3. QED
    BY <2>1, <2>2, PTL DEF SceneSpec, sceneVars
<1>2. SceneInv => SessionsTypesOK
  <2> SUFFICES ASSUME SceneInv PROVE SessionsTypesOK
    OBVIOUS
  <2>1. TpsTypeOK /\ IngestTypeOK
    BY TpsInvImplies, IngestInvGives DEF SceneInv
  <2>2. AuditTypeOK /\ ObserverTypeOK
    BY AuditInvGives, ObserverInvIsSound DEF SceneInv
  <2>3. RequestTypeOK
    BY RequestInvImplies DEF SceneInv
  <2>4. EndpointTypeOK
    BY DEF SceneInv, EndpointInv, TablesInv
  <2>5. QED
    BY <2>1, <2>2, <2>3, <2>4 DEF SessionsTypesOK
<1>3. QED
  BY <1>1, <1>2, PTL

=============================================================================
