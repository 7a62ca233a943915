----------------------------- MODULE TpsSession -----------------------------
(***************************************************************************)
(* The life of a session in the status line's extension (tps.ts): what its *)
(* handlers of session_start and session_shutdown set up and tear down,    *)
(* around the awaits of the recovery and the collector, and who may draw   *)
(* the footer meanwhile.                                                   *)
(*                                                                         *)
(* pi awaits these handlers, but the code also holds when a new call comes *)
(* before an older one is done: a generation tells them apart.  A step     *)
(* runs from one await to the next.                                        *)
(***************************************************************************)
EXTENDS Naturals, FiniteSets

CONSTANTS
    Calls,      \* how many session events there may be: their numbers
    Overlap,    \* whether one may come while another is handled
    MaxTurns    \* bound on turns

ASSUME TpsAssumption ==
    /\ Calls \subseteq Nat \ {0} /\ IsFiniteSet(Calls)
    /\ Overlap \in BOOLEAN /\ MaxTurns \in Nat

VARIABLES
    tps,        \* the extension's variables
    call,       \* the handlers of the session events
    collector,  \* each collector, by the call that made it
    recovery,   \* each recovery
    bridges,    \* who listens to subagent completions, by the call
    probes,     \* who listens to third parties
    micro,      \* the redraws queued as microtasks
    turns       \* how many turns began

tpsVars == <<tps, call, collector, recovery, bridges, probes, micro, turns>>

None == 0
Idle == [pc |-> "new", gen |-> 0, rec |-> None, coll |-> None]

TpsInit ==
    /\ tps = [gen |-> 0, active |-> FALSE, rec |-> None, coll |-> None, ctx |-> FALSE,
              turn |-> FALSE, stats |-> 0, refresh |-> FALSE, poll |-> FALSE, dirs |-> FALSE,
              watch |-> FALSE, scan |-> FALSE, bridge |-> None, probe |-> None,
              latch |-> FALSE, shown |-> "none"]
    /\ call = [c \in Calls |-> Idle]
    /\ collector = [c \in Calls |-> "none"] /\ recovery = [c \in Calls |-> "none"]
    /\ bridges = {} /\ probes = {} /\ micro = {} /\ turns = 0

-----------------------------------------------------------------------------
(* Helpers *)

UnderWay == {c \in Calls : call[c].pc \notin {"new", "done"}}
May(c) ==
    /\ call[c].pc = "new" /\ \A d \in Calls : d < c => call[d].pc # "new"
    /\ Overlap \/ UnderWay = {}

Stopping(r) == IF r = None THEN recovery
               ELSE [recovery EXCEPT ![r] = IF @ = "stopped" THEN @ ELSE "stopping"]
(* checkpointAndClose(): only the first call closes; a later one returns. *)
Closing(k) == IF k = None THEN collector
              ELSE [collector EXCEPT ![k] = IF @ = "open" THEN "closing" ELSE @]
Owns(r) == r # None /\ tps.active /\ tps.rec = r /\ tps.coll = r /\ recovery[r] \in {"starting", "live"}

WatchDropped(t) == [t EXCEPT !.watch = FALSE, !.scan = FALSE]
Unregistered(t) == [t EXCEPT !.bridge = None, !.probe = None]

-----------------------------------------------------------------------------
(* session_start *)

SessionStart(c) ==
    /\ May(c)
    /\ tps' = [tps EXCEPT !.gen = @ + 1, !.rec = None]
    /\ call' = [call EXCEPT ![c] = [pc |-> "stop", gen |-> tps'.gen, rec |-> tps.rec,
                                    coll |-> tps.coll]]
    /\ recovery' = Stopping(tps.rec)
    /\ UNCHANGED <<collector, bridges, probes, micro, turns>>

(* What the handler awaits: the recovery's last slice, the last checkpoint. *)
Drained(c) == call[c].rec # None => recovery[call[c].rec] = "stopped"
Closed(c) == call[c].coll # None => collector[call[c].coll] = "closed"

StartCloses(c) ==
    /\ call[c].pc = "stop" /\ Drained(c)
    /\ call' = [call EXCEPT ![c].pc = "close"]
    /\ collector' = Closing(call[c].coll)
    /\ UNCHANGED <<tps, recovery, bridges, probes, micro, turns>>

(* Overtaken while it waited. *)
Overtaken(c, pc) ==
    /\ call[c].pc = pc /\ tps.gen # call[c].gen
    /\ call' = [call EXCEPT ![c].pc = "done"]
    /\ UNCHANGED <<tps, collector, recovery, bridges, probes, micro, turns>>
StartOvertaken(c) == Closed(c) /\ Overtaken(c, "close")

(* All of the last session is torn down, and the new one made; a session
   without a TUI has no collector. *)
StartSession(c) ==
    /\ call[c].pc = "close" /\ Closed(c) /\ tps.gen = call[c].gen
    /\ bridges' = bridges \ {tps.bridge} /\ probes' = probes \ {tps.probe}
    /\ \E primary, audit \in BOOLEAN :
         /\ tps' = [WatchDropped(Unregistered(tps)) EXCEPT
                      !.active = TRUE, !.refresh = FALSE, !.turn = FALSE, !.shown = "none",
                      !.stats = @ + 1, !.dirs = FALSE, !.poll = primary /\ audit,
                      !.ctx = primary, !.rec = IF primary THEN c ELSE None,
                      !.coll = IF primary THEN c ELSE None]
         /\ call' = [call EXCEPT ![c].pc = IF primary THEN "restore" ELSE "done"]
         /\ collector' = [collector EXCEPT ![c] = IF primary THEN "open" ELSE @]
         /\ recovery' = [recovery EXCEPT ![c] = IF primary THEN "starting" ELSE @]
    /\ UNCHANGED <<micro, turns>>

Restored(c) == recovery[c] # "starting"
RestoreOvertaken(c) == Restored(c) /\ Overtaken(c, "restore")

(* The files were restored: now others may report to the collector. *)
StartDone(c) ==
    /\ call[c].pc = "restore" /\ Restored(c) /\ tps.gen = call[c].gen
    /\ call' = [call EXCEPT ![c].pc = "done"]
    /\ probes' = probes \cup {c}
    /\ \E subagents \in BOOLEAN :
         /\ tps' = IF subagents THEN [tps EXCEPT !.probe = c, !.dirs = TRUE, !.watch = TRUE,
                                                 !.scan = FALSE, !.bridge = c]
                   ELSE [tps EXCEPT !.probe = c]
         /\ bridges' = IF subagents THEN bridges \cup {c} ELSE bridges
    /\ UNCHANGED <<collector, recovery, micro, turns>>

-----------------------------------------------------------------------------
(* session_shutdown *)

SessionShutdown(c) ==
    /\ May(c)
    /\ call' = [call EXCEPT ![c] = [pc |-> "drain", gen |-> tps.gen, rec |-> tps.rec,
                                    coll |-> tps.coll]]
    /\ tps' = [WatchDropped(Unregistered(tps)) EXCEPT !.refresh = FALSE, !.ctx = FALSE, !.shown = "none"]
    /\ bridges' = bridges \ {tps.bridge} /\ probes' = probes \ {tps.probe}
    /\ recovery' = Stopping(tps.rec)
    /\ UNCHANGED <<collector, micro, turns>>

(* A session started meanwhile: only the old collector is to be closed. *)
ShutdownOvertaken(c) ==
    /\ call[c].pc = "drain" /\ Drained(c) /\ tps.gen # call[c].gen
    /\ call' = [call EXCEPT ![c].pc = "end"]
    /\ collector' = Closing(call[c].coll)
    /\ UNCHANGED <<tps, recovery, bridges, probes, micro, turns>>

(* mutant: the timers and watchers are not torn down once more. *)
ShutdownSession_Once(c) ==
    /\ call[c].pc = "drain" /\ Drained(c) /\ tps.gen = call[c].gen
    /\ call' = [call EXCEPT ![c].pc = "end", ![c].coll = tps.coll]
    /\ collector' = Closing(tps.coll)
    /\ tps' = [tps EXCEPT !.gen = @ + 1, !.active = FALSE, !.rec = None, !.coll = None,
                          !.turn = FALSE, !.ctx = FALSE, !.dirs = FALSE, !.poll = FALSE,
                          !.latch = FALSE, !.shown = "none"]
    /\ UNCHANGED <<recovery, bridges, probes, micro, turns>>
ShutdownSession(c) ==
    /\ call[c].pc = "drain" /\ Drained(c) /\ tps.gen = call[c].gen
    /\ call' = [call EXCEPT ![c].pc = "end", ![c].coll = tps.coll]
    /\ collector' = Closing(tps.coll)
    /\ tps' = [WatchDropped(tps) EXCEPT
                 !.gen = @ + 1, !.active = FALSE, !.rec = None, !.coll = None, !.turn = FALSE,
                 !.ctx = FALSE, !.dirs = FALSE, !.refresh = FALSE, !.poll = FALSE,
                 !.latch = FALSE, !.shown = "none"]
    /\ UNCHANGED <<recovery, bridges, probes, micro, turns>>

ShutdownEnds(c) ==
    /\ call[c].pc = "end" /\ Closed(c)
    /\ call' = [call EXCEPT ![c].pc = "done"]
    /\ UNCHANGED <<tps, collector, recovery, bridges, probes, micro, turns>>

-----------------------------------------------------------------------------
(* The recovery and the collector, which are modules of their own *)

RecoveryGoesOn(r) ==
    /\ recovery[r] \in {"starting", "stopping"}
    /\ recovery' = [recovery EXCEPT ![r] = IF @ = "starting" THEN "live" ELSE "stopped"]
    /\ UNCHANGED <<tps, call, collector, bridges, probes, micro, turns>>
CollectorCloses(k) ==
    /\ collector[k] = "closing" /\ collector' = [collector EXCEPT ![k] = "closed"]
    /\ UNCHANGED <<tps, call, recovery, bridges, probes, micro, turns>>

-----------------------------------------------------------------------------
(* Turns and the footer *)

Draws(t, what) == [t EXCEPT !.shown = IF t.ctx THEN what ELSE @]

BeforeAgentStart ==
    /\ tps.active /\ tps.coll # None /\ turns < MaxTurns /\ turns' = turns + 1
    /\ tps' = IF tps.turn THEN [tps EXCEPT !.ctx = TRUE]
              ELSE [tps EXCEPT !.turn = TRUE, !.ctx = TRUE, !.stats = @ + 1, !.shown = "turn",
                               !.refresh = TRUE]
    /\ UNCHANGED <<call, collector, recovery, bridges, probes, micro>>

(* The footer is drawn by the scan's task once the queue gets to it; without
   a recovery that takes it, not. *)
AgentSettled ==
    /\ tps.turn
    /\ \E producers \in BOOLEAN :
         tps' = [tps EXCEPT !.turn = FALSE, !.latch = FALSE, !.refresh = @ /\ producers,
                            !.scan = FALSE, !.watch = @ \/ tps.dirs]
    /\ UNCHANGED <<call, collector, recovery, bridges, probes, micro, turns>>
SettledTask ==
    /\ Owns(tps.rec) /\ ~tps.turn
    /\ tps' = [tps EXCEPT !.shown = "settled", !.ctx = TRUE]
    /\ UNCHANGED <<call, collector, recovery, bridges, probes, micro, turns>>

(* scheduleStatusRefresh(): at most one redraw is queued. *)
ScheduleRefresh(t) ==
    IF t.latch \/ ~t.turn \/ ~t.ctx THEN tps' = t /\ UNCHANGED micro
    ELSE /\ tps' = [t EXCEPT !.latch = TRUE]
         /\ micro' = micro \cup {[gen |-> t.gen, stats |-> t.stats]}
Microtask(m) ==
    /\ m \in micro /\ micro' = micro \ {m}
    /\ LET t == [tps EXCEPT !.latch = FALSE] IN
       tps' = IF t.gen # m.gen \/ ~t.turn \/ t.stats # m.stats THEN t ELSE Draws(t, "turn")
    /\ UNCHANGED <<call, collector, recovery, bridges, probes, turns>>

(* refreshStatus(): each second; between turns as long as someone produces. *)
RefreshTick ==
    /\ tps.refresh /\ tps.ctx
    /\ IF tps.turn THEN ScheduleRefresh(tps)
       ELSE /\ \E producers \in BOOLEAN : tps' = IF producers THEN Draws(tps, "settled")
                                                 ELSE [tps EXCEPT !.refresh = FALSE]
            /\ UNCHANGED micro
    /\ UNCHANGED <<call, collector, recovery, bridges, probes, turns>>

(* The recovery's onChange. *)
RecoveryChange ==
    /\ Owns(tps.rec) /\ recovery[tps.rec] = "live"
    /\ IF tps.turn THEN ScheduleRefresh(tps)
       ELSE tps' = [tps EXCEPT !.shown = "settled"] /\ UNCHANGED micro
    /\ UNCHANGED <<call, collector, recovery, bridges, probes, turns>>

(* A completion event: the scan is put off, and the watchers are ensured; it
   reports a gap to the footer. *)
BridgeEvent(b) ==
    /\ b \in bridges
    /\ \/ tps' = [tps EXCEPT !.scan = TRUE, !.watch = @ \/ tps.dirs] /\ UNCHANGED micro
       \/ IF tps.turn THEN ScheduleRefresh(tps) ELSE tps' = Draws(tps, "settled") /\ UNCHANGED micro
    /\ UNCHANGED <<call, collector, recovery, bridges, probes, turns>>
WatcherEvent ==
    /\ tps.watch /\ tps' = [tps EXCEPT !.scan = TRUE]
    /\ UNCHANGED <<call, collector, recovery, bridges, probes, micro, turns>>
ScanTimer ==
    /\ tps.scan /\ tps' = [tps EXCEPT !.scan = FALSE]
    /\ UNCHANGED <<call, collector, recovery, bridges, probes, micro, turns>>

TpsNext ==
    \/ \E c \in Calls :
         \/ SessionStart(c) \/ StartCloses(c) \/ StartOvertaken(c) \/ StartSession(c)
         \/ RestoreOvertaken(c) \/ StartDone(c)
         \/ SessionShutdown(c) \/ ShutdownOvertaken(c) \/ ShutdownSession(c) \/ ShutdownEnds(c)
         \/ RecoveryGoesOn(c) \/ CollectorCloses(c) \/ BridgeEvent(c)
    \/ BeforeAgentStart \/ AgentSettled \/ SettledTask \/ RefreshTick \/ RecoveryChange
    \/ WatcherEvent \/ ScanTimer
    \/ \E m \in micro : Microtask(m)

TpsSpec == TpsInit /\ [][TpsNext]_tpsVars

-----------------------------------------------------------------------------
(* Properties *)

TpsTypeOK ==
    /\ tps \in [gen : 0..2 * Cardinality(Calls), active : BOOLEAN, rec : Calls \cup {None},
                coll : Calls \cup {None}, ctx : BOOLEAN, turn : BOOLEAN, stats : Nat,
                refresh : BOOLEAN, poll : BOOLEAN, dirs : BOOLEAN, watch : BOOLEAN, scan : BOOLEAN,
                bridge : Calls \cup {None}, probe : Calls \cup {None}, latch : BOOLEAN,
                shown : {"none", "turn", "settled"}]
    /\ \A c \in Calls : collector[c] \in {"none", "open", "closing", "closed"}
    /\ \A c \in Calls : recovery[c] \in {"none", "starting", "live", "stopping", "stopped"}
    /\ tps.rec # None => tps.rec = tps.coll
    /\ turns \in 0..MaxTurns

(* Once a session was shut down nothing of it is left: no timer, no watcher,
   no poll, no footer, no open collector, whatever came during its awaits. *)
NothingLeaks ==
    UnderWay = {} /\ ~tps.active =>
        /\ ~tps.refresh /\ ~tps.poll /\ ~tps.watch /\ ~tps.ctx /\ tps.shown = "none"
        /\ tps.coll = None /\ \A c \in Calls : collector[c] \in {"none", "closed"}

(* A collector is current, or it is closed, or a handler is about to: none
   keeps its writer lease for good. *)
CollectorsEnd ==
    \A k \in Calls : collector[k] = "open" =>
        tps.coll = k \/ \E c \in UnderWay : call[c].coll = k

(* At most one listener of each kind hears an event, and it is the one the
   extension can still take back. *)
OneListener == bridges \subseteq {tps.bridge} \ {None} /\ probes \subseteq {tps.probe} \ {None}

(* A session takes what it made with it: NothingLeaks, CollectorsEnd and
   OneListener. *)
SessionsEndClean == NothingLeaks /\ CollectorsEnd /\ OneListener
==============================================================================
