----------------------------- MODULE ModelAudit -----------------------------
(***************************************************************************)
(* The model audit (model-audit/runtime.ts, store.ts, command.ts): each    *)
(* instance of the extension finds out which root session and turn its     *)
(* requests belong to, through a marker in the process's environment, and  *)
(* appends each mismatch to the directory's history file, where counts     *)
(* outlive the truncated list of records.                                  *)
(*                                                                         *)
(* Instances share a process's environment; a child process gets a copy of *)
(* its parent's.  The file is shared by all processes, under a lock.       *)
(***************************************************************************)
EXTENDS Integers, Sequences, FiniteSets, FiniteSetsExt

CONSTANTS
    Insts,              \* instances of the extension
    Mains,              \* those that run a process's own session, not a hosted one
    Tuis,               \* those with a TUI
    Subagents,          \* those in the child process; its parent has the others
    Roots,              \* ids of root sessions
    Reqs,               \* requests
    MaxRecords,         \* MAX_MODEL_AUDIT_RECORDS
    MaxRoots,           \* MAX_MODEL_AUDIT_ROOTS
    MaxTurnsPerRoot,    \* MAX_MODEL_AUDIT_TURNS_PER_ROOT
    MaxAuditStarts,     \* bound on the sessions started
    MaxSeq,             \* bound on the turns of an owner
    MaxAuditFaults      \* bound on failing writes, kills, clears, edits from outside

ProcessOf(i) == IF i \in Subagents THEN "child" ELSE "parent"

(* A process has one session of its own, and only that may have a TUI. *)
ASSUME AuditAssumption ==
    /\ Mains \subseteq Insts /\ Tuis \subseteq Mains /\ Subagents \subseteq Insts
    /\ \A i, j \in Mains : ProcessOf(i) = ProcessOf(j) => i = j
    /\ IsFiniteSet(Reqs)
    /\ {MaxRecords, MaxRoots, MaxTurnsPerRoot} \subseteq Nat \ {0}
    /\ {MaxAuditStarts, MaxSeq, MaxAuditFaults} \subseteq Nat

VARIABLES
    marker,     \* LLMGATES_MODEL_AUDIT_ROOT in each process
    given,      \* its value when the process was started
    inst,       \* the instances
    req,        \* the requests
    writes,     \* pendingWrites: records on their way to the file
    history,    \* the history file
    starts,     \* how many sessions were started; an owner's token
    faults,     \* how many faults there were
    fate        \* ghost: where each mismatch went

auditVars == <<marker, given, inst, req, writes, history, starts, faults, fate>>

Process == {"parent", "child"}
In(p) == {i \in Insts : ProcessOf(i) = p}

NoMarker == [tok |-> 0, root |-> 0, seq |-> 0]
Garbage == [NoMarker EXCEPT !.tok = -1]
Valid(m) == m.tok > 0
NoRole == [kind |-> "none", m |-> NoMarker, written |-> NoMarker, before |-> NoMarker,
           turn |-> FALSE]
EmptyFile == [status |-> "ok", roots |-> {}, records |-> <<>>]

AuditInit ==
    /\ \E m \in {NoMarker, Garbage} : marker = [p \in Process |-> m]
    /\ given = marker
    /\ inst = [i \in Insts |-> [up |-> FALSE, active |-> FALSE, gen |-> 0, role |-> NoRole, flush |-> {}]]
    /\ req = [r \in Reqs |-> [pc |-> "new", inst |-> 0, gen |-> 0, m |-> NoMarker, at |-> 0]]
    /\ writes = {} /\ history = [EmptyFile EXCEPT !.status = "missing"]
    /\ starts = 0 /\ faults = 0 /\ fate = [r \in Reqs |-> "none"]

-----------------------------------------------------------------------------
(* The marker *)

(* Writes the marker only while the environment holds the owner's own. *)
Publish(env, role) == IF env = role.written THEN role.m ELSE env
Release(env, role) ==
    IF role.kind = "owner" /\ env = role.written THEN role.before ELSE env

(* An instance that hosts others starts first. *)
Hosted(i) == i \in Mains \/ \E j \in Mains \cap In(ProcessOf(i)) : inst[j].active

(* The role a session takes; a TUI's is always its own root. *)
RoleOf(i, enabled, env, new) ==
    IF ~enabled THEN NoRole
    ELSE IF i \in Tuis \/ ~Valid(env)
    THEN [kind |-> "owner", m |-> new, written |-> new, before |-> env, turn |-> FALSE]
    ELSE [NoRole EXCEPT !.kind = "follower", !.m = env]

(* What a start finds in the environment: what the instance itself left there
   is taken back first, for a start without a matching shutdown. *)
Found(i) == Release(marker[ProcessOf(i)], inst[i].role)
AuditStart(i) ==
    /\ Hosted(i) /\ inst[i].flush = {} /\ starts < MaxAuditStarts /\ starts' = starts + 1
    /\ \E enabled \in BOOLEAN, root \in Roots :
         LET role == RoleOf(i, enabled, Found(i), [tok |-> starts', root |-> root, seq |-> 0]) IN
         /\ inst' = [inst EXCEPT ![i] = [up |-> TRUE, active |-> enabled, gen |-> @.gen + 1,
                                         role |-> role, flush |-> {}]]
         /\ marker' = [marker EXCEPT ![ProcessOf(i)] = IF role.kind = "owner" THEN role.m
                                                       ELSE Found(i)]
    /\ UNCHANGED <<given, req, writes, history, faults, fate>>

BeforeTurn(i) ==
    LET role == inst[i].role
        next == [role EXCEPT !.m.seq = @ + 1, !.turn = TRUE]
        p == ProcessOf(i) IN
    /\ inst[i].active /\ role.kind = "owner" /\ ~role.turn /\ role.m.seq < MaxSeq
    /\ marker' = [marker EXCEPT ![p] = Publish(@, next)]
    /\ inst' = [inst EXCEPT ![i].role = [next EXCEPT !.written = IF marker[p] = @ THEN next.m ELSE @]]
    /\ UNCHANGED <<given, req, writes, history, starts, faults, fate>>
TurnSettled(i) ==
    /\ inst[i].role.kind = "owner" /\ inst[i].role.turn
    /\ inst' = [inst EXCEPT ![i].role.turn = FALSE]
    /\ UNCHANGED <<marker, given, req, writes, history, starts, faults, fate>>

Pending(i) == {w \in writes : req[w].inst = i}
(* The handler then waits for the writes it found pending, for a while. *)
AuditShutdown(i) ==
    /\ inst[i].up
    /\ inst' = [inst EXCEPT ![i] = [up |-> FALSE, active |-> FALSE, gen |-> @.gen + 1, role |-> NoRole,
                                    flush |-> Pending(i)]]
    /\ marker' = [marker EXCEPT ![ProcessOf(i)] = Release(@, inst[i].role)]
    /\ UNCHANGED <<given, req, writes, history, starts, faults, fate>>
FlushEnds(i) ==
    /\ inst[i].flush # {} /\ inst' = [inst EXCEPT ![i].flush = {}]
    /\ \/ inst[i].flush \cap writes = {} /\ UNCHANGED faults
       \/ inst[i].flush \cap writes # {} /\ faults < MaxAuditFaults /\ faults' = faults + 1   \* timed out
    /\ UNCHANGED <<marker, given, req, writes, history, starts, fate>>

(* The environment: the parent spawns the child with its own environment. *)
Spawn ==
    /\ \A i \in In("child") : inst[i].gen = 0
    /\ marker["child"] # marker["parent"]
    /\ marker' = [marker EXCEPT !["child"] = marker["parent"]]
    /\ given' = [given EXCEPT !["child"] = marker["parent"]]
    /\ UNCHANGED <<inst, req, writes, history, starts, faults, fate>>

-----------------------------------------------------------------------------
(* Requests *)

ObserveStream(i, r) ==
    /\ inst[i].active /\ req[r].pc = "new" /\ \A q \in Reqs : q < r => req[q].pc # "new"
    /\ req' = [req EXCEPT ![r] = [pc |-> "sent", inst |-> i, gen |-> inst[i].gen,
                                  m |-> inst[i].role.m, at |-> 0]]
    /\ UNCHANGED <<marker, given, inst, writes, history, starts, faults, fate>>

(* mutant: only whether the audit is active is looked at. *)
Current_ActiveOnly(r) == inst[req[r].inst].active
Current(r) == inst[req[r].inst].active /\ inst[req[r].inst].gen = req[r].gen
(* The answer came from another series of models: one from the same leaves
   nothing behind; one that comes after the session's end is not looked at. *)
Finalize(r) ==
    /\ req[r].pc = "sent"
    /\ req' = [req EXCEPT ![r].pc = "done", ![r].at = Cardinality({q \in Reqs : req[q].at > 0}) + 1]
    /\ IF Current(r) THEN writes' = writes \cup {r} /\ fate' = [fate EXCEPT ![r] = "pending"]
       ELSE UNCHANGED <<writes, fate>>
    /\ UNCHANGED <<marker, given, inst, history, starts, faults>>

-----------------------------------------------------------------------------
(* The history file; each update is one read-modify-write under the lock *)

(* A damaged file is renamed away; a newer one is never written. *)
Writable == history.status \in {"ok", "missing", "corrupt"}
Loaded == IF history.status = "ok" THEN history ELSE EmptyFile

TurnOf(m) == [tok |-> m.tok, seq |-> m.seq]
Trim(turns) == SubSeq(turns, Len(turns) - Min({Len(turns), MaxTurnsPerRoot}) + 1, Len(turns))
Bumped(turns, t) ==
    IF \E k \in DOMAIN turns : turns[k].of = t
    THEN [k \in DOMAIN turns |-> IF turns[k].of = t THEN [turns[k] EXCEPT !.n = @ + 1] ELSE turns[k]]
    ELSE Trim(Append(turns, [of |-> t, n |-> 1]))
(* roots: at most so many, the ones last updated; a record's time is that of
   its answer, not of its write. *)
Latest(roots) ==
    IF Cardinality(roots) <= MaxRoots THEN roots
    ELSE roots \ {CHOOSE e \in roots : \A o \in roots : e.at <= o.at}
RootFor(roots, m) ==
    IF \E e \in roots : e.root = m.root THEN CHOOSE e \in roots : e.root = m.root
    ELSE [root |-> m.root, all |-> 0, unattributed |-> 0, turns |-> <<>>, at |-> 0]
Updated(old, r) ==
    LET up == [old EXCEPT !.all = @ + 1, !.at = req[r].at] IN
    IF req[r].m.seq = 0 THEN [up EXCEPT !.unattributed = @ + 1]
    ELSE [up EXCEPT !.turns = Bumped(@, TurnOf(req[r].m))]
Counted(roots, r) ==
    LET old == RootFor(roots, req[r].m) IN Latest((roots \ {old}) \cup {Updated(old, r)})

Shown(file, r) == SubSeq(<<r>> \o file.records, 1, Min({Len(file.records) + 1, MaxRecords}))
Appended(file, r) ==
    [status |-> "ok", roots |-> Counted(file.roots, r), records |-> Shown(file, r)]

(* What was counted is gone with its root: trimmed, set aside or cleared. *)
Forgotten(f, roots) ==
    [r \in Reqs |-> IF f[r] = "counted" /\ ~\E e \in roots : e.root = req[r].m.root
                    THEN "cleared" ELSE f[r]]

AppendWrite(r) ==
    /\ r \in writes /\ writes' = writes \ {r}
    /\ \/ /\ Writable /\ history' = Appended(Loaded, r)
          /\ fate' = Forgotten([Forgotten(fate, Loaded.roots) EXCEPT ![r] = "counted"], history'.roots)
          /\ UNCHANGED faults
       \/ /\ ~Writable /\ fate' = [fate EXCEPT ![r] = "failed"] /\ UNCHANGED <<history, faults>>
       \/ /\ faults < MaxAuditFaults /\ faults' = faults + 1   \* no lock, or the write failed,
          /\ \E aside \in BOOLEAN :                            \* maybe after the rename
               /\ aside => history.status = "corrupt"
               /\ history' = IF aside THEN [history EXCEPT !.status = "missing"] ELSE history
          /\ fate' = [fate EXCEPT ![r] = "failed"]
    /\ UNCHANGED <<marker, given, inst, req, starts>>

(* /model-audit clear, by whoever. *)
ClearHistory ==
    /\ faults < MaxAuditFaults /\ faults' = faults + 1
    /\ history.status \in {"ok", "corrupt"}
    /\ history' = EmptyFile /\ fate' = Forgotten(fate, {})
    /\ UNCHANGED <<marker, given, inst, req, writes, starts>>

(* From outside: the file is damaged, or written by a newer version. *)
FileChanges ==
    /\ faults < MaxAuditFaults /\ faults' = faults + 1 /\ history.status = "ok"
    /\ \E s \in {"corrupt", "newer"} : history' = [EmptyFile EXCEPT !.status = s]
    /\ fate' = Forgotten(fate, {})
    /\ UNCHANGED <<marker, given, inst, req, writes, starts>>

(* A process ends, with what it had not written: print mode waits for no write
   past the flush. *)
Exit(p) ==
    /\ faults < MaxAuditFaults /\ faults' = faults + 1
    /\ \E i \in In(p) : inst[i].up \/ inst[i].flush # {}
    /\ LET lost == {w \in writes : req[w].inst \in In(p)} IN
       /\ writes' = writes \ lost
       /\ fate' = [r \in Reqs |-> IF r \in lost THEN "lost" ELSE fate[r]]
    /\ inst' = [i \in Insts |-> IF i \in In(p) THEN [inst[i] EXCEPT !.up = FALSE, !.active = FALSE, !.gen = @ + 1,
                                                     !.role = NoRole, !.flush = {}] ELSE inst[i]]
    /\ req' = [r \in Reqs |-> IF req[r].pc = "sent" /\ req[r].inst \in In(p)
                              THEN [req[r] EXCEPT !.pc = "done"] ELSE req[r]]
    /\ marker' = [marker EXCEPT ![p] = given[p]]
    /\ UNCHANGED <<given, history, starts>>

AuditNext ==
    \/ \E i \in Insts : \/ AuditStart(i) \/ BeforeTurn(i) \/ TurnSettled(i)
                        \/ AuditShutdown(i) \/ FlushEnds(i)
                        \/ \E r \in Reqs : ObserveStream(i, r)
    \/ \E r \in Reqs : Finalize(r) \/ AppendWrite(r)
    \/ Spawn \/ ClearHistory \/ FileChanges \/ \E p \in Process : Exit(p)

AuditSpec == AuditInit /\ [][AuditNext]_auditVars

-----------------------------------------------------------------------------
(* Properties *)

AuditTypeOK ==
    /\ \A i \in Insts : inst[i].active => inst[i].role.kind # "none"
    /\ history.status \in {"ok", "missing", "corrupt", "newer"}
    /\ Len(history.records) <= MaxRecords /\ Cardinality(history.roots) <= MaxRoots
    /\ \A e \in history.roots : Len(e.turns) <= MaxTurnsPerRoot
    /\ writes = {r \in Reqs : fate[r] = "pending"}

(* The environment of a process is its own session's: its marker with the
   turn under way, or, when it is over or follows another, what the process
   was given; however often it starts, with or without a shutdown between. *)
MarkerIsTheMains ==
    \A i \in Mains :
        marker[ProcessOf(i)] = IF inst[i].role.kind = "owner" THEN inst[i].role.m
                               ELSE given[ProcessOf(i)]

(* A root's total is the number of mismatches that were written for it since
   its counts were cleared, whatever the list of records still shows; each of
   its turns has no more than its own, and as long as no turn was trimmed they
   have all of them, so that turns and unattributed ones add up to the total. *)
InFile(root) == {r \in Reqs : fate[r] = "counted" /\ req[r].m.root = root}
OfTurn(root, t) == {r \in InFile(root) : req[r].m.seq # 0 /\ TurnOf(req[r].m) = t}
CountsOutliveRecords ==
    history.status = "ok" => \A e \in history.roots :
        LET all == InFile(e.root)
            whole == Len(e.turns) < MaxTurnsPerRoot IN
        /\ e.all = Cardinality(all)
        /\ e.unattributed = Cardinality({r \in all : req[r].m.seq = 0})
        /\ \A k \in DOMAIN e.turns :
              LET n == Cardinality(OfTurn(e.root, e.turns[k].of)) IN
              e.turns[k].n \in 1..n /\ (whole => e.turns[k].n = n)
        /\ whole => \A r \in all : req[r].m.seq # 0 =>
                       \E k \in DOMAIN e.turns : e.turns[k].of = TurnOf(req[r].m)
        /\ \A j, k \in DOMAIN e.turns : e.turns[j].of = e.turns[k].of => j = k

(* A mismatch is recorded only while the session that asked goes on, for the
   root that was current when it asked. *)
LateIsDropped ==
    [][\A r \in writes' \ writes :
         LET i == req[r].inst IN
         inst[i].role.m.tok = req[r].m.tok /\ req[r].m.seq <= inst[i].role.m.seq]_auditVars

(* A file of a newer version is left alone. *)
NewerIsKept == [][history.status = "newer" => history' = history]_auditVars

(* The marker, the history and the reports that come late: MarkerIsTheMains,
   CountsOutliveRecords, LateIsDropped and NewerIsKept. *)
AuditIsSound == [](MarkerIsTheMains /\ CountsOutliveRecords) /\ LateIsDropped /\ NewerIsKept
==============================================================================
