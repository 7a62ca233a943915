---------------------------- MODULE InputHistory ----------------------------
(***************************************************************************)
(* The input history (input-history.ts, input-history-store.ts): prompts   *)
(* go through a chain of writes in each process to the file of the scope   *)
(* in force, and come back into the editor when a session starts.  The     *)
(* commands change the settings, or delete the file, beside the chain.     *)
(*                                                                         *)
(* Every update of a file is atomic under its lock.  pi is external: the   *)
(* editor it shows is a stack of factories, of which the topmost counts.   *)
(***************************************************************************)
EXTENDS Naturals, Sequences, FiniteSets, SequencesExt

CONSTANTS
    Terminals,          \* pi processes with a TUI
    CwdOf,              \* the working directory of each
    EnvScope,           \* the scope the environment gives each: "cwd", "global" or "none"
    Texts,              \* prompts
    MaxHistory,         \* MAX_HISTORY_ENTRIES
    MaxSubmits,         \* bound on the prompts
    MaxCommands,        \* bound on the commands, and on sessions
    MaxHistoryFaults    \* bound on failures

ASSUME HistoryAssumption ==
    /\ EnvScope \in [Terminals -> {"cwd", "global", "none"}]
    /\ MaxHistory \in Nat \ {0} /\ {MaxSubmits, MaxCommands, MaxHistoryFaults} \subseteq Nat

VARIABLES
    config, \* config.json
    hfile,  \* the history files
    term,   \* the extension in each process
    count,  \* how many prompts, commands, sessions, failures
    log,    \* ghost: the prompts written to each file since it was last gone
    told    \* ghost: whether the user was ever told where a global history goes

historyVars == <<config, hfile, term, count, log, told>>

Scopes == {"cwd", "global"}
Paths == {"global"} \cup {CwdOf[t] : t \in Terminals}
Path(t, scope) == IF scope = "global" THEN "global" ELSE CwdOf[t]
NoFile == [readable |-> FALSE, entries |-> <<>>, shown |-> FALSE]
NoCommand == [what |-> "none", scope |-> "cwd"]
OffTerminal == [pc |-> "off", enabled |-> FALSE, scope |-> "cwd", hooked |-> FALSE,
                pending |-> FALSE, noticed |-> FALSE, chain |-> <<>>, writing |-> "no",
                command |-> NoCommand, editor |-> <<>>]

HistoryInit ==
    /\ config = [enabled |-> TRUE, scope |-> "cwd"]
    /\ hfile = [f \in Paths |-> NoFile] /\ term = [t \in Terminals |-> OffTerminal]
    /\ count = [submits |-> 0, commands |-> 0, faults |-> 0]
    /\ log = [f \in Paths |-> <<>>] /\ told = FALSE

-----------------------------------------------------------------------------
(* Helpers *)

ScopeFor(t) == IF EnvScope[t] = "none" THEN config.scope ELSE EnvScope[t]
Resolved(t, s) == [s EXCEPT !.enabled = config.enabled, !.scope = ScopeFor(t)]

(* mergeHistoryEntry(): the prompt moves to the head; at the head already, it
   changes nothing. *)
Newest(s) == SubSeq(s, 1, IF Len(s) < MaxHistory THEN Len(s) ELSE MaxHistory)
Without(s, x) ==
    LET upTo[n \in 0..Len(s)] == IF n = 0 THEN <<>>
                                 ELSE IF s[n] = x THEN upTo[n - 1] ELSE Append(upTo[n - 1], s[n])
    IN upTo[Len(s)]
Merged(entries, x) == Newest(<<x>> \o Without(entries, x))

Failed == count.faults < MaxHistoryFaults /\ count' = [count EXCEPT !.faults = @ + 1]

(* install(): a wrapper of ours is peeled off first.  When the factory makes
   no editor, pi's own is put back. *)
Peeled(editor) == IF editor # <<>> /\ Last(editor) = "ours" THEN Front(editor) ELSE editor
Notice(s) == s.scope = "global" /\ ~hfile["global"].shown /\ ~s.noticed
Installed(s) ==
    LET n == [s EXCEPT !.editor = Append(Peeled(@), "ours")] IN
    IF Notice(s) THEN [n EXCEPT !.noticed = TRUE, !.pending = TRUE] ELSE n
Told(s) == told \/ (s.enabled /\ Notice(s))

-----------------------------------------------------------------------------
(* The extension's life *)

LoadHistory(t) ==
    /\ term[t].pc = "off" /\ count.commands < MaxCommands
    /\ count' = [count EXCEPT !.commands = @ + 1]
    /\ LET s == Resolved(t, OffTerminal) IN
       term' = [term EXCEPT ![t] = [s EXCEPT !.pc = "loaded", !.hooked = s.enabled]]
    /\ UNCHANGED <<config, hfile, log, told>>

(* session_start reads the settings anew, once it is subscribed at all. *)
StartHistory(t) ==
    /\ term[t].pc = "loaded"
    /\ LET s == IF term[t].hooked THEN Resolved(t, term[t]) ELSE term[t]
           live == [s EXCEPT !.pc = "live"] IN
       \/ /\ term' = [term EXCEPT ![t] = IF s.hooked /\ s.enabled THEN Installed(live) ELSE live]
          /\ told' = IF s.hooked THEN Told(s) ELSE told
          /\ UNCHANGED count
       \/ /\ s.hooked /\ s.enabled /\ Failed        \* the factory throws after the notice
          /\ term' = [term EXCEPT ![t] = [Installed(live) EXCEPT !.editor = <<>>]]
          /\ told' = Told(s)
    /\ UNCHANGED <<config, hfile, log>>

(* session_shutdown waits for the chain as it is. *)
EndHistory(t) ==
    /\ term[t].pc = "live" /\ term[t].command = NoCommand
    /\ term' = [term EXCEPT ![t].pc = IF @ = "live" /\ term[t].hooked THEN "ending" ELSE "gone"]
    /\ UNCHANGED <<config, hfile, count, log, told>>
Ended_AtOnce(t) == TRUE   \* mutant: it does not wait
Ended(t) == term[t].chain = <<>>
HistoryEnded(t) ==
    /\ \/ term[t].pc = "gone"
       \/ term[t].pc = "ending" /\ Ended(t)
    /\ term' = [term EXCEPT ![t] = OffTerminal]
    /\ UNCHANGED <<config, hfile, count, log, told>>
HistoryKilled(t) ==
    /\ term[t].pc # "off" /\ Failed /\ term' = [term EXCEPT ![t] = OffTerminal]
    /\ UNCHANGED <<config, hfile, log, told>>

-----------------------------------------------------------------------------
(* Prompts *)

Submit(t, x) ==
    /\ term[t].pc = "live" /\ term[t].hooked /\ term[t].enabled
    /\ count.submits < MaxSubmits /\ count' = [count EXCEPT !.submits = @ + 1]
    /\ term' = [term EXCEPT ![t].chain = Append(@, [scope |-> term[t].scope, text |-> x])]
    /\ UNCHANGED <<config, hfile, log, told>>

(* The chain's next write; whether it records that the notice was shown is
   settled before it waits for the lock. *)
PersistBegins(t) ==
    LET s == term[t] IN
    /\ s.chain # <<>> /\ s.writing = "no"
    /\ term' = [term EXCEPT ![t].writing = IF s.pending /\ Head(s.chain).scope = "global"
                                           THEN "marking" ELSE "plain"]
    /\ UNCHANGED <<config, hfile, count, log, told>>
PersistEnds(t) ==
    LET s == term[t]
        w == Head(s.chain)
        p == Path(t, w.scope)
        f == hfile[p]
        shown == f.shown \/ s.writing = "marking"
        same == f.entries # <<>> /\ Head(f.entries) = w.text
        done == [s EXCEPT !.chain = Tail(@), !.writing = "no"] IN
    /\ s.writing # "no"
    /\ \/ /\ hfile' = IF same /\ shown = f.shown THEN hfile
                      ELSE [hfile EXCEPT ![p] = [readable |-> TRUE, shown |-> shown, entries |->
                                IF same THEN f.entries ELSE Merged(f.entries, w.text)]]
          /\ log' = [log EXCEPT ![p] = Append(@, w.text)]
          /\ term' = [term EXCEPT ![t] = IF s.writing = "marking" /\ hfile' # hfile
                                         THEN [done EXCEPT !.pending = FALSE] ELSE done]
          /\ UNCHANGED count
       \/ Failed /\ term' = [term EXCEPT ![t] = done] /\ UNCHANGED <<hfile, log>>
    /\ UNCHANGED <<config, told>>

-----------------------------------------------------------------------------
(* Commands; each waits for a lock *)

Command(t, c) ==
    /\ term[t].pc = "live" /\ term[t].command = NoCommand
    /\ c.what = "scope" => EnvScope[t] = "none"
    /\ count.commands < MaxCommands /\ count' = [count EXCEPT !.commands = @ + 1]
    /\ term' = [term EXCEPT ![t].command = IF c.what = "clear" THEN [c EXCEPT !.scope = term[t].scope]
                                           ELSE c]
    /\ UNCHANGED <<config, hfile, log, told>>

(* clear: rebuilds the editor's list from what is there then. *)
ClearEnds(t) ==
    LET s == term[t]
        p == Path(t, s.command.scope)
        done == [s EXCEPT !.command = NoCommand] IN
    /\ s.command.what = "clear"
    /\ \/ /\ hfile' = [hfile EXCEPT ![p] = NoFile] /\ log' = [log EXCEPT ![p] = <<>>]
          /\ \* the notice is looked up in the file that is gone by now
             LET gone == s.scope = "global" /\ p = "global" /\ s.enabled /\ ~s.noticed IN
             /\ term' = [term EXCEPT ![t] =
                    IF ~s.enabled THEN done
                    ELSE IF gone THEN [Installed(done) EXCEPT !.noticed = TRUE, !.pending = TRUE]
                    ELSE Installed(done)]
             /\ told' = IF gone THEN TRUE ELSE Told(s)
          /\ UNCHANGED count
       \/ Failed /\ term' = [term EXCEPT ![t] = done] /\ UNCHANGED <<hfile, log, told>>
    /\ UNCHANGED config

(* on, off, scope: config.json is written, and the settings are read again. *)
Rehooked(s) ==
    IF s.enabled THEN Installed([s EXCEPT !.hooked = TRUE])
    ELSE [s EXCEPT !.editor = Peeled(@)]
SettingEnds(t) ==
    LET c == term[t].command
        done == [term[t] EXCEPT !.command = NoCommand] IN
    /\ c.what \in {"on", "off", "scope"}
    /\ \/ /\ config' = IF c.what = "scope" THEN [config EXCEPT !.scope = c.scope]
                       ELSE [config EXCEPT !.enabled = c.what = "on"]
          /\ LET s == [done EXCEPT !.enabled = config'.enabled,
                                   !.scope = IF EnvScope[t] = "none" THEN config'.scope ELSE @] IN
             /\ term' = [term EXCEPT ![t] = Rehooked(s)]
             /\ told' = IF Rehooked(s).noticed /\ ~s.noticed THEN TRUE ELSE told
          /\ UNCHANGED count
       \/ Failed /\ term' = [term EXCEPT ![t] = done] /\ UNCHANGED <<config, told>>
    /\ UNCHANGED <<hfile, log>>

(* From outside: a file is damaged; another extension puts its editor on top. *)
FileDamaged(p) ==
    /\ hfile[p].readable /\ Failed
    /\ hfile' = [hfile EXCEPT ![p] = NoFile] /\ log' = [log EXCEPT ![p] = <<>>]
    /\ UNCHANGED <<config, term, told>>
OtherEditor(t) ==
    /\ term[t].pc = "live" /\ ~Contains(term[t].editor, "other")
    /\ term' = [term EXCEPT ![t].editor = Append(@, "other")]
    /\ UNCHANGED <<config, hfile, count, log, told>>

HistoryNext ==
    \/ \E t \in Terminals :
         \/ LoadHistory(t) \/ StartHistory(t) \/ EndHistory(t) \/ HistoryEnded(t) \/ HistoryKilled(t)
         \/ \E x \in Texts : Submit(t, x)
         \/ PersistBegins(t) \/ PersistEnds(t) \/ ClearEnds(t) \/ SettingEnds(t) \/ OtherEditor(t)
         \/ \E w \in {"clear", "on", "off", "scope"}, s \in Scopes :
              (w = "scope" \/ s = "cwd") /\ Command(t, [what |-> w, scope |-> s])
    \/ \E p \in Paths : FileDamaged(p)

HistorySpec == HistoryInit /\ [][HistoryNext]_historyVars

-----------------------------------------------------------------------------
(* Properties *)

HistoryTypeOK ==
    /\ \A p \in Paths : Len(hfile[p].entries) <= MaxHistory
    /\ \A t \in Terminals : term[t].pending => term[t].noticed
    /\ \A t \in Terminals : term[t].writing # "no" => term[t].chain # <<>>

(* A file holds the prompts that were written to it since it was last gone,
   by whichever process, each once, the last first; only the oldest may be
   missing, when it is full. *)
After(s, x, y) == \E i \in DOMAIN s : s[i] = x /\ \A j \in DOMAIN s : s[j] = y => j < i
HistoryIsByRecency ==
    \A p \in Paths :
        LET e == hfile[p].entries
            s == log[p] IN
        /\ \A k \in DOMAIN e : e[k] \in Range(s)
        /\ \A j, k \in DOMAIN e : j < k => After(s, e[j], e[k])
        /\ \A x \in Range(s) \ Range(e) :
              Len(e) = MaxHistory /\ \A k \in DOMAIN e : After(s, e[k], x)

(* Nothing is written to the history that all directories share before its
   place was disclosed, by this process or by one before. *)
DisclosedFirst ==
    \A t \in Terminals :
        (\E k \in DOMAIN term[t].chain : term[t].chain[k].scope = "global")
            => told

(* A session that ends waits for its prompts: none is dropped with it. *)
ShutdownFlushes ==
    [][\A t \in Terminals : term[t].pc \in {"ending", "gone"} /\ term'[t].pc = "off"
                            /\ count'.faults = count.faults => term[t].chain = <<>>]_historyVars

(* Our factory wraps no factory of ours directly, so no prompt is prefilled
   twice, and taking it off leaves what others put there. *)
OneLayer ==
    \A t \in Terminals : LET e == term[t].editor IN
        \A k \in 1..Len(e) - 1 : ~(e[k] = "ours" /\ e[k + 1] = "ours")

(* No prompt is kept where it was not announced, prefilled twice, or lost at a
   session's end: DisclosedFirst, OneLayer and ShutdownFlushes. *)
HistoryIsDisclosed == [](DisclosedFirst /\ OneLayer) /\ ShutdownFlushes

(* No prompt is lost, doubled, or kept where it was not announced:
   HistoryIsByRecency and HistoryIsDisclosed. *)
HistoryIsKept == []HistoryIsByRecency /\ HistoryIsDisclosed
==============================================================================
