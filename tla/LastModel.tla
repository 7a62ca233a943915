----------------------------- MODULE LastModel ------------------------------
(***************************************************************************)
(* The last model and thinking level (last-model.ts): recorded by the      *)
(* handlers of pi's selection events, put back when a fresh session        *)
(* starts.  Sessions in several processes share the record.                *)
(*                                                                         *)
(* pi is external: it sets models and levels, clamps a level to the        *)
(* model's ceiling, takes the settings' level anew with each model, and    *)
(* runs the handlers of thinking_level_select as microtasks.               *)
(***************************************************************************)
EXTENDS Integers, Sequences, FiniteSets, FiniteSetsExt

CONSTANTS
    Windows,        \* processes, each with one session at a time
    LastModels,     \* models: 1..n
    Ceiling,        \* the highest level of each model
    Levels,         \* thinking levels: 1..n
    MaxSelections,  \* bound on the user's selections
    MaxSessions     \* bound on the sessions

ASSUME LastModelAssumption ==
    /\ LastModels \subseteq Nat \ {0} /\ Levels \subseteq Nat \ {0}
    /\ Ceiling \in [LastModels -> Levels] /\ MaxSelections \in Nat /\ MaxSessions \in Nat
    /\ \E top \in Levels : \A l \in Levels : l <= top

VARIABLES
    record,     \* last-model.json: a model (0: none recorded) and a level (0: none)
    settings,   \* pi's defaults: the pinned model (0: none) and the level
    session,    \* each process's session
    handler,    \* the selection handler that runs in each process
    selections, sessions,
    used,       \* ghost: what the handlers were told last
    overlapped  \* ghost: two handlers ran at once

lastVars == <<record, settings, session, handler, selections, sessions, used, overlapped>>

NoRecord == [model |-> 0, level |-> 0]
Off == [pc |-> "off", model |-> 0, level |-> 0, restoring |-> FALSE, saved |-> NoRecord,
        cli |-> 0, queue |-> <<>>, touched |-> FALSE]
NoHandler == [kind |-> "none", model |-> 0, level |-> 0, user |-> FALSE, stored |-> NoRecord]

LastInit ==
    /\ record = NoRecord
    /\ settings \in [model : LastModels \cup {0}, level : {Max(Levels)}]
    /\ session = [p \in Windows |-> Off] /\ handler = [p \in Windows |-> NoHandler]
    /\ selections = 0 /\ sessions = 0 /\ used = NoRecord /\ overlapped = FALSE

-----------------------------------------------------------------------------
(* pi *)

Clamp(m, l) == Min({l, Ceiling[m]})
LevelEvent(l, user) == [what |-> "level", level |-> l, user |-> user]
Drop == [what |-> "drop", level |-> 0, user |-> FALSE]

(* A level set is clamped, saved as the default, and announced if it moved. *)
WithLevel(s, l, user) ==
    LET c == Clamp(s.model, l) IN
    IF c = s.level THEN s
    ELSE [s EXCEPT !.level = c, !.queue = Append(@, LevelEvent(c, user))]
WithModel(s, m, user) == WithLevel([s EXCEPT !.model = m], settings.level, user)
SettingsOf(s, t) == IF s.level = t.level THEN settings ELSE [settings EXCEPT !.level = t.level]

Free(p) == handler[p].kind = "none"
Becomes(p, s) ==
    /\ session' = [session EXCEPT ![p] = s]
    /\ settings' = SettingsOf(session[p], s)

-----------------------------------------------------------------------------
(* session_start *)

(* Why a start leaves everything alone: not fresh, disabled, a model on the
   command line, a conversation; or nothing was remembered. *)
Saved == IF record.model # 0 THEN record ELSE IF settings.model # 0 THEN settings ELSE NoRecord
StartLast(p) ==
    /\ session[p].pc = "off" /\ Free(p) /\ sessions < MaxSessions /\ sessions' = sessions + 1
    /\ \E m \in LastModels, skips, thinking \in BOOLEAN :
         LET l == IF thinking THEN Max(Levels) ELSE settings.level
             s == [Off EXCEPT !.model = m, !.level = Clamp(m, l)] IN
         /\ session' = [session EXCEPT ![p] =
                IF skips \/ Saved = NoRecord THEN [s EXCEPT !.pc = "live", !.queue = <<Drop>>]
                ELSE [s EXCEPT !.pc = "model", !.saved = Saved,
                               !.cli = IF thinking THEN s.level ELSE 0]]
         /\ settings' = IF thinking THEN settings ELSE [settings EXCEPT !.level = s.level]
    /\ UNCHANGED <<record, handler, selections, used, overlapped>>

(* restoreSavedModel(): the saved model may be gone or without credentials. *)
SetSavedModel(p) ==
    LET s == session[p]
        raised == [s EXCEPT !.pc = "level", !.restoring = TRUE] IN
    /\ s.pc = "model" /\ Free(p)
    /\ IF s.model = s.saved.model THEN Becomes(p, [s EXCEPT !.pc = "level"])
       ELSE \/ Becomes(p, [s EXCEPT !.pc = "level", !.saved.model = 0])           \* gone
            \/ Becomes(p, [raised EXCEPT !.saved.model = 0])                      \* no credentials
            \/ Becomes(p, [raised EXCEPT !.pc = "end", !.saved = NoRecord])        \* setModel threw
            \/ Becomes(p, WithModel(raised, s.saved.model, FALSE))
    /\ UNCHANGED <<record, handler, selections, sessions, used, overlapped>>

(* mutant: the latch that tells the restore's own events is not raised. *)
SetSavedLevel_Unlatched(p) ==
    LET s == session[p]
        want == IF s.cli # 0 THEN s.cli ELSE s.saved.level
        t == [s EXCEPT !.pc = "end"] IN
    /\ s.pc = "level" /\ Free(p)
    /\ Becomes(p, IF want = 0 \/ want = s.level THEN t ELSE WithLevel(t, want, FALSE))
    /\ UNCHANGED <<record, handler, selections, sessions, used, overlapped>>
(* The level comes after the model: pi took the settings' level with it.  A
   level on the command line is put back instead of the saved one. *)
SetSavedLevel(p) ==
    LET s == session[p]
        want == IF s.cli # 0 THEN s.cli ELSE s.saved.level
        t == [s EXCEPT !.pc = "end"] IN
    /\ s.pc = "level" /\ Free(p)
    /\ Becomes(p, IF want = 0 \/ want = s.level THEN t
                  ELSE WithLevel([t EXCEPT !.restoring = TRUE], want, FALSE))
    /\ UNCHANGED <<record, handler, selections, sessions, used, overlapped>>
(* finally: the latch is dropped behind the events that are queued. *)
RestoreEnds(p) ==
    LET s == session[p] IN
    /\ s.pc = "end" /\ Free(p)
    /\ Becomes(p, [s EXCEPT !.pc = "live", !.queue = Append(@, Drop)])
    /\ UNCHANGED <<record, handler, selections, sessions, used, overlapped>>

EndLast(p) ==
    /\ session[p].pc = "live" /\ Free(p) /\ session[p].queue = <<>>
    /\ session' = [session EXCEPT ![p] = Off]
    /\ UNCHANGED <<record, settings, handler, selections, sessions, used, overlapped>>

-----------------------------------------------------------------------------
(* The selection handlers: a read and a write of the file with nothing of the
   same process between them, but with other processes' *)

Begin(p, h) ==
    /\ handler' = [handler EXCEPT ![p] = [h EXCEPT !.stored = record]]
    /\ overlapped' = (overlapped \/ \E q \in Windows \ {p} : ~Free(q))

(* The user switches models, at any time; model_select is handled in it. *)
UserModel(p, m) ==
    LET s == session[p] IN
    /\ s.pc # "off" /\ Free(p) /\ m # s.model
    /\ selections < MaxSelections /\ selections' = selections + 1
    /\ Becomes(p, WithModel([s EXCEPT !.touched = TRUE], m, TRUE))
    /\ IF s.restoring THEN UNCHANGED <<handler, used, overlapped>>
       ELSE /\ Begin(p, [NoHandler EXCEPT !.kind = "model", !.model = m, !.user = TRUE])
            /\ used' = [used EXCEPT !.model = m]
    /\ UNCHANGED <<record, sessions>>
UserLevel(p, l) ==
    LET s == session[p] IN
    /\ s.pc # "off" /\ Free(p) /\ l <= Ceiling[s.model] /\ l # s.level
    /\ selections < MaxSelections /\ selections' = selections + 1
    /\ Becomes(p, WithLevel([s EXCEPT !.touched = TRUE], l, TRUE))
    /\ UNCHANGED <<record, handler, sessions, used, overlapped>>

LastMicrotask(p) ==
    LET s == session[p]
        e == Head(s.queue)
        t == [s EXCEPT !.queue = Tail(@)] IN
    /\ Free(p) /\ s.queue # <<>>
    /\ session' = [session EXCEPT ![p] = IF e.what = "drop" THEN [t EXCEPT !.restoring = FALSE] ELSE t]
    /\ IF e.what = "drop" \/ s.restoring THEN UNCHANGED <<handler, used, overlapped>>
       ELSE /\ Begin(p, [NoHandler EXCEPT !.kind = "level", !.model = s.model, !.level = e.level,
                                          !.user = e.user])
            /\ used' = [model |-> IF used.model = 0 THEN s.model ELSE used.model,
                        level |-> e.level]
    /\ UNCHANGED <<record, settings, selections, sessions>>

(* What a handler writes: the field it was told, and the other one as read. *)
Written(h) ==
    IF h.kind = "model" THEN IF h.stored.model = h.model THEN record
                             ELSE [h.stored EXCEPT !.model = h.model]
    ELSE IF h.stored.model # 0 /\ h.stored.level = h.level THEN record
    ELSE [model |-> IF h.stored.model = 0 THEN h.model ELSE h.stored.model, level |-> h.level]
WriteLast(p) ==
    /\ ~Free(p) /\ record' = Written(handler[p])
    /\ handler' = [handler EXCEPT ![p] = NoHandler]
    /\ UNCHANGED <<settings, session, selections, sessions, used, overlapped>>

LastNext ==
    \E p \in Windows :
        \/ StartLast(p) \/ SetSavedModel(p) \/ SetSavedLevel(p) \/ RestoreEnds(p) \/ EndLast(p)
        \/ \E m \in LastModels : UserModel(p, m)
        \/ \E l \in Levels : UserLevel(p, l)
        \/ LastMicrotask(p) \/ WriteLast(p)

LastSpec == LastInit /\ [][LastNext]_lastVars

-----------------------------------------------------------------------------
(* Properties *)

LastTypeOK ==
    /\ record \in [model : LastModels \cup {0}, level : Levels \cup {0}]
    /\ settings \in [model : LastModels \cup {0}, level : Levels]
    /\ \A p \in Windows : session[p].pc # "off" => session[p].level <= Ceiling[session[p].model]

(* A restore never writes the record: no event of its own, nor a clamp it
   brought about, is taken for a choice of the user's. *)
OnlyTheUserIsRecorded ==
    [][record' # record => \E p \in Windows : handler[p].user /\ handler'[p] = NoHandler]_lastVars

(* Between handlers the record is what they were told last, the model and the
   level of whichever session, unless two of them ran at once. *)
LastUsedIsRecorded ==
    (\A p \in Windows : Free(p)) /\ ~overlapped => record = used

(* A restored session is on the model and on the level that were remembered,
   clamped; a level on the command line stays, over any model. *)
RestoredAsSaved ==
    \A p \in Windows : LET s == session[p] IN
        s.pc = "end" /\ ~s.touched /\ s.saved # NoRecord =>
            /\ s.saved.model # 0 => s.model = s.saved.model
            /\ s.cli # 0 => s.level = Clamp(s.model, s.cli)
            /\ s.cli = 0 /\ s.saved.level # 0 => s.level = Clamp(s.model, s.saved.level)

(* What is remembered is what the user chose, and it comes back as it was:
   LastUsedIsRecorded, RestoredAsSaved and OnlyTheUserIsRecorded. *)
LastModelIsTrue == [](LastUsedIsRecorded /\ RestoredAsSaved) /\ OnlyTheUserIsRecorded
==============================================================================
