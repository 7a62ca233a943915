-------------------------- MODULE EndpointCommands --------------------------
(***************************************************************************)
(* The commands /endpoint, /endpoint-setting and /llmgates-reload          *)
(* (endpoint.ts, endpoint-setting.ts, llmgates-reload.ts): one guard for   *)
(* all three; a wait for the agent; locked writes of the override files    *)
(* (model-overrides.ts); a refresh of the catalog; what the registry shows *)
(* then; the current model bound anew; and a verdict told to the user.     *)
(*                                                                         *)
(* The catalog's refresh is CompatProvider's: here it takes the override   *)
(* file into the registry, or fails.                                       *)
(***************************************************************************)
EXTENDS Naturals, Sequences, FiniteSets

CONSTANTS
    Gateways,   \* gateway instances, in display order: 1..n
    Published,  \* [Gateways -> set of model ids]: the models of each gateway
    Commands,   \* invocations of a command
    MaxUpsets   \* bound on what goes wrong or comes in between

ASSUME EndpointAssumption ==
    Gateways \subseteq Nat /\ DOMAIN Published = Gateways /\ MaxUpsets \in Nat

VARIABLES
    inFlight,   \* the guard
    overrides,  \* the override file of each gateway: an endpoint, none, or an unusable entry
    registry,   \* the endpoint of each model in pi's registry, or "gone"
    current,    \* the session's model: an object, with the endpoint it had
    cmd,        \* the commands
    upsets,     \* how much went wrong or came in between
    ended       \* the session was shut down

endpointVars == <<inFlight, overrides, registry, current, cmd, upsets, ended>>

EndpointChoices == {"chat", "auto"}
(* What the gateway itself says of a model, without an override. *)
Derived(o) == IF o = "chat" THEN "chat" ELSE "own"
Object(g, m) == [gateway |-> g, model |-> m, api |-> registry[g][m]]
NewCommand == [kind |-> "none", pc |-> "new", choice |-> "auto",
               targets |-> [g \in Gateways |-> {}], bound |-> [gateway |-> 0, model |-> 0],
               left |-> {}, at |-> 0, outcome |-> [g \in Gateways |-> "none"],
               verdict |-> "none", wrote |-> FALSE, seen |-> 0]

EndpointInit ==
    /\ inFlight = FALSE /\ ended = FALSE /\ upsets = 0
    /\ overrides = [g \in Gateways |-> [m \in Published[g] |-> "none"]]
    /\ registry = [g \in Gateways |-> [m \in Published[g] |-> "own"]]
    /\ \E g \in Gateways : \E m \in Published[g] : current = [gateway |-> g, model |-> m, api |-> "own"]
    /\ cmd = [c \in Commands |-> NewCommand]

-----------------------------------------------------------------------------
(* Helpers *)

Upset == upsets < MaxUpsets /\ upsets' = upsets + 1
Ends(c, verdict) ==
    /\ cmd' = [cmd EXCEPT ![c] = [NewCommand EXCEPT !.pc = "done", !.verdict = verdict]]
    /\ inFlight' = FALSE
Proceeds(c, r) == cmd' = [cmd EXCEPT ![c] = r] /\ UNCHANGED inFlight

First(s) == CHOOSE g \in s : \A h \in s : g <= h
(* The next group; groups are handled one after another. *)
NextGroup(r) ==
    IF r.left = {} THEN [r EXCEPT !.pc = "merge"]
    ELSE [r EXCEPT !.pc = "write", !.at = First(r.left), !.left = @ \ {First(@)}]
WithOutcome(r, outcome) == NextGroup([r EXCEPT !.outcome[r.at] = outcome])

-----------------------------------------------------------------------------
(* The start of a command *)

Invoke(c) ==
    /\ cmd[c].pc = "new"
    /\ \E k \in {"endpoint", "setting", "reload"} :
         IF inFlight
         THEN cmd' = [cmd EXCEPT ![c].pc = "done", ![c].verdict = "refused"] /\ UNCHANGED inFlight
         ELSE /\ inFlight' = TRUE
              /\ cmd' = [cmd EXCEPT ![c].kind = k, ![c].pc = IF k = "setting" THEN "pick" ELSE "idle", ![c].seen = upsets]
    /\ UNCHANGED <<overrides, registry, current, upsets, ended>>

(* The picker, and the dialog of endpoints after it; the user may cancel
   either, and the session's end does. *)
PickModels(c) ==
    /\ cmd[c].pc = "pick" /\ ~ended
    /\ \E t \in [Gateways -> SUBSET UNION {Published[g] : g \in Gateways}] :
         /\ \A g \in Gateways : t[g] \subseteq Published[g]
         /\ \E g \in Gateways : t[g] # {}
         /\ Proceeds(c, [cmd[c] EXCEPT !.pc = "select", !.targets = t])
    /\ UNCHANGED <<overrides, registry, current, upsets, ended>>
SelectEndpoint(c) ==
    /\ cmd[c].pc = "select" /\ ~ended
    /\ \E e \in EndpointChoices : Proceeds(c, [cmd[c] EXCEPT !.pc = "idle", !.choice = e])
    /\ UNCHANGED <<overrides, registry, current, upsets, ended>>
Cancelled_ByUser(c) == ~ended   \* mutant: the session's end does not close a dialog
Cancelled(c) == TRUE
CancelDialog(c) ==
    /\ cmd[c].pc \in {"pick", "select"} /\ Cancelled(c) /\ Ends(c, "cancelled")
    /\ UNCHANGED <<overrides, registry, current, upsets, ended>>
EndpointShutdown ==
    /\ ~ended /\ ended' = TRUE
    /\ UNCHANGED <<inFlight, overrides, registry, current, cmd, upsets>>

(* waitForIdleBounded() gives up after a while, and nothing was changed. *)
IdleTimesOut(c) ==
    /\ cmd[c].pc = "idle" /\ Upset /\ Ends(c, "failed")
    /\ UNCHANGED <<overrides, registry, current, ended>>

(* resolveTarget(): an id is that of one gateway's model, or none is taken. *)
Resolves(g, m, named) ==
    IF named THEN {h \in Gateways : m \in Published[h] /\ registry[h][m] # "gone"} = {g}
    ELSE current.gateway = g /\ current.model = m
Bound == [gateway |-> current.gateway, model |-> current.model]
SessionIdle(c) ==
    LET r == cmd[c] IN
    /\ r.pc = "idle"
    /\ CASE r.kind = "reload" ->
              Proceeds(c, [r EXCEPT !.pc = "refreshing", !.left = Gateways])
         [] r.kind = "setting" ->
              Proceeds(c, NextGroup([r EXCEPT !.left = {g \in Gateways : r.targets[g] # {}}, !.bound = Bound]))
         [] r.kind = "endpoint" ->
              \/ Ends(c, "failed")                           \* usage, no such model, several of it
              \/ \E g \in Gateways, named \in BOOLEAN, e \in EndpointChoices : \E m \in Published[g] :
                   /\ Resolves(g, m, named)
                   /\ Proceeds(c, NextGroup([r EXCEPT !.choice = e, !.targets[g] = {m}, !.left = {g},
                                                  !.bound = Bound]))
    /\ UNCHANGED <<overrides, registry, current, upsets, ended>>

-----------------------------------------------------------------------------
(* One group: a write, a refresh, a look at the registry, a new binding *)

Entry(choice) == IF choice = "chat" THEN "chat" ELSE "none"
(* writeModelOverrides(): an unusable entry of any target fails the batch. *)
BatchFails(file, ms) == \E m \in ms : file[m] = "unusable"
WriteGroup(c) ==
    LET r == cmd[c]
        g == r.at
        file == overrides[g]
        written == [m \in Published[g] |->
                      IF m \in r.targets[g] /\ file[m] # "unusable" THEN Entry(r.choice) ELSE file[m]]
        failed == IF r.kind = "endpoint" THEN Ends(c, "failed") ELSE Proceeds(c, WithOutcome(r, "failed")) IN
    /\ r.pc = "write"
    /\ \/ BatchFails(file, r.targets[g]) /\ failed /\ UNCHANGED <<overrides, upsets>>
       \/ Upset /\ failed /\ UNCHANGED overrides             \* no lock, or no space
       \/ /\ ~BatchFails(file, r.targets[g]) /\ Proceeds(c, [r EXCEPT !.pc = "refresh", !.wrote = TRUE])
          /\ overrides' = [overrides EXCEPT ![g] = written] /\ UNCHANGED upsets
    /\ UNCHANGED <<registry, current, ended>>

(* The registry shows a gateway's catalog mapped with the overrides; a model
   may be gone from it, or the catalog may not get there. *)
Mapped(g) == [registry EXCEPT ![g] = [m \in Published[g] |-> Derived(overrides[g][m])]]
Refreshed(g) == registry' = Mapped(g)
Gone(g) == \E m \in Published[g] : registry' = [Mapped(g) EXCEPT ![g][m] = "gone"]

RefreshGroup(c) ==
    LET r == cmd[c] IN
    /\ r.pc = "refresh"
    /\ \/ Refreshed(r.at) /\ Proceeds(c, [r EXCEPT !.pc = "verify"]) /\ UNCHANGED upsets
       \/ Upset /\ Gone(r.at) /\ Proceeds(c, [r EXCEPT !.pc = "verify"])
       \/ Upset /\ UNCHANGED registry /\ Proceeds(c, WithOutcome(r, "partial"))
    /\ UNCHANGED <<overrides, current, ended>>

(* The expected endpoint: with "auto" what the refresh itself answered. *)
Expected(r, m) == IF r.choice = "chat" THEN "chat" ELSE Derived(overrides[r.at][m])
NotActive(r) == {m \in r.targets[r.at] : registry[r.at][m] # Expected(r, m)}
VerifyGroup(c) ==
    LET r == cmd[c]
        mine == r.bound.gateway = r.at /\ r.bound.model \in r.targets[r.at] IN
    /\ r.pc = "verify"
    /\ \/ NotActive(r) # {} /\ Proceeds(c, WithOutcome(r, "partial")) /\ UNCHANGED <<current, upsets>>
       \/ NotActive(r) = {} /\ ~mine /\ Proceeds(c, WithOutcome(r, "ok")) /\ UNCHANGED <<current, upsets>>
       \/ /\ NotActive(r) = {} /\ mine
          /\ current' = Object(r.at, r.bound.model) /\ Proceeds(c, WithOutcome(r, "ok")) /\ UNCHANGED upsets
       \/ /\ NotActive(r) = {} /\ mine /\ Upset             \* pi refuses the model, or throws
          /\ Proceeds(c, WithOutcome(r, "partial")) /\ UNCHANGED current
    /\ UNCHANGED <<overrides, registry, ended>>

(* mergeOutcomes() *)
Verdict_AnyOk(r) ==   \* mutant: one group that worked makes it a success
    IF \E g \in Gateways : r.outcome[g] = "ok" THEN "ok" ELSE "failed"
Verdict(r) ==
    LET all == {r.outcome[g] : g \in Gateways} \ {"none"} IN
    IF all = {"failed"} THEN "failed" ELSE IF all = {"ok"} THEN "ok" ELSE "partial"
MergeOutcomes(c) ==
    /\ cmd[c].pc = "merge" /\ Ends(c, Verdict(cmd[c]))
    /\ UNCHANGED <<overrides, registry, current, upsets, ended>>

-----------------------------------------------------------------------------
(* /llmgates-reload: all gateways at once; the current model is read after *)

ReloadOne(c, g) ==
    LET r == cmd[c]
        with(o) == [r EXCEPT !.outcome[g] = o, !.left = @ \ {g},
                             !.pc = IF r.left = {g} THEN "rebind" ELSE @] IN
    /\ r.pc = "refreshing" /\ g \in r.left
    /\ \/ Refreshed(g) /\ Proceeds(c, with("ok")) /\ UNCHANGED upsets
       \/ Upset /\ Gone(g) /\ Proceeds(c, with("ok"))
       \/ Upset /\ UNCHANGED registry /\ \E o \in {"partial", "failed"} : Proceeds(c, with(o))
    /\ UNCHANGED <<overrides, current, ended>>
ReloadRebinds(c) ==
    LET r == cmd[c]
        mine == r.outcome[current.gateway] = "ok"
        there == registry[current.gateway][current.model] # "gone" IN
    /\ r.pc = "rebind"
    /\ \/ ~mine /\ Ends(c, Verdict(r)) /\ UNCHANGED <<current, upsets>>
       \/ /\ mine /\ there /\ current' = Object(current.gateway, current.model)
          /\ Ends(c, Verdict(r)) /\ UNCHANGED upsets
       \/ mine /\ ~there /\ Ends(c, "partial") /\ UNCHANGED <<current, upsets>>
       \/ mine /\ there /\ Upset /\ Ends(c, "partial") /\ UNCHANGED current
    /\ UNCHANGED <<overrides, registry, ended>>

-----------------------------------------------------------------------------
(* Meanwhile: the user selects another model, a catalog is refreshed in the
   background, a file is edited *)

UserSelects ==
    /\ Upset /\ \E g \in Gateways : \E m \in Published[g] :
                  registry[g][m] # "gone" /\ current' = Object(g, m) /\ current' # current
    /\ UNCHANGED <<inFlight, overrides, registry, cmd, ended>>
BackgroundRefresh(g) ==
    /\ Mapped(g) # registry /\ Refreshed(g)
    /\ UNCHANGED <<inFlight, overrides, current, cmd, upsets, ended>>
OverrideEdited(g) ==
    /\ Upset /\ \E m \in Published[g] : \E o \in {"none", "chat", "unusable"} \ {overrides[g][m]} :
                  overrides' = [overrides EXCEPT ![g][m] = o]
    /\ UNCHANGED <<inFlight, registry, current, cmd, ended>>

CommandGoesOn(c) ==
    \/ SessionIdle(c) \/ WriteGroup(c) \/ RefreshGroup(c) \/ VerifyGroup(c) \/ MergeOutcomes(c)
    \/ \E g \in Gateways : ReloadOne(c, g)
    \/ ReloadRebinds(c) \/ (ended /\ CancelDialog(c))
EndpointNext ==
    \/ \E c \in Commands :
         \/ Invoke(c) \/ PickModels(c) \/ SelectEndpoint(c) \/ (~ended /\ CancelDialog(c))
         \/ IdleTimesOut(c) \/ CommandGoesOn(c)
    \/ EndpointShutdown \/ UserSelects
    \/ \E g \in Gateways : BackgroundRefresh(g) \/ OverrideEdited(g)

EndpointSpec == EndpointInit /\ [][EndpointNext]_endpointVars
(* A command goes on by itself, but for a dialog; the session's end aborts
   the signal the dialogs listen to. *)
EndpointFairness == \A c \in Commands : WF_endpointVars(CommandGoesOn(c))

-----------------------------------------------------------------------------
(* Properties *)

EndpointTypeOK ==
    /\ inFlight \in BOOLEAN /\ upsets \in 0..MaxUpsets
    /\ \A g \in Gateways : \A m \in Published[g] :
         overrides[g][m] \in {"none", "chat", "unusable"} /\ registry[g][m] \in {"own", "chat", "gone"}

(* The guard is taken exactly while a command runs, and one runs at a time. *)
Running == {c \in Commands : cmd[c].pc \notin {"new", "done"}}
GuardIsExact == Cardinality(Running) = IF inFlight THEN 1 ELSE 0

(* What the user is told is so when it is told.  "ok": every entry is in its
   file and in the registry, and a current model among them has it, unless
   someone else came in between; "failed" and "cancelled": nothing of the
   command was written. *)
VerdictIsTrue ==
    [][\A c \in Commands : LET r == cmd[c] IN
        /\ r.pc = "merge" /\ cmd'[c].verdict = "ok" /\ upsets = r.seen =>
             \A g \in Gateways : \A m \in r.targets[g] :
                 /\ overrides[g][m] = Entry(r.choice) /\ registry[g][m] = Derived(overrides[g][m])
                 /\ current.gateway = g /\ current.model = m => current.api = registry[g][m]
        /\ r.pc # "done" /\ cmd'[c].verdict \in {"failed", "cancelled"} => ~r.wrote]_endpointVars

(* Once the session has ended the guard is given back: no dialog that nobody
   answers keeps it for the next session of the process. *)
GuardIsFreed == ended ~> ~inFlight

(* A batch is written as a whole or not at all. *)
BatchIsWhole ==
    [][\A c \in Commands : cmd[c].pc = "write" /\ cmd'[c].pc # "write" /\ overrides' # overrides =>
         \A m \in cmd[c].targets[cmd[c].at] : overrides'[cmd[c].at][m] = Entry(cmd[c].choice)]_endpointVars

(* One command at a time, written whole, and told as it is: GuardIsExact,
   VerdictIsTrue and BatchIsWhole. *)
CommandsAreExact == []GuardIsExact /\ VerdictIsTrue /\ BatchIsWhole
==============================================================================
