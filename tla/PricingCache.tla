---------------------------- MODULE PricingCache ----------------------------
(***************************************************************************)
(* The cache of the models' prices (model-pricing-cache.ts): refreshes of  *)
(* several catalogs go through one chain in each process; a round reads    *)
(* pricing.json, downloads the public table unless all it lacks was        *)
(* confirmed absent of late, and writes the file, which no lock guards.    *)
(*                                                                         *)
(* The table is external: it gains entries and new values.  An item is a   *)
(* price or a context window of a model.                                   *)
(***************************************************************************)
EXTENDS Naturals, Sequences, FiniteSets, SequencesExt

CONSTANTS
    Sessions,                       \* pi processes with the same agent directory
    Models,                         \* keys of models
    Catalogs,                       \* the catalogs that are refreshed: sets of models
    Ttl,                            \* MODEL_PRICING_CACHE_TTL_MS
    Retry,                          \* PRICING_MISS_RETRY_MS
    MaxTime, MaxChanges, MaxFaults  \* bounds

ASSUME PricingAssumption ==
    Catalogs \subseteq (SUBSET Models) \ {{}} /\ {Ttl, Retry} \subseteq Nat \ {0}
    /\ {MaxTime, MaxChanges, MaxFaults} \subseteq Nat /\ Ttl <= MaxTime

VARIABLES
    price,  \* pricing.json: the values (0: none), the overrides, lastAutoSyncAt
    table,  \* the public table
    since,  \* since when the table has had an entry for the item
    mem,    \* the values each process estimates costs with
    misses, \* recentPricingMissProbes of each process: when, or 0
    chain,  \* the rounds of each process, the first one under way
    round,  \* how far it is
    clock, changes, faults,
    best    \* ghost: what the last round of a catalog brought, undisturbed

pricingVars == <<price, table, since, mem, misses, chain, round, clock, changes, faults, best>>

Items == {"rate", "context"} \X Models
ItemsOf(c) == {"rate", "context"} \X c
Nothing == [i \in Items |-> 0]
NoPrices == [at |-> 0, val |-> Nothing, over |-> {}]
NoRound == [pc |-> "none", now |-> 0, old |-> NoPrices, got |-> Nothing]

PricingInit ==
    /\ price = NoPrices /\ table \in [Items -> {0, 1}] /\ since = Nothing
    /\ mem = [p \in Sessions |-> Nothing] /\ misses = [p \in Sessions |-> Nothing]
    /\ chain = [p \in Sessions |-> <<>>] /\ round = [p \in Sessions |-> NoRound]
    /\ clock = Ttl /\ changes = 0 /\ faults = 0
    /\ best = [p \in Sessions |-> [c \in Catalogs |-> Nothing]]

-----------------------------------------------------------------------------
(* Helpers *)

Upset == faults < MaxFaults /\ faults' = faults + 1
Overridden(f, i) == i[1] = "rate" /\ i[2] \in f.over
Has(f, i) == Overridden(f, i) \/ f.val[i] > 0
Recent(t) == t > 0 /\ clock - t < Retry
Pruned(m) == [i \in Items |-> IF Recent(m[i]) THEN m[i] ELSE 0]

(* A fresh file with all of the catalog's items, but for those that the table
   was found to lack a short while ago. *)
Suffices(p, f, c) ==
    /\ clock - f.at < Ttl
    /\ \A i \in ItemsOf(c) : Has(f, i) \/ Recent(misses[p][i])

(* The round is over, and what it leaves is what costs are estimated with. *)
RoundEnds(p, f) ==
    /\ mem' = [mem EXCEPT ![p] = f.val]
    /\ chain' = [chain EXCEPT ![p] = Tail(@)] /\ round' = [round EXCEPT ![p] = NoRound]

(* What a round brought, if nobody wrote the file meanwhile. *)
Brought(p, f, c) ==
    [i \in Items |-> IF i \in ItemsOf(c) /\ price = round[p].old THEN f.val[i] ELSE 0]

-----------------------------------------------------------------------------
(* Refreshes *)

(* refreshModelPricing(): the file is read in any case; the same catalog joins
   the round it already has in the chain. *)
RefreshPricing(p, c) ==
    /\ mem' = [mem EXCEPT ![p] = price.val]
    /\ \/ UNCHANGED <<chain, faults>> /\ (Contains(chain[p], c) \/ mem' # mem)
       \/ Upset /\ UNCHANGED chain                       \* aborted, or updates are off
       \/ ~Contains(chain[p], c) /\ chain' = [chain EXCEPT ![p] = Append(@, c)] /\ UNCHANGED faults
    /\ UNCHANGED <<price, table, since, misses, round, clock, changes, best>>

RoundBegins(p) ==
    /\ chain[p] # <<>> /\ round[p].pc = "none"
    /\ misses' = [misses EXCEPT ![p] = Pruned(@)]
    /\ IF Suffices(p, price, Head(chain[p])) THEN RoundEnds(p, price)
       ELSE /\ round' = [round EXCEPT ![p] = [pc |-> "load", now |-> clock, old |-> price, got |-> Nothing]]
            /\ UNCHANGED <<mem, chain>>
    /\ UNCHANGED <<price, table, since, clock, changes, faults, best>>

TableServed(p) ==
    /\ round[p].pc = "load" /\ round' = [round EXCEPT ![p].pc = "write", ![p].got = table]
    /\ UNCHANGED <<price, table, since, mem, misses, chain, clock, changes, faults, best>>
(* The download fails, times out or is aborted. *)
LoadFails(p) ==
    /\ round[p].pc \in {"load", "write"} /\ Upset /\ RoundEnds(p, round[p].old)
    /\ best' = [best EXCEPT ![p][Head(chain[p])] = Nothing]
    /\ UNCHANGED <<price, table, since, misses, clock, changes>>

(* The whole catalog is looked up again; the rest stays as it was read. *)
Refreshed(r, c) ==
    [at |-> clock, over |-> r.old.over,
     val |-> [i \in Items |-> IF i \in ItemsOf(c) /\ ~Overridden(r.old, i) /\ r.got[i] > 0
                              THEN r.got[i] ELSE r.old.val[i]]]
Missed_AtEnd(p, r, f, c) ==   \* mutant: the time of the end of the round
    [i \in Items |-> IF i \notin ItemsOf(c) THEN misses[p][i] ELSE IF Has(f, i) THEN 0 ELSE clock]
Missed(p, r, f, c) ==
    [i \in Items |-> IF i \notin ItemsOf(c) THEN misses[p][i] ELSE IF Has(f, i) THEN 0 ELSE r.now]

(* What is missing is noted only once the file was written. *)
WriteFails(p) ==
    LET c == Head(chain[p])
        f == Refreshed(round[p], c) IN
    /\ round[p].pc = "write" /\ Upset /\ RoundEnds(p, f)
    /\ best' = [best EXCEPT ![p][c] = Brought(p, f, c)]
    /\ UNCHANGED <<price, table, since, misses, clock, changes>>
RoundWrites(p) ==
    LET c == Head(chain[p])
        f == Refreshed(round[p], c) IN
    /\ round[p].pc = "write" /\ RoundEnds(p, f) /\ price' = f
    /\ misses' = [misses EXCEPT ![p] = Missed(p, round[p], f, c)]
    /\ best' = [q \in Sessions |-> [d \in Catalogs |-> IF q # p \/ d # c THEN Nothing
                    ELSE [i \in Items |-> IF i \in ItemsOf(c) THEN f.val[i] ELSE 0]]]
    /\ UNCHANGED <<table, since, clock, changes, faults>>

-----------------------------------------------------------------------------
(* From outside *)

Ticks ==
    /\ clock < MaxTime /\ clock' = clock + 1
    /\ UNCHANGED <<price, table, since, mem, misses, chain, round, changes, faults, best>>
TableChanges(i) ==
    /\ changes < MaxChanges /\ changes' = changes + 1
    /\ table' = [table EXCEPT ![i] = @ + 1]
    /\ since' = IF table[i] = 0 THEN [since EXCEPT ![i] = clock] ELSE since
    /\ UNCHANGED <<price, mem, misses, chain, round, clock, faults, best>>
(* The user overrides a price in the file, or takes that back, or the file
   becomes unreadable. *)
FileEdited ==
    /\ Upset
    /\ \/ price' = NoPrices /\ price # NoPrices
       \/ \E m \in Models : price' = [price EXCEPT !.over = IF m \in @ THEN @ \ {m} ELSE @ \cup {m}]
    /\ best' = [q \in Sessions |-> [d \in Catalogs |-> Nothing]]
    /\ UNCHANGED <<table, since, mem, misses, chain, round, clock, changes>>

RoundGoesOn(p) == RoundBegins(p) \/ TableServed(p) \/ LoadFails(p) \/ RoundWrites(p) \/ WriteFails(p)
PricingNext ==
    \/ \E p \in Sessions : \/ \E c \in Catalogs : RefreshPricing(p, c)
                           \/ RoundGoesOn(p)
    \/ Ticks \/ FileEdited \/ \E i \in Items : TableChanges(i)

PricingSpec == PricingInit /\ [][PricingNext]_pricingVars

-----------------------------------------------------------------------------
(* Properties *)

PricingTypeOK ==
    /\ price.at \in 0..MaxTime /\ price.over \subseteq Models
    /\ \A p \in Sessions : /\ chain[p] = <<>> => round[p] = NoRound
                           /\ \A i \in Items : misses[p][i] \in 0..clock
                           /\ IsInjective(chain[p])

Skips(p) == chain[p] # <<>> /\ round[p].pc = "none" /\ chain'[p] # chain[p] /\ chain'[p] = Tail(chain[p])

(* A round that downloads nothing overlooks nothing: what the table has had
   for as long as a miss is believed is in the file, each item for itself. *)
SkipIsJustified ==
    [][\A p \in Sessions : Skips(p) =>
         \A i \in ItemsOf(Head(chain[p])) :
             table[i] > 0 /\ since[i] + Retry <= clock => Has(price, i)]_pricingVars

(* What a round brought is not replaced by something older in the next round
   of its catalog, though the file could not be written, unless that one
   fails, or the file was written by someone else in between. *)
NothingGoesBack ==
    [][\A p \in Sessions :
         chain'[p] # chain[p] /\ Len(chain'[p]) < Len(chain[p]) /\ faults' = faults =>
             \A i \in ItemsOf(Head(chain[p])) : mem'[p][i] >= best[p][Head(chain[p])][i]]_pricingVars

(* No round is skipped for nothing or undone by the next: SkipIsJustified and
   NothingGoesBack. *)
PricesAdvance == SkipIsJustified /\ NothingGoesBack
==============================================================================
