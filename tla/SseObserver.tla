---------------------------- MODULE SseObserver ----------------------------
(***************************************************************************)
(* The side channel that reads, in the stream of a response, which model   *)
(* the upstream says it used (model-audit/observer.ts): the parser of      *)
(* server-sent events, fed with whatever pieces the network makes of the   *)
(* stream, and the tracker that picks one of the models declared.          *)
(*                                                                         *)
(* The stream is a sequence of tokens: "data:", the two line ends, and     *)
(* payloads that declare a model.  A token counts as one character.        *)
(***************************************************************************)
EXTENDS Naturals, Sequences, FiniteSets, SequencesExt

CONSTANTS
    Requests,       \* [api, known]: the API, and whether the request's model is known
    MaxEventChars,  \* MAX_SSE_EVENT_CHARS, in tokens
    MaxText,        \* bound: length of the stream
    MaxChunk        \* bound: length of a piece of it

LineEnds == {"cr", "lf"}
Declarations == {"same", "other", "final"}   \* "final" stands in a terminal event
Tokens == {"data:"} \cup LineEnds \cup Declarations

ASSUME ObserverAssumption ==
    /\ Requests \subseteq [api : {"completions", "responses"}, known : BOOLEAN]
    /\ MaxEventChars \in Nat /\ MaxText \in Nat /\ MaxChunk \in Nat \ {0}

VARIABLES
    request,    \* the request that is observed
    parser,     \* SseDataParser
    tracker,    \* createResponseModelTracker()
    stopped,    \* nothing is decoded any more
    text, told, \* ghost: the stream so far, and the payloads the parser surfaced
    over        \* the stream has ended

observerVars == <<request, parser, tracker, stopped, text, told, over>>

ObserverInit ==
    /\ request \in Requests
    /\ parser = [line |-> <<>>, chars |-> 0, data |-> <<>>, dataChars |-> 0,
                 overflow |-> FALSE, skip |-> FALSE, out |-> <<>>]
    /\ tracker = [first |-> "none", differs |-> "none", terminal |-> "none", concluded |-> FALSE]
    /\ stopped = FALSE /\ text = <<>> /\ told = <<>> /\ over = FALSE

-----------------------------------------------------------------------------
(* The parser *)

(* The event is surfaced, unless it has no data or was too long. *)
Dispatched(q) ==
    [q EXCEPT !.data = <<>>, !.dataChars = 0, !.overflow = FALSE,
              !.out = IF q.overflow \/ q.data = <<>> THEN @ ELSE Append(@, q.data)]

LineEnded(q) ==
    LET r == [q EXCEPT !.line = <<>>, !.chars = 0]
        isData == ~q.overflow /\ q.line # <<>> /\ Head(q.line) = "data:" IN
    IF q.chars = 0 THEN Dispatched(r)
    ELSE IF isData THEN [r EXCEPT !.data = Append(@, Tail(q.line)), !.dataChars = @ + Len(q.line)]
    ELSE r

PartAppended_ByLine(q, c) ==   \* mutant: the lines of an event are not added up
    LET r == [q EXCEPT !.chars = @ + 1] IN
    IF q.overflow THEN r
    ELSE IF Len(q.line) + 1 > MaxEventChars
    THEN [r EXCEPT !.overflow = TRUE, !.line = <<>>, !.data = <<>>, !.dataChars = 0]
    ELSE [r EXCEPT !.line = Append(@, c)]
(* appendLinePart(): an event past the cap is forgotten, up to its end. *)
PartAppended(q, c) ==
    LET r == [q EXCEPT !.chars = @ + 1] IN
    IF q.overflow THEN r
    ELSE IF q.dataChars + Len(q.line) + 1 > MaxEventChars
    THEN [r EXCEPT !.overflow = TRUE, !.line = <<>>, !.data = <<>>, !.dataChars = 0]
    ELSE [r EXCEPT !.line = Append(@, c)]

(* push(), a character at a time: a line feed after a carriage return is part
   of the same line end, though it may be the first of the next chunk. *)
Taken(q, c) ==
    LET r == [q EXCEPT !.skip = c = "cr"] IN
    IF c = "lf" /\ q.skip THEN r
    ELSE IF c \in LineEnds THEN LineEnded(r) ELSE PartAppended(r, c)
Pushed_Within(q, chunk) ==   \* mutant: in the same chunk only
    LET after[n \in 0..Len(chunk)] ==
            IF n = 0 THEN [q EXCEPT !.skip = FALSE] ELSE Taken(after[n - 1], chunk[n])
    IN after[Len(chunk)]
Pushed(q, chunk) ==
    LET after[n \in 0..Len(chunk)] == IF n = 0 THEN q ELSE Taken(after[n - 1], chunk[n])
    IN after[Len(chunk)]

(* end(): what has come of the last event counts. *)
Ended(q) == Dispatched(IF q.chars > 0 THEN LineEnded(q) ELSE q)

-----------------------------------------------------------------------------
(* The tracker *)

(* What a payload declares: nothing, unless it is one event in one piece. *)
Declared(data) ==
    IF Len(data) = 1 /\ Len(data[1]) = 1 /\ data[1][1] \in Declarations THEN data[1][1] ELSE "none"

Offered(t, data) ==
    LET model == Declared(data) IN
    IF t.concluded THEN t
    ELSE IF ~request.known THEN [t EXCEPT !.concluded = TRUE]
    ELSE IF model = "none" THEN t
    ELSE IF model = "final"
    THEN IF request.api = "completions" THEN t
         ELSE [t EXCEPT !.terminal = model, !.concluded = TRUE]
    ELSE [t EXCEPT !.first = IF @ = "none" THEN model ELSE @,
                   !.differs = IF @ = "none" /\ model # "same" THEN model ELSE @,
                   !.concluded = request.api = "completions" /\ model # "same"]

OfferedAll(t, payloads) ==
    LET after[n \in 0..Len(payloads)] == IF n = 0 THEN t ELSE Offered(after[n - 1], payloads[n])
    IN after[Len(payloads)]

Reported ==
    IF tracker.terminal # "none" THEN tracker.terminal
    ELSE IF tracker.differs # "none" THEN tracker.differs ELSE tracker.first

-----------------------------------------------------------------------------
(* The stream *)

(* feed(): what the parser surfaced is offered, until the tracker concludes. *)
Feed(q) ==
    /\ parser' = [q EXCEPT !.out = <<>>] /\ told' = told \o q.out
    /\ tracker' = OfferedAll(tracker, q.out)
    /\ stopped' = tracker'.concluded
ChunkArrives(chunk) ==
    /\ ~over /\ Len(text) + Len(chunk) <= MaxText /\ text' = text \o chunk
    /\ IF stopped THEN UNCHANGED <<parser, tracker, stopped, told>> ELSE Feed(Pushed(parser, chunk))
    /\ UNCHANGED <<request, over>>
StreamEnds ==
    /\ ~over /\ over' = TRUE
    /\ IF stopped THEN UNCHANGED <<parser, tracker, stopped, told>> ELSE Feed(Ended(parser))
    /\ UNCHANGED <<request, text>>

ObserverNext ==
    \/ \E n \in 1..MaxChunk : \E chunk \in [1..n -> Tokens] : ChunkArrives(chunk)
    \/ StreamEnds
ObserverSpec == ObserverInit /\ [][ObserverNext]_observerVars

-----------------------------------------------------------------------------
(* Reference: the events of a text, by its lines *)

(* The members of a sequence that a mask of the same length keeps. *)
Where(s, keep) ==
    LET upTo[n \in 0..Len(s)] == IF n = 0 THEN <<>>
                                 ELSE IF keep[n] THEN Append(upTo[n - 1], s[n]) ELSE upTo[n - 1]
    IN upTo[Len(s)]
Positions(keep) == Where([k \in DOMAIN keep |-> k], keep)

IsEnd(t, i) == t[i] = "cr" \/ (t[i] = "lf" /\ (i = 1 \/ t[i - 1] # "cr"))
EndsOf(t) == <<0>> \o Positions([i \in DOMAIN t |-> IsEnd(t, i)])
LineOf(t, i, j) ==
    LET s == SubSeq(t, i + 1, j - 1) IN Where(s, [k \in DOMAIN s |-> s[k] # "lf"])
(* The lines: a rest without a line end counts when the stream is over. *)
WholeLines(t) == LET e == EndsOf(t) IN [k \in 1..(Len(e) - 1) |-> LineOf(t, e[k], e[k + 1])]
RestOf(t) == LET e == EndsOf(t) IN LineOf(t, e[Len(e)], Len(t) + 1)
Lines == IF over /\ RestOf(text) # <<>> THEN Append(WholeLines(text), RestOf(text))
         ELSE WholeLines(text)

(* The events: what stands between blank lines, unless it has no data or is
   too long at one of its lines. *)
IsData(l) == l # <<>> /\ Head(l) = "data:"
SizeOf(block, n) ==
    LET sum[k \in 0..n] == IF k = 0 THEN 0
                           ELSE sum[k - 1] + IF IsData(block[k]) THEN Len(block[k]) ELSE 0
    IN sum[n]
TooLong(block) == \E k \in DOMAIN block : SizeOf(block, k - 1) + Len(block[k]) > MaxEventChars
DataOf(block) ==
    LET d == Where(block, [k \in DOMAIN block |-> IsData(block[k])])
    IN [k \in DOMAIN d |-> Tail(d[k])]
PayloadOf(block) == IF TooLong(block) THEN <<>> ELSE DataOf(block)
BlanksOf(lines) == <<0>> \o Positions([k \in DOMAIN lines |-> lines[k] = <<>>])
WholeBlocks(lines) ==
    LET b == BlanksOf(lines) IN [k \in 1..(Len(b) - 1) |-> SubSeq(lines, b[k] + 1, b[k + 1] - 1)]
LastBlock(lines) == LET b == BlanksOf(lines) IN SubSeq(lines, b[Len(b)] + 1, Len(lines))
EventsOf(blocks) ==
    LET p == [k \in DOMAIN blocks |-> PayloadOf(blocks[k])]
    IN Where(p, [k \in DOMAIN p |-> p[k] # <<>>])
Events == EventsOf(IF over THEN Append(WholeBlocks(Lines), LastBlock(Lines)) ELSE WholeBlocks(Lines))

-----------------------------------------------------------------------------
(* Properties *)

(* Memory is bounded, whatever the upstream sends. *)
ObserverTypeOK ==
    /\ parser.dataChars + Len(parser.line) <= MaxEventChars
    /\ Len(parser.line) <= parser.chars /\ parser.out = <<>>
    /\ tracker.concluded => stopped
    /\ Reported \in Declarations \cup {"none"}

(* The payloads surfaced are those of the stream's events, however the network
   cut it, each once and in order; after the conclusion, the first of them. *)
EventsAreWhole == IF stopped THEN IsPrefix(told, Events) ELSE told = Events

(* The model reported is the terminal one, or else the first that differs from
   the request, or else the first, among all that the stream declares: to stop
   reading early changes nothing. *)
AllOf(events) ==
    LET d == [k \in DOMAIN events |-> Declared(events[k])]
    IN Where(d, [k \in DOMAIN d |-> d[k] # "none" /\ ~(d[k] = "final" /\ request.api = "completions")])
EarlyOf(all) == Where(all, [k \in DOMAIN all |-> all[k] # "final"])
OthersOf(all) == Where(all, [k \in DOMAIN all |-> all[k] \notin {"final", "same"}])
ReportIsRight ==
    LET all == AllOf(Events) IN
    Reported = IF ~request.known THEN "none"
               ELSE IF Contains(all, "final") THEN "final"
               ELSE IF OthersOf(all) # <<>> THEN OthersOf(all)[1]
               ELSE IF EarlyOf(all) # <<>> THEN EarlyOf(all)[1] ELSE "none"

(* What is observed is what the stream declares: EventsAreWhole and
   ReportIsRight. *)
ObservedAsDeclared == EventsAreWhole /\ ReportIsRight
==============================================================================
