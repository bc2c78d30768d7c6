---------------------------- MODULE UsageParser ----------------------------
(***************************************************************************)
(* What the gateway reads from a response it passes on (internal/usage):   *)
(* the counters of a usage object, the server-sent events of a stream in   *)
(* whatever chunks they arrive, the JSON body of an answer that is no      *)
(* stream and that of a speech provider.                                   *)
(*                                                                         *)
(* A response r has a body: a sequence of events, each with the size of    *)
(* its line, its kind, the usage object and the weight of the visible text *)
(* it carries (in tenths of an estimated token) and the number of its      *)
(* images or characters. On the wire, 0 is a newline and k one of the      *)
(* units of the k-th event's line. The bounds on the strings and on the    *)
(* metadata of a speech provider's body (ttsCollector.write) are left out. *)
(***************************************************************************)
EXTENDS Billing

CONSTANTS MaxEventSize   \* maxEventBytes, in units

ASSUME ParserAssumption == MaxEventSize \in Nat \ {0}

Counters == {"input", "output", "total", "hit", "miss", "write"}
IsEvent(e) ==
  /\ e # None /\ e.size \in Nat /\ e.weight \in Nat /\ e.count \in Nat \cup {None}
  /\ e.usage # None => \A c \in DOMAIN e.usage : e.usage[c] \in Nat

IsTTSEndpoint(endpoint) == endpoint \in {"minimax", "dashscope"}

Line(body, k) == [i \in 1 .. body[k].size |-> k]

(* Where each line ends; between two lines there is a newline.             *)
Ends(body) ==
  LET end[k \in 0 .. Len(body)] == IF k = 0 THEN -1 ELSE end[k - 1] + 1 + body[k].size
  IN end

Wire(body) ==
  LET end == Ends(body)
  IN [i \in 1 .. end[Len(body)] |->
        IF \E k \in DOMAIN body : i = end[k] + 1 THEN 0
        ELSE CHOOSE k \in DOMAIN body : i \in end[k - 1] + 2 .. end[k]]

----------------------------------------------------------------------------
(* Counters. An override adds the names a provider gives to counters or    *)
(* says that it does not report one, and whether the input counts what is  *)
(* read from and written to the cache.                                     *)

DefaultMapping(endpoint) ==
  CASE IsTTSEndpoint(endpoint) -> {}
    [] endpoint = "anthropic" -> {"input", "output", "hit", "write"}
    [] endpoint \in {"responses", "images"} -> {"input", "output", "total", "hit"}
    [] endpoint = "embeddings" -> {"input", "total"}
    [] OTHER -> {"input", "output", "total", "hit", "miss"}

Apply(r) == (DefaultMapping(r.endpoint) \cup r.override) \ r.unreported
InputExcludesCache(r) == Or(r.excludes, r.endpoint = "anthropic")

NoTokens == [request |-> 0, response |-> 0, hit |-> 0, miss |-> 0, write |-> 0]
nonZero(tokens) == tokens # NoTokens

\* The counters of a usage object, or None when it has none that is mapped.
extract(r, usage) ==
  LET present == IF usage = None THEN {} ELSE DOMAIN usage \cap Apply(r)
      count == [c \in Counters |-> IF c \in present THEN usage[c] ELSE 0]
      cached == count["hit"] + count["miss"]
      given == count["input"]
               + (IF InputExcludesCache(r) THEN count["hit"] + count["write"] ELSE 0)
      input == IF "input" \notin present /\ cached > 0 THEN cached ELSE given
      onlyTotal == "total" \in present /\ present \cap {"input", "output"} = {}
  IN IF present = {} THEN None
     ELSE [request |-> IF onlyTotal /\ r.endpoint = "embeddings" THEN count["total"] ELSE input,
           response |-> IF onlyTotal /\ r.endpoint # "embeddings" THEN count["total"]
                        ELSE count["output"],
           hit |-> count["hit"], miss |-> count["miss"], write |-> count["write"]]

----------------------------------------------------------------------------
(* The parser.                                                             *)

NoObservation ==
  [tokens |-> NoTokens, final |-> FALSE, errored |-> FALSE, weight |-> 0,
   characters |-> 0, code |-> "none"]

NewParser ==
  [pending |-> <<>>, dropping |-> FALSE, truncated |-> FALSE, decoded |-> 0,
   sawUsage |-> FALSE, sawNonZero |-> FALSE, obs |-> NoObservation]

EstimatedOutputTokens(obs) == (obs.weight + 9) \div 10

chatEvent(r, p, event) ==
  LET tokens == extract(r, event.usage)
      seen == IF tokens = None THEN p
              ELSE [p EXCEPT !.sawUsage = TRUE,
                             !.sawNonZero = @ \/ nonZero(tokens),
                             !.obs.tokens = IF nonZero(tokens) \/ ~p.sawNonZero THEN tokens ELSE @]
  IN [seen EXCEPT !.obs.errored = @ \/ event.kind = "error", !.obs.weight = @ + event.weight]

responsesEvent(r, p, event) ==
  LET tokens == extract(r, event.usage)
      seen == IF tokens = None THEN p
              ELSE [p EXCEPT !.obs.tokens = tokens,
                             !.obs.final = @ \/ event.kind \in {"completed", "incomplete", "failed"}]
  IN [seen EXCEPT !.obs.errored = @ \/ event.kind \in {"error", "failed"},
                  !.obs.weight = @ + (IF event.kind = "delta" THEN event.weight ELSE 0)]

anthropicEvent(r, p, event) ==
  LET tokens == extract(r, event.usage)
      old == p.obs.tokens
  IN CASE event.kind = "error" -> [p EXCEPT !.obs.errored = TRUE]
       [] event.kind = "start" /\ tokens # None -> [p EXCEPT !.obs.tokens = tokens]
       [] event.kind = "delta" /\ tokens # None ->
            [p EXCEPT !.obs.final = TRUE,
                      !.obs.tokens = IF tokens.request > 0 THEN tokens
                                     ELSE [old EXCEPT !.response = tokens.response]]
       [] event.kind = "content" -> [p EXCEPT !.obs.weight = @ + event.weight]
       [] OTHER -> p

(* A line that is one event; a part of one, or a blank line, says nothing. *)
ReadLine(r, p, line) ==
  LET k == CHOOSE k \in DOMAIN r.body : line = Line(r.body, k)
  IN IF line = <<>> \/ \A j \in DOMAIN r.body : line # Line(r.body, j) THEN p
     ELSE CASE r.endpoint = "responses" -> responsesEvent(r, p, r.body[k])
            [] r.endpoint = "anthropic" -> anthropicEvent(r, p, r.body[k])
            [] OTHER -> chatEvent(r, p, r.body[k])

(* A broken variant: a line is kept however long it is. *)
KeptWhole(p, text) == [p EXCEPT !.pending = @ \o text]

Kept(p, text) ==
  IF p.dropping THEN p
  ELSE IF Len(p.pending) + Len(text) > MaxEventSize
  THEN [p EXCEPT !.pending = <<>>, !.dropping = TRUE]
  ELSE [p EXCEPT !.pending = @ \o text]

ReadSegment(r, p, text, complete) ==
  CHOOSE next \in
    {IF ~complete THEN kept
     ELSE [(IF kept.dropping THEN kept ELSE ReadLine(r, kept, kept.pending))
           EXCEPT !.pending = <<>>, !.dropping = FALSE] : kept \in {Kept(p, text)}} : TRUE

(* The next turn of the loop: what is left of a chunk, which is from here  *)
(* on, up to its next newline or its end. (TLC evaluates an argument       *)
(* wherever it occurs, an element of a set once.)                          *)
NextNewline(data, from) == Min({i \in from .. Len(data) : data[i] = 0} \cup {Len(data) + 1})
ReadNext(r, data, turn) ==
  CHOOSE next \in
    {LET end == NextNewline(data, t.from)
     IN IF t.from > Len(data) THEN t
        ELSE [parser |-> ReadSegment(r, t.parser, SubSeq(data, t.from, end - 1), end <= Len(data)),
              from |-> end + 1] : t \in {turn}} : TRUE

Buffered(r, p, data) ==
  IF p.truncated THEN p
  ELSE IF Len(p.pending) + Len(data) > MaxEventSize /\ ~IsTTSEndpoint(r.endpoint)
  THEN [p EXCEPT !.truncated = TRUE]
  ELSE [p EXCEPT !.pending = @ \o data]

Parsed(r, p, data) ==
  IF r.stream /\ ~IsTTSEndpoint(r.endpoint)
  THEN FoldLeft(LAMBDA turn, unit : ReadNext(r, data, turn), [parser |-> p, from |-> 1], data).parser
  ELSE Buffered(r, p, data)

Write(r, p, data) ==
  CHOOSE next \in {Parsed(r, [p EXCEPT !.decoded = @ + Len(d)], d) : d \in {data}} : TRUE

(* The event a whole JSON body holds, or None when it is cut short.        *)
JSONBody(r, p) ==
  IF p.truncated \/ r.body = <<>> \/ p.pending # Line(r.body, 1) \/ r.body[1].kind = "malformed"
  THEN None ELSE r.body[1]

FinishTTS(r, p, complete) ==
  LET event == JSONBody(r, p)
      ok == event.kind = "ok" /\ event.count # None
  IN IF ~complete \/ event = None THEN NoObservation
     ELSE [NoObservation EXCEPT !.code = event.kind, !.errored = event.kind # "ok",
                                !.final = ok, !.characters = IF ok THEN event.count ELSE 0]

FinishJSON(r, p) ==
  LET event == JSONBody(r, p)
      tokens == extract(r, event.usage)
  IN IF event = None THEN NoObservation
     ELSE [NoObservation EXCEPT !.errored = event.kind = "error", !.final = tokens # None,
                                !.tokens = Or(tokens, NoTokens), !.weight = event.weight]

(* A broken variant: what follows the last newline is forgotten. *)
FinishStreamAtNewline(r, p, complete) ==
  IF r.endpoint \in {"responses", "anthropic"} THEN p.obs
  ELSE [p.obs EXCEPT !.final = p.sawNonZero \/ (p.sawUsage /\ complete)]

FinishStream(r, p, complete) ==
  LET last == IF p.dropping THEN p ELSE ReadLine(r, p, p.pending)
  IN IF r.endpoint \in {"responses", "anthropic"} THEN last.obs
     ELSE [last.obs EXCEPT !.final = last.sawNonZero \/ (last.sawUsage /\ complete)]

Finish(r, p, complete) ==
  IF IsTTSEndpoint(r.endpoint) THEN FinishTTS(r, p, complete /\ ~r.stream)
  ELSE IF r.stream THEN FinishStream(r, p, complete)
  ELSE FinishJSON(r, p)

TTSRetryableFailure(obs) == obs.code = "throttled"
responseImageCount(r, p) ==
  LET event == JSONBody(r, p)
  IN IF r.stream \/ IsTTSEndpoint(r.endpoint) \/ event = None THEN 0 ELSE Or(event.count, 0)

----------------------------------------------------------------------------
(* The observation by its definition: what the first n units of the wire   *)
(* hold, whatever the chunks they came in.                                 *)

Whole(r, n) ==
  {k \in DOMAIN r.body : r.body[k].size \in 1 .. MaxEventSize /\ Ends(r.body)[k] <= n}
WithUsage(r, events) == {k \in events : extract(r, r.body[k].usage) # None}
TokensOf(r, events) == IF events = {} THEN NoTokens ELSE extract(r, r.body[Max(events)].usage)
Text(r, events, kinds) ==
  FoldLeft(LAMBDA sum, k : IF k \in events /\ r.body[k].kind \in kinds
                           THEN sum + r.body[k].weight ELSE sum,
           0, [k \in DOMAIN r.body |-> k])
Kinds(r) == {r.body[k].kind : k \in DOMAIN r.body}
Has(r, events, kinds) == \E k \in events : r.body[k].kind \in kinds

ChatReference(r, events, complete) ==
  LET usages == WithUsage(r, events)
      counted == {k \in usages : nonZero(extract(r, r.body[k].usage))}
  IN [NoObservation EXCEPT
        !.tokens = TokensOf(r, counted),
        !.final = counted # {} \/ (usages # {} /\ complete),
        !.errored = Has(r, events, {"error"}),
        !.weight = Text(r, events, Kinds(r))]

ResponsesReference(r, events) ==
  LET usages == WithUsage(r, events)
  IN [NoObservation EXCEPT
        !.tokens = TokensOf(r, usages),
        !.final = Has(r, usages, {"completed", "incomplete", "failed"}),
        !.errored = Has(r, events, {"error", "failed"}),
        !.weight = Text(r, events, {"delta"})]

(* Output is cumulative and of the last event; input and cache are of the  *)
(* last event that counts any input.                                       *)
AnthropicReference(r, events) ==
  LET usages == {k \in WithUsage(r, events) : r.body[k].kind \in {"start", "delta"}}
      inputs == {k \in usages : \/ r.body[k].kind = "start"
                                \/ extract(r, r.body[k].usage).request > 0}
  IN [NoObservation EXCEPT
        !.tokens = [TokensOf(r, inputs) EXCEPT !.response = TokensOf(r, usages).response],
        !.final = Has(r, usages, {"delta"}),
        !.errored = Has(r, events, {"error"}),
        !.weight = Text(r, events, {"content"})]

JSONReference(r, events, all) ==
  IF ~all \/ 1 \notin events \/ r.body[1].kind = "malformed" THEN NoObservation
  ELSE [NoObservation EXCEPT
          !.tokens = TokensOf(r, WithUsage(r, {1})), !.final = WithUsage(r, {1}) # {},
          !.errored = r.body[1].kind = "error", !.weight = r.body[1].weight]

Reference(r, n, complete) ==
  LET events == Whole(r, n)
  IN CASE ~r.stream -> JSONReference(r, events, n = Len(Wire(r.body)))
       [] r.stream /\ r.endpoint = "responses" -> ResponsesReference(r, events)
       [] r.stream /\ r.endpoint = "anthropic" -> AnthropicReference(r, events)
       [] OTHER -> ChatReference(r, events, complete)
=============================================================================
