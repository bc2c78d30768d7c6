--------------------------- MODULE MCResponseTap ---------------------------
(* An instance of ResponseTap: streams of up to two or three events of     *)
(* each protocol, answers in JSON and speech, and prices of every mode.    *)
EXTENDS ResponseTap

CONSTANTS credits, other, small, large, fine

Rates(input, output, hit, write) ==
  [unit |-> credits, speech |-> FALSE, mode |-> "tokens", input |-> input, output |-> output,
   hit |-> hit, write |-> write, characters |-> None, tiers |-> <<>>, images |-> <<>>]
Tokens == Rates(2, 3, 1, 4)
Tiered == [Rates(2, 3, None, 3) EXCEPT
             !.tiers = <<[above |-> 1, input |-> 4, output |-> 5, hit |-> 1]>>]
Free == [Rates(0, 0, None, None) EXCEPT !.mode = "free"]
Zero == Rates(0, 0, None, 0)
Foreign == [Tokens EXCEPT !.unit = other]
Spoken == [Free EXCEPT !.mode = "characters", !.speech = TRUE, !.characters = 3]
Rule(size, quality, charge) == [size |-> size, quality |-> quality, charge |-> charge]
Images(rules) == [Free EXCEPT !.mode = "image", !.images = rules]
RuleSets == {<<Rule(Wildcard, Wildcard, 1), Rule(small, Wildcard, 2)>>,
             <<Rule(small, Wildcard, 1), Rule(Wildcard, fine, 2)>>,
             <<Rule(small, fine, 3), Rule(small, Wildcard, 1), Rule(Wildcard, fine, 2)>>,
             <<Rule(small, fine, 1), Rule(small, fine, 2)>>}

Event(size, kind, usage, weight, count) ==
  [size |-> size, kind |-> kind, usage |-> usage, weight |-> weight, count |-> count]
Says(kind, weight) == Event(1, kind, None, weight, None)
Counts(size, kind, usage) == Event(size, kind, usage, 0, None)
Input(i) == [input |-> i, output |-> 0]
Both == [input |-> 2, output |-> 1, hit |-> 2, write |-> 1]

ChatEvents == {Says("chunk", 6), Says("error", 0), Counts(1, "chunk", Input(0)),
               Counts(2, "chunk", Both), Counts(3, "chunk", Input(1)), Says("blank", 0)}
ResponsesEvents == {Says("delta", 3), Counts(1, "progress", Input(1)),
                    Counts(2, "completed", Both), Counts(1, "failed", [total |-> 1])}
AnthropicEvents == {Counts(1, "start", Both), Says("content", 3), Says("error", 0),
                    Counts(2, "delta", [output |-> 2]), Counts(1, "delta", Input(1))}
Sequences(events, n) == UNION {[1 .. k -> events] : k \in 0 .. n}

Answer(endpoint, type, stream, body, price) ==
  [endpoint |-> endpoint, type |-> type, stream |-> stream, body |-> body, price |-> price,
   override |-> {"write"}, unreported |-> {}, excludes |-> None, encoding |-> "identity",
   bad |-> 100, status |-> 200, bytes |-> 5, limited |-> FALSE, n |-> None, size |-> small,
   quality |-> fine]

ChatStreams == {Answer("chat", "chat", TRUE, b, Tokens) : b \in Sequences(ChatEvents, 2)}
AnthropicStreams ==
  {Answer("anthropic", "chat", TRUE, b, Tokens) : b \in Sequences(AnthropicEvents, 2)}
Streams ==
  ChatStreams \cup AnthropicStreams
  \cup {Answer("responses", "chat", TRUE, b, Tokens) : b \in Sequences(ResponsesEvents, 2)}

LongStreams ==
  {Answer("anthropic", "chat", TRUE, b, Tiered) :
     b \in {b \in [1 .. 3 -> AnthropicEvents] : b[1].kind = "start"}}

JSON ==
  {Answer(x[1], x[2], FALSE, <<Event(size, kind, usage, 4, 2)>>, price) :
     x \in {<<"chat", "chat">>, <<"embeddings", "embedding">>, <<"images", "image-generation">>},
     size \in {2, 3}, kind \in {"ok", "error", "malformed"},
     usage \in {None, Both, [total |-> 2], [hit |-> 1, miss |-> 1]},
     price \in {None, Tokens, Free, Tiered}}

Pictures ==
  {[Answer("images", "image-generation", FALSE, <<Event(size, "ok", None, 0, count)>>, Images(rules))
      EXCEPT !.n = n, !.size = s] :
     size \in {2, 3}, count \in {0, 2}, rules \in RuleSets, n \in {None, 3, MaxImages + 1},
     s \in {small, large}}

Speeches ==
  {Answer(endpoint, "tts", stream, <<Event(2, kind, None, 0, count)>>, price) :
     endpoint \in {"minimax", "dashscope"}, stream \in BOOLEAN,
     kind \in {"ok", "refused", "throttled", "malformed"}, count \in {None, 0, 2},
     price \in {None, Spoken, [Free EXCEPT !.speech = TRUE]}}

Refused ==
  {Answer(x[1], x[2], FALSE, <<>>, price) :
     x \in {<<"chat", "chat">>, <<"minimax", "tts">>}, price \in {Zero, Foreign, Tokens, Spoken, Images(<<>>)}}
  \cup {[Answer("chat", "chat", FALSE, <<>>, None) EXCEPT !.limited = TRUE]}

(* The ways an answer is encoded, and the unit of it that is corrupted:    *)
(* the header, one of the second event or the checksum, or none.           *)
Encoded(answers, middle) ==
  {[a EXCEPT !.encoding = "gzip", !.bad = bad] : a \in answers, bad \in {1, middle, 100}}
  \cup {[a EXCEPT !.encoding = "other"] : a \in answers}
(* Providers that say otherwise than the protocol whether the input counts *)
(* the cache, and do not report what was not in it.                        *)
Otherwise(answers) == 
  {[a EXCEPT !.excludes = a.endpoint # "anthropic", !.unreported = {"miss"}] : a \in answers}
Failed(answers) == {[a EXCEPT !.status = status] : a \in answers, status \in {429, 500}}

AllAnswers ==
  Streams \cup LongStreams \cup JSON \cup Pictures \cup Speeches \cup Refused
  \cup Encoded({a \in Streams : Len(a.body) = 2 /\ a.endpoint = "responses"}, 4)
  \cup Encoded({a \in Speeches : ~a.stream /\ a.price = Spoken}, 3)
  \cup Otherwise({a \in JSON : a.price = Tokens} \cup {a \in AnthropicStreams : Len(a.body) = 2})
  \cup Failed({a \in JSON : a.price = Tokens})
=============================================================================
