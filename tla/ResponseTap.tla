---------------------------- MODULE ResponseTap ----------------------------
(***************************************************************************)
(* An upstream answer on its way to the client (copyResponse in internal/  *)
(* gateway/proxy.go), the tap that feeds a decoded copy of it to the usage *)
(* parser (response_tap.go), and what is recorded of the request and       *)
(* charged for it (proxy and recordRequest in proxy.go).                   *)
(*                                                                         *)
(* The copy loop writes each chunk to the tap and then to the client. For  *)
(* a content coding that it can decode, the tap is a pipe to a goroutine   *)
(* that decodes, and a write to it returns when the goroutine has read all *)
(* of the chunk. The pipe is unbuffered, so the loop depends on it.        *)
(***************************************************************************)
EXTENDS UsageParser

CONSTANTS
  Answers,       \* requests and what is answered to them
  SampleLimit    \* responseSampleLimit, in units

ASSUME SampleLimit \in Nat

(* A counter that is negative or not a number is read as 0 (number in      *)
(* usage.go). What is no stream is one JSON document; models of a speech   *)
(* protocol are exactly those of type tts (validate in config.go).         *)
ASSUME AnswersAssumption ==
  \A a \in Answers :
    /\ a.body \in Seq(Range(a.body)) /\ \A k \in DOMAIN a.body : IsEvent(a.body[k])
    /\ a.stream \in BOOLEAN /\ a.excludes \in BOOLEAN \cup {None}
    /\ ~a.stream => Len(a.body) <= 1 /\ \A k \in DOMAIN a.body : a.body[k].size > 0
    /\ a.bad \in Nat \ {0} /\ a.bytes \in Nat /\ a.n \in Nat \cup {None}
    /\ a.type = "tts" <=> IsTTSEndpoint(a.endpoint)
    /\ a.price # None => /\ a.price.images \in Seq(Range(a.price.images))
                         /\ \A rule \in Range(a.price.images) : rule.charge \in Int

VARIABLES
  r,        \* the request, its price and the answer to it
  pc,       \* how far the handler is
  copy,     \* of the wire: up to where the loop had read before the last read and
            \* after it, what the client was sent, and how the body ended
  decoder,  \* the goroutine: its state, what it has taken and what it has decoded
  parser,
  result,   \* what copyResponse returns
  entry     \* what is recorded

vars == <<r, pc, copy, decoder, parser, result, entry>>

Success(status) == status \in 200 .. 299
Decoded == r.encoding = "gzip"      \* gzip, x-gzip or deflate
Unsupported == r.encoding = "other"

(* An encoded body has a unit more than its text, the checksum; its first  *)
(* unit that cannot be decoded is r.bad, past its end when there is none.  *)
Total == Len(Wire(r.body)) + (IF Decoded THEN 1 ELSE 0)
Decodable(n) ==
  IF Unsupported THEN 0
  ELSE Min({n, Len(Wire(r.body))} \cup (IF Decoded THEN {r.bad - 1} ELSE {}))

NoResult == [obs |-> NoObservation, complete |-> FALSE, undecodable |-> FALSE, failed |-> FALSE]
NoEntry ==
  [source |-> "none", estimated |-> FALSE, unavailable |-> FALSE, tokens |-> NoTokens,
   characters |-> 0, images |-> 0, charge |-> 0, billing |-> "not_charged", healthy |-> TRUE]

(* A price was validated when it was stored, or is of an older version     *)
(* that let zero rates stand for free.                                     *)
Stored(price) == price = None \/ validateBilling(price) \/ ZeroRates(price)

Init ==
  /\ r \in {answer \in Answers : Stored(answer.price)}
  /\ pc = "arrived"
  /\ copy = [from |-> 0, to |-> 0, written |-> 0, ended |-> "no"]
  /\ decoder = [state |-> "none", taken |-> 0, decoded |-> 0]
  /\ parser = NewParser /\ result = NoResult /\ entry = NoEntry

----------------------------------------------------------------------------
(* Before the request is sent: the price of the model, and what the body   *)
(* must say for it.                                                        *)

Reject ==
  /\ pc = "arrived"
  /\ PriceRefused(r, r.price) \/ BillingRefused(r, r.price)
  /\ pc' = "rejected"
  /\ UNCHANGED <<r, copy, decoder, parser, result, entry>>

newDecodingTap ==
  /\ pc = "arrived"
  /\ ~PriceRefused(r, r.price) /\ ~BillingRefused(r, r.price)
  /\ pc' = "reading"
  /\ decoder' = [decoder EXCEPT !.state = IF Decoded THEN "decoding" ELSE "none"]
  /\ UNCHANGED <<r, copy, parser, result, entry>>

----------------------------------------------------------------------------
(* The copy loop. A read may return both a chunk and the end of the body.  *)

ReadBody(to, ended) ==
  /\ pc = "reading"
  /\ to > copy.to \/ ended # "no"
  /\ ended = "eof" => to = Total
  /\ copy' = [copy EXCEPT !.from = copy.to, !.to = to, !.ended = ended]
  /\ pc' = IF to > copy.to THEN "tapping" ELSE "closing"
  /\ UNCHANGED <<r, decoder, parser, result, entry>>

TapWrite ==
  /\ pc = "tapping" /\ ~Decoded
  /\ parser' = IF Unsupported THEN parser
               ELSE Write(r, parser, SubSeq(Wire(r.body), copy.from + 1, copy.to))
  /\ pc' = "writing"
  /\ UNCHANGED <<r, copy, decoder, result, entry>>

PipeWritten ==
  /\ pc = "tapping" /\ Decoded /\ decoder.taken = copy.to
  /\ pc' = "writing"
  /\ UNCHANGED <<r, copy, decoder, parser, result, entry>>

WriteClient(ok) ==
  /\ pc = "writing"
  /\ copy' = [copy EXCEPT !.written = IF ok THEN copy.to ELSE @,
                          !.ended = IF ok THEN @ ELSE "failed"]
  /\ pc' = IF copy'.ended = "no" THEN "reading" ELSE "closing"
  /\ UNCHANGED <<r, decoder, parser, result, entry>>

Close ==
  LET complete == copy.ended = "eof"
  IN /\ pc = "closing"
     /\ decoder.state \in {"none", "ended", "failed"}
     /\ result' = [obs |-> Finish(r, parser, complete), complete |-> complete,
                   undecodable |-> Unsupported \/ (complete /\ decoder.state = "failed"),
                   failed |-> ~complete]
     /\ pc' = "closed"
     /\ UNCHANGED <<r, copy, decoder, parser, entry>>

----------------------------------------------------------------------------
(* The goroutine. Decoded text comes out of it some time after the encoded *)
(* went in; all of it before an error is returned. The loop's end closes   *)
(* the pipe: a body cut short is an error too, an empty one is none. What  *)
(* comes after an error is read and thrown away.                           *)

Closed == pc = "closing"

Take(to) ==
  /\ decoder.state = "decoding" /\ pc = "tapping"
  /\ decoder.taken < to /\ to <= copy.to
  /\ decoder' = [decoder EXCEPT !.taken = to]
  /\ UNCHANGED <<r, pc, copy, parser, result, entry>>

Sink(to) ==
  /\ decoder.state = "decoding"
  /\ decoder.decoded < to /\ to <= Decodable(decoder.taken)
  /\ decoder' = [decoder EXCEPT !.decoded = to]
  /\ parser' = Write(r, parser, SubSeq(Wire(r.body), decoder.decoded + 1, to))
  /\ UNCHANGED <<r, pc, copy, result, entry>>

DecodeError ==
  \/ decoder.taken >= r.bad
  \/ Closed /\ decoder.taken \in 1 .. Total - 1

DecodeEnds ==
  /\ decoder.state = "decoding"
  /\ decoder.decoded = Decodable(decoder.taken)
  /\ DecodeError \/ decoder.taken = Total \/ Closed
  /\ decoder' = [decoder EXCEPT !.state = IF DecodeError THEN "draining" ELSE "drained"]
  /\ UNCHANGED <<r, pc, copy, parser, result, entry>>

(* A broken variant: nobody reads the pipe after an error. *)
DrainNothing ==
  /\ decoder.state \in {"draining", "drained"} /\ Closed
  /\ decoder' = [decoder EXCEPT !.state = IF @ = "draining" THEN "failed" ELSE "ended"]
  /\ UNCHANGED <<r, pc, copy, parser, result, entry>>

Drain ==
  /\ decoder.state \in {"draining", "drained"}
  /\ decoder.taken < copy.to \/ Closed
  /\ decoder' = [decoder EXCEPT !.taken = copy.to,
                                !.state = IF ~Closed THEN @
                                          ELSE IF @ = "draining" THEN "failed" ELSE "ended"]
  /\ UNCHANGED <<r, pc, copy, parser, result, entry>>

----------------------------------------------------------------------------
(* What is recorded.                                                       *)

NoUsage(source) == [NoEntry EXCEPT !.source = source]
Reported(tokens) == [NoEntry EXCEPT !.source = "reported", !.tokens = tokens]

EstimateTokens(bytes) == (bytes + 3) \div 4

Estimated(source, obs) ==
  [NoEntry EXCEPT
     !.source = source, !.estimated = TRUE,
     !.tokens = [(IF obs.tokens.request > 0 THEN obs.tokens
                  ELSE [NoTokens EXCEPT !.request = EstimateTokens(r.bytes)])
                 EXCEPT !.response = Max({obs.tokens.response, EstimatedOutputTokens(obs)})]]

resolveObservedUsage ==
  LET obs == result.obs
  IN IF obs.final /\ ~(Success(r.status) /\ result.undecodable) THEN Reported(obs.tokens)
     ELSE IF ~Success(r.status) THEN NoUsage("none")
     ELSE Estimated(IF result.undecodable THEN "undecodable"
                    ELSE IF result.complete /\ ~obs.errored THEN "missing" ELSE "interrupted", obs)

resolveTTSUsage ==
  LET obs == result.obs
  IN IF ~Success(r.status) \/ obs.errored THEN NoUsage("none")
     ELSE IF result.undecodable THEN NoUsage("undecodable")
     ELSE IF obs.final THEN [NoUsage("reported") EXCEPT !.characters = obs.characters]
     ELSE NoUsage(IF result.complete THEN "missing" ELSE "interrupted")

Speech == IsTTSEndpoint(r.endpoint)
Mode == IF r.price = None THEN "none" ELSE r.price.mode
BusinessError == Speech /\ result.obs.errored /\ ~result.failed
UpstreamHealthy == r.status # 429 /\ r.status < 500

ObservedUsage == IF Speech THEN resolveTTSUsage ELSE resolveObservedUsage

(* Embeddings have no output; some estimates are worth nothing.            *)
OfItsType(observed) ==
  LET t == observed.tokens
  IN IF r.type # "embedding" THEN observed
     ELSE [observed EXCEPT !.tokens = [t EXCEPT !.response = 0,
                                                !.request = IF @ = 0 THEN t.response ELSE @]]

Unavailable(observed) ==
  \/ r.type = "image-generation" /\ Mode = "tokens" /\ observed.estimated
  \/ r.endpoint = "responses" /\ observed.estimated
  \/ Speech /\ observed.source # "reported" /\ ~result.obs.errored

Metered(observed) ==
  IF Unavailable(observed) THEN [NoUsage(observed.source) EXCEPT !.unavailable = TRUE]
  ELSE observed

(* The images of the body, or those asked for when it was too long to be   *)
(* kept.                                                                   *)
OfImages(observed) ==
  LET counted == responseImageCount(r, parser)
      tooLong == /\ counted = 0 /\ ~result.failed /\ Success(r.status)
                 /\ parser.decoded > SampleLimit
      images == IF tooLong THEN Or(r.n, 1) ELSE counted
  IN [NoUsage(IF observed.source = "reported" THEN "reported" ELSE "none") EXCEPT
        !.images = images, !.estimated = tooLong, !.unavailable = observed.unavailable,
        !.charge = ImageCost(images, ImageUnit(r, r.price))]

ChargedByMode(e) ==
  LET estimated == IF e.estimated THEN "estimated" ELSE "charged"
  IN CASE Mode = "free" -> [e EXCEPT !.charge = 0, !.billing = "free"]
       [] Mode = "image" -> [e EXCEPT !.billing = IF e.images = 0 THEN "unavailable" ELSE estimated]
       [] OTHER ->
            IF e.unavailable THEN [e EXCEPT !.charge = 0, !.billing = "unavailable"]
            ELSE IF Mode = "characters"
            THEN [e EXCEPT !.charge = CharacterCost(r.price, e.characters), !.billing = "charged"]
            ELSE [e EXCEPT !.charge = TokenCost(r.price, e.tokens), !.billing = estimated]

(* A broken variant: a speech provider's refusal, which comes with status 200, is charged. *)
recordRefusals(e) ==
  IF ~Success(r.status) THEN [e EXCEPT !.charge = 0]
  ELSE IF r.price = None THEN [e EXCEPT !.billing = "unpriced"]
  ELSE ChargedByMode(e)

recordRequest(e) ==
  IF ~Success(r.status) \/ BusinessError THEN [e EXCEPT !.charge = 0]
  ELSE IF r.price = None THEN [e EXCEPT !.billing = "unpriced"]
  ELSE ChargedByMode(e)

Complete ==
  /\ pc = "closed"
  /\ \E observed \in {ObservedUsage} : \E metered \in {Metered(OfItsType(observed))} :
     \E e \in {IF Mode = "image" THEN OfImages(metered)
              ELSE [metered EXCEPT !.images = responseImageCount(r, parser)]} :
       entry' = [recordRequest(e) EXCEPT
                   !.healthy = UpstreamHealthy /\ (Speech => ~TTSRetryableFailure(result.obs))]
  /\ pc' = "recorded"
  /\ UNCHANGED <<r, copy, decoder, parser, result>>

----------------------------------------------------------------------------
CopyStep ==
  \/ \E to \in copy.to .. Total, ended \in {"no", "eof", "failed"} : ReadBody(to, ended)
  \/ \E ok \in BOOLEAN : WriteClient(ok)
HandlerStep == Reject \/ newDecodingTap \/ TapWrite \/ PipeWritten \/ Close \/ Complete
DecoderStep ==
  \/ \E to \in 1 .. Total : Take(to) \/ Sink(to)
  \/ DecodeEnds \/ Drain

Next == CopyStep \/ HandlerStep \/ DecoderStep

(* The handler and the goroutine go on as long as they can; upstream and   *)
(* the client need not.                                                    *)
Fairness == WF_vars(HandlerStep) /\ WF_vars(DecoderStep)

Spec == Init /\ [][Next]_vars /\ Fairness

----------------------------------------------------------------------------
(* A type invariant: the progress of the copy, the tap and the decoder.    *)
TypeOK ==
  /\ pc \in {"arrived", "rejected", "reading", "tapping", "writing", "closing", "closed", "recorded"}
  /\ copy.written <= copy.to /\ copy.from <= copy.to /\ copy.to <= Total
  /\ copy.ended \in {"no", "eof", "failed"}
  /\ decoder.decoded <= decoder.taken /\ decoder.taken <= copy.to
  /\ parser.decoded <= Len(Wire(r.body))
  /\ Len(parser.pending) <= MaxEventSize \/ Speech

(* What a response is observed to hold is what the part of it that was     *)
(* read and can be decoded holds: whatever the chunks, the lag of the      *)
(* decoder, the point where the body or the client ended and the size of   *)
(* its lines, and with all of it observed before the parser is asked.      *)
ObservedAsSent ==
  pc \in {"closed", "recorded"} /\ ~Speech =>
    result.obs = Reference(r, Decodable(copy.to), result.complete)

(* README.md:109: the usage of Chat Completions is that of the last chunk  *)
(* that has one.                                                           *)
LastUsageCounts ==
  pc \in {"closed", "recorded"} /\ r.stream /\ r.endpoint = "chat" =>
    result.obs.tokens = TokensOf(r, WithUsage(r, Whole(r, Decodable(copy.to))))

(* README.md:109: for Anthropic, input and cache are those of              *)
(* message_start; message_delta gives the output.                          *)
InputFromStart ==
  LET starts == {k \in WithUsage(r, Whole(r, Decodable(copy.to))) : r.body[k].kind = "start"}
  IN pc \in {"closed", "recorded"} /\ r.stream /\ r.endpoint = "anthropic" /\ starts # {} =>
       [result.obs.tokens EXCEPT !.response = 0] = [TokensOf(r, starts) EXCEPT !.response = 0]

(* Credits are charged for an answer that succeeded, as read in full or as *)
(* an estimate that says so; a price in tokens is charged as read exactly  *)
(* when the usage that the protocol calls final was read; what cannot be   *)
(* metered, is free or was refused costs nothing (docs/credits-api.md).    *)
ChargedAsRead ==
  LET final == Reference(r, Decodable(copy.to), result.complete).final /\ ~result.undecodable
  IN pc = "recorded" =>
       /\ entry.charge > 0 => Success(r.status) /\ entry.billing \in {"charged", "estimated"}
       /\ entry.billing = "charged" /\ Speech => result.complete /\ r.body[1].kind = "ok"
       /\ Mode = "tokens" /\ Success(r.status) => (entry.billing = "charged" <=> final)
       /\ entry.estimated => entry.source # "reported" \/ Mode = "image"

(* Every token of the input is charged once, at one rate of the stored     *)
(* price, however the counters of the cache overlap or exceed it.          *)
EveryTokenOnce ==
  pc = "recorded" /\ entry.billing \in {"charged", "estimated"} /\ Mode = "tokens" =>
    EachOnce(r.price, entry.tokens, entry.charge)

(* An image request is sent only if one of the rules that match it is the  *)
(* most specific, and that rule is its price; in whatever order they were  *)
(* stored (docs/credits-api.md:150).                                       *)
OneRulePrices ==
  Mode = "image" /\ pc \notin {"arrived", "rejected"} =>
    \E rule \in Range(r.price.images) :
      /\ Selects(rule, r.size, r.quality) /\ ImageUnit(r, r.price) = rule.charge
      /\ \A other \in Range(r.price.images) \ {rule} :
           Selects(other, r.size, r.quality) => Score(other) < Score(rule)

(* What is charged follows the one price that was stored for it.           *)
PricedAsStored == EveryTokenOnce /\ OneRulePrices

(* The tap never keeps a chunk from the client, and closing it returns,    *)
(* whatever the body decodes to.                                           *)
TapNeverBlocks ==
  /\ pc = "tapping" ~> pc = "writing"
  /\ pc = "closing" ~> pc = "recorded"
=============================================================================
