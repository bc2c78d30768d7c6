\* Anthropic: a message_delta that counts input, too.
SPECIFICATION Spec
CONSTANTS
  None = None
  CreditsUnit = credits
  credits = credits
  other = other
  Wildcard = Wildcard
  small = small
  large = large
  fine = fine
  MaxInt64 = 12
  MaxRate = 9
  PerMillion = 2
  Per10K = 4
  MaxImages = 3
  MaxEventSize = 2
  SampleLimit = 2
  Answers <- AnthropicStreams
INVARIANTS
  InputFromStart
CHECK_DEADLOCK FALSE
