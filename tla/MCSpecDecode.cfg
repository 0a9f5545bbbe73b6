CONSTANTS
  Tokens = {a, b, eos}
  Eos = {eos}
  Astray = Astray
  MaxTokens = 3
  MaxDraft = 2
SPECIFICATION FairSpec
INVARIANTS
  PlainTextKept
  ModelInStep
  EosEndsText
  PhoneInStep
PROPERTIES
  Ends
CHECK_DEADLOCK FALSE
