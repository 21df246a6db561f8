\* The parser alone: every continuation of the starts of MCParser.
SPECIFICATION MCSpec
CONSTANTS
  Alphabet <- MCAlphabet
  Continuations <- MCContinuations
  MaxOctets = 40
  MaxWord = 2
  MaxHeaders = 2
  MaxMore = 6
INVARIANT TypeOK
INVARIANT HeadersBackDefined
INVARIANT GoodIffHeaderSection
INVARIANT RefusedIsHopeless
PROPERTY AcceptedIsFinal
CHECK_DEADLOCK FALSE
