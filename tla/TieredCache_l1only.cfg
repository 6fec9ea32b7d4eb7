SPECIFICATION FairSpec
CONSTANTS
  c1 = c1
  c2 = c2
  c3 = c3
  k1 = k1
  k2 = k2
  Callers = {c1, c2, c3}
  Keys = {k1}
  TTL = 2
  NegativeTTL = 1
  L1PromotionTTL = 2
  FetchTimeout = 0
  DefaultTimeout = 1
  HandlerTimeout = 0
  HasL2 = FALSE
  EnableL2Writes = TRUE
  MaxCalls = 3
  MaxTime = 4
  MaxUpsets = 1
  NoCaller = NoCaller
  NoEntry = NoEntry
  NoAnswer = NoAnswer
INVARIANT MonotonicAnswers
PROPERTY EveryCallReturns
