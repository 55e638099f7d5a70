SPECIFICATION RetrySpec
CONSTANTS
  c1 = c1
  c2 = c2
  Resolvers = {w1, w2}
  Clients = {c1, c2}
  Ids = {c1, c2}
  NoId = NoId
  MaxRetry <- MCMaxRetry
  ConsumeSz = 2
  CacheCap = 1
  UexCap = 1
  ThruCap = 2
INVARIANTS HandledOnce OneResponse AnsweredOnce
PROPERTIES PromiseEnds
CHECK_DEADLOCK FALSE
