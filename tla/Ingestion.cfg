\* Safety, refinement and liveness of the event consumer.
SPECIFICATION FairSpec
CONSTANTS
  e1 = e1  e2 = e2
  m1 = m1  m2 = m2
  c1 = c1  c2 = c2
  x1 = x1
  s1 = s1
  a1 = a1  a2 = a2
  r1 = r1  r2 = r2
  w1 = w1  w2 = w2
  Event = {e1, e2}
  Message = {m1}
  Conversation = {c1}
  ExternalId = {x1}
  Sender = {s1}
  Account = {a1, a2}
  Rule = {r1, r2}
  Worker = {w1, w2}
  MsgOf <- RedeliveryMsgOf
  AccountOf <- AccountOfEvents
  ReceivedAt <- RedeliveryReceivedAt
  ConvOf <- RedeliveryConvOf
  ExtOf <- RedeliveryExtOf
  SenderOf <- RedeliverySenderOf
  ScoreOf <- RedeliveryScoreOf
  Matches <- RedeliveryMatches
  MaxAttempts = 2
  MaxStalls = 1
  NoWorker = NoWorker
  NoEvent = NoEvent
  NoRule = NoRule
  NoRow = NoRow
INVARIANT NeverDoubleFires
PROPERTIES ImplementsOnce EveryJobSettles
CHECK_DEADLOCK FALSE
