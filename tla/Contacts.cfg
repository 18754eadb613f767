\* First messages of one sender with the same external id in two conversations;
\* two reviewers, a split, a sweep and one more message for two contacts; two
\* chains of two steps.
SPECIFICATION MCSpec
CONSTANTS
  e1 = e1  e2 = e2
  m1 = m1  m2 = m2
  c1 = c1  c2 = c2
  x1 = x1
  s1 = s1
  a1 = a1  a2 = a2
  r1 = r1  r2 = r2
  w1 = w1  w2 = w2
  Event = {e1, e2}
  Message = {m1, m2}
  Conversation = {c1, c2}
  ExternalId = {x1}
  Sender = {s1}
  Account = {a1, a2}
  Rule = {r1, r2}
  Worker = {w1, w2}
  MsgOf <- CollisionMsgOf
  AccountOf <- AccountOfEvents
  ReceivedAt <- CollisionReceivedAt
  ConvOf <- CollisionConvOf
  ExtOf <- CollisionExtOf
  SenderOf <- CollisionSenderOf
  ScoreOf <- CollisionScoreOf
  Matches <- CollisionMatches
  MaxAttempts = 2
  MaxStalls = 1
  NoWorker = NoWorker
  NoEvent = NoEvent
  NoRule = NoRule
  NoRow = NoRow
  Identity = {1, 2}
  Reviewer = {q1, q2}
  Filer = {f1}
  Matcher = {x1}
  MaxContacts = 3
  MaxSuggestions = 2
  MaxFiled = 1
  Run = {q1, q2}
  Tag = {t1, t2}
  Outside = NoRow  Webhook = NoEvent  Malformed = NoRule
  MaxSteps = 2
SYMMETRY Symmetry
INVARIANTS CompletedIsStored OneContactPerSender
  NobodyStranded MessagesFollowTheirSender ChainsTellTruth
PROPERTIES RejectionStands
CHECK_DEADLOCK FALSE
