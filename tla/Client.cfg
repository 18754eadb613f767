\* One component at a time; two flushes, calls or tabs.
SPECIFICATION MCSpec
CONSTANTS
  Reply = {w1, w2}
  Flush = {q1, q2}
  MaxSent = 2
  Conversation = {w1, w2}
  Fetch = {q1, q2}
  NoConversation = NoSpace
  PageLimit = 2
  MaxMessages = 4
  MaxSelects = 2
  Thread = {1, 2, 3}
  Query = {q1, q2}
  ListLimit = 1
  MaxKey = 4
  MaxGen = 2
  MaxMoved = 1
  Tab = {u1, u2}
  Op = {q1, q2}
  Space = {s1, s2}
  Home = s1
  NoTab = NoTab
  NoSpace = NoSpace
  MaxTokens = 3
SYMMETRY Symmetry
INVARIANTS RepliesDelivered
  PaneIsWhole ListIsWhole CookieIsLive
CHECK_DEADLOCK FALSE
