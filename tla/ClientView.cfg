\* One tab, one request at a time, and nothing fails.
SPECIFICATION MCViewSpec
CONSTANTS
  Tab = {t1}
  Op = {o1}
  Space = {w1, w2}
  Home = w1
  NoTab = NoTab
  NoSpace = NoSpace
  MaxTokens = 3
INVARIANT ViewMatchesToken
CHECK_DEADLOCK FALSE
