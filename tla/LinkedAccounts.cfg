\* Two requests race each other and a sweep; two connections and a message, or
\* a connection and two messages.
SPECIFICATION MCSpec
CONSTANTS
  Request = {q1, q2}
  Sweep = {s1}
  MaxConnects = 2
  MaxMessages = 2
  MaxTotal = 3
  MaxFaults = 1
INVARIANTS NothingSkipped SecretsMatchAccounts
PROPERTIES DropsNeedStaleWebhook WaitingIsPublished
CHECK_DEADLOCK FALSE
