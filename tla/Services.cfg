\* One service at a time; two concurrent requests, callers, tasks or starts.
SPECIFICATION MCSpec
CONSTANTS
  User = {u1, u2}
  Workspace = {w1, w2}
  Request = {q1, q2}
  Token = {t1}
  NoUser = NoUser
  NoWorkspace = NoWorkspace
  NoToken = NoToken
  MaxSessions = 3
  MaxRows = 4
  Attempt = {q1, q2}
  MaxAttempts = 2
  MaxCount = 4
  MaxThrottleCrashes = 1
  Person = {u1, u2}
  Socket = {w1, w2}
  Process = {n1, n2}
  Remover = {r1}
  NoPerson = NoUser
  NoProcess = NoProcess
  Task = {q1, q2}
  Signup = 1
  MaxLedger = 4
  Start = {q1, q2}
  MaxClients = 2
  MaxSockets = 2
  Rule = {r1}
  Caller = {q1, q2}
  Worker = {w1, w2}
  MaxTimers = 3
  MaxFaults = 2
  MaxStalls = 1
  Editor = {q1, q2}
  Field = {w1, w2}
  MaxVersion = 4
  NoRule = NoRule
  NoWorker = NoWorker
SYMMETRY Symmetry
INVARIANTS ForkNeedsOverlap SessionsOfMembers OneResetPerToken
  CountersBounded RoomsOfMembers LedgerHolds GatewayListens StopSilences
  FiresOncePerTimer RetiredNeverFires
PROPERTIES DeadFamilyStaysDead OthersUntouched LoneCallRepairs NoLostEdit
CHECK_DEADLOCK FALSE
