\* No fault, no second process: a call that meets a firing timer loses its own.
SPECIFICATION Spec
CONSTANTS
  Rule = {r1}
  Caller = {c1}
  Worker = {w1}
  MaxTimers = 2
  MaxFaults = 0
  MaxStalls = 1
  NoRule = NoRule
  NoWorker = NoWorker
INVARIANTS PendingTimerHasJob
CHECK_DEADLOCK FALSE
