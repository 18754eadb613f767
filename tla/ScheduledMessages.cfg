\* Two scheduled messages would only repeat one; two cancel requests race.
SPECIFICATION FairSpec
CONSTANTS
  Message = {m1}
  Request = {q1, q2}
  Worker = {w1, w2}
  MaxFaults = 3
  MaxStalls = 1
  NoMessage = NoMessage
  NoWorker = NoWorker
INVARIANTS DeliveredOncePerStall SentIsRecorded InTimeCancelHolds
PROPERTIES PendingSettles
CHECK_DEADLOCK FALSE
