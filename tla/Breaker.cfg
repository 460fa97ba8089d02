SPECIFICATION LiveSpec
CONSTANTS
  Callers = {c1, c2, c3}
  Threshold = 2
  ResetTimeout = 2
  HalfOpenTimeout = 1
  MaxAttempts = 1
  None = None
INVARIANTS TypeOK CircuitCanMove NoMissedTrip
PROPERTIES GuardedStaysOpen DeadServiceOpens 
