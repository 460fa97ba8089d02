\* A machine that an answer may leave out, against the claim that it is gone then.
SPECIFICATION Spec
CONSTANTS
  r1 = r1
  r2 = r2
  m1 = m1
  m2 = m2
  Returns = {r1, r2}
  Machines = {m1, m2}
  Gaps = {{}, {m2}}
  Asked <- Overlapping
  Pollers = {p}
  Watched = {r1}
  None = None
  Breakdowns <- Fails
  Overlooked = {m2}
  Commanded = {"CANCELLED"}
INVARIANTS MissingMeansGone
CHECK_DEADLOCK FALSE
