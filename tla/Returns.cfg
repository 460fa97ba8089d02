\* Two commands name one machine; a status sync of one; any storage, any failure.
SPECIFICATION Spec
CONSTANTS
  r1 = r1
  r2 = r2
  m1 = m1
  m2 = m2
  Returns = {r1, r2}
  Machines = {m1, m2}
  Gaps = {{}, {m2}}
  Asked <- Overlapping
  Pollers = {p}
  Watched = {r1}
  None = None
  Breakdowns <- Fails
  Overlooked = {m2}
  Commanded = {"COMPLETED"}
INVARIANTS TypeOK ClaimsAreStored RefusedIsReleased
PROPERTIES SyncCompletesGone ClaimsReleasedByOwner SettledReturnStands CommittedAsPromised
CHECK_DEADLOCK FALSE
