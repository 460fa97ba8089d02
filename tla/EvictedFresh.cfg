\* One pod, against the claim that an entry written since the LIST is not evicted.
SPECIFICATION LiveSpec
CONSTANTS
  Pods = {a}
  ResyncModes = {TRUE}
  MaxChanges = 3
  MaxErrors = 0
  None = None
PROPERTIES
  NewerIsKept
