\* Two pods, against the claim that a stale entry makes a read list the pods.
SPECIFICATION Spec
CONSTANTS
  Pods = {a, b}
  ResyncModes = {FALSE}
  MaxChanges = 3
  MaxErrors = 0
  None = None
INVARIANTS
  StaleFallsBack
