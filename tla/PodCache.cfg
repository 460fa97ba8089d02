\* One pod that comes and goes: session, relist after a gap, resync and reads.
SPECIFICATION LiveSpec
CONSTANTS
  Pods = {a}
  ResyncModes = {TRUE, FALSE}
  MaxChanges = 3
  MaxErrors = 1
  None = None
INVARIANTS
  TypeOK
  StreamIsExact
PROPERTIES
  EvictedIsOutdated
  CacheConverges
