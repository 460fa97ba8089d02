\* A create flow that may crash and a reconcile loop that keeps coming round.
\* With no grace period, no deadline falls past the clock's bound.
SPECIFICATION LiveSpec
CONSTANTS
  Resources = {r1}
  Machines = {m1}
  Requested = 2
  Grace = 0
  RequestKind = "acquire"
  KubernetesBridge = FALSE
  NoDeadline = NoDeadline
  Reconcilers = {rc}
  Listers = {}
  Pollers = {}
  Operators = {}
  Recoverers = {}
  Answers <- Healing
  OperatorCommands = {}
  CommandAttempts = 2
  MaxTime = 1
  MaxCrashes = 1
PROPERTIES
  EveryRequestEnds
CHECK_DEADLOCK FALSE
