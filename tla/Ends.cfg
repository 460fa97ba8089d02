\* A create flow that may crash, polled by a client.
SPECIFICATION LiveSpec
CONSTANTS
  Resources = {r1}
  Machines = {m1}
  Requested = 2
  Grace = 1
  RequestKind = "acquire"
  KubernetesBridge = FALSE
  NoDeadline = NoDeadline
  Reconcilers = {}
  Listers = {}
  Pollers = {poll}
  Operators = {}
  Recoverers = {}
  Answers <- Healing
  OperatorCommands = {}
  CommandAttempts = 2
  MaxTime = 2
  MaxCrashes = 1
PROPERTIES
  StartedRequestEnds
CHECK_DEADLOCK FALSE
