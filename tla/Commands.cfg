\* The create flow, every operator command, the recovery sweep and a crash.
SPECIFICATION Spec
CONSTANTS
  Resources = {r1}
  Machines = {m1, m2}
  Requested = 2
  Grace = 1
  RequestKind = "acquire"
  KubernetesBridge = TRUE
  NoDeadline = NoDeadline
  Reconcilers = {}
  Listers = {}
  Pollers = {}
  Operators = {op}
  Recoverers = {rec}
  Answers <- EveryVerdict
  OperatorCommands <- EveryCommand
  CommandAttempts = 2
  MaxTime = 1
  MaxCrashes = 1
SYMMETRY MachineSymmetry
INVARIANTS
  TypeOK
  CancelStands
  LaunchedRecorded
  ActiveHasDeadline
  CompletedIsClean
  AwaitingHasNoDeadline
PROPERTIES
  ContractKept
CHECK_DEADLOCK FALSE
