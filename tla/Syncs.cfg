\* The create flow, the reconcile pass and a list view or sync command.
SPECIFICATION Spec
CONSTANTS
  Resources = {r1}
  Machines = {m1}
  Requested = 2
  Grace = 1
  RequestKind = "acquire"
  KubernetesBridge = FALSE
  NoDeadline = NoDeadline
  Reconcilers = {rc}
  Listers = {list}
  Pollers = {}
  Operators = {}
  Recoverers = {}
  Answers <- Settling
  OperatorCommands = {}
  CommandAttempts = 2
  MaxTime = 1
  MaxCrashes = 0
INVARIANTS
  ReadStillHolds
  CompletedIsClean
PROPERTIES
  OnlyCreatorStepsBack
CHECK_DEADLOCK FALSE
