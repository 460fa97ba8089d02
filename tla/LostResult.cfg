\* The create flow and the reconcile pass, against the claim that no result is lost.
SPECIFICATION Spec
CONSTANTS
  Resources = {r1}
  Machines = {m1}
  Requested = 2
  Grace = 1
  RequestKind = "acquire"
  KubernetesBridge = FALSE
  NoDeadline = NoDeadline
  Reconcilers = {rc}
  Listers = {}
  Pollers = {}
  Operators = {}
  Recoverers = {}
  Answers <- EveryVerdict
  OperatorCommands = {}
  CommandAttempts = 2
  MaxTime = 1
  MaxCrashes = 0
INVARIANTS
  ResultSurvivesConflicts
CHECK_DEADLOCK FALSE
