------------------------- MODULE RequestLifecycle -------------------------
(***************************************************************************)
(* One acquire request and everyone who writes its row: the create flow,   *)
(* the background reconcile pass, list and single-request status reads,    *)
(* sync commands, operator commands and the startup recovery sweep.        *)
(*                                                                         *)
(* Every writer reads the row in a unit of work, computes, and saves; the  *)
(* save is accepted only if the row still has the version that was read    *)
(* (versioned_save, PersistedRevision).  The version itself is abstracted  *)
(* to that question: loc[p].fresh holds from p's read until anyone else    *)
(* writes.  A save that is accepted therefore writes a value computed from *)
(* the current row, so `row' is the only copy the actions need.            *)
(*                                                                         *)
(* Every await, thread hop or unit-of-work boundary of the code is a step  *)
(* boundary here; providers are external and answer anything at any time.  *)
(***************************************************************************)
EXTENDS Fulfilment

CONSTANTS
  Reconcilers,      \* tasks of the background reconcile pass
  Listers,          \* list views and sync commands
  Pollers,          \* single-request status reads
  Operators,        \* cancel, complete and update-status commands
  Recoverers,       \* startups that run the recovery sweep
  Answers,          \* the verdicts the provider gives
  OperatorCommands, \* the commands operators give
  CommandAttempts,  \* concurrency_max_retries + 1
  MaxTime,          \* bound of the clock
  MaxCrashes        \* bound of crashes, timeouts and unexpected exceptions

Creator == "creator"
Syncers == Reconcilers \cup Listers \cup Pollers
Procs == Syncers \cup Operators \cup Recoverers \cup {Creator}

ASSUME ProcsDistinct == Creator \notin Syncers \cup Operators \cup Recoverers
ASSUME BoundsAssumption ==
  CommandAttempts \in Nat \ {0} /\ MaxTime \in Nat /\ MaxCrashes \in Nat
ASSUME AnswersAssumption == Answers \subseteq ProviderVerdicts
ASSUME CommandsAssumption == OperatorCommands \subseteq Commands
ASSUME AcquireAssumption == RequestKind = "acquire"

WriteAttempts == 2       \* _WRITE_ATTEMPTS and the other two-try loops
PollAttempts == 4        \* _MAX_RETRIES + 1 of the deadline sweep of a read

VARIABLES
  row,          \* the stored request
  clock,        \* wall clock
  loc,          \* per process: program counter and local variables
  mem,          \* the create flow's copy about to be written
  result,       \* what the dispatch brought back
  cancelled,    \* a cancel command has reported cancelled = True
  crashes       \* crashes so far

vars == <<row, clock, loc, mem, result, cancelled, crashes>>

NoEvent == [event |-> "VERDICT", state |-> "in_progress", final |-> TRUE, diag |-> TRUE]

Labels == {"idle",
           "create", "dispatch", "ckptRead", "ckptSave", "decide", "finalRead",
           "finalSave", "done", "lost", "dead",
           "discover", "popRead", "popSave", "fetch", "stampRead", "stampSave",
           "updRead", "updSave", "sweepRead", "sweepSave",
           "opRead", "opSave", "recSave"}

Local == [pc : Labels, tries : Nat, fresh : BOOLEAN, at : Nat, event : Events,
          found : SUBSET Machines]

Locals(pc, tries, fresh, at, event, found) ==
  [pc |-> pc, tries |-> tries, fresh |-> fresh, at |-> at, event |-> event, found |-> found]

\* At a label with no local variable in use, with an event, with discovered ids.
At(label) == Locals(label, 0, FALSE, 0, NoEvent, {})
AtWithEvent(label, e) == Locals(label, 0, FALSE, 0, e, {})
AtWithIds(label, ids) == Locals(label, 0, FALSE, 0, NoEvent, ids)

\* Type invariant.
TypeOK ==
  /\ row \in Request
  /\ clock \in Nat
  /\ loc \in [Procs -> Local]
  /\ mem \in Request
  /\ result \in Result
  /\ cancelled \in BOOLEAN
  /\ crashes \in Nat

Init ==
  /\ row = NewRequest
  /\ clock = 0
  /\ loc = [p \in Procs |-> IF p = Creator THEN At("create") ELSE At("idle")]
  /\ mem = NewRequest
  /\ result = FailedResult
  /\ cancelled = FALSE
  /\ crashes = 0

Stored == loc[Creator].pc # "create"

-----------------------------------------------------------------------------
(***************************************************************************)
(* The versioned store.                                                    *)
(***************************************************************************)
Step(p, l) == loc' = [loc EXCEPT ![p] = l]

\* To a label with the first attempt of what is done there ahead.
Moved(l, label) == Locals(label, 0, FALSE, l.at, l.event, l.found)

Stale(l) == Locals(l.pc, l.tries, FALSE, l.at, l.event, l.found)

Goto(p, label) == Step(p, Moved(loc[p], label))

\* The read of a read-compute-save unit; now is the time the computation uses.
Read(p, label, now) ==
  Step(p, Locals(label, loc[p].tries, TRUE, now, loc[p].event, loc[p].found))

\* An accepted save: everyone else's copy becomes stale.
Save(p, r, label) ==
  /\ loc[p].fresh
  /\ row' = r
  /\ loc' = [q \in Procs |-> IF q = p THEN Moved(loc[p], label) ELSE Stale(loc[q])]

\* ConcurrencyError: back to the read while attempts are left.
Conflict(p, retry, attempts, exhausted) ==
  /\ ~loc[p].fresh
  /\ IF loc[p].tries + 1 < attempts
     THEN Step(p, Locals(retry, loc[p].tries + 1, FALSE, loc[p].at, loc[p].event, loc[p].found))
     ELSE Step(p, exhausted)
  /\ UNCHANGED row

-----------------------------------------------------------------------------
(***************************************************************************)
(* The create flow (CreateMachineRequestHandler).                          *)
(***************************************************************************)
CreateRequest ==
  /\ loc[Creator].pc = "create"
  /\ Goto(Creator, "dispatch")
  /\ UNCHANGED <<row, clock, mem, result, cancelled, crashes>>

\* _handle_dry_run goes through update_status: no deadline is set.
DryRun ==
  /\ loc[Creator].pc = "dispatch"
  /\ mem' = Row("COMPLETED", {}, {}, 0, NoDeadline, FALSE, FALSE)
  /\ Goto(Creator, "finalRead")
  /\ UNCHANGED <<row, clock, result, cancelled, crashes>>

\* execute_provisioning.  The loop ends after its first dispatch whatever the
\* outcome is: a failure breaks it, and so do Accepted and Completed.
Dispatch(res) ==
  /\ loc[Creator].pc = "dispatch"
  /\ result' = res
  /\ IF res.resources # {}
     THEN /\ mem' = Checkpoint(res, clock)
          /\ Goto(Creator, "ckptRead")
     ELSE /\ UNCHANGED mem
          /\ Goto(Creator, "decide")
  /\ UNCHANGED <<row, clock, cancelled, crashes>>

CheckpointRead ==
  /\ loc[Creator].pc = "ckptRead"
  /\ Read(Creator, "ckptSave", 0)
  /\ UNCHANGED <<row, clock, mem, result, cancelled, crashes>>

\* Best effort: out of attempts, the flow continues with what it has in memory.
CheckpointSave ==
  /\ loc[Creator].pc = "ckptSave"
  /\ \/ Save(Creator, ApplyOntoStored(mem, row), "decide")
     \/ Conflict(Creator, "ckptRead", WriteAttempts, At("decide"))
  /\ UNCHANGED <<clock, mem, result, cancelled, crashes>>

\* A storage error during the checkpoint is logged and ignored.
CheckpointFails ==
  /\ loc[Creator].pc = "ckptRead"
  /\ Goto(Creator, "decide")
  /\ UNCHANGED <<row, clock, mem, result, cancelled, crashes>>

\* Past this step only the ids of the result are of interest.
Decide ==
  /\ loc[Creator].pc = "decide"
  /\ mem' = FromProvisioning(result, clock)
  /\ result' = [ok |-> FALSE, resources |-> result.resources, machines |-> result.machines,
                described |-> FALSE, final |-> TRUE, diag |-> TRUE]
  /\ Goto(Creator, "finalRead")
  /\ UNCHANGED <<row, clock, cancelled, crashes>>

FinalRead ==
  /\ loc[Creator].pc = "finalRead"
  /\ Read(Creator, "finalSave", 0)
  /\ UNCHANGED <<row, clock, mem, result, cancelled, crashes>>

\* _persist_and_publish: a second conflict is raised to the caller.
FinalSave ==
  /\ loc[Creator].pc = "finalSave"
  /\ \/ Save(Creator, ApplyOntoStored(mem, row), "done")
     \/ Conflict(Creator, "finalRead", WriteAttempts, At("lost"))
  /\ mem' = IF loc'[Creator].pc = "finalRead" THEN mem ELSE NewRequest
  /\ UNCHANGED <<clock, result, cancelled, crashes>>

-----------------------------------------------------------------------------
(***************************************************************************)
(* Status syncs.  A reconcile task, a list view and a single-request read  *)
(* share the sequence populate - fetch - stamp - update; they differ in    *)
(* what they check in between and in who sweeps the deadline when.         *)
(***************************************************************************)
SyncStart(p) ==
  /\ Stored
  /\ loc[p].pc = "idle"
  /\ row.status \notin Terminal
  /\ Goto(p, IF AwaitingResources(row) THEN "sweepRead"
             ELSE IF NeedsMachineIdPopulation(row) THEN "discover" ELSE "fetch")
  /\ UNCHANGED <<row, clock, mem, result, cancelled, crashes>>

\* A lightweight read makes no provider call and only sweeps the deadline.
LightweightRead(p) ==
  /\ Stored
  /\ loc[p].pc = "idle"
  /\ row.status \notin Terminal
  /\ Goto(p, "sweepRead")
  /\ UNCHANGED <<row, clock, mem, result, cancelled, crashes>>

\* SyncRequestHandler syncs whatever the request's status is.
SyncCommand(p) ==
  /\ Stored
  /\ loc[p].pc = "idle"
  /\ Goto(p, "fetch")
  /\ UNCHANGED <<row, clock, mem, result, cancelled, crashes>>

\* PopulateMachineIdsHandler up to the provider's answer (ids may be empty).
Discover(p, ids) ==
  /\ loc[p].pc = "discover"
  /\ IF NeedsMachineIdPopulation(row) /\ ids # {}
     THEN Step(p, AtWithIds("popRead", ids))
     ELSE Goto(p, "fetch")
  /\ UNCHANGED <<row, clock, mem, result, cancelled, crashes>>

\* Mutant: the copy read before the provider call is trusted.
PopulateReadTrusting(p) ==
  /\ loc[p].pc = "popRead"
  /\ Read(p, "popSave", 0)
  /\ UNCHANGED <<row, clock, mem, result, cancelled, crashes>>

PopulateRead(p) ==
  /\ loc[p].pc = "popRead"
  /\ IF row.status \in Terminal \/ ~NeedsMachineIdPopulation(row)
     THEN Step(p, At("fetch"))
     ELSE Read(p, "popSave", 0)
  /\ UNCHANGED <<row, clock, mem, result, cancelled, crashes>>

\* Request.update_machine_ids replaces the list.
Populated(r, ids) == Row(r.status, r.resources, ids, r.succ, r.deadline, r.diag, r.checked)

\* populate_missing_machine_ids swallows a second conflict.
PopulateSave(p) ==
  /\ loc[p].pc = "popSave"
  /\ \/ Save(p, Populated(row, loc[p].found), "fetch")
     \/ Conflict(p, "popRead", WriteAttempts, At("fetch"))
  /\ UNCHANGED <<clock, mem, result, cancelled, crashes>>

\* Only the reconcile pass looks at the re-read request before the fetch.
FetchSkipped(p) ==
  p \in Reconcilers /\ (row.status \in Terminal \/ AwaitingResources(row))

\* The end of a sync without a further write: a single-request read sweeps.
AfterSync(p) == IF p \in Pollers THEN "sweepRead" ELSE "idle"

\* Locals not needed past the step are dropped.
Finish(p, label) == Step(p, At(label))

FetchAnswered(p, v) ==
  /\ loc[p].pc = "fetch"
  /\ ~FetchSkipped(p)
  /\ Step(p, AtWithEvent("stampRead", v))
  /\ UNCHANGED <<row, clock, mem, result, cancelled, crashes>>

\* Nothing to ask about: the answer is empty and carries no verdict.
FetchEmpty(p) ==
  /\ loc[p].pc = "fetch"
  /\ ~FetchSkipped(p)
  /\ row.resources = {} /\ row.machines = {}
  /\ Step(p, At("stampRead"))
  /\ UNCHANGED <<row, clock, mem, result, cancelled, crashes>>

\* A failed fetch, or a fetch the reconcile pass no longer needs.
FetchFailed(p) ==
  /\ loc[p].pc = "fetch"
  /\ Finish(p, AfterSync(p))
  /\ UNCHANGED <<row, clock, mem, result, cancelled, crashes>>

\* Without a verdict, determine_status_from_machines raises and the sync ends.
AfterStamp(p) == IF loc[p].event = NoEvent THEN "idle" ELSE "updRead"

\* Request.record_status_check
Stamped(r) == Row(r.status, r.resources, r.machines, r.succ, r.deadline, r.diag, TRUE)

StampRead(p) ==
  /\ loc[p].pc = "stampRead"
  /\ IF row.status \in Terminal \/ AwaitingResources(row)
     THEN Goto(p, AfterStamp(p))
     ELSE Read(p, "stampSave", 0)
  /\ UNCHANGED <<row, clock, mem, result, cancelled, crashes>>

StampSave(p) ==
  /\ loc[p].pc = "stampSave"
  /\ \/ Save(p, Stamped(row), AfterStamp(p))
     \/ Conflict(p, "stampRead", WriteAttempts, At("idle"))
  /\ UNCHANGED <<clock, mem, result, cancelled, crashes>>

\* A storage error while stamping is not fatal to the sync.
StampFails(p) ==
  /\ loc[p].pc = "stampRead"
  /\ Goto(p, AfterStamp(p))
  /\ UNCHANGED <<row, clock, mem, result, cancelled, crashes>>

\* update_request_status takes its time once, before the first attempt.
CapturedTime(p) == IF loc[p].tries = 0 THEN clock ELSE loc[p].at

UpdateRead(p) ==
  /\ loc[p].pc = "updRead"
  /\ IF Legal(row, loc[p].event, CapturedTime(p))
     THEN Read(p, "updSave", CapturedTime(p))
     ELSE Finish(p, AfterSync(p))
  /\ UNCHANGED <<row, clock, mem, result, cancelled, crashes>>

UpdateSave(p) ==
  /\ loc[p].pc = "updSave"
  /\ \/ Save(p, BuildStatusUpdate(row, loc[p].event, loc[p].at), AfterSync(p))
     \/ Conflict(p, "updRead", WriteAttempts, At("idle"))
  /\ UNCHANGED <<clock, mem, result, cancelled, crashes>>

\* sweep_expired_deadline takes its time once; a single-request read
\* (_evaluate_deadline_and_persist) takes it again with every attempt.
SweepTime(p) == IF p \in Pollers THEN clock ELSE CapturedTime(p)
SweepAttempts(p) == IF p \in Pollers THEN PollAttempts ELSE WriteAttempts

SweepRead(p) ==
  /\ loc[p].pc = "sweepRead"
  /\ IF EvaluateDeadline(row, SweepTime(p)) # row
     THEN Read(p, "sweepSave", SweepTime(p))
     ELSE Finish(p, "idle")
  /\ UNCHANGED <<row, clock, mem, result, cancelled, crashes>>

SweepSave(p) ==
  /\ loc[p].pc = "sweepSave"
  /\ \/ Save(p, EvaluateDeadline(row, loc[p].at), "idle")
     \/ Conflict(p, "sweepRead", SweepAttempts(p), At("idle"))
  /\ UNCHANGED <<clock, mem, result, cancelled, crashes>>

SyncStep(p) ==
  \/ SyncStart(p)
  \/ \E ids \in SUBSET Machines : Discover(p, ids)
  \/ PopulateRead(p) \/ PopulateSave(p)
  \/ \E v \in Answers : FetchAnswered(p, v)
  \/ FetchEmpty(p) \/ FetchFailed(p)
  \/ StampRead(p) \/ StampSave(p) \/ StampFails(p)
  \/ UpdateRead(p) \/ UpdateSave(p)
  \/ SweepRead(p) \/ SweepSave(p)

-----------------------------------------------------------------------------
(***************************************************************************)
(* Operator commands (CancelRequestHandler, UpdateRequestStatusHandler,    *)
(* CompleteRequestHandler) and the startup recovery sweep.                 *)
(***************************************************************************)
CommandStart(p, c) ==
  /\ Stored
  /\ loc[p].pc = "idle"
  /\ Step(p, AtWithEvent("opRead", c))
  /\ UNCHANGED <<row, clock, mem, result, cancelled, crashes>>

\* Mutant: a command is applied whatever the status.
CommandReadUnchecked(p) ==
  /\ loc[p].pc = "opRead"
  /\ Read(p, "opSave", clock)
  /\ UNCHANGED <<row, clock, mem, result, cancelled, crashes>>

\* A refused transition ends the command: a cancel reports cancelled = False,
\* the others raise.
CommandRead(p) ==
  /\ loc[p].pc = "opRead"
  /\ IF Legal(row, loc[p].event, clock)
     THEN Read(p, "opSave", clock)
     ELSE Finish(p, "idle")
  /\ UNCHANGED <<row, clock, mem, result, cancelled, crashes>>

CommandSave(p) ==
  /\ loc[p].pc = "opSave"
  /\ \/ /\ Save(p, Apply(row, loc[p].event, loc[p].at), "idle")
        /\ cancelled' = (cancelled \/ loc[p].event = Cancel)
     \/ /\ Conflict(p, "opRead", CommandAttempts, At("idle"))
        /\ UNCHANGED cancelled
  /\ UNCHANGED <<clock, mem, result, crashes>>

RecoverRead(p) ==
  /\ Stored
  /\ loc[p].pc = "idle"
  /\ row.status \in Sweepable
  /\ Expired(row, clock)
  /\ Read(p, "recSave", clock)
  /\ UNCHANGED <<row, clock, mem, result, cancelled, crashes>>

\* A row the deadline machinery leaves alone is forced to FAILED.
Recovered(r, now) ==
  IF EvaluateDeadline(r, now) # r THEN EvaluateDeadline(r, now)
  ELSE Row("FAILED", r.resources, r.machines, r.succ, r.deadline, r.diag, r.checked)

\* A conflict is logged and the row skipped until the next startup.
RecoverSave(p) ==
  /\ loc[p].pc = "recSave"
  /\ \/ Save(p, Recovered(row, loc[p].at), "idle")
     \/ Conflict(p, "idle", 1, At("idle"))
  /\ UNCHANGED <<clock, mem, result, cancelled, crashes>>

-----------------------------------------------------------------------------
(***************************************************************************)
(* The environment: time passes, and a flow is cut short by a crash, a     *)
(* timeout around it or an unexpected exception.  What it saved stays.     *)
(***************************************************************************)
Crash(p) ==
  /\ crashes < MaxCrashes
  /\ loc[p].pc \notin {"create", "idle", "done", "lost", "dead"}
  /\ Step(p, At(IF p = Creator THEN "dead" ELSE "idle"))
  /\ crashes' = crashes + 1
  /\ UNCHANGED <<row, clock, mem, result, cancelled>>

Tick ==
  /\ clock < MaxTime
  /\ clock' = clock + 1
  /\ UNCHANGED <<row, loc, mem, result, cancelled, crashes>>

CreateStep ==
  \/ CreateRequest \/ DryRun \/ \E res \in Dispatches : Dispatch(res)
  \/ CheckpointRead \/ CheckpointSave \/ CheckpointFails
  \/ Decide \/ FinalRead \/ FinalSave

CommandStep(p) == (\E c \in OperatorCommands : CommandStart(p, c)) \/ CommandRead(p) \/ CommandSave(p)

RecoverStep(p) == RecoverRead(p) \/ RecoverSave(p)

Next ==
  \/ CreateStep
  \/ \E p \in Syncers : SyncStep(p)
  \/ \E p \in Pollers : LightweightRead(p)
  \/ \E p \in Listers : SyncCommand(p)
  \/ \E p \in Operators : CommandStep(p)
  \/ \E p \in Recoverers : RecoverStep(p)
  \/ \E p \in Procs : Crash(p)
  \/ Tick

Spec == Init /\ [][Next]_vars

(***************************************************************************)
(* Fairness: the create flow runs unless it crashes, a client keeps        *)
(* polling and the reconcile loop keeps coming round (each poll and each   *)
(* pass runs to its end unless it crashes), and time passes.  Nothing is   *)
(* assumed of list views, operators, the recovery sweep or the provider.   *)
(***************************************************************************)
LiveSpec ==
  /\ Spec
  /\ WF_vars(CreateStep)
  /\ \A p \in Pollers \cup Reconcilers : WF_vars(SyncStep(p))
  /\ WF_vars(Tick)

-----------------------------------------------------------------------------
(***************************************************************************)
(* Properties.                                                             *)
(***************************************************************************)

\* A cancel that was reported to its caller as cancelled = True stays: no
\* sync, sweep, late create-flow save or other command moves the request out
\* of CANCELLED (CancelRequestHandler, apply_onto_stored).
CancelStands == cancelled => row.status = "CANCELLED"

\* Once the create flow has ended normally, every resource and machine id the
\* dispatch brought back is on the stored row, whatever was written to the row
\* while the provider was being called (save_provisioning_state).
LaunchedRecorded ==
  loc[Creator].pc = "done" =>
    result.resources \subseteq row.resources /\ RecordedMachineIds(result) \subseteq row.machines

\* A request in a status the deadline governs always carries a deadline, also
\* after the create flow's copy was laid over someone else's write; without
\* one, no sweep could ever end it (deadline_at in FulfilmentStateMachine.apply).
ActiveHasDeadline == row.status \in Sweepable => row.deadline # NoDeadline

\* A completed request carries no shortfall diagnostic, by whichever path and
\* over whichever earlier partial verdict it was completed (clear_diagnostic).
CompletedIsClean == row.status = "COMPLETED" => ~row.diag

\* What a writer established about the row at its read still holds when its
\* save is accepted: ids are only populated on an open request that has none,
\* only a polled request is stamped, a transition judged legal is still legal,
\* an expired deadline still applies (the version check of every save).
ReadStillHolds ==
  \A p \in Procs : loc[p].fresh =>
    /\ loc[p].pc = "popSave" => row.status \notin Terminal /\ NeedsMachineIdPopulation(row)
    /\ loc[p].pc = "stampSave" => row.status \notin Terminal /\ ~AwaitingResources(row)
    /\ loc[p].pc \in {"updSave", "opSave"} => Legal(row, loc[p].event, loc[p].at)
    /\ loc[p].pc \in {"sweepSave", "recSave"} => EvaluateDeadline(row, loc[p].at) # row

\* A request the create flow has recorded nothing for has no deadline, so the
\* sweeps that reconciler and reads run on it never end it
\* (awaiting_resources, sweep_expired_deadline).
AwaitingHasNoDeadline == AwaitingResources(row) => row.deadline = NoDeadline

\* The stored request keeps the contract its clients rely on.
Contract == INSTANCE RequestContract WITH
  Outcomes <- Terminal, Unset <- NoDeadline,
  phase <- IF ~Stored THEN "none" ELSE IF row.status \in Terminal THEN row.status ELSE "open",
  resources <- row.resources, machines <- row.machines, due <- row.deadline,
  stamped <- row.checked

\* Refinement: every step of every writer is a step of RequestContract or
\* leaves the client's view unchanged.
ContractKept == Contract!Spec

\* A request that has left PENDING is brought to an end by polling alone, even
\* if its create flow dies and the provider never gives another verdict (for
\* deadlines within the clock's bound).
StartedRequestEnds ==
  (row.status \in Sweepable /\ row.deadline <= MaxTime) ~> row.status \in Terminal

\* The claim of sweep_expired_deadline: a request whose create flow died is
\* still brought to an end by the deadline.
EveryRequestEnds == Stored ~> row.status \in Terminal

\* Every change of the stored status is one the transition table allows, with
\* one exception: the create flow's two saves, computed from its own PENDING
\* copy, may take an open row back to ACQUIRING or IN_PROGRESS
\* (apply_onto_stored).  No sync, sweep or command steps back, and no one leaves
\* a final status but for PARTIAL to COMPLETED.
OnlyCreatorStepsBack ==
  [][\/ CanTransition(row.status, row'.status)
     \/ /\ loc[Creator].pc \in {"ckptSave", "finalSave"} /\ loc'[Creator] # loc[Creator]
        /\ row.status \notin Terminal /\ row'.status \in {"ACQUIRING", "IN_PROGRESS"}]_row

\* The claim of _persist_and_publish: the provisioning result is not lost to a
\* version conflict.
ResultSurvivesConflicts ==
  loc[Creator].pc = "lost" => RecordedMachineIds(result) \subseteq row.machines
=============================================================================
