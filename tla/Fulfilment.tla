---------------------------- MODULE Fulfilment ----------------------------
(***************************************************************************)
(* The request aggregate and its policy object, as pure operators.         *)
(*                                                                         *)
(* A request is a record of the fields the transition rules read or write: *)
(*   status     the lifecycle status (request_types.py, RequestStatus)     *)
(*   resources  resource_ids, the provider resources recorded on it        *)
(*   machines   machine_ids, the instances recorded on it                  *)
(*   succ       successful_count                                           *)
(*   deadline   deadline_at, or NoDeadline while it is None                *)
(*   diag       whether a shortfall or failure diagnostic is attached      *)
(*   checked    whether first_status_check has been stamped                *)
(*                                                                         *)
(* Left out: messages and metadata, the event list, started_at (set in the *)
(* same mutation as the deadline, so "started_at or now" is now whenever a *)
(* deadline is being set), completed_at and the other timestamps nothing   *)
(* reads back, and the version, which RequestLifecycle replaces by the     *)
(* question a compare-and-swap asks: was the row written since it was read *)
(***************************************************************************)
EXTENDS Integers, FiniteSets

CONSTANTS
  Resources,      \* resource ids a provider may return
  Machines,       \* instance ids a provider may return
  Requested,      \* requested_count
  Grace,          \* grace period of the state machine, in clock ticks
  RequestKind,    \* request_type: "acquire" or "return"
  KubernetesBridge, \* results pass through the Kubernetes outcome bridge
  NoDeadline      \* deadline_at is None

ASSUME RequestedAssumption == Requested \in Nat \ {0}
ASSUME GraceAssumption == Grace \in Nat
ASSUME KindAssumption == RequestKind \in {"acquire", "return"}
ASSUME BridgeAssumption == KubernetesBridge \in BOOLEAN
ASSUME NoDeadlineAssumption == NoDeadline \notin Int
ASSUME IdsFinite == IsFiniteSet(Machines) /\ IsFiniteSet(Resources)

\* Anything that can end up in machine_ids: see RecordedMachineIds.
Ids == Machines \cup Resources

Status == {"PENDING", "IN_PROGRESS", "ACQUIRING", "PARTIAL_PENDING",
           "COMPLETED", "FAILED", "CANCELLED", "TIMEOUT", "PARTIAL"}

\* RequestStatus.is_terminal
Terminal == {"COMPLETED", "FAILED", "CANCELLED", "TIMEOUT", "PARTIAL"}

\* Statuses the deadline machinery governs (evaluate_deadline and the
\* startup sweep use the same three).
Sweepable == {"IN_PROGRESS", "ACQUIRING", "PARTIAL_PENDING"}

\* RequestStatus.can_transition_to; re-applying a status is always allowed.
ValidTransitions ==
       ({"PENDING"} \X {"IN_PROGRESS", "ACQUIRING", "CANCELLED", "FAILED",
                        "COMPLETED", "PARTIAL", "PARTIAL_PENDING"})
  \cup ({"IN_PROGRESS"} \X {"COMPLETED", "PARTIAL", "PARTIAL_PENDING", "FAILED",
                            "CANCELLED", "TIMEOUT", "ACQUIRING"})
  \cup ({"ACQUIRING"} \X {"COMPLETED", "PARTIAL", "PARTIAL_PENDING", "FAILED",
                          "TIMEOUT", "CANCELLED"})
  \cup ({"PARTIAL_PENDING"} \X {"COMPLETED", "PARTIAL", "FAILED", "CANCELLED", "TIMEOUT"})
  \cup ({"PARTIAL"} \X {"COMPLETED"})

CanTransition(from, to) == to = from \/ <<from, to>> \in ValidTransitions

Deadlines == Nat \cup {NoDeadline}

Request == [status : Status, resources : SUBSET Resources, machines : SUBSET Ids,
            succ : Nat, deadline : Deadlines, diag : BOOLEAN, checked : BOOLEAN]

Row(status, resources, machines, succ, deadline, diag, checked) ==
  [status |-> status, resources |-> resources, machines |-> machines, succ |-> succ,
   deadline |-> deadline, diag |-> diag, checked |-> checked]

\* Request.create_new_request
NewRequest == Row("PENDING", {}, {}, 0, NoDeadline, FALSE, FALSE)

\* Request.awaiting_resources: the create flow has recorded nothing to poll.
AwaitingResources(r) ==
  r.status \in {"PENDING", "ACQUIRING"} /\ r.resources = {} /\ r.machines = {}

\* Request.needs_machine_id_population
NeedsMachineIdPopulation(r) ==
  r.machines = {} /\ r.resources # {} /\ RequestKind # "return"

Expired(r, now) == r.deadline # NoDeadline /\ now >= r.deadline

-----------------------------------------------------------------------------
(***************************************************************************)
(* Request._transition: the one mutation behind every status change.  The  *)
(* deadline argument is used only when none is set yet; a diagnostic is    *)
(* merged (it stays once attached) unless the caller asks to clear it.     *)
(***************************************************************************)
Transition(r, target, deadline, diag, clear) ==
  Row(target, r.resources, r.machines, r.succ,
      IF r.deadline = NoDeadline THEN deadline ELSE r.deadline,
      diag \/ (r.diag /\ ~clear), r.checked)

\* Request.set_fulfilment_diagnostic, with or without something to merge.
MergeDiagnostic(r, diag) ==
  Row(r.status, r.resources, r.machines, r.succ, r.deadline, r.diag \/ diag, r.checked)

\* max(successful_count, len(machine_ids)): the counter lags, the ids do not.
EffectiveCount(r) ==
  IF Cardinality(r.machines) > r.succ THEN Cardinality(r.machines) ELSE r.succ

\* The status an expired request is classified to.
DeadlineTarget(r) ==
  IF EffectiveCount(r) >= Requested THEN "COMPLETED"
  ELSE IF EffectiveCount(r) > 0 THEN "PARTIAL"
  ELSE "TIMEOUT"

\* Mutant: the holding state is left out of the sweep.
DeadlineAppliesNotHolding(r, now) ==
  RequestKind = "acquire" /\ r.status \in {"IN_PROGRESS", "ACQUIRING"} /\ Expired(r, now)

DeadlineApplies(r, now) ==
  /\ RequestKind = "acquire"
  /\ r.status \in Sweepable
  /\ Expired(r, now)

(***************************************************************************)
(* FulfilmentStateMachine.evaluate_deadline.  Returning r itself is the    *)
(* code's "unchanged"; a flip always changes the status.                   *)
(***************************************************************************)
EvaluateDeadline(r, now) ==
  IF DeadlineApplies(r, now) /\ CanTransition(r.status, DeadlineTarget(r))
  THEN Transition(r, DeadlineTarget(r), NoDeadline,
                  DeadlineTarget(r) # "COMPLETED", DeadlineTarget(r) = "COMPLETED")
  ELSE r

-----------------------------------------------------------------------------
(***************************************************************************)
(* Events.  A verdict is what a provider says of the capacity it holds:    *)
(* its state, whether that is its last word, and whether it explains a     *)
(* shortfall.  A verdict of full capacity explains nothing; the other      *)
(* verdicts may.  States the code does not know are treated as             *)
(* in_progress, so they are represented by it.                             *)
(***************************************************************************)
Verdict(state, final, diag) ==
  [event |-> "VERDICT", state |-> state, final |-> final, diag |-> diag]

ProviderVerdicts ==
  {Verdict("fulfilled", FALSE, FALSE), Verdict("in_progress", FALSE, FALSE),
   Verdict("failed", FALSE, TRUE), Verdict("partial", FALSE, TRUE),
   Verdict("partial", TRUE, TRUE)}

\* Verdicts synthesised from a commanded status carry no diagnostic.
CommandedVerdicts ==
  {Verdict("fulfilled", FALSE, FALSE), Verdict("in_progress", FALSE, FALSE),
   Verdict("partial", FALSE, FALSE)}

ResourcesCreated ==
  [event |-> "RESOURCES_CREATED", state |-> "in_progress", final |-> FALSE, diag |-> FALSE]
Cancel == [event |-> "CANCEL", state |-> "failed", final |-> TRUE, diag |-> TRUE]
Fail == [event |-> "FAIL", state |-> "failed", final |-> TRUE, diag |-> TRUE]

Commands == CommandedVerdicts \cup {Cancel, Fail}

Events == [event : {"VERDICT", "RESOURCES_CREATED", "CANCEL", "FAIL"},
           state : {"fulfilled", "in_progress", "partial", "failed"},
           final : BOOLEAN, diag : BOOLEAN]

\* _VERDICT_STATUS
VerdictStatus == [fulfilled |-> "COMPLETED", in_progress |-> "IN_PROGRESS", failed |-> "FAILED"]

\* FulfilmentStateMachine._target_for_verdict
TargetForVerdict(r, v, now) ==
  IF v.state # "partial" THEN VerdictStatus[v.state]
  ELSE IF RequestKind # "acquire" \/ v.final \/ Expired(r, now) THEN "PARTIAL"
  ELSE "PARTIAL_PENDING"

\* FulfilmentStateMachine._resolve_target
ResolveTarget(r, e, now) ==
  IF e.event = "RESOURCES_CREATED" THEN "ACQUIRING"
  ELSE IF e.event = "CANCEL" THEN "CANCELLED"
  ELSE IF e.event = "FAIL" THEN "FAILED"
  ELSE TargetForVerdict(r, e, now)

(***************************************************************************)
(* FulfilmentStateMachine.apply.  Swept is the lazy deadline that runs     *)
(* before every event but CANCEL and FAIL; when it ends the request, that  *)
(* outcome wins over the event.  Legal is FALSE exactly where the code     *)
(* raises InvalidRequestStateError.                                        *)
(***************************************************************************)
Swept(r, e, now) ==
  IF e.event \in {"CANCEL", "FAIL"} THEN r ELSE EvaluateDeadline(r, now)

Legal(r, e, now) ==
  \/ Swept(r, e, now) # r
  \/ CanTransition(r.status, ResolveTarget(r, e, now))

\* Mutant: the grace period is subtracted.
DeadlineBefore(now) == now - Grace

\* deadline_at when the request first leaves PENDING.
DeadlineFrom(now) == now + Grace

\* Mutant: a stale diagnostic is carried into COMPLETED.
ClearsNothing(target, e) == FALSE

\* clear_diagnostic: a clean success has no shortfall to explain.
ClearsDiagnostic(target, e) == target = "COMPLETED" /\ ~e.diag

Apply(r, e, now) ==
  LET target == ResolveTarget(r, e, now)
  IN  IF Swept(r, e, now) # r THEN Swept(r, e, now)
      ELSE IF target = r.status THEN MergeDiagnostic(r, e.diag)
      ELSE Transition(r, target, DeadlineFrom(now), e.diag, ClearsDiagnostic(target, e))

\* Callers that treat a refused transition as "leave the request alone".
ApplyIfLegal(r, e, now) == IF Legal(r, e, now) THEN Apply(r, e, now) ELSE r

-----------------------------------------------------------------------------
(***************************************************************************)
(* RequestStatusService._build_status_update: the verdict, then the        *)
(* counter healed from the recorded machine ids, even when the status      *)
(* stays as it was.                                                        *)
(***************************************************************************)
Heal(r) ==
  IF /\ r.status \in {"COMPLETED", "PARTIAL", "PARTIAL_PENDING", "IN_PROGRESS"}
     /\ r.machines # {}
  THEN Row(r.status, r.resources, r.machines, Cardinality(r.machines), r.deadline, r.diag, r.checked)
  ELSE r

BuildStatusUpdate(r, v, now) == Heal(Apply(r, v, now))

(***************************************************************************)
(* What a dispatch brings back (ProvisioningResult): the resources and     *)
(* machine ids, whether the instances themselves were described (only      *)
(* those are counted), whether this is the provider's last word, and       *)
(* whether it attached a diagnostic.  Every failure, a timeout of the call *)
(* and an open circuit included, brings back no ids at all.                *)
(***************************************************************************)
Result == [ok : BOOLEAN, resources : SUBSET Resources, machines : SUBSET Machines,
           described : BOOLEAN, final : BOOLEAN, diag : BOOLEAN]

FailedResult == [ok |-> FALSE, resources |-> {}, machines |-> {},
                 described |-> FALSE, final |-> TRUE, diag |-> TRUE]

\* A provider describes instances or answers with their ids alone.
Dispatches == {FailedResult} \cup {res \in Result : res.ok /\ (res.machines = {} => ~res.described)}

(***************************************************************************)
(* The machine ids the request is given.  The Kubernetes bridge puts the   *)
(* resource ids under instance_ids when the handler reports no machine.    *)
(***************************************************************************)
RecordedMachineIds(res) ==
  IF KubernetesBridge /\ res.machines = {} THEN res.resources ELSE res.machines

FulfilledCount(res) == IF res.described THEN Cardinality(res.machines) ELSE 0

\* RequestStatusManagementService._update_request_status
ProvisioningVerdict(res) ==
  LET n == FulfilledCount(res)
      pending == (n > 0 /\ ~res.final) \/ (n = 0 /\ res.resources # {})
  IN  IF pending THEN Verdict("in_progress", FALSE, FALSE)
      ELSE IF n = Requested THEN Verdict("fulfilled", FALSE, FALSE)
      ELSE IF n > 0 THEN Verdict("partial", TRUE, FALSE)
      ELSE Verdict("failed", FALSE, FALSE)

(***************************************************************************)
(* update_request_from_provisioning.  It starts from the handler's copy    *)
(* of the request, which is still the PENDING one it inserted: the ids and *)
(* the ACQUIRING status of the checkpoint were applied to another copy.    *)
(***************************************************************************)
FromProvisioning(res, now) ==
  IF ~res.ok THEN ApplyIfLegal(NewRequest, Fail, now)
  ELSE ApplyIfLegal(Row("PENDING", res.resources, RecordedMachineIds(res), FulfilledCount(res),
                        NoDeadline, res.diag, FALSE),
                    ProvisioningVerdict(res), now)

\* Mutant: the checkpoint records the status without the ids.
CheckpointStatusOnly(res, now) == Apply(NewRequest, ResourcesCreated, now)

\* _persist_resource_ids_checkpoint: the copy the checkpoint writes.
Checkpoint(res, now) ==
  Apply(Row("PENDING", res.resources, {}, 0, NoDeadline, FALSE, FALSE), ResourcesCreated, now)

(***************************************************************************)
(* provisioning_writes.apply_onto_stored: the create flow's copy laid over *)
(* the row as it is now.  Ids are united, the stamp and the deadline of    *)
(* the row are kept, and the outcome fields are the row's once it is       *)
(* terminal.                                                               *)
(***************************************************************************)
\* Mutant: the create flow's own outcome always wins.
OwnOutcome(mem, stored) == mem

KeptOutcome(mem, stored) == IF stored.status \in Terminal THEN stored ELSE mem

\* Mutant: only the row's deadline is kept.
RowDeadline(mem, stored) == stored.deadline

KeptDeadline(mem, stored) ==
  IF stored.deadline # NoDeadline THEN stored.deadline ELSE mem.deadline

\* Mutant: a row that is over by now is left alone, the new ids included.
OntoOpenRow(mem, stored) ==
  IF stored.status \in Terminal THEN stored
  ELSE Row(mem.status, stored.resources \cup mem.resources, stored.machines \cup mem.machines,
           mem.succ, KeptDeadline(mem, stored), mem.diag, stored.checked \/ mem.checked)

ApplyOntoStored(mem, stored) ==
  LET outcome == KeptOutcome(mem, stored)
  IN  Row(outcome.status, stored.resources \cup mem.resources,
          stored.machines \cup mem.machines, outcome.succ, KeptDeadline(mem, stored),
          outcome.diag, stored.checked \/ mem.checked)
=============================================================================
