---------------------- MODULE RequestLifecycle_proofs ----------------------
(***************************************************************************)
(* Proofs about RequestLifecycle, for any sets of processes and ids, any   *)
(* grace period and any requested count.                                   *)
(***************************************************************************)
EXTENDS RequestLifecycle, FiniteSetTheorems, TLAPS

-----------------------------------------------------------------------------
(***************************************************************************)
(* The pure part: what the operators of Fulfilment keep.                   *)
(***************************************************************************)

\* The row facts every write preserves: an active request has a deadline, a
\* pending one has none, an acquiring one has resources, a completed one has
\* nothing to explain.
Sound(r) ==
  /\ r.status \in Sweepable => r.deadline # NoDeadline
  /\ r.status = "PENDING" => r.deadline = NoDeadline
  /\ r.status = "ACQUIRING" => r.resources # {}
  /\ r.status = "COMPLETED" => ~r.diag

\* What a client may rely on between two stored values of a request.
Succeeds(s, r) ==
  /\ r.resources \subseteq s.resources
  /\ r.machines \subseteq s.machines
  /\ r.deadline = NoDeadline \/ s.deadline = r.deadline
  /\ r.checked => s.checked
  /\ r.status \in Terminal => \/ s.status = r.status
                              \/ r.status = "PARTIAL" /\ s.status = "COMPLETED"

\* A fulfilled verdict carries no diagnostic.
CleanEvent(e) == e \in Events /\ (e.state = "fulfilled" => ~e.diag)

\* Sets of ids are finite, so counting them gives a number.
LEMMA CountIsNat == ASSUME NEW S \in SUBSET Ids PROVE Cardinality(S) \in Nat
  BY IdsFinite, FS_Union, FS_Subset, FS_CardinalityType DEF Ids

\* A terminal status is left only from PARTIAL to COMPLETED, nothing returns to
\* PENDING, and only PENDING and IN_PROGRESS lead to ACQUIRING (can_transition_to).
LEMMA TransitionTable ==
  ASSUME NEW from \in Status, NEW to \in Status, CanTransition(from, to), to # from
  PROVE  /\ from \in Terminal => from = "PARTIAL" /\ to = "COMPLETED"
         /\ to # "PENDING"
  BY DEF CanTransition, ValidTransitions, Status, Terminal

\* A deadline sweep returns a request that still satisfies the row facts, and
\* either leaves it alone or settles an open one.
LEMMA SweepFacts ==
  ASSUME NEW r \in Request, NEW now \in Nat
  PROVE  /\ EvaluateDeadline(r, now) \in Request
         /\ Sound(r) => Sound(EvaluateDeadline(r, now))
         /\ Succeeds(EvaluateDeadline(r, now), r)
         /\ EvaluateDeadline(r, now) # r =>
              r.status \in Sweepable /\ EvaluateDeadline(r, now).status \in Terminal
<1>1. DeadlineTarget(r) \in {"COMPLETED", "PARTIAL", "TIMEOUT"}
  BY DEF DeadlineTarget
<1>2. CASE DeadlineApplies(r, now) /\ CanTransition(r.status, DeadlineTarget(r))
  BY <1>1, <1>2 DEF EvaluateDeadline, Transition, Row, Request, Status, Deadlines, DeadlineApplies,
     Sweepable, Terminal, Sound, Succeeds
<1>3. CASE ~(DeadlineApplies(r, now) /\ CanTransition(r.status, DeadlineTarget(r)))
  BY <1>3 DEF EvaluateDeadline, Succeeds
<1> QED BY <1>2, <1>3

\* The state machine's targets are statuses; a verdict that completes is a
\* fulfilled one, and only RESOURCES_CREATED leads to ACQUIRING.
LEMMA TargetFacts ==
  ASSUME NEW r \in Request, NEW e \in Events, NEW now \in Nat
  PROVE  /\ ResolveTarget(r, e, now) \in Status \ {"PENDING", "TIMEOUT"}
         /\ ResolveTarget(r, e, now) = "COMPLETED" => e.state = "fulfilled"
         /\ ResolveTarget(r, e, now) = "ACQUIRING" => e.event = "RESOURCES_CREATED"
BY DEF ResolveTarget, TargetForVerdict, VerdictStatus, Events, Status

\* Applying a legal event keeps the row facts and what clients rely on.
LEMMA ApplyFacts ==
  ASSUME NEW r \in Request, NEW e, CleanEvent(e), NEW now \in Nat, Legal(r, e, now)
  PROVE  /\ Apply(r, e, now) \in Request
         /\ Succeeds(Apply(r, e, now), r)
         /\ Apply(r, e, now).status # "PENDING"
         /\ (Sound(r) /\ (e.event = "RESOURCES_CREATED" => r.resources # {}))
              => Sound(Apply(r, e, now))
<1> DEFINE target == ResolveTarget(r, e, now)
<1>1. e \in Events /\ (e.state = "fulfilled" => ~e.diag)
  BY DEF CleanEvent
<1>2. CASE Swept(r, e, now) # r
  <2>1. Apply(r, e, now) = EvaluateDeadline(r, now) /\ EvaluateDeadline(r, now) # r
    BY <1>2 DEF Apply, Swept
  <2>2. EvaluateDeadline(r, now).status \in Terminal
    BY <2>1, SweepFacts
  <2> QED BY <2>1, <2>2, SweepFacts DEF Terminal
<1>3. CASE Swept(r, e, now) = r
  <2>1. CanTransition(r.status, target)
    BY <1>3 DEF Legal
  <2>2. /\ target \in Status \ {"PENDING", "TIMEOUT"}
        /\ target = "COMPLETED" => e.state = "fulfilled"
        /\ target = "ACQUIRING" => e.event = "RESOURCES_CREATED"
    BY <1>1, TargetFacts
  <2>3. CASE target = r.status
    <3>1. Apply(r, e, now) = MergeDiagnostic(r, e.diag)
      BY <1>3, <2>3 DEF Apply
    <3>2. e.diag \in BOOLEAN
      BY <1>1 DEF Events
    <3> QED
      BY <3>1, <3>2, <2>2, <2>3, <1>1 DEF MergeDiagnostic, Row, Request, Sound, Succeeds
  <2>4. CASE target # r.status
    <3>1. Apply(r, e, now) = Transition(r, target, now + Grace, e.diag, ClearsDiagnostic(target, e))
      BY <1>3, <2>4 DEF Apply, DeadlineFrom
    <3>2. e.diag \in BOOLEAN /\ now + Grace \in Nat /\ now + Grace # NoDeadline
      BY <1>1, GraceAssumption, NoDeadlineAssumption DEF Events
    <3>3. r.status \in Terminal => r.status = "PARTIAL" /\ target = "COMPLETED"
      BY <2>1, <2>2, <2>4, TransitionTable DEF Request
    <3>4. Apply(r, e, now) \in Request
      BY <3>1, <3>2, <2>2 DEF Transition, Row, Request, Deadlines
    <3>5. Succeeds(Apply(r, e, now), r)
      BY <3>1, <3>3 DEF Transition, Row, Request, Succeeds
    <3>6. Sound(r) /\ (e.event = "RESOURCES_CREATED" => r.resources # {})
            => Sound(Apply(r, e, now))
      BY <3>1, <3>2, <2>2, <1>1 DEF Transition, Row, Request, Sound, ClearsDiagnostic
    <3> QED BY <3>1, <3>4, <3>5, <3>6, <2>2 DEF Transition, Row
  <2> QED BY <2>3, <2>4
<1> QED BY <1>2, <1>3

\* Healing the counter changes nothing else (_build_status_update).
LEMMA BuildFacts ==
  ASSUME NEW r \in Request, NEW e, CleanEvent(e), NEW now \in Nat, Legal(r, e, now),
         e.event # "RESOURCES_CREATED"
  PROVE  /\ BuildStatusUpdate(r, e, now) \in Request
         /\ Succeeds(BuildStatusUpdate(r, e, now), r)
         /\ Sound(r) => Sound(BuildStatusUpdate(r, e, now))
<1> DEFINE a == Apply(r, e, now)
<1>1. a \in Request /\ Succeeds(a, r) /\ (Sound(r) => Sound(a))
  BY ApplyFacts
<1>2. Cardinality(a.machines) \in Nat
  BY <1>1, CountIsNat DEF Request
<1>3. BuildStatusUpdate(r, e, now) = Heal(a)
  BY DEF BuildStatusUpdate
<1> HIDE DEF a
<1>4. Heal(a) \in Request
  BY <1>1, <1>2 DEF Heal, Row, Request
<1>5. Succeeds(Heal(a), r)
  BY <1>1 DEF Heal, Row, Request, Succeeds
<1>6. Sound(a) => Sound(Heal(a))
  BY <1>1 DEF Heal, Row, Request, Sound
<1> QED BY <1>1, <1>3, <1>4, <1>5, <1>6

\* A new request satisfies the row facts.
LEMMA NewRequestFacts == NewRequest \in Request /\ Sound(NewRequest)
  BY DEF NewRequest, Row, Request, Status, Deadlines, Ids, Sound, Sweepable

\* Events built into the flows carry no diagnostic with a fulfilled verdict.
LEMMA EventFacts ==
  /\ \A e \in ProviderVerdicts \cup Commands \cup {NoEvent} :
       CleanEvent(e) /\ e.event # "RESOURCES_CREATED"
  /\ CleanEvent(ResourcesCreated) /\ ResourcesCreated.event = "RESOURCES_CREATED"
  /\ CleanEvent(Fail) /\ Fail.event = "FAIL"
  /\ CleanEvent(Cancel) /\ Cancel.event = "CANCEL"
BY DEF ProviderVerdicts, Commands, CommandedVerdicts, Verdict, NoEvent, ResourcesCreated, Fail,
   Cancel, CleanEvent, Events

\* What the create flow computes from a new request, before any write.
LEMMA FromNew ==
  ASSUME NEW r \in Request, r.status = "PENDING", Sound(r), NEW e, CleanEvent(e),
         e.event = "RESOURCES_CREATED" => r.resources # {}, NEW now \in Nat
  PROVE  /\ Legal(r, e, now)
         /\ Apply(r, e, now) \in Request /\ Sound(Apply(r, e, now))
         /\ Apply(r, e, now).status \notin {"PENDING", "TIMEOUT"}
         /\ Succeeds(Apply(r, e, now), r)
<1>1. ResolveTarget(r, e, now) \in Status \ {"PENDING", "TIMEOUT"}
  BY TargetFacts DEF CleanEvent
<1>2. Legal(r, e, now)
  BY <1>1 DEF Legal, CanTransition, ValidTransitions, Status
<1>3. Swept(r, e, now) = r
  BY DEF Swept, EvaluateDeadline, DeadlineApplies, Sweepable
<1>4. Apply(r, e, now).status = ResolveTarget(r, e, now)
  BY <1>1, <1>3 DEF Apply, Transition, MergeDiagnostic, Row
<1> QED BY <1>1, <1>2, <1>4, ApplyFacts

\* The checkpoint's copy is an acquiring request with the resources on it.
LEMMA CheckpointFacts ==
  ASSUME NEW res \in Result, res.resources # {}, NEW now \in Nat
  PROVE  /\ Checkpoint(res, now) \in Request
         /\ Sound(Checkpoint(res, now))
         /\ Checkpoint(res, now).status \notin {"PENDING", "TIMEOUT"}
<1> DEFINE r == Row("PENDING", res.resources, {}, 0, NoDeadline, FALSE, FALSE)
<1>1. r \in Request /\ r.status = "PENDING" /\ Sound(r) /\ r.resources # {}
  BY DEF Row, Request, Status, Deadlines, Ids, Sound, Sweepable, Result
<1> QED BY <1>1, FromNew, EventFacts DEF Checkpoint

\* The final copy is sound, past PENDING, and carries every id of the result.
LEMMA ProvisioningFacts ==
  ASSUME NEW res \in Result, ~res.ok => res = FailedResult, NEW now \in Nat
  PROVE  /\ FromProvisioning(res, now) \in Request
         /\ Sound(FromProvisioning(res, now))
         /\ FromProvisioning(res, now).status \notin {"PENDING", "TIMEOUT"}
         /\ res.resources \subseteq FromProvisioning(res, now).resources
         /\ RecordedMachineIds(res) \subseteq FromProvisioning(res, now).machines
<1>1. CASE ~res.ok
  <2>1. res.resources = {} /\ RecordedMachineIds(res) = {}
    BY <1>1 DEF FailedResult, RecordedMachineIds
  <2>2. FromProvisioning(res, now) = Apply(NewRequest, Fail, now)
    BY <1>1, FromNew, EventFacts, NewRequestFacts DEF FromProvisioning, ApplyIfLegal, NewRequest, Row
  <2> QED
    BY <2>1, <2>2, FromNew, EventFacts, NewRequestFacts DEF NewRequest, Row
<1>2. CASE res.ok
  <2> DEFINE r == Row("PENDING", res.resources, RecordedMachineIds(res), FulfilledCount(res),
                      NoDeadline, res.diag, FALSE)
             v == ProvisioningVerdict(res)
  <2>1. FulfilledCount(res) \in Nat
    BY CountIsNat DEF FulfilledCount, Result, Ids
  <2>2. r \in Request /\ r.status = "PENDING" /\ Sound(r)
    BY <2>1 DEF Row, Request, Status, Deadlines, Ids, Sound, Sweepable, Result, RecordedMachineIds
  <2>3. CleanEvent(v) /\ v.event # "RESOURCES_CREATED"
    BY DEF ProvisioningVerdict, Verdict, CleanEvent, Events
  <2>4. FromProvisioning(res, now) = ApplyIfLegal(r, v, now)
    BY <1>2 DEF FromProvisioning
  <2>5. r.resources = res.resources /\ r.machines = RecordedMachineIds(res)
    BY DEF Row
  <2> HIDE DEF r, v
  <2>6. FromProvisioning(res, now) = Apply(r, v, now)
    BY <2>2, <2>3, <2>4, FromNew DEF ApplyIfLegal
  <2> QED
    BY <2>2, <2>3, <2>5, <2>6, FromNew DEF Succeeds
<1> QED BY <1>1, <1>2

\* Laying the create flow's copy over the row keeps both (apply_onto_stored).
LEMMA MergeFacts ==
  ASSUME NEW mine \in Request, NEW stored \in Request, Sound(mine), Sound(stored),
         mine.status # "PENDING"
  PROVE  /\ ApplyOntoStored(mine, stored) \in Request
         /\ Sound(ApplyOntoStored(mine, stored))
         /\ Succeeds(ApplyOntoStored(mine, stored), stored)
         /\ mine.resources \subseteq ApplyOntoStored(mine, stored).resources
         /\ mine.machines \subseteq ApplyOntoStored(mine, stored).machines
<1> DEFINE m == ApplyOntoStored(mine, stored)
<1> USE DEF ApplyOntoStored, KeptOutcome, KeptDeadline, Row
<1>1. m \in Request
  BY DEF Request
<1>2. Sound(m)
  BY DEF Sound, Request, Terminal, Sweepable
<1>3. Succeeds(m, stored)
  BY DEF Succeeds, Request
<1>4. mine.resources \subseteq m.resources /\ mine.machines \subseteq m.machines
  OBVIOUS
<1> QED BY <1>1, <1>2, <1>3, <1>4

\* A sweepable request whose deadline has passed is flipped by the sweep, so
\* the recovery sweep never has to force one to FAILED.
LEMMA ExpiredFlips ==
  ASSUME NEW r \in Request, NEW now \in Nat, r.status \in Sweepable, Expired(r, now)
  PROVE  EvaluateDeadline(r, now) # r
<1>1. DeadlineTarget(r) \in {"COMPLETED", "PARTIAL", "TIMEOUT"}
  BY DEF DeadlineTarget
<1>2. CanTransition(r.status, DeadlineTarget(r)) /\ DeadlineTarget(r) # r.status
  BY <1>1 DEF CanTransition, ValidTransitions, Sweepable
<1>3. EvaluateDeadline(r, now).status = DeadlineTarget(r)
  BY <1>2, AcquireAssumption DEF EvaluateDeadline, DeadlineApplies, Transition, Row
<1> QED BY <1>2, <1>3

\* A legal cancel leaves the request cancelled.
LEMMA CancelFacts ==
  ASSUME NEW r \in Request, NEW now \in Nat
  PROVE  Apply(r, Cancel, now).status = "CANCELLED"
BY DEF Apply, Swept, Cancel, ResolveTarget, MergeDiagnostic, Transition, Row

-----------------------------------------------------------------------------
(***************************************************************************)
(* The inductive invariant.                                                *)
(***************************************************************************)

\* What a process at a save established about the row when it read it.
Holds(l, r) ==
  /\ l.pc = "popSave" => r.status \notin Terminal /\ NeedsMachineIdPopulation(r)
  /\ l.pc = "stampSave" => r.status \notin Terminal /\ ~AwaitingResources(r)
  /\ l.pc \in {"updSave", "opSave"} => Legal(r, l.event, l.at)
  /\ l.pc \in {"sweepSave", "recSave"} => EvaluateDeadline(r, l.at) # r

SyncEvent(e) == CleanEvent(e) /\ e.event # "RESOURCES_CREATED"

\* Every process holds an event a sync or a command may apply.
EventsInv == \A p \in Procs : SyncEvent(loc[p].event)

\* Nobody touches a request before it is inserted.
NotStarted ==
  loc[Creator].pc = "create" =>
    row = NewRequest /\ \A p \in Procs \ {Creator} : loc[p].pc = "idle"

\* The create flow's copy is sound, is past PENDING whenever it is about to be
\* written, and at the final save carries every id of the result.
CreatorInv ==
  /\ Sound(mem)
  /\ loc[Creator].pc \in {"ckptRead", "ckptSave", "finalRead", "finalSave"} => mem.status # "PENDING"
  /\ loc[Creator].pc \in {"finalRead", "finalSave"} =>
       result.resources \subseteq mem.resources /\ RecordedMachineIds(result) \subseteq mem.machines
  /\ loc[Creator].pc \in {"create", "dispatch"} => result = FailedResult
  /\ loc[Creator].pc \in {"ckptRead", "ckptSave", "decide"} => (result.ok \/ result = FailedResult)

Inv ==
  /\ TypeOK
  /\ Sound(row)
  /\ EventsInv
  /\ NotStarted
  /\ CreatorInv
  /\ ReadStillHolds
  /\ CancelStands
  /\ LaunchedRecorded

\* What a step shows a client that watches the stored row.
ClientStep ==
  \/ row' = row /\ (Stored' <=> Stored)
  \/ row' = row /\ row = NewRequest /\ ~Stored /\ Stored'
  \/ Stored /\ Stored' /\ Succeeds(row', row)

\* ReadStillHolds in terms of Holds.
LEMMA HoldsEverywhere == ReadStillHolds <=> \A p \in Procs : loc[p].fresh => Holds(loc[p], row)
  BY DEF ReadStillHolds, Holds

\* The invariant holds initially.
LEMMA InitInv == Init => Inv
<1> SUFFICES ASSUME Init PROVE Inv
  OBVIOUS
<1>1. NewRequest \in Request /\ Sound(NewRequest)
  BY NewRequestFacts
<1>2. SyncEvent(NoEvent)
  BY EventFacts DEF SyncEvent
<1>3. \A p \in Procs : /\ loc[p] \in Local /\ loc[p].event = NoEvent /\ ~loc[p].fresh
                       /\ loc[p].pc = IF p = Creator THEN "create" ELSE "idle"
  BY <1>2 DEF Init, At, Locals, Local, Labels, SyncEvent, CleanEvent
<1>4. FailedResult \in Result
  BY DEF FailedResult, Result
<1>5. Creator \in Procs /\ loc[Creator].pc = "create"
  BY <1>3 DEF Procs
<1>6. TypeOK
  BY <1>1, <1>3, <1>4 DEF TypeOK, Init
<1>7. EventsInv /\ NotStarted /\ ReadStillHolds
  BY <1>2, <1>3 DEF EventsInv, NotStarted, ReadStillHolds, Init
<1>8. CreatorInv
  BY <1>1, <1>5 DEF CreatorInv, Init
<1>9. CancelStands /\ LaunchedRecorded
  BY <1>5 DEF CancelStands, LaunchedRecorded, Init
<1> QED BY <1>1, <1>6, <1>7, <1>8, <1>9 DEF Inv, Init

-----------------------------------------------------------------------------
(***************************************************************************)
(* Two step shapes cover everyone but the create flow.                     *)
(***************************************************************************)

\* A step that writes no row: p moves to l, which claims of the row only what
\* is true of it.
LEMMA MoveStep ==
  ASSUME Inv, NEW p \in Procs \ {Creator}, NEW l \in Local, Step(p, l),
         SyncEvent(l.event), l.fresh => Holds(l, row), Stored,
         clock' \in Nat, crashes' \in Nat, UNCHANGED <<row, mem, result, cancelled>>
  PROVE  Inv' /\ ClientStep
<1>1. /\ loc' \in [Procs -> Local] /\ loc'[p] = l
      /\ \A q \in Procs \ {p} : loc'[q] = loc[q]
  BY DEF Inv, TypeOK, Step
<1>2. Creator \in Procs /\ loc'[Creator] = loc[Creator]
  BY <1>1 DEF Procs
<1>3. TypeOK' /\ Sound(row)'
  BY <1>1 DEF Inv, TypeOK, Sound
<1>4. EventsInv'
  BY <1>1 DEF Inv, EventsInv
<1>5. NotStarted' /\ CreatorInv' /\ LaunchedRecorded' /\ CancelStands'
  BY <1>2 DEF Inv, NotStarted, CreatorInv, LaunchedRecorded, CancelStands, Stored, Sound
<1>6. ReadStillHolds'
  BY <1>1 DEF Inv, ReadStillHolds, Holds
<1> QED BY <1>2, <1>3, <1>4, <1>5, <1>6 DEF Inv, ClientStep, Stored

\* An accepted save by p of a sound row that keeps what clients rely on.
LEMMA WriteStep ==
  ASSUME Inv, NEW p \in Procs \ {Creator}, NEW r \in Request, NEW label \in Labels,
         Save(p, r, label), Sound(r), Succeeds(r, row), Stored,
         cancelled' \in BOOLEAN, cancelled' => cancelled \/ r.status = "CANCELLED",
         UNCHANGED <<clock, mem, result, crashes>>
  PROVE  Inv' /\ ClientStep
<1>1. \A q \in Procs : /\ loc'[q].fresh = FALSE /\ loc'[q].event = loc[q].event
                       /\ loc'[q] \in Local /\ (q # p => loc'[q].pc = loc[q].pc)
  BY DEF Inv, TypeOK, Save, Moved, Stale, Locals, Local
<1>2. loc' = [q \in Procs |-> loc'[q]]
  BY DEF Save
<1>3. Creator \in Procs /\ loc'[Creator].pc = loc[Creator].pc /\ row' = r
  BY <1>1 DEF Procs, Save
<1>4. loc' \in [Procs -> Local]
  BY <1>1, <1>2
<1>5. TypeOK' /\ Sound(row)'
  BY <1>3, <1>4 DEF Inv, TypeOK, Sound
<1>6. EventsInv' /\ ReadStillHolds'
  BY <1>1 DEF Inv, EventsInv, ReadStillHolds
<1>7. NotStarted' /\ CreatorInv'
  BY <1>3 DEF Inv, NotStarted, CreatorInv, Stored, Sound
<1>8. LaunchedRecorded' /\ CancelStands'
  BY <1>3 DEF Inv, LaunchedRecorded, CancelStands, Succeeds, Terminal
<1> QED BY <1>3, <1>5, <1>6, <1>7, <1>8 DEF Inv, ClientStep, Stored

\* A refused save: back to the read, or to the place that gives up.
LEMMA ConflictStep ==
  ASSUME Inv, NEW p \in Procs \ {Creator}, NEW retry \in Labels, NEW n \in Nat,
         NEW l \in Local, l.fresh = FALSE, SyncEvent(l.event), Conflict(p, retry, n, l), Stored,
         UNCHANGED <<clock, mem, result, cancelled, crashes>>
  PROVE  Inv' /\ ClientStep
<1> DEFINE again == Locals(retry, loc[p].tries + 1, FALSE, loc[p].at, loc[p].event, loc[p].found)
<1>1. again \in Local /\ again.fresh = FALSE /\ SyncEvent(again.event)
  BY DEF Inv, TypeOK, Local, Locals, EventsInv
<1>2. clock' \in Nat /\ crashes' \in Nat
  BY DEF Inv, TypeOK
<1>3. Step(p, again) \/ Step(p, l)
  BY DEF Conflict
<1>4. UNCHANGED <<row, mem, result, cancelled>>
  BY DEF Conflict
<1> HIDE DEF again
<1> QED BY <1>1, <1>2, <1>3, <1>4, MoveStep

\* The local states a process other than the create flow moves to.
LEMMA LocalFacts ==
  ASSUME Inv, NEW p \in Procs, NEW label \in Labels, NEW now \in Nat
  PROVE  /\ At(label) \in Local /\ At(label).fresh = FALSE /\ SyncEvent(At(label).event)
         /\ \A ids \in SUBSET Machines :
              /\ AtWithIds(label, ids) \in Local /\ AtWithIds(label, ids).fresh = FALSE
              /\ SyncEvent(AtWithIds(label, ids).event)
         /\ Moved(loc[p], label) \in Local /\ Moved(loc[p], label).fresh = FALSE
         /\ SyncEvent(Moved(loc[p], label).event)
         /\ LET l == Locals(label, loc[p].tries, TRUE, now, loc[p].event, loc[p].found)
            IN  l \in Local /\ SyncEvent(l.event) /\ l.pc = label /\ l.at = now /\ l.event = loc[p].event
<1>1. SyncEvent(NoEvent) /\ NoEvent \in Events
  BY EventFacts DEF SyncEvent, CleanEvent
<1>2. loc[p] \in Local /\ SyncEvent(loc[p].event)
  BY DEF Inv, TypeOK, EventsInv
<1>3. At(label) \in Local /\ At(label).fresh = FALSE /\ At(label).event = NoEvent
  BY <1>1 DEF At, Locals, Local
<1>4. \A ids \in SUBSET Machines :
        /\ AtWithIds(label, ids) \in Local /\ AtWithIds(label, ids).fresh = FALSE
        /\ AtWithIds(label, ids).event = NoEvent
  BY <1>1 DEF AtWithIds, Locals, Local
<1>5. /\ Moved(loc[p], label) \in Local /\ Moved(loc[p], label).fresh = FALSE
      /\ Moved(loc[p], label).event = loc[p].event
  BY <1>2 DEF Moved, Locals, Local
<1>6. LET l == Locals(label, loc[p].tries, TRUE, now, loc[p].event, loc[p].found)
      IN  l \in Local /\ l.pc = label /\ l.at = now /\ l.event = loc[p].event
  BY <1>2 DEF Locals, Local
<1> QED BY <1>1, <1>2, <1>3, <1>4, <1>5, <1>6

\* Any quiet move of a process other than the create flow.
LEMMA QuietStep ==
  ASSUME Inv, NEW p \in Procs \ {Creator}, NEW label \in Labels, Stored,
         \/ Goto(p, label)
         \/ Step(p, At(label))
         \/ \E e : SyncEvent(e) /\ Step(p, AtWithEvent(label, e))
         \/ \E ids \in SUBSET Machines : Step(p, AtWithIds(label, ids)),
         UNCHANGED <<row, clock, mem, result, cancelled, crashes>>
  PROVE  Inv' /\ ClientStep
<1>1. clock' \in Nat /\ crashes' \in Nat /\ 0 \in Nat
  BY DEF Inv, TypeOK
<1> DEFINE Quiet == \E l \in Local : Step(p, l) /\ l.fresh = FALSE /\ SyncEvent(l.event)
<1>2. ASSUME Goto(p, label) PROVE Quiet
  BY <1>1, <1>2, LocalFacts DEF Goto
<1>3. ASSUME Step(p, At(label)) PROVE Quiet
  BY <1>1, <1>3, LocalFacts
<1>4. ASSUME \E e : SyncEvent(e) /\ Step(p, AtWithEvent(label, e)) PROVE Quiet
  <2>1. PICK e : SyncEvent(e) /\ Step(p, AtWithEvent(label, e))
    BY <1>4
  <2>2. /\ AtWithEvent(label, e) \in Local /\ AtWithEvent(label, e).fresh = FALSE
        /\ AtWithEvent(label, e).event = e
    BY <2>1 DEF AtWithEvent, Locals, Local, SyncEvent, CleanEvent
  <2> QED BY <2>1, <2>2
<1>5. ASSUME \E ids \in SUBSET Machines : Step(p, AtWithIds(label, ids)) PROVE Quiet
  BY <1>1, <1>5, LocalFacts
<1>6. PICK l \in Local : Step(p, l) /\ l.fresh = FALSE /\ SyncEvent(l.event)
  BY <1>2, <1>3, <1>4, <1>5
<1> QED BY <1>1, <1>6, MoveStep

\* The read of a read-compute-save unit whose claim is true of the row.
LEMMA ReadStep ==
  ASSUME Inv, NEW p \in Procs \ {Creator}, NEW label \in Labels, NEW now \in Nat, Stored,
         Read(p, label, now),
         \A l \in Local : l.pc = label /\ l.at = now /\ l.event = loc[p].event => Holds(l, row),
         UNCHANGED <<row, clock, mem, result, cancelled, crashes>>
  PROVE  Inv' /\ ClientStep
<1> DEFINE l == Locals(label, loc[p].tries, TRUE, now, loc[p].event, loc[p].found)
<1>1. l \in Local /\ SyncEvent(l.event) /\ l.pc = label /\ l.at = now /\ l.event = loc[p].event
  BY DEF Inv, TypeOK, EventsInv, Locals, Local
<1>2. Step(p, l)
  BY DEF Read
<1>3. clock' \in Nat /\ crashes' \in Nat
  BY DEF Inv, TypeOK
<1> HIDE DEF l
<1> QED BY <1>1, <1>2, <1>3, MoveStep

\* A process past "idle" works on a stored request.
LEMMA BusyStored ==
  ASSUME Inv, NEW p \in Procs \ {Creator}, loc[p].pc # "idle"
  PROVE  Stored
BY DEF Inv, NotStarted, Stored

-----------------------------------------------------------------------------
(***************************************************************************)
(* The syncs, one step per action.                                         *)
(***************************************************************************)
\* Every step of a reconcile task, list view, sync command or status read keeps
\* the invariant.
LEMMA SyncInv ==
  ASSUME Inv, NEW p \in Procs \ {Creator}, SyncStep(p) \/ LightweightRead(p) \/ SyncCommand(p)
  PROVE  Inv' /\ ClientStep
<1>1. /\ row \in Request /\ Sound(row) /\ loc[p] \in Local /\ clock \in Nat
      /\ SyncEvent(loc[p].event) /\ loc[p].at \in Nat /\ loc[p].found \in SUBSET Machines
  BY DEF Inv, TypeOK, EventsInv, Local
<1>2. loc[p].fresh => Holds(loc[p], row)
  BY HoldsEverywhere DEF Inv
<1>3. /\ CapturedTime(p) \in Nat /\ SweepTime(p) \in Nat /\ 0 \in Nat
      /\ AfterSync(p) \in Labels /\ AfterStamp(p) \in Labels
  BY <1>1 DEF CapturedTime, SweepTime, AfterSync, AfterStamp, Labels
<1>4. /\ {"idle", "discover", "popRead", "popSave", "fetch", "stampRead", "stampSave", "updRead",
          "updSave", "sweepRead", "sweepSave"} \subseteq Labels
      /\ WriteAttempts \in Nat /\ SweepAttempts(p) \in Nat
  BY DEF Labels, WriteAttempts, SweepAttempts, PollAttempts
<1>5. \A label \in Labels : At(label) \in Local /\ At(label).fresh = FALSE /\ SyncEvent(At(label).event)
  BY <1>3, LocalFacts
<1>6. CASE SyncStart(p)
  <2>1. PICK label \in Labels : Goto(p, label)
    BY <1>4, <1>6 DEF SyncStart
  <2> QED BY <1>6, <2>1, QuietStep DEF SyncStart
<1>7. CASE LightweightRead(p)
  BY <1>4, <1>7, QuietStep DEF LightweightRead
<1>8. CASE SyncCommand(p)
  BY <1>4, <1>8, QuietStep DEF SyncCommand
<1>9. CASE \E ids \in SUBSET Machines : Discover(p, ids)
  <2>1. PICK ids \in SUBSET Machines : Discover(p, ids)
    BY <1>9
  <2>2. Stored
    BY <2>1, BusyStored DEF Discover
  <2>3. Goto(p, "fetch") \/ Step(p, AtWithIds("popRead", ids))
    BY <2>1 DEF Discover
  <2> QED BY <1>4, <2>1, <2>2, <2>3, QuietStep DEF Discover
<1>10. CASE PopulateRead(p)
  <2>1. Stored
    BY <1>10, BusyStored DEF PopulateRead
  <2>2. CASE Step(p, At("fetch"))
    BY <1>4, <1>10, <2>1, <2>2, QuietStep DEF PopulateRead
  <2>3. CASE ~Step(p, At("fetch"))
    <3>1. Read(p, "popSave", 0) /\ row.status \notin Terminal /\ NeedsMachineIdPopulation(row)
      BY <1>10, <2>3 DEF PopulateRead
    <3> QED BY <1>3, <1>4, <1>10, <2>1, <3>1, ReadStep DEF PopulateRead, Holds
  <2> QED BY <2>2, <2>3
<1>11. CASE PopulateSave(p)
  <2>1. Stored
    BY <1>11, BusyStored DEF PopulateSave
  <2>2. CASE Save(p, Populated(row, loc[p].found), "fetch")
    <3>1. row.machines = {}
      BY <1>2, <1>11, <2>2 DEF PopulateSave, Save, Holds, NeedsMachineIdPopulation
    <3>2. /\ Populated(row, loc[p].found) \in Request /\ Sound(Populated(row, loc[p].found))
          /\ Succeeds(Populated(row, loc[p].found), row)
      BY <1>1, <3>1 DEF Populated, Row, Request, Ids, Sound, Succeeds
    <3> QED BY <1>4, <1>11, <2>1, <2>2, <3>2, WriteStep DEF PopulateSave, Inv, TypeOK
  <2>3. CASE Conflict(p, "popRead", WriteAttempts, At("fetch"))
    BY <1>4, <1>5, <1>11, <2>1, <2>3, ConflictStep DEF PopulateSave
  <2> QED BY <1>11, <2>2, <2>3 DEF PopulateSave
<1>12. CASE \E v \in Answers : FetchAnswered(p, v)
  <2>1. PICK v \in Answers : FetchAnswered(p, v)
    BY <1>12
  <2>2. Stored
    BY <2>1, BusyStored DEF FetchAnswered
  <2>3. SyncEvent(v)
    BY <2>1, AnswersAssumption, EventFacts DEF SyncEvent
  <2> QED BY <1>4, <2>1, <2>2, <2>3, QuietStep DEF FetchAnswered
<1>13. CASE FetchEmpty(p)
  BY <1>4, <1>13, BusyStored, QuietStep DEF FetchEmpty
<1>14. CASE FetchFailed(p)
  BY <1>3, <1>14, BusyStored, QuietStep DEF FetchFailed, Finish
<1>15. CASE StampRead(p)
  <2>1. Stored
    BY <1>15, BusyStored DEF StampRead
  <2>2. CASE Goto(p, AfterStamp(p))
    BY <1>3, <1>15, <2>1, <2>2, QuietStep DEF StampRead
  <2>3. CASE ~Goto(p, AfterStamp(p))
    <3>1. Read(p, "stampSave", 0) /\ row.status \notin Terminal /\ ~AwaitingResources(row)
      BY <1>15, <2>3 DEF StampRead
    <3> QED BY <1>3, <1>4, <1>15, <2>1, <3>1, ReadStep DEF StampRead, Holds
  <2> QED BY <2>2, <2>3
<1>16. CASE StampSave(p)
  <2>1. Stored
    BY <1>16, BusyStored DEF StampSave
  <2>2. CASE Save(p, Stamped(row), AfterStamp(p))
    <3>1. Stamped(row) \in Request /\ Sound(Stamped(row)) /\ Succeeds(Stamped(row), row)
      BY <1>1 DEF Stamped, Row, Request, Sound, Succeeds
    <3> QED BY <1>3, <1>16, <2>1, <2>2, <3>1, WriteStep DEF StampSave, Inv, TypeOK
  <2>3. CASE Conflict(p, "stampRead", WriteAttempts, At("idle"))
    BY <1>4, <1>5, <1>16, <2>1, <2>3, ConflictStep DEF StampSave
  <2> QED BY <1>16, <2>2, <2>3 DEF StampSave
<1>17. CASE StampFails(p)
  BY <1>3, <1>17, BusyStored, QuietStep DEF StampFails
<1>18. CASE UpdateRead(p)
  <2>1. Stored
    BY <1>18, BusyStored DEF UpdateRead
  <2>2. CASE Step(p, At(AfterSync(p)))
    BY <1>3, <1>18, <2>1, <2>2, QuietStep DEF UpdateRead
  <2>3. CASE ~Step(p, At(AfterSync(p)))
    <3>1. Read(p, "updSave", CapturedTime(p)) /\ Legal(row, loc[p].event, CapturedTime(p))
      BY <1>18, <2>3 DEF UpdateRead, Finish
    <3> QED BY <1>3, <1>4, <1>18, <2>1, <3>1, ReadStep DEF UpdateRead, Holds
  <2> QED BY <2>2, <2>3
<1>19. CASE UpdateSave(p)
  <2> DEFINE r == BuildStatusUpdate(row, loc[p].event, loc[p].at)
  <2>1. Stored
    BY <1>19, BusyStored DEF UpdateSave
  <2>2. CASE Save(p, r, AfterSync(p))
    <3>1. Legal(row, loc[p].event, loc[p].at)
      BY <1>2, <1>19, <2>2 DEF UpdateSave, Save, Holds
    <3>2. r \in Request /\ Sound(r) /\ Succeeds(r, row)
      BY <1>1, <3>1, BuildFacts DEF SyncEvent
    <3> HIDE DEF r
    <3> QED BY <1>3, <1>19, <2>1, <2>2, <3>2, WriteStep DEF UpdateSave, Inv, TypeOK
  <2>3. CASE Conflict(p, "updRead", WriteAttempts, At("idle"))
    BY <1>4, <1>5, <1>19, <2>1, <2>3, ConflictStep DEF UpdateSave
  <2> QED BY <1>19, <2>2, <2>3 DEF UpdateSave
<1>20. CASE SweepRead(p)
  <2>1. Stored
    BY <1>20, BusyStored DEF SweepRead
  <2>2. CASE Step(p, At("idle"))
    BY <1>4, <1>20, <2>1, <2>2, QuietStep DEF SweepRead
  <2>3. CASE ~Step(p, At("idle"))
    <3>1. Read(p, "sweepSave", SweepTime(p)) /\ EvaluateDeadline(row, SweepTime(p)) # row
      BY <1>20, <2>3 DEF SweepRead, Finish
    <3> QED BY <1>3, <1>4, <1>20, <2>1, <3>1, ReadStep DEF SweepRead, Holds
  <2> QED BY <2>2, <2>3
<1>21. CASE SweepSave(p)
  <2>1. Stored
    BY <1>21, BusyStored DEF SweepSave
  <2>2. CASE Save(p, EvaluateDeadline(row, loc[p].at), "idle")
    BY <1>1, <1>4, <1>21, <2>1, <2>2, SweepFacts, WriteStep DEF SweepSave, Inv, TypeOK
  <2>3. CASE Conflict(p, "sweepRead", SweepAttempts(p), At("idle"))
    BY <1>4, <1>5, <1>21, <2>1, <2>3, ConflictStep DEF SweepSave
  <2> QED BY <1>21, <2>2, <2>3 DEF SweepSave
<1> QED
  BY <1>6, <1>7, <1>8, <1>9, <1>10, <1>11, <1>12, <1>13, <1>14, <1>15, <1>16, <1>17, <1>18, <1>19,
     <1>20, <1>21 DEF SyncStep

-----------------------------------------------------------------------------
(***************************************************************************)
(* Commands, recovery, crashes and time.                                   *)
(***************************************************************************)
\* Every step of cancel, complete and update-status keeps the invariant; a cancel
\* that was reported leaves the row CANCELLED.
LEMMA CommandInv ==
  ASSUME Inv, NEW p \in Procs \ {Creator}, CommandStep(p)
  PROVE  Inv' /\ ClientStep
<1>1. /\ row \in Request /\ Sound(row) /\ loc[p] \in Local /\ clock \in Nat
      /\ SyncEvent(loc[p].event) /\ loc[p].at \in Nat
  BY DEF Inv, TypeOK, EventsInv, Local
<1>2. "idle" \in Labels /\ "opRead" \in Labels /\ "opSave" \in Labels /\ CommandAttempts \in Nat
  BY BoundsAssumption DEF Labels
<1>3. CASE \E c \in OperatorCommands : CommandStart(p, c)
  <2>1. PICK c \in OperatorCommands : CommandStart(p, c)
    BY <1>3
  <2>2. SyncEvent(c)
    BY <2>1, CommandsAssumption, EventFacts DEF SyncEvent
  <2> QED BY <1>2, <2>1, <2>2, QuietStep DEF CommandStart
<1>4. CASE CommandRead(p)
  <2>1. Stored
    BY <1>4, BusyStored DEF CommandRead
  <2>2. CASE Step(p, At("idle"))
    BY <1>2, <1>4, <2>1, <2>2, QuietStep DEF CommandRead
  <2>3. CASE ~Step(p, At("idle"))
    <3>1. Read(p, "opSave", clock) /\ Legal(row, loc[p].event, clock)
      BY <1>4, <2>3 DEF CommandRead, Finish
    <3> QED BY <1>1, <1>2, <1>4, <2>1, <3>1, ReadStep DEF CommandRead, Holds
  <2> QED BY <2>2, <2>3
<1>5. CASE CommandSave(p)
  <2> DEFINE r == Apply(row, loc[p].event, loc[p].at)
  <2>1. Stored
    BY <1>5, BusyStored DEF CommandSave
  <2>2. CASE Save(p, r, "idle") /\ cancelled' = (cancelled \/ loc[p].event = Cancel)
    <3>1. Legal(row, loc[p].event, loc[p].at)
      BY <1>5, <2>2, HoldsEverywhere DEF CommandSave, Save, Holds, Inv
    <3>2. r \in Request /\ Sound(r) /\ Succeeds(r, row)
      BY <1>1, <3>1, ApplyFacts DEF SyncEvent
    <3>3. loc[p].event = Cancel => r.status = "CANCELLED"
      BY <1>1, CancelFacts
    <3>4. cancelled' \in BOOLEAN /\ (cancelled' => cancelled \/ r.status = "CANCELLED")
      BY <2>2, <3>3 DEF Inv, TypeOK
    <3> HIDE DEF r
    <3> QED BY <1>2, <1>5, <2>1, <2>2, <3>2, <3>4, WriteStep DEF CommandSave
  <2>3. CASE Conflict(p, "opRead", CommandAttempts, At("idle")) /\ UNCHANGED cancelled
    <3>1. At("idle") \in Local /\ At("idle").fresh = FALSE /\ SyncEvent(At("idle").event)
      BY <1>1, <1>2, LocalFacts
    <3> QED BY <1>2, <1>5, <2>1, <2>3, <3>1, ConflictStep DEF CommandSave
  <2> QED BY <1>5, <2>2, <2>3 DEF CommandSave
<1> QED BY <1>3, <1>4, <1>5 DEF CommandStep

\* The startup sweep keeps the invariant.
LEMMA RecoverInv ==
  ASSUME Inv, NEW p \in Procs \ {Creator}, RecoverStep(p)
  PROVE  Inv' /\ ClientStep
<1>1. row \in Request /\ Sound(row) /\ loc[p] \in Local /\ clock \in Nat /\ loc[p].at \in Nat
  BY DEF Inv, TypeOK, Local
<1>2. "idle" \in Labels /\ "recSave" \in Labels
  BY DEF Labels
<1>3. CASE RecoverRead(p)
  <2>1. EvaluateDeadline(row, clock) # row
    BY <1>1, <1>3, ExpiredFlips DEF RecoverRead
  <2> QED BY <1>1, <1>2, <1>3, <2>1, ReadStep DEF RecoverRead, Holds
<1>4. CASE RecoverSave(p)
  <2>1. Stored
    BY <1>4, BusyStored DEF RecoverSave
  <2>2. CASE Save(p, Recovered(row, loc[p].at), "idle")
    <3>1. Recovered(row, loc[p].at) = EvaluateDeadline(row, loc[p].at)
      BY <1>4, <2>2, HoldsEverywhere DEF RecoverSave, Save, Holds, Inv, Recovered
    <3> QED
      BY <1>1, <1>2, <1>4, <2>1, <2>2, <3>1, SweepFacts, WriteStep DEF RecoverSave, Inv, TypeOK
  <2>3. CASE Conflict(p, "idle", 1, At("idle"))
    <3>1. At("idle") \in Local /\ At("idle").fresh = FALSE /\ SyncEvent(At("idle").event)
      BY <1>1, <1>2, LocalFacts
    <3> QED BY <1>2, <1>4, <2>1, <2>3, <3>1, ConflictStep DEF RecoverSave
  <2> QED BY <1>4, <2>2, <2>3 DEF RecoverSave
<1> QED BY <1>3, <1>4 DEF RecoverStep

-----------------------------------------------------------------------------
(***************************************************************************)
(* The create flow.                                                        *)
(***************************************************************************)

\* A step of the create flow that writes no row.
LEMMA CreatorMove ==
  ASSUME Inv, NEW l \in Local, Step(Creator, l), l.event = loc[Creator].event \/ l.event = NoEvent,
         l.pc \notin {"create", "popSave", "stampSave", "updSave", "opSave", "sweepSave", "recSave"},
         clock' \in Nat, crashes' \in Nat, mem' \in Request, result' \in Result,
         UNCHANGED <<row, cancelled>>, CreatorInv', LaunchedRecorded'
  PROVE  Inv' /\ ClientStep
<1>1. Creator \in Procs /\ \A q \in Procs \ {Creator} : loc'[q] = loc[q]
  BY DEF Procs, Step, Inv, TypeOK
<1>2. loc' \in [Procs -> Local] /\ loc'[Creator] = l
  BY <1>1 DEF Step, Inv, TypeOK
<1>3. SyncEvent(NoEvent)
  BY EventFacts DEF SyncEvent
<1>4. TypeOK' /\ Sound(row)'
  BY <1>2 DEF Inv, TypeOK, Sound
<1>5. EventsInv'
  BY <1>1, <1>2, <1>3 DEF Inv, EventsInv
<1>6. NotStarted' /\ CancelStands'
  BY <1>2 DEF Inv, NotStarted, CancelStands
<1>7. ReadStillHolds'
  BY <1>1, <1>2 DEF Inv, ReadStillHolds
<1>8. ClientStep
  BY <1>2 DEF ClientStep, Stored, Inv, NotStarted
<1> QED BY <1>4, <1>5, <1>6, <1>7, <1>8 DEF Inv

\* A save of the create flow lays its copy over the row.
LEMMA CreatorSave ==
  ASSUME Inv, NEW label \in Labels \ {"create"}, Save(Creator, ApplyOntoStored(mem, row), label),
         loc[Creator].pc \in {"ckptSave", "finalSave"}, mem' \in Request,
         UNCHANGED <<clock, result, cancelled, crashes>>, CreatorInv', LaunchedRecorded'
  PROVE  Inv' /\ ClientStep
<1> DEFINE r == ApplyOntoStored(mem, row)
<1>1. Creator \in Procs /\ row' = r
  BY DEF Procs, Save
<1>2. r \in Request /\ Sound(r) /\ Succeeds(r, row)
  BY MergeFacts DEF Inv, TypeOK, CreatorInv
<1> HIDE DEF r
<1>3. \A q \in Procs : /\ loc'[q].fresh = FALSE /\ loc'[q].event = loc[q].event /\ loc'[q] \in Local
  BY DEF Inv, TypeOK, Save, Moved, Stale, Locals, Local
<1>4. loc' = [q \in Procs |-> loc'[q]] /\ loc'[Creator].pc = label
  BY <1>1 DEF Save, Moved, Locals
<1>5. TypeOK' /\ Sound(row)'
  BY <1>1, <1>2, <1>3, <1>4 DEF Inv, TypeOK, Sound
<1>6. EventsInv' /\ ReadStillHolds'
  BY <1>3 DEF Inv, EventsInv, ReadStillHolds
<1>7. NotStarted' /\ CancelStands'
  BY <1>1, <1>2, <1>4 DEF Inv, NotStarted, CancelStands, Succeeds, Terminal
<1>8. ClientStep
  BY <1>1, <1>2, <1>4 DEF ClientStep, Stored
<1> QED BY <1>5, <1>6, <1>7, <1>8 DEF Inv

\* Every step of the create flow keeps the invariant.
LEMMA CreateInv ==
  ASSUME Inv, CreateStep
  PROVE  Inv' /\ ClientStep
<1>1. /\ row \in Request /\ Sound(row) /\ mem \in Request /\ result \in Result /\ clock \in Nat
      /\ crashes \in Nat /\ Creator \in Procs /\ loc \in [Procs -> Local] /\ loc[Creator] \in Local
  BY DEF Inv, TypeOK, Procs
<1>2. {"dispatch", "ckptRead", "ckptSave", "decide", "finalRead", "finalSave", "done", "lost"}
        \subseteq Labels
  BY DEF Labels
<1>3. \A label \in Labels :
        /\ Moved(loc[Creator], label) \in Local /\ Moved(loc[Creator], label).pc = label
        /\ Moved(loc[Creator], label).event = loc[Creator].event
        /\ At(label) \in Local /\ At(label).pc = label /\ At(label).event = NoEvent
        /\ \A n \in Nat, b \in BOOLEAN, now \in Nat :
             LET l == Locals(label, n, b, now, loc[Creator].event, loc[Creator].found)
             IN  l \in Local /\ l.pc = label /\ l.event = loc[Creator].event
  BY <1>1, EventFacts DEF Moved, At, Locals, Local, CleanEvent
<1>4. \A l : Step(Creator, l) => loc'[Creator] = l
  BY <1>1 DEF Step
<1>5. NewRequest \in Request /\ Sound(NewRequest)
  BY NewRequestFacts
<1>6. CASE CreateRequest
  <2>1. Step(Creator, Moved(loc[Creator], "dispatch")) /\ UNCHANGED <<row, mem, result>>
    BY <1>6 DEF CreateRequest, Goto
  <2>2. loc'[Creator].pc = "dispatch"
    BY <1>2, <1>3, <1>4, <2>1
  <2>3. CreatorInv' /\ LaunchedRecorded'
    BY <1>6, <2>1, <2>2 DEF CreateRequest, CreatorInv, LaunchedRecorded, Inv, Sound
  <2> QED BY <1>1, <1>2, <1>3, <1>6, <2>1, <2>3, CreatorMove DEF CreateRequest
<1>7. CASE DryRun
  <2>1. Step(Creator, Moved(loc[Creator], "finalRead")) /\ UNCHANGED <<row, result>>
    BY <1>7 DEF DryRun, Goto
  <2>2. loc'[Creator].pc = "finalRead"
    BY <1>2, <1>3, <1>4, <2>1
  <2>3. mem' \in Request /\ Sound(mem') /\ mem'.status # "PENDING"
    BY <1>7 DEF DryRun, Row, Request, Status, Deadlines, Ids, Sound, Sweepable
  <2>4. result'.resources = {} /\ RecordedMachineIds(result') = {}
    BY <1>7, <2>1 DEF DryRun, Inv, CreatorInv, FailedResult, RecordedMachineIds
  <2>5. CreatorInv' /\ LaunchedRecorded'
    BY <2>2, <2>3, <2>4 DEF CreatorInv, LaunchedRecorded, Sound, RecordedMachineIds
  <2> QED BY <1>1, <1>2, <1>3, <1>7, <2>1, <2>3, <2>5, CreatorMove DEF DryRun
<1>8. CASE \E res \in Dispatches : Dispatch(res)
  <2>1. PICK res \in Dispatches : Dispatch(res)
    BY <1>8
  <2>5. FailedResult \in Result
    BY DEF FailedResult, Result
  <2>6. result' = res
    BY <2>1 DEF Dispatch
  <2>2. res \in Result /\ (res.ok \/ res = FailedResult) /\ result' = res
    BY <2>5, <2>6 DEF Dispatches
  <2>3. CASE res.resources # {}
    <3>1. Step(Creator, Moved(loc[Creator], "ckptRead")) /\ mem' = Checkpoint(res, clock)
      BY <2>1, <2>3 DEF Dispatch, Goto
    <3>2. loc'[Creator].pc = "ckptRead"
      BY <1>2, <1>3, <1>4, <3>1
    <3>3. mem' \in Request /\ Sound(mem') /\ mem'.status # "PENDING"
      BY <1>1, <2>2, <2>3, <3>1, CheckpointFacts
    <3>4. CreatorInv' /\ LaunchedRecorded'
      BY <2>2, <3>2, <3>3 DEF CreatorInv, LaunchedRecorded, Sound
    <3> QED BY <1>1, <1>2, <1>3, <2>1, <2>2, <3>1, <3>3, <3>4, CreatorMove DEF Dispatch
  <2>4. CASE res.resources = {}
    <3>1. Step(Creator, Moved(loc[Creator], "decide")) /\ mem' = mem
      BY <2>1, <2>4 DEF Dispatch, Goto
    <3>2. loc'[Creator].pc = "decide"
      BY <1>2, <1>3, <1>4, <3>1
    <3>3. CreatorInv' /\ LaunchedRecorded'
      BY <2>2, <3>1, <3>2 DEF CreatorInv, LaunchedRecorded, Sound, Inv
    <3> QED BY <1>1, <1>2, <1>3, <2>1, <2>2, <3>1, <3>3, CreatorMove DEF Dispatch
  <2> QED BY <2>3, <2>4
<1>9. CASE CheckpointRead
  <2> DEFINE l == Locals("ckptSave", loc[Creator].tries, TRUE, 0, loc[Creator].event, loc[Creator].found)
  <2>1. Step(Creator, l) /\ UNCHANGED <<row, mem, result>>
    BY <1>9 DEF CheckpointRead, Read
  <2>2. l \in Local /\ l.pc = "ckptSave" /\ l.event = loc[Creator].event
    BY <1>1, <1>2 DEF Locals, Local
  <2> HIDE DEF l
  <2>3. loc'[Creator] = l
    BY <1>4, <2>1
  <2>4. CreatorInv' /\ LaunchedRecorded'
    BY <1>9, <2>1, <2>2, <2>3 DEF CheckpointRead, CreatorInv, LaunchedRecorded, Inv, Sound
  <2> QED BY <1>1, <1>9, <2>1, <2>2, <2>4, CreatorMove DEF CheckpointRead
<1>10. CASE CheckpointSave
  <2>1. loc[Creator].pc = "ckptSave" /\ UNCHANGED <<clock, mem, result, cancelled, crashes>>
    BY <1>10 DEF CheckpointSave
  <2>2. CASE Save(Creator, ApplyOntoStored(mem, row), "decide")
    <3>1. loc'[Creator].pc = "decide"
      BY <1>1, <2>2 DEF Save, Moved, Locals
    <3>2. CreatorInv' /\ LaunchedRecorded'
      BY <2>1, <3>1 DEF CreatorInv, LaunchedRecorded, Inv, Sound
    <3> QED BY <1>1, <1>2, <2>1, <2>2, <3>2, CreatorSave
  <2>3. CASE Conflict(Creator, "ckptRead", WriteAttempts, At("decide"))
    <3> DEFINE l == Locals("ckptRead", loc[Creator].tries + 1, FALSE, loc[Creator].at,
                           loc[Creator].event, loc[Creator].found)
    <3>1. PICK k \in {l, At("decide")} : Step(Creator, k)
      BY <2>3 DEF Conflict
    <3>2. l \in Local /\ l.pc = "ckptRead" /\ l.event = loc[Creator].event
      BY <1>1, <1>2 DEF Locals, Local
    <3> HIDE DEF l
    <3>3. k \in Local /\ k.pc \in {"ckptRead", "decide"} /\ k.event \in {loc[Creator].event, NoEvent}
      BY <1>2, <1>3, <3>1, <3>2
    <3>4. loc'[Creator] = k /\ row' = row
      BY <1>4, <2>3, <3>1 DEF Conflict
    <3>5. CreatorInv' /\ LaunchedRecorded'
      BY <2>1, <3>3, <3>4 DEF CreatorInv, LaunchedRecorded, Inv, Sound
    <3> QED BY <1>1, <2>1, <3>1, <3>3, <3>4, <3>5, CreatorMove
  <2> QED BY <1>10, <2>2, <2>3 DEF CheckpointSave
<1>11. CASE CheckpointFails
  <2>1. Step(Creator, Moved(loc[Creator], "decide")) /\ UNCHANGED <<row, mem, result>>
    BY <1>11 DEF CheckpointFails, Goto
  <2>2. loc'[Creator].pc = "decide"
    BY <1>2, <1>3, <1>4, <2>1
  <2>3. CreatorInv' /\ LaunchedRecorded'
    BY <1>11, <2>1, <2>2 DEF CheckpointFails, CreatorInv, LaunchedRecorded, Inv, Sound
  <2> QED BY <1>1, <1>2, <1>3, <1>11, <2>1, <2>3, CreatorMove DEF CheckpointFails
<1>12. CASE Decide
  <2>1. Step(Creator, Moved(loc[Creator], "finalRead")) /\ mem' = FromProvisioning(result, clock)
    BY <1>12 DEF Decide, Goto
  <2>2. loc'[Creator].pc = "finalRead"
    BY <1>2, <1>3, <1>4, <2>1
  <2>3. /\ mem' \in Request /\ Sound(mem') /\ mem'.status # "PENDING"
        /\ result.resources \subseteq mem'.resources /\ RecordedMachineIds(result) \subseteq mem'.machines
    BY <1>1, <1>12, <2>1, ProvisioningFacts DEF Decide, Inv, CreatorInv
  <2>4. /\ result' \in Result /\ result'.resources = result.resources
        /\ RecordedMachineIds(result') = RecordedMachineIds(result)
    BY <1>1, <1>12 DEF Decide, Result, RecordedMachineIds
  <2>5. CreatorInv' /\ LaunchedRecorded'
    BY <2>2, <2>3, <2>4 DEF CreatorInv, LaunchedRecorded, Sound, RecordedMachineIds
  <2> QED BY <1>1, <1>2, <1>3, <1>12, <2>1, <2>3, <2>4, <2>5, CreatorMove DEF Decide
<1>13. CASE FinalRead
  <2> DEFINE l == Locals("finalSave", loc[Creator].tries, TRUE, 0, loc[Creator].event, loc[Creator].found)
  <2>1. Step(Creator, l) /\ UNCHANGED <<row, mem, result>>
    BY <1>13 DEF FinalRead, Read
  <2>2. l \in Local /\ l.pc = "finalSave" /\ l.event = loc[Creator].event
    BY <1>1, <1>2 DEF Locals, Local
  <2> HIDE DEF l
  <2>3. loc'[Creator] = l
    BY <1>4, <2>1
  <2>4. CreatorInv' /\ LaunchedRecorded'
    BY <1>13, <2>1, <2>2, <2>3 DEF FinalRead, CreatorInv, LaunchedRecorded, Inv, Sound
  <2> QED BY <1>1, <1>13, <2>1, <2>2, <2>4, CreatorMove DEF FinalRead
<1>14. CASE FinalSave
  <2>1. loc[Creator].pc = "finalSave" /\ UNCHANGED <<clock, result, cancelled, crashes>>
    BY <1>14 DEF FinalSave
  <2>2. mem' \in {mem, NewRequest} /\ (loc'[Creator].pc = "finalRead" => mem' = mem)
    BY <1>14 DEF FinalSave
  <2>3. mem' \in Request /\ Sound(mem')
    BY <1>1, <1>5, <2>2 DEF Inv, CreatorInv
  <2>4. CASE Save(Creator, ApplyOntoStored(mem, row), "done")
    <3>1. loc'[Creator].pc = "done" /\ row' = ApplyOntoStored(mem, row)
      BY <1>1, <2>4 DEF Save, Moved, Locals
    <3>2. mem.resources \subseteq row'.resources /\ mem.machines \subseteq row'.machines
      BY <1>1, <2>1, <3>1, MergeFacts DEF Inv, CreatorInv
    <3>3. CreatorInv' /\ LaunchedRecorded'
      BY <2>1, <2>3, <3>1, <3>2 DEF CreatorInv, LaunchedRecorded, Inv, Sound
    <3> QED BY <1>1, <1>2, <2>1, <2>3, <2>4, <3>3, CreatorSave
  <2>5. CASE Conflict(Creator, "finalRead", WriteAttempts, At("lost"))
    <3> DEFINE l == Locals("finalRead", loc[Creator].tries + 1, FALSE, loc[Creator].at,
                           loc[Creator].event, loc[Creator].found)
    <3>1. PICK k \in {l, At("lost")} : Step(Creator, k)
      BY <2>5 DEF Conflict
    <3>2. l \in Local /\ l.pc = "finalRead" /\ l.event = loc[Creator].event
      BY <1>1, <1>2 DEF Locals, Local
    <3> HIDE DEF l
    <3>3. k \in Local /\ k.pc \in {"finalRead", "lost"} /\ k.event \in {loc[Creator].event, NoEvent}
      BY <1>2, <1>3, <3>1, <3>2
    <3>4. loc'[Creator] = k /\ row' = row
      BY <1>4, <2>5, <3>1 DEF Conflict
    <3>5. CreatorInv' /\ LaunchedRecorded'
      BY <2>1, <2>2, <2>3, <3>3, <3>4 DEF CreatorInv, LaunchedRecorded, Inv, Sound
    <3> QED BY <1>1, <2>1, <2>3, <3>1, <3>3, <3>4, <3>5, CreatorMove
  <2> QED BY <1>14, <2>4, <2>5 DEF FinalSave
<1> QED
  BY <1>6, <1>7, <1>8, <1>9, <1>10, <1>11, <1>12, <1>13, <1>14 DEF CreateStep

-----------------------------------------------------------------------------
\* Crashes, time and stuttering keep the invariant.
LEMMA EnvironmentInv ==
  ASSUME Inv, (\E p \in Procs : Crash(p)) \/ Tick \/ UNCHANGED vars
  PROVE  Inv' /\ ClientStep
<1>1. CASE \E p \in Procs : Crash(p)
  <2>1. PICK p \in Procs : Crash(p)
    BY <1>1
  <2>2. /\ clock' \in Nat /\ crashes' \in Nat /\ mem' \in Request /\ result' \in Result
        /\ UNCHANGED <<row, mem, result, cancelled>>
    BY <2>1 DEF Crash, Inv, TypeOK
  <2>3. "idle" \in Labels /\ "dead" \in Labels /\ 0 \in Nat
    BY DEF Labels
  <2>4. CASE p # Creator
    <3>1. Step(p, At("idle")) /\ Stored
      BY <2>1, <2>4, BusyStored DEF Crash
    <3>2. At("idle") \in Local /\ At("idle").fresh = FALSE /\ SyncEvent(At("idle").event)
      BY <2>3, LocalFacts
    <3> QED BY <2>2, <2>4, <3>1, <3>2, MoveStep
  <2>5. CASE p = Creator
    <3>1. Step(Creator, At("dead")) /\ loc[Creator].pc \notin {"create", "done"}
      BY <2>1, <2>5 DEF Crash
    <3>2. At("dead") \in Local /\ At("dead").pc = "dead" /\ At("dead").event = NoEvent
      BY <2>3, EventFacts DEF At, Locals, Local, CleanEvent
    <3>3. loc'[Creator].pc = "dead"
      BY <2>5, <3>1, <3>2 DEF Step, Inv, TypeOK
    <3>4. CreatorInv' /\ LaunchedRecorded'
      BY <2>2, <3>3 DEF Inv, CreatorInv, LaunchedRecorded, Sound
    <3> QED BY <2>2, <3>1, <3>2, <3>4, CreatorMove
  <2> QED BY <2>4, <2>5
<1>2. CASE Tick \/ UNCHANGED vars
  <2>1. clock' \in Nat /\ UNCHANGED <<row, loc, mem, result, cancelled, crashes>>
    BY <1>2 DEF Tick, vars, Inv, TypeOK
  <2> QED
    BY <2>1 DEF Inv, TypeOK, Sound, EventsInv, NotStarted, CreatorInv, ReadStillHolds, CancelStands,
       LaunchedRecorded, ClientStep, Stored
<1> QED BY <1>1, <1>2

\* Every step keeps the invariant and looks to a client like a step of the contract.
LEMMA NextInv == Inv /\ [Next]_vars => Inv' /\ ClientStep
<1> SUFFICES ASSUME Inv, [Next]_vars PROVE Inv' /\ ClientStep
  OBVIOUS
<1>1. \A p \in Syncers \cup Operators \cup Recoverers : p \in Procs \ {Creator}
  BY ProcsDistinct DEF Procs
<1>2. CASE \E p \in Syncers : SyncStep(p)
  BY <1>1, <1>2, SyncInv
<1>3. CASE (\E p \in Pollers : LightweightRead(p)) \/ (\E p \in Listers : SyncCommand(p))
  BY <1>1, <1>3, SyncInv DEF Syncers
<1>4. CASE \E p \in Operators : CommandStep(p)
  BY <1>1, <1>4, CommandInv
<1>5. CASE \E p \in Recoverers : RecoverStep(p)
  BY <1>1, <1>5, RecoverInv
<1> QED BY <1>2, <1>3, <1>4, <1>5, CreateInv, EnvironmentInv DEF Next

-----------------------------------------------------------------------------
(***************************************************************************)
(* Who may step back.                                                      *)
(***************************************************************************)

\* The create flow never times a request out: its copy is still PENDING when
\* it applies its own event, and a pending request has no deadline to miss.
CopyInv == mem.status # "TIMEOUT"

\* Every step keeps it.
LEMMA NextCopy == Inv /\ CopyInv /\ [Next]_vars => CopyInv'
<1> SUFFICES ASSUME Inv, CopyInv, [Next]_vars PROVE CopyInv'
  OBVIOUS
<1>1. result \in Result /\ clock \in Nat /\ NewRequest.status = "PENDING"
  BY DEF Inv, TypeOK, NewRequest, Row
<1>2. CASE mem' \in {mem, NewRequest}
  BY <1>1, <1>2 DEF CopyInv
<1>3. CASE DryRun
  BY <1>3 DEF DryRun, Row, CopyInv
<1>4. CASE \E res \in Dispatches : Dispatch(res)
  <2>1. PICK res \in Dispatches : Dispatch(res)
    BY <1>4
  <2>5. FailedResult \in Result
    BY DEF FailedResult, Result
  <2>2. res \in Result
    BY <2>5 DEF Dispatches
  <2>3. CASE res.resources # {}
    BY <1>1, <2>1, <2>2, <2>3, CheckpointFacts DEF Dispatch, CopyInv
  <2> QED BY <1>2, <2>1, <2>3 DEF Dispatch
<1>5. CASE Decide
  <2>1. ~result.ok => result = FailedResult
    BY <1>5 DEF Decide, Inv, CreatorInv
  <2> QED BY <1>1, <1>5, <2>1, ProvisioningFacts DEF Decide, CopyInv
<1>6. ASSUME NEW p \in Syncers, SyncStep(p) \/ LightweightRead(p) \/ SyncCommand(p)
      PROVE  mem' = mem
  BY <1>6 DEF SyncStep, SyncStart, LightweightRead, SyncCommand, Discover, PopulateRead,
     PopulateSave, FetchAnswered, FetchEmpty, FetchFailed, StampRead, StampSave, StampFails,
     UpdateRead, UpdateSave, SweepRead, SweepSave
<1>7. ASSUME NEW p \in Procs, CommandStep(p) \/ RecoverStep(p) \/ Crash(p)
      PROVE  mem' = mem
  BY <1>7 DEF CommandStep, CommandStart, CommandRead, CommandSave, RecoverStep, RecoverRead,
     RecoverSave, Crash
<1>8. CASE CreateStep
  BY <1>2, <1>3, <1>4, <1>5, <1>8 DEF CreateStep, CreateRequest, CheckpointRead, CheckpointSave,
     CheckpointFails, FinalRead, FinalSave
<1>9. CASE Tick \/ UNCHANGED vars
  BY <1>2, <1>9 DEF Tick, vars
<1> QED BY <1>2, <1>6, <1>7, <1>8, <1>9 DEF Next, Syncers, Procs

\* A deadline sweep and a legal event move the status along the table.
LEMMA LegalMoves ==
  ASSUME NEW r, NEW e, NEW now
  PROVE  /\ CanTransition(r.status, EvaluateDeadline(r, now).status)
         /\ Legal(r, e, now) => CanTransition(r.status, Apply(r, e, now).status)
         /\ Legal(r, e, now) => CanTransition(r.status, BuildStatusUpdate(r, e, now).status)
<1>1. CanTransition(r.status, r.status)
  BY DEF CanTransition
<1>2. CanTransition(r.status, EvaluateDeadline(r, now).status)
  BY <1>1 DEF EvaluateDeadline, Transition, Row
<1>3. ASSUME Legal(r, e, now) PROVE CanTransition(r.status, Apply(r, e, now).status)
  <2>1. CASE Swept(r, e, now) # r
    BY <1>2, <2>1 DEF Apply, Swept
  <2>2. CASE Swept(r, e, now) = r
    BY <1>1, <1>3, <2>2 DEF Apply, Legal, Transition, MergeDiagnostic, Row
  <2> QED BY <2>1, <2>2
<1>4. BuildStatusUpdate(r, e, now).status = Apply(r, e, now).status
  BY DEF BuildStatusUpdate, Heal, Row
<1> QED BY <1>2, <1>3, <1>4

\* What a save of the create flow may do to the status of the row.
LEMMA CreatorMoves ==
  ASSUME NEW mine \in Request, NEW stored \in Request, mine.status \notin {"PENDING", "TIMEOUT"}
  PROVE  LET r == ApplyOntoStored(mine, stored)
         IN  \/ CanTransition(stored.status, r.status)
             \/ stored.status \notin Terminal /\ r.status \in {"ACQUIRING", "IN_PROGRESS"}
  BY DEF ApplyOntoStored, KeptOutcome, Row, Request, Status, Terminal, CanTransition,
     ValidTransitions

\* The steps that change the row.
LEMMA StepsBack ==
  ASSUME Inv, CopyInv, [Next]_vars, row' # row
  PROVE  \/ CanTransition(row.status, row'.status)
         \/ /\ loc[Creator].pc \in {"ckptSave", "finalSave"} /\ loc'[Creator] # loc[Creator]
            /\ row.status \notin Terminal /\ row'.status \in {"ACQUIRING", "IN_PROGRESS"}
<1> DEFINE Along == CanTransition(row.status, row'.status)
<1>1. \A p \in Procs : loc[p].fresh => Holds(loc[p], row)
  BY HoldsEverywhere DEF Inv
<1>2. Syncers \subseteq Procs /\ Operators \subseteq Procs /\ Recoverers \subseteq Procs
      /\ Creator \in Procs
  BY DEF Procs
<1>3. ASSUME NEW p \in Procs, PopulateSave(p) \/ StampSave(p) PROVE Along
  <2>1. row' = Populated(row, loc[p].found) \/ row' = Stamped(row)
    BY <1>3 DEF PopulateSave, StampSave, Save, Conflict
  <2>2. row'.status = row.status
    BY <2>1 DEF Populated, Stamped, Row
  <2> QED BY <2>2 DEF CanTransition
<1>4. ASSUME NEW p \in Procs, UpdateSave(p) PROVE Along
  <2>1. loc[p].fresh /\ row' = BuildStatusUpdate(row, loc[p].event, loc[p].at)
    BY <1>4 DEF UpdateSave, Save, Conflict
  <2>2. Legal(row, loc[p].event, loc[p].at)
    BY <1>1, <1>4, <2>1 DEF Holds, UpdateSave
  <2> QED BY <2>1, <2>2, LegalMoves
<1>5. ASSUME NEW p \in Procs, CommandSave(p) PROVE Along
  <2>1. loc[p].fresh /\ row' = Apply(row, loc[p].event, loc[p].at)
    BY <1>5 DEF CommandSave, Save, Conflict
  <2>2. Legal(row, loc[p].event, loc[p].at)
    BY <1>1, <1>5, <2>1 DEF Holds, CommandSave
  <2> QED BY <2>1, <2>2, LegalMoves
<1>6. ASSUME NEW p \in Procs, SweepSave(p) PROVE Along
  <2>1. row' = EvaluateDeadline(row, loc[p].at)
    BY <1>6 DEF SweepSave, Save, Conflict
  <2> QED BY <2>1, LegalMoves
<1>7. ASSUME NEW p \in Procs, RecoverSave(p) PROVE Along
  <2>1. loc[p].fresh /\ row' = Recovered(row, loc[p].at)
    BY <1>7 DEF RecoverSave, Save, Conflict
  <2>2. EvaluateDeadline(row, loc[p].at) # row
    BY <1>1, <1>7, <2>1 DEF Holds, RecoverSave
  <2>3. row' = EvaluateDeadline(row, loc[p].at)
    BY <2>1, <2>2 DEF Recovered
  <2> QED BY <2>3, LegalMoves
<1>8. CASE CheckpointSave \/ FinalSave
  <2>1. /\ loc[Creator].pc \in {"ckptSave", "finalSave"} /\ row' = ApplyOntoStored(mem, row)
        /\ loc'[Creator].pc \in {"decide", "done"}
    BY <1>2, <1>8 DEF CheckpointSave, FinalSave, Save, Conflict, Moved, Locals
  <2>2. mem \in Request /\ row \in Request /\ mem.status \notin {"PENDING", "TIMEOUT"}
    BY <2>1 DEF Inv, TypeOK, CreatorInv, CopyInv
  <2> QED BY <2>1, <2>2, CreatorMoves
<1>9. ASSUME NEW p \in Procs, SyncStep(p) \/ LightweightRead(p) \/ SyncCommand(p) PROVE Along
  BY <1>3, <1>4, <1>6, <1>9 DEF SyncStep, SyncStart, LightweightRead, SyncCommand, Discover,
     PopulateRead, FetchAnswered, FetchEmpty, FetchFailed, StampRead, StampFails, UpdateRead,
     SweepRead
<1>10. ASSUME NEW p \in Procs, CommandStep(p) \/ RecoverStep(p) \/ Crash(p) PROVE Along
  BY <1>5, <1>7, <1>10 DEF CommandStep, CommandStart, CommandRead, RecoverStep, RecoverRead, Crash
<1>11. ASSUME CreateStep PROVE CheckpointSave \/ FinalSave
  BY <1>11 DEF CreateStep, CreateRequest, DryRun, Dispatch, CheckpointRead, CheckpointFails,
     Decide, FinalRead
<1>12. ~Tick /\ ~UNCHANGED vars
  BY DEF Tick, vars
<1> HIDE DEF Along
<1>13. Along \/ CreateStep
  BY <1>2, <1>9, <1>10, <1>12 DEF Next, Syncers
<1> QED BY <1>8, <1>11, <1>13 DEF Along

-----------------------------------------------------------------------------
(***************************************************************************)
(* The theorems.                                                           *)
(***************************************************************************)

\* The inductive invariant holds of every reachable state.
THEOREM Invariance == Spec => []Inv
<1>1. Init => Inv
  BY InitInv
<1>2. Inv /\ [Next]_vars => Inv'
  BY NextInv
<1> QED BY <1>1, <1>2, PTL DEF Spec

\* Type correctness of every writer.
THEOREM TypeCorrect == Spec => []TypeOK
<1>1. Inv => TypeOK
  BY DEF Inv
<1> QED BY <1>1, Invariance, PTL

\* A request in a status the deadline governs always has a deadline.
THEOREM DeadlinesSet == Spec => []ActiveHasDeadline
<1>1. Inv => ActiveHasDeadline
  BY DEF Inv, Sound, ActiveHasDeadline
<1> QED BY <1>1, Invariance, PTL

\* A request nothing has been recorded for has no deadline: the sweeps that
\* are meant to end it when its create flow died cannot.
THEOREM SweepsCannotEndAwaiting == Spec => []AwaitingHasNoDeadline
<1>1. Inv => AwaitingHasNoDeadline
  BY DEF Inv, Sound, AwaitingHasNoDeadline, AwaitingResources
<1> QED BY <1>1, Invariance, PTL

\* A completed request carries no shortfall diagnostic.
THEOREM SuccessIsClean == Spec => []CompletedIsClean
<1>1. Inv => CompletedIsClean
  BY DEF Inv, Sound, CompletedIsClean
<1> QED BY <1>1, Invariance, PTL

\* What a writer judged at its read is still so when its save is accepted.
THEOREM SavesAreCurrent == Spec => []ReadStillHolds
<1>1. Inv => ReadStillHolds
  BY DEF Inv
<1> QED BY <1>1, Invariance, PTL

\* An acknowledged cancel is never undone.
THEOREM CancelIsFinal == Spec => []CancelStands
<1>1. Inv => CancelStands
  BY DEF Inv
<1> QED BY <1>1, Invariance, PTL

\* A create flow that ended normally has recorded all it launched.
THEOREM NothingLaunchedIsForgotten == Spec => []LaunchedRecorded
<1>1. Inv => LaunchedRecorded
  BY DEF Inv
<1> QED BY <1>1, Invariance, PTL

\* The stored request implements RequestContract under the mapping of
\* RequestLifecycle, whoever writes it and in whatever order.
THEOREM Refinement == Spec => ContractKept
<1>1. Init => Contract!Init
  BY DEF Init, Contract!Init, Stored, NewRequest, Row, At, Locals, Procs
<1>2. Inv /\ Inv' /\ ClientStep => [Contract!Next]_Contract!cvars
  <2> SUFFICES ASSUME Inv, Inv', ClientStep PROVE [Contract!Next]_Contract!cvars
    OBVIOUS
  <2> USE DEF Contract!Next, Contract!Open, Contract!Record, Contract!Settle, Contract!Upgrade,
              Contract!Keeps, Contract!cvars
  <2>1. CASE row' = row /\ (Stored' <=> Stored)
    BY <2>1
  <2>2. CASE row' = row /\ row = NewRequest /\ ~Stored /\ Stored'
    BY <2>2 DEF NewRequest, Row, Terminal
  <2>3. CASE Stored /\ Stored' /\ Succeeds(row', row)
    BY <2>3 DEF Succeeds, Terminal
  <2> QED BY <2>1, <2>2, <2>3 DEF ClientStep
<1>3. Inv /\ Inv' /\ [Next]_vars => [Contract!Next]_Contract!cvars
  BY <1>2, NextInv
<1> QED BY <1>1, <1>3, Invariance, PTL DEF Spec, ContractKept, Contract!Spec

\* Every change of the stored status follows the transition table, except that
\* the create flow's saves may take an open row back to ACQUIRING or IN_PROGRESS.
THEOREM CreatorAloneStepsBack == Spec => OnlyCreatorStepsBack
<1>1. Init => CopyInv
  BY DEF Init, CopyInv, NewRequest, Row
<1>2. Inv /\ CopyInv /\ [Next]_vars => CopyInv'
  BY NextCopy
<1>3. Inv /\ CopyInv /\ [Next]_vars =>
        [\/ CanTransition(row.status, row'.status)
         \/ /\ loc[Creator].pc \in {"ckptSave", "finalSave"} /\ loc'[Creator] # loc[Creator]
            /\ row.status \notin Terminal /\ row'.status \in {"ACQUIRING", "IN_PROGRESS"}]_row
  BY StepsBack
<1> QED BY <1>1, <1>2, <1>3, Invariance, PTL DEF Spec, OnlyCreatorStepsBack
=============================================================================
