----------------------------- MODULE ReturnFlow -----------------------------
(***************************************************************************)
(* Return requests: CreateReturnRequestHandler, the claims                 *)
(* (return_request_id) it puts on machines, the deprovisioning result it   *)
(* acts on, and the syncs that watch the return meanwhile.                 *)
(*                                                                         *)
(* A return stands for one provider group of one command; its request id   *)
(* is its name.  Several returns run at once, from several API calls.      *)
(* Both storages are modelled.  A JSON unit of work writes requests.json   *)
(* and then machines.json under a lock that readers do not take; a SQL     *)
(* unit of work commits every save by itself.                              *)
(*                                                                         *)
(* A read and the version-checked save that follows it are one step: the   *)
(* save is refused if the row changed in between, so an accepted save is   *)
(* one whose read might as well have happened last.                        *)
(***************************************************************************)
EXTENDS Integers, FiniteSets

CONSTANTS
  Returns,      \* return requests
  Machines,     \* machines on record
  Gaps,         \* sets of machines that may lack a resource id
  Asked,        \* the machine ids and the force flag a command may carry
  Pollers,      \* status syncs: reconcile tasks, list views, reads
  Watched,      \* the returns they are about
  None,         \* return_request_id is None
  Breakdowns,   \* the machines that may stop or fail by themselves
  Overlooked,   \* the machines an answer may leave out although they live
  Commanded     \* the statuses operators set by hand

ASSUME NoneAssumption == None \notin Returns
ASSUME WatchedAssumption == Watched \subseteq Returns
ASSUME GapsAssumption == Gaps \subseteq SUBSET Machines
ASSUME AskedAssumption == Asked \in [Returns -> SUBSET ((SUBSET Machines) \X BOOLEAN)]
ASSUME MachinesFinite == IsFiniteSet(Machines)
ASSUME BreakdownsAssumption == Breakdowns \subseteq Machines \X {"stopped", "failed"}
ASSUME CommandedAssumption ==
  Commanded \subseteq {"IN_PROGRESS", "COMPLETED", "PARTIAL", "FAILED", "CANCELLED"}

VARIABLES
  storage,   \* "json" or "sql", fixed at startup
  noContext, \* machines without a resource id: group_by_resource skips them
  status,    \* status of each stored return, "absent" before it is stored
  claim,     \* return_request_id of each machine
  recorded,  \* stored status of each machine
  cloud,     \* what the provider holds
  pc,        \* where each return's handler is
  forced,    \* force_return of each return
  wanted,    \* machine_ids of each return
  todo,      \* machines the handler's current loop still has to visit
  okd,       \* successful_instance_ids of the deprovisioning result
  writer,    \* the return whose JSON commit is between its two files
  image,     \* statuses that commit would restore
  poll       \* each status sync

vars == <<storage, noContext, status, claim, recorded, cloud, pc, forced, wanted, todo, okd,
          writer, image, poll>>

\* Machine statuses as the provider reports them and the machine row stores
\* them; "terminated" stands for purged machines too.
MachineStatus == {"running", "stopped", "failed", "shutting-down", "terminated"}

Status == {"absent", "PENDING", "IN_PROGRESS", "COMPLETED", "PARTIAL", "FAILED", "CANCELLED"}
Terminal == {"COMPLETED", "PARTIAL", "FAILED", "CANCELLED"}

\* "done", "failed" and "failedLeaky" (its release went wrong) are the ends a
\* handler reaches; "lost" is a handler that raised or died.
Ended == {"done", "failed", "failedLeaky", "lost"}
PCs == {"idle", "persist", "machines", "claiming", "start", "dispatch", "mark", "drop",
        "settle", "release", "fail", "failLeaky"} \cup Ended

\* RequestStatus.can_transition_to between the statuses a return reaches.
CanTransition(from, to) ==
  \/ to = from
  \/ from = "PENDING" /\ to # "absent"
  \/ from = "IN_PROGRESS" /\ to \in Terminal
  \/ from = "PARTIAL" /\ to = "COMPLETED"

Idle == [for |-> None, verdict |-> "IN_PROGRESS"]

Init ==
  /\ storage \in {"json", "sql"}
  /\ noContext \in Gaps
  /\ status = [r \in Returns |-> "absent"]
  /\ claim = [m \in Machines |-> None]
  /\ recorded = [m \in Machines |-> "running"]
  /\ cloud = [m \in Machines |-> "running"]
  /\ pc = [r \in Returns |-> "idle"]
  /\ forced = [r \in Returns |-> FALSE]
  /\ wanted = [r \in Returns |-> {}]
  /\ todo = [r \in Returns |-> {}]
  /\ okd = [r \in Returns |-> {}]
  /\ writer = None
  /\ image = status
  /\ poll = [p \in Pollers |-> Idle]

request == <<status, image, writer>>
machine == <<claim, recorded>>
command == <<forced, wanted>>
setting == <<storage, noContext>>
outside == <<setting, poll>>

\* Mutant: status writes do not take the lock.
LockIgnored == TRUE

\* Every write waits for a JSON commit under way.
Unlocked == writer = None

Goto(r, label) == pc' = [pc EXCEPT ![r] = label]

\* The handler is gone and its locals with it.
Abandon(r) ==
  /\ Goto(r, "lost")
  /\ forced' = [forced EXCEPT ![r] = FALSE]
  /\ todo' = [todo EXCEPT ![r] = {}]
  /\ okd' = [okd EXCEPT ![r] = {}]

-----------------------------------------------------------------------------
(***************************************************************************)
(* validate_command and _filter_machines: what is claimed already is left  *)
(* out unless the return is forced.                                        *)
(***************************************************************************)
Submit(r, W, f) ==
  /\ pc[r] = "idle"
  /\ LET valid == {m \in W : claim[m] = None \/ f}
     IN  /\ valid # {}
         /\ wanted' = [wanted EXCEPT ![r] = valid]
         /\ todo' = [todo EXCEPT ![r] = IF f THEN valid ELSE {}]
  /\ forced' = [forced EXCEPT ![r] = f]
  /\ Goto(r, "persist")
  /\ UNCHANGED <<request, machine, cloud, okd, outside>>

\* Mutant: any stored return can be cancelled.
CancellableStored(s) == s # "absent"

\* Request.cancel refuses these; the caller logs the refusal and goes on.
Cancellable(s) == s \notin {"absent", "COMPLETED", "FAILED", "CANCELLED"}

\* The stuck returns a forced return supersedes, cancelled where possible.
Superseded(r, ms) ==
  [q \in Returns |-> IF forced[r] /\ (\E m \in ms : claim[m] = q) /\ Cancellable(status[q])
                     THEN "CANCELLED" ELSE status[q]]

\* Mutant: machines.json goes first.
JsonCommitClaimsFirst(r) ==
  /\ storage = "json" /\ pc[r] = "persist" /\ Unlocked
  /\ claim' = [m \in Machines |-> IF m \in wanted[r] THEN r ELSE claim[m]]
  /\ image' = status
  /\ writer' = r
  /\ Goto(r, "machines")
  /\ UNCHANGED <<status, recorded, cloud, command, todo, okd, outside>>

(***************************************************************************)
(* _cancel_validate_and_persist on JSON storage.  The claims are not       *)
(* looked at again unless the return is forced.  requests.json goes first. *)
(***************************************************************************)
JsonCommitRequests(r) ==
  /\ storage = "json" /\ pc[r] = "persist" /\ Unlocked
  /\ status' = [Superseded(r, wanted[r]) EXCEPT ![r] = "PENDING"]
  /\ image' = status
  /\ writer' = r
  /\ Goto(r, "machines")
  /\ UNCHANGED <<machine, cloud, command, todo, okd, outside>>

JsonCommitMachines(r) ==
  /\ pc[r] = "machines"
  /\ claim' = [m \in Machines |-> IF m \in wanted[r] THEN r ELSE claim[m]]
  /\ todo' = [todo EXCEPT ![r] = {}]
  /\ writer' = None
  /\ image' = status
  /\ Goto(r, "start")
  /\ UNCHANGED <<status, recorded, cloud, command, okd, outside>>

\* The second write fails: the first file is put back, if that works.
JsonRestore(r) ==
  /\ pc[r] = "machines"
  /\ status' \in {image, status}
  /\ image' = status'
  /\ writer' = None
  /\ Abandon(r)
  /\ UNCHANGED <<machine, cloud, wanted, outside>>

(***************************************************************************)
(* The same unit of work on SQL storage, one committed save at a time.     *)
(***************************************************************************)
\* A cancel that cannot be saved is logged and the claim is cleared all the same.
SqlSupersede(r, m) ==
  /\ storage = "sql" /\ pc[r] = "persist" /\ m \in todo[r]
  /\ status' \in {status, Superseded(r, {m})}
  /\ image' = status'
  /\ \/ /\ claim' = [claim EXCEPT ![m] = None]
        /\ todo' = [todo EXCEPT ![r] = @ \ {m}]
        /\ UNCHANGED <<pc, forced, okd>>
     \/ Abandon(r) /\ UNCHANGED claim
  /\ UNCHANGED <<recorded, cloud, wanted, writer, outside>>

SqlInsert(r) ==
  /\ storage = "sql" /\ pc[r] = "persist" /\ todo[r] = {}
  /\ status' = [status EXCEPT ![r] = "PENDING"]
  /\ image' = status'
  /\ todo' = [todo EXCEPT ![r] = wanted[r]]
  /\ Goto(r, "claiming")
  /\ UNCHANGED <<machine, cloud, command, okd, writer, outside>>

SqlClaim(r, m) ==
  /\ pc[r] = "claiming" /\ m \in todo[r]
  /\ claim' = [claim EXCEPT ![m] = r]
  /\ todo' = [todo EXCEPT ![r] = @ \ {m}]
  /\ Goto(r, IF todo[r] = {m} THEN "start" ELSE "claiming")
  /\ UNCHANGED <<request, recorded, cloud, command, okd, outside>>

\* A version conflict or a storage error ends the command; what SQL saved
\* stays.  So does a failure to persist a later provider group of the same
\* command: this group is stored and claimed, and never dispatched.
CreateFails(r) ==
  /\ pc[r] \in {"persist", "claiming", "start"}
  /\ Abandon(r)
  /\ UNCHANGED <<request, machine, cloud, wanted, outside>>

-----------------------------------------------------------------------------
\* A status command: a transition the table refuses raises, as may storage.
Write(r, s) ==
  /\ Unlocked
  /\ CanTransition(status[r], s)
  /\ status' = [status EXCEPT ![r] = s]
  /\ image' = status'
  /\ UNCHANGED writer

\* _update_request_to_in_progress: an error is logged and nothing more.
Start(r) ==
  /\ pc[r] = "start"
  /\ Write(r, "IN_PROGRESS") \/ UNCHANGED request
  /\ Goto(r, "dispatch")
  /\ forced' = [forced EXCEPT ![r] = FALSE]
  /\ UNCHANGED <<machine, cloud, wanted, todo, okd, outside>>

Dispatched(r) == wanted[r] \ noContext

(***************************************************************************)
(* _reconcile_ids: the requested ids that count as terminated, given the   *)
(* lists of a failed provider answer (None where it sent no list; ids      *)
(* nobody asked for are ignored).  The other requested ids count as        *)
(* failed.                                                                 *)
(***************************************************************************)
ReconcileIds(requested, reportedOk, reportedFailed) ==
  LET failed == IF reportedFailed = None THEN {} ELSE reportedFailed \cap requested
      ok == IF reportedOk # None THEN reportedOk \cap requested
            ELSE IF failed # {} THEN requested \ failed
            ELSE {}
  IN  ok \ failed

Reports == {None} \cup SUBSET Machines

\* _process_resource_group on a failed answer: the machines counted as
\* terminated.  An answer that names no failed machine is no evidence at all.
Accepted(requested, ok, failed) ==
  IF ReconcileIds(requested, ok, failed) = requested THEN {} ELSE ReconcileIds(requested, ok, failed)

\* What may count as terminated after any failed answer.
AcceptedSets(requested) ==
  {Accepted(requested, ok, failed) : ok \in Reports, failed \in Reports}

\* What the provider does to the machines it acts on.
Terminated(ms) ==
  [m \in Machines |-> IF m \in ms /\ cloud[m] # "terminated" THEN "shutting-down" ELSE cloud[m]]

(***************************************************************************)
(* group_by_resource and execute_deprovisioning.  Success includes having  *)
(* had nothing to dispatch.  A provider that reports failure may still     *)
(* have acted on machines it did not list.                                 *)
(***************************************************************************)
DispatchAccepted(r) ==
  /\ pc[r] = "dispatch"
  /\ cloud' = Terminated(Dispatched(r))
  /\ okd' = [okd EXCEPT ![r] = Dispatched(r)]
  /\ Goto(r, "mark")
  /\ UNCHANGED <<request, machine, command, todo, outside>>

DispatchRefused(r) ==
  /\ pc[r] = "dispatch"
  /\ Dispatched(r) # {}
  /\ \E accepted \in AcceptedSets(Dispatched(r)) :
       /\ \E more \in SUBSET (Dispatched(r) \ accepted) : cloud' = Terminated(accepted \cup more)
       /\ okd' = [okd EXCEPT ![r] = accepted]
       /\ todo' = [todo EXCEPT ![r] = IF accepted = {} THEN Dispatched(r) ELSE {}]
       /\ Goto(r, IF accepted = {} THEN "release" ELSE "mark")
  /\ UNCHANGED <<request, machine, command, outside>>

\* An exception of the grouping or of the orchestrator itself.
DispatchFails(r) ==
  /\ pc[r] = "dispatch"
  /\ \E hit \in SUBSET Dispatched(r) : cloud' = Terminated(hit)
  /\ todo' = [todo EXCEPT ![r] = wanted[r]]
  /\ Goto(r, "release")
  /\ UNCHANGED <<request, machine, command, okd, outside>>

-----------------------------------------------------------------------------
(***************************************************************************)
(* What the handler does with the result.  A unit of work over several     *)
(* machines that fails leaves nothing behind on JSON and any part of it on *)
(* SQL; the failure ends in the handler's except branch, which releases    *)
(* every machine.                                                          *)
(***************************************************************************)
Partly(ms) == IF storage = "json" THEN {{}} ELSE SUBSET ms

AllAccepted(r) == okd[r] = Dispatched(r)

\* Skipped machines are marked with the others when the rest succeeded.
Marked(r) == IF AllAccepted(r) THEN wanted[r] ELSE okd[r]

\* _update_machines_to_pending
Record(ms) == recorded' = [m \in Machines |-> IF m \in ms THEN "shutting-down" ELSE recorded[m]]

Except(r) ==
  /\ Goto(r, "release")
  /\ todo' = [todo EXCEPT ![r] = wanted[r]]
  /\ okd' = [okd EXCEPT ![r] = {}]

Mark(r) ==
  /\ pc[r] = "mark" /\ Unlocked
  /\ \/ /\ Record(Marked(r))
        /\ Goto(r, IF AllAccepted(r) THEN "settle" ELSE "drop")
        /\ UNCHANGED <<todo, okd>>
     \/ /\ \E part \in Partly(Marked(r)) : Record(part)
        /\ Except(r)
  /\ UNCHANGED <<request, claim, cloud, command, outside>>

\* Mutant: whoever holds the machine loses it.
ReleasedAnyones(r, ms) == [m \in Machines |-> IF m \in ms THEN None ELSE claim[m]]

\* _clear_return_request_id: only machines this return still holds.
Released(r, ms) ==
  [m \in Machines |-> IF m \in ms /\ claim[m] = r THEN None ELSE claim[m]]

\* Mutant: only the skipped machines are let go.
UnterminatedSkipped(r) == wanted[r] \cap noContext

\* failed_ids and skipped_ids of a partial result.
Unterminated(r) == wanted[r] \ okd[r]

Drop(r) ==
  /\ pc[r] = "drop" /\ Unlocked
  /\ \/ /\ claim' = Released(r, Unterminated(r))
        /\ Goto(r, "settle")
        /\ UNCHANGED <<todo, okd>>
     \/ /\ \E part \in Partly(Unterminated(r)) : claim' = Released(r, part)
        /\ Except(r)
  /\ UNCHANGED <<request, recorded, cloud, command, outside>>

\* The status an accepted or partly accepted return is given.
SettledStatus(r) ==
  IF AllAccepted(r) /\ Dispatched(r) = wanted[r] THEN "IN_PROGRESS" ELSE "PARTIAL"

Settle(r) ==
  /\ pc[r] = "settle"
  /\ \/ /\ Write(r, SettledStatus(r))
        /\ Goto(r, "done")
        /\ UNCHANGED <<todo, okd>>
     \/ /\ Except(r)
        /\ UNCHANGED request
  /\ UNCHANGED <<machine, cloud, command, outside>>

\* _release_machines_after_failure: its own failure is logged and nothing more.
Release(r) ==
  /\ pc[r] = "release" /\ Unlocked
  /\ \/ /\ claim' = Released(r, todo[r])
        /\ Goto(r, "fail")
     \/ /\ \E part \in Partly(todo[r]) : claim' = Released(r, part)
        /\ Goto(r, "failLeaky")
  /\ todo' = [todo EXCEPT ![r] = {}]
  /\ UNCHANGED <<request, recorded, cloud, command, okd, outside>>

\* _update_request_to_failed: the status is forced where the command is
\* refused; if that fails too, the caller is told that nothing was recorded.
Fail(r) ==
  /\ pc[r] \in {"fail", "failLeaky"} /\ Unlocked
  /\ \/ /\ status' = [status EXCEPT ![r] = "FAILED"]
        /\ image' = status'
        /\ Goto(r, IF pc[r] = "fail" THEN "failed" ELSE "failedLeaky")
        /\ UNCHANGED <<forced, todo, okd>>
     \/ Abandon(r) /\ UNCHANGED <<status, image>>
  /\ UNCHANGED <<machine, cloud, wanted, writer, outside>>

\* The process dies, or the call is cut off.  A lock dies with its holder.
Crash(r) ==
  /\ pc[r] \notin {"idle"} \cup Ended
  /\ Abandon(r)
  /\ writer' = IF writer = r THEN None ELSE writer
  /\ image' = IF writer = r THEN status ELSE image
  /\ UNCHANGED <<status, machine, cloud, wanted, outside>>

-----------------------------------------------------------------------------
(***************************************************************************)
(* A status sync of a stored return: the provider is asked about its       *)
(* machine ids and the machine rows are brought up to date, then the       *)
(* status is written.  The machines the return holds are read just before  *)
(* the provider is asked; they decide only whether a machine missing from  *)
(* the answer counts, so an older read is an answer that lists it.         *)
(***************************************************************************)
Poll(p, value) == poll' = [poll EXCEPT ![p] = value]

Held(r) == {m \in Machines : claim[m] = r}

\* Mutant: accepted for termination counts as gone.
GoneStatusesEager == {"terminated", "stopped", "shutting-down"}

GoneStatuses == {"terminated", "stopped"}

Count(view, S) == Cardinality({m \in DOMAIN view : view[m] \in S})

\* Mutant: some gone and some failed is called partial.
ReturnVerdictPartial(db, view, n) ==
  IF Count(view, {"failed"}) > 0 THEN "PARTIAL"
  ELSE IF Count(view, GoneStatuses) >= n THEN "COMPLETED" ELSE "IN_PROGRESS"

\* _determine_return_status: db is what the return held when it was read, view
\* the machines the sync came back with, n the number asked for.
ReturnVerdict(db, view, n) ==
  IF DOMAIN view = {} THEN IF db # {} THEN "COMPLETED" ELSE "IN_PROGRESS"
  ELSE IF Count(view, {"running"}) > 0 THEN "IN_PROGRESS"
  ELSE IF Count(view, GoneStatuses) >= n THEN "COMPLETED"
  ELSE IF Count(view, {"failed"}) > 0 THEN "FAILED"
  ELSE "IN_PROGRESS"

PollAnswered(p, r, view) ==
  /\ poll[p] = Idle
  /\ status[r] # "absent"
  /\ Poll(p, [for |-> r, verdict |-> ReturnVerdict(Held(r), view, Cardinality(wanted[r]))])

(***************************************************************************)
(* An answer may leave out machines: those that are gone, and some that    *)
(* live (an instance whose data does not convert; on Kubernetes a pod the  *)
(* failed LIST, or the lookup under the return's own id, did not find).    *)
(* What is left out is taken for terminated, by the sync if the return     *)
(* holds it, by the Kubernetes provider in any case.  A machine row keeps  *)
(* its claim (_apply_provider_state); an error ends the row writes         *)
(* wherever it strikes, never the sync.                                    *)
(***************************************************************************)
PollFetch(p, r) ==
  /\ poll[p] = Idle /\ Unlocked
  /\ \E absent \in SUBSET {m \in wanted[r] : cloud[m] = "terminated" \/ m \in Overlooked} :
     \E ignored \in SUBSET (absent \ Held(r)) :
     LET view == [m \in wanted[r] \ ignored |-> IF m \in absent THEN "terminated" ELSE cloud[m]]
     IN  /\ PollAnswered(p, r, view)
         /\ \E rows \in SUBSET {m \in DOMAIN view : view[m] # recorded[m]} :
              recorded' = [m \in Machines |-> IF m \in rows THEN view[m] ELSE recorded[m]]
  /\ UNCHANGED <<request, claim, cloud, pc, command, todo, okd, setting>>

\* After a failed fetch, reads and list views go on with the rows they have
\* (the reconcile task gives up).
PollFetchFails(p, r) ==
  /\ PollAnswered(p, r, [m \in Held(r) |-> recorded[m]])
  /\ UNCHANGED <<request, machine, cloud, pc, command, todo, okd, setting>>

\* update_request_status: a status the state machine refuses is not written.
PollApply(p) ==
  /\ poll[p] # Idle /\ Unlocked
  /\ LET r == poll[p].for
     IN  status' = IF status[r] # "absent" /\ CanTransition(status[r], poll[p].verdict)
                   THEN [status EXCEPT ![r] = poll[p].verdict] ELSE status
  /\ image' = status'
  /\ Poll(p, Idle)
  /\ UNCHANGED <<machine, cloud, pc, command, todo, okd, writer, setting>>

\* CancelRequestHandler, UpdateRequestStatusHandler and CompleteRequestHandler.
Command(r) ==
  /\ status[r] # "absent"
  /\ \E s \in Commanded : Write(r, s)
  /\ UNCHANGED <<machine, cloud, pc, command, todo, okd, outside>>

\* The recovery scan of a starting process: the deadline machinery leaves
\* returns alone, so one that is overdue is forced to FAILED.
Recover(r) ==
  /\ status[r] = "IN_PROGRESS"
  /\ Write(r, "FAILED")
  /\ UNCHANGED <<machine, cloud, pc, command, todo, okd, outside>>

\* The provider finishes a termination; a machine stops or fails by itself.
CloudTerminates(m) ==
  /\ cloud[m] = "shutting-down"
  /\ cloud' = [cloud EXCEPT ![m] = "terminated"]
  /\ UNCHANGED <<request, machine, pc, command, todo, okd, outside>>

CloudBreaks(m, s) ==
  /\ cloud[m] = "running"
  /\ cloud' = [cloud EXCEPT ![m] = s]
  /\ UNCHANGED <<request, machine, pc, command, todo, okd, outside>>

-----------------------------------------------------------------------------
PersistStep(r) ==
  \/ JsonCommitRequests(r) \/ JsonCommitMachines(r) \/ JsonRestore(r)
  \/ \E m \in Machines : SqlSupersede(r, m) \/ SqlClaim(r, m)
  \/ SqlInsert(r) \/ CreateFails(r)

DispatchStep(r) == Start(r) \/ DispatchAccepted(r) \/ DispatchRefused(r) \/ DispatchFails(r)

OutcomeStep(r) == Mark(r) \/ Drop(r) \/ Settle(r) \/ Release(r) \/ Fail(r)

PollStep(p) ==
  \/ \E r \in Watched : PollFetchFails(p, r) \/ PollFetch(p, r)
  \/ PollApply(p)

Next ==
  \/ \E r \in Returns :
       \/ \E ask \in Asked[r] : Submit(r, ask[1], ask[2])
       \/ PersistStep(r) \/ DispatchStep(r) \/ OutcomeStep(r)
       \/ Command(r) \/ Recover(r) \/ Crash(r)
  \/ \E p \in Pollers : PollStep(p)
  \/ \E m \in Machines : CloudTerminates(m)
  \/ \E b \in Breakdowns : CloudBreaks(b[1], b[2])

Spec == Init /\ [][Next]_vars

-----------------------------------------------------------------------------
(***************************************************************************)
(* Properties.                                                             *)
(***************************************************************************)

\* Type invariant; a sync of a return never proposes PARTIAL or CANCELLED.
TypeOK ==
  /\ storage \in {"json", "sql"}
  /\ noContext \subseteq Machines
  /\ status \in [Returns -> Status]
  /\ claim \in [Machines -> Returns \cup {None}]
  /\ recorded \in [Machines -> MachineStatus]
  /\ cloud \in [Machines -> MachineStatus]
  /\ pc \in [Returns -> PCs]
  /\ forced \in [Returns -> BOOLEAN]
  /\ wanted \in [Returns -> SUBSET Machines]
  /\ todo \in [Returns -> SUBSET Machines]
  /\ okd \in [Returns -> SUBSET Machines]
  /\ writer \in Returns \cup {None}
  /\ image \in [Returns -> Status]
  /\ poll \in [Pollers -> [for : Returns \cup {None},
                           verdict : {"IN_PROGRESS", "COMPLETED", "FAILED"}]]

\* A claim names a stored return, wherever a commit was cut short or a later
\* save failed: requests are written before the machines that refer to them
\* (transaction_scope.py, _cancel_validate_and_persist).
ClaimsAreStored == \A m \in Machines : claim[m] # None => status[claim[m]] # "absent"

Gone(m) == cloud[m] = "terminated" \/ (<<m, "stopped">> \in Breakdowns /\ cloud[m] # "running")

\* A status sync sets a return to COMPLETED only when the provider has terminated
\* every machine of it that answers do not overlook, however late the verdict is
\* written, whatever the rows said and whatever became of the claims meanwhile; of
\* a machine that can stop, only that it no longer runs, since "stopped" counts
\* as done (_determine_return_status, fetch_provider_machines).  For overlooked
\* machines it is not so: see MissingMeansGone.
SyncCompletesGone ==
  [][\A r \in Returns :
       status[r] # "COMPLETED" /\ status'[r] = "COMPLETED" /\ poll' # poll =>
         \A m \in wanted[r] \ Overlooked : Gone(m)]_status

\* The claim of fetch_provider_machines: a machine missing from an answer has been
\* terminated and purged.  So a sync about to write COMPLETED would be right.
MissingMeansGone ==
  \A p \in Pollers : poll[p].verdict = "COMPLETED" => \A m \in wanted[poll[p].for] : Gone(m)

\* A machine loses its claim only to the handler of the return that holds it or
\* to a forced return that supersedes it; a superseded handler that fails late
\* takes nothing from its successor (_clear_return_request_id).
ClaimsReleasedByOwner ==
  [][\A m \in Machines : claim[m] # None /\ claim'[m] = None =>
       \/ pc[claim[m]] \in {"drop", "release"}
       \/ \E r \in Returns : pc[r] = "persist" /\ forced[r]]_claim

\* A settled return is reopened by nobody and changed by one writer only: its
\* own handler, failing late, forces FAILED over what a sync or a cancel has
\* settled meanwhile (_update_request_to_failed).  A commit that is rolled back
\* never settled anything.
SettledReturnStands ==
  [][\A r \in Returns :
       status[r] \in {"COMPLETED", "FAILED", "CANCELLED"} /\ status'[r] # status[r] =>
         \/ pc[r] \in {"fail", "failLeaky"} /\ status'[r] = "FAILED"
         \/ writer # None /\ status' = image]_status

\* Once its handler has ended a return, what the return still holds is what the
\* provider accepted and, unless others were refused too, what was skipped for
\* want of a resource id; everything refused is free for a retry without force
\* (unless the release itself failed).  The skipped machines contradict the
\* docstring of _clear_return_request_id ("failed to terminate (or were skipped)
\* must have their return_request_id cleared", request_creation_handlers.py:688)
\* and that of _release_machines_after_failure (656): a return that is PARTIAL
\* because of them keeps them, and so does one that FAILED with the others
\* refused.
RefusedIsReleased ==
  \A r \in Returns, m \in Machines : claim[m] = r =>
    /\ pc[r] = "failed" => m \in noContext
    /\ pc[r] = "done" => m \in okd[r] \/ (AllAccepted(r) /\ m \in noContext)

Committed == INSTANCE ReturnContract WITH phase <- image, holder <- claim, asks <- wanted

\* Refinement: on the statuses as of the last finished unit of work, every step
\* of every handler, sync and operator is a step of ReturnContract or invisible.
\* So a JSON commit of two files looks like one step, with or without the
\* claims, wherever it is cut short (transaction_scope.py), and the saves of a
\* SQL unit of work give away nothing that is not asked for.
CommittedAsPromised == Committed!Spec

\* The claim of _cancel_validate_and_persist: no race window in which two
\* returns that are both under way were given the same machine.
OneLiveReturn ==
  \A q, r \in Returns : q # r /\ pc[q] \in {"dispatch", "mark"} /\ pc[r] \in {"dispatch", "mark"}
                        /\ status[q] \notin Terminal /\ status[r] \notin Terminal
                        => wanted[q] \cap wanted[r] = {}

=============================================================================
