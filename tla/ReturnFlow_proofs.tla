-------------------------- MODULE ReturnFlow_proofs --------------------------
(***************************************************************************)
(* Proofs about ReturnFlow for any number of returns, machines and status  *)
(* syncs, on either storage: the type invariant, that a claim names a      *)
(* stored return, who may release a claim, who may change a settled        *)
(* return, that nothing refused stays claimed and that a status sync       *)
(* completes no return before its machines are gone.                       *)
(***************************************************************************)
EXTENDS ReturnFlow, FiniteSetTheorems, TLAPS

PollType == [for : Returns \cup {None}, verdict : {"IN_PROGRESS", "COMPLETED", "FAILED"}]

-----------------------------------------------------------------------------
(***************************************************************************)
(* Lemmas about the operators.                                             *)
(***************************************************************************)

\* What counts as terminated was asked for.
LEMMA AcceptedAsked ==
  ASSUME NEW D \in SUBSET Machines, NEW A \in AcceptedSets(D)
  PROVE  (A \subseteq D /\ A # D) \/ A = {}
<1>1. PICK ok \in Reports, failed \in Reports : A = Accepted(D, ok, failed)
  BY DEF AcceptedSets
<1>2. ReconcileIds(D, ok, failed) \subseteq D
  BY DEF ReconcileIds
<1> QED BY <1>1, <1>2 DEF Accepted

\* A forced return supersedes others by cancelling them, and none that has
\* completed, failed or been cancelled.
LEMMA SupersededStatus ==
  ASSUME TypeOK, NEW r \in Returns, NEW ms
  PROVE  /\ Superseded(r, ms) \in [Returns -> Status]
         /\ \A q \in Returns :
              /\ Superseded(r, ms)[q] = "absent" <=> status[q] = "absent"
              /\ Superseded(r, ms)[q] # status[q] =>
                   status[q] \notin {"absent", "COMPLETED", "FAILED", "CANCELLED"}
  BY DEF Superseded, Cancellable, TypeOK, Status

\* A return lets go only of machines it holds.
LEMMA ReleasedClaims ==
  ASSUME TypeOK, NEW r \in Returns, NEW ms
  PROVE  /\ Released(r, ms) \in [Machines -> Returns \cup {None}]
         /\ \A m \in Machines :
              /\ m \in ms /\ claim[m] = r => Released(r, ms)[m] = None
              /\ ~(m \in ms /\ claim[m] = r) => Released(r, ms)[m] = claim[m]
  BY DEF Released, TypeOK

\* The provider's machines keep their types.
LEMMA TerminatedType ==
  ASSUME TypeOK, NEW ms
  PROVE  Terminated(ms) \in [Machines -> MachineStatus]
  BY DEF Terminated, TypeOK, MachineStatus

\* A verdict about a return is one of three.
LEMMA VerdictType ==
  ASSUME NEW db, NEW view, NEW n
  PROVE  ReturnVerdict(db, view, n) \in {"IN_PROGRESS", "COMPLETED", "FAILED"}
  BY DEF ReturnVerdict

\* The move of a handler to another label.
LEMMA GotoType ==
  ASSUME TypeOK, NEW r \in Returns, NEW label \in PCs, Goto(r, label)
  PROVE  pc' \in [Returns -> PCs]
  BY DEF Goto, TypeOK

\* A handler that is gone leaves well-typed locals (Abandon).
LEMMA AbandonType ==
  ASSUME TypeOK, NEW r \in Returns, Abandon(r)
  PROVE  /\ pc' \in [Returns -> PCs] /\ forced' \in [Returns -> BOOLEAN]
         /\ todo' \in [Returns -> SUBSET Machines] /\ okd' \in [Returns -> SUBSET Machines]
  BY DEF Abandon, Goto, TypeOK, PCs, Ended

\* A status command writes a status.
LEMMA WriteType ==
  ASSUME TypeOK, NEW r \in Returns, NEW s \in Status, Write(r, s) \/ UNCHANGED request
  PROVE  /\ status' \in [Returns -> Status] /\ image' \in [Returns -> Status]
         /\ writer' \in Returns \cup {None}
  BY DEF Write, TypeOK, request

\* What operators and the recovery scan do to a return is one status command.
LEMMA OperatorWrites ==
  ASSUME NEW r \in Returns, Command(r) \/ Recover(r)
  PROVE  /\ status[r] # "absent"
         /\ \E s \in Status \ {"absent"} : Write(r, s)
         /\ UNCHANGED <<machine, cloud, pc, command, todo, okd, outside>>
<1>1. CASE Command(r)
  <2>1. PICK s \in Commanded : Write(r, s)
    BY <1>1 DEF Command
  <2>2. s \in Status \ {"absent"}
    BY CommandedAssumption DEF Status
  <2> QED BY <1>1, <2>1, <2>2 DEF Command
<1>2. CASE Recover(r)
  <2>1. Write(r, "FAILED") /\ "FAILED" \in Status \ {"absent"}
    BY <1>2 DEF Recover, Status
  <2> QED BY <1>2, <2>1 DEF Recover
<1> QED BY <1>1, <1>2

-----------------------------------------------------------------------------
(***************************************************************************)
(* The type invariant.                                                     *)
(***************************************************************************)
\* The initial states are well typed.
LEMMA InitType == Init => TypeOK
<1> SUFFICES ASSUME Init PROVE TypeOK OBVIOUS
<1>1. Idle \in PollType
  BY DEF Idle, PollType
<1>2. poll \in [Pollers -> PollType]
  BY <1>1 DEF Init
<1>3. noContext \subseteq Machines
  BY GapsAssumption DEF Init
<1> QED BY <1>2, <1>3 DEF Init, TypeOK, PollType, Status, MachineStatus, PCs

\* validate_command and _filter_machines keep the types.
LEMMA SubmitType ==
  ASSUME TypeOK, NEW r \in Returns, NEW ask \in Asked[r], Submit(r, ask[1], ask[2])
  PROVE  TypeOK'
<1>1. ask[1] \subseteq Machines /\ ask[2] \in BOOLEAN
  BY AskedAssumption
<1>2. pc' \in [Returns -> PCs]
  BY GotoType DEF Submit, PCs
<1>3. /\ wanted' \in [Returns -> SUBSET Machines] /\ todo' \in [Returns -> SUBSET Machines]
      /\ forced' \in [Returns -> BOOLEAN]
  BY <1>1 DEF Submit, TypeOK
<1> QED BY <1>2, <1>3 DEF Submit, TypeOK, request, machine, outside, setting

\* The steps of _cancel_validate_and_persist, on either storage, keep the types.
LEMMA PersistType ==
  ASSUME TypeOK, NEW r \in Returns, PersistStep(r)
  PROVE  TypeOK'
<1> USE DEF request, machine, command, outside, setting
<1>1. CASE JsonCommitRequests(r)
  <2>1. pc' \in [Returns -> PCs]
    BY <1>1, GotoType DEF JsonCommitRequests, PCs
  <2>2. status' \in [Returns -> Status]
    BY <1>1, SupersededStatus DEF JsonCommitRequests, Status
  <2> QED BY <1>1, <2>1, <2>2 DEF JsonCommitRequests, TypeOK
<1>2. CASE JsonCommitMachines(r)
  <2>1. pc' \in [Returns -> PCs]
    BY <1>2, GotoType DEF JsonCommitMachines, PCs
  <2>2. claim' \in [Machines -> Returns \cup {None}] /\ todo' \in [Returns -> SUBSET Machines]
    BY <1>2 DEF JsonCommitMachines, TypeOK
  <2> QED BY <1>2, <2>1, <2>2 DEF JsonCommitMachines, TypeOK
<1>3. CASE JsonRestore(r)
  BY <1>3, AbandonType DEF JsonRestore, TypeOK
<1>4. ASSUME NEW m \in Machines, SqlSupersede(r, m) PROVE TypeOK'
  <2>1. status' \in [Returns -> Status]
    <3>1. status' \in {status, Superseded(r, {m})}
      BY <1>4 DEF SqlSupersede
    <3> QED BY <3>1, SupersededStatus DEF TypeOK
  <2>2. CASE Abandon(r) /\ UNCHANGED claim
    BY <1>4, <2>1, <2>2, AbandonType DEF SqlSupersede, TypeOK
  <2>3. CASE /\ claim' = [claim EXCEPT ![m] = None]
             /\ todo' = [todo EXCEPT ![r] = @ \ {m}]
             /\ UNCHANGED <<pc, forced, okd>>
    BY <1>4, <2>1, <2>3 DEF SqlSupersede, TypeOK
  <2> QED BY <1>4, <2>2, <2>3 DEF SqlSupersede
<1>5. ASSUME NEW m \in Machines, SqlClaim(r, m) PROVE TypeOK'
  <2>1. pc' \in [Returns -> PCs]
    BY <1>5, GotoType DEF SqlClaim, PCs
  <2>2. claim' \in [Machines -> Returns \cup {None}] /\ todo' \in [Returns -> SUBSET Machines]
    BY <1>5 DEF SqlClaim, TypeOK
  <2> QED BY <1>5, <2>1, <2>2 DEF SqlClaim, TypeOK
<1>6. CASE SqlInsert(r)
  <2>1. pc' \in [Returns -> PCs]
    BY <1>6, GotoType DEF SqlInsert, PCs
  <2>2. status' \in [Returns -> Status] /\ todo' \in [Returns -> SUBSET Machines]
    BY <1>6 DEF SqlInsert, TypeOK, Status
  <2> QED BY <1>6, <2>1, <2>2 DEF SqlInsert, TypeOK
<1>7. CASE CreateFails(r)
  BY <1>7, AbandonType DEF CreateFails, TypeOK
<1> QED BY <1>1, <1>2, <1>3, <1>4, <1>5, <1>6, <1>7 DEF PersistStep

\* Start and the deprovisioning call keep the types.
LEMMA DispatchType ==
  ASSUME TypeOK, NEW r \in Returns, DispatchStep(r)
  PROVE  TypeOK'
<1> USE DEF request, machine, command, outside, setting
<1>1. CASE Start(r)
  <2>1. pc' \in [Returns -> PCs]
    BY <1>1, GotoType DEF Start, PCs
  <2>2. /\ status' \in [Returns -> Status] /\ image' \in [Returns -> Status]
        /\ writer' \in Returns \cup {None}
    BY <1>1, WriteType DEF Start, Status
  <2>3. forced' \in [Returns -> BOOLEAN]
    BY <1>1 DEF Start, TypeOK
  <2>4. UNCHANGED <<machine, cloud, wanted, todo, okd, outside>>
    BY <1>1 DEF Start
  <2> QED BY <2>1, <2>2, <2>3, <2>4 DEF TypeOK
<1>d. Dispatched(r) \subseteq Machines
  BY DEF Dispatched, TypeOK
<1>2. CASE DispatchAccepted(r)
  <2>1. pc' \in [Returns -> PCs]
    BY <1>2, GotoType DEF DispatchAccepted, PCs
  <2>2. cloud' \in [Machines -> MachineStatus]
    BY <1>2, TerminatedType DEF DispatchAccepted
  <2>3. okd' \in [Returns -> SUBSET Machines]
    BY <1>2, <1>d DEF DispatchAccepted, TypeOK
  <2> QED BY <1>2, <2>1, <2>2, <2>3 DEF DispatchAccepted, TypeOK
<1>3. CASE DispatchRefused(r)
  <2>1. PICK A \in AcceptedSets(Dispatched(r)) :
          /\ \E more \in SUBSET (Dispatched(r) \ A) : cloud' = Terminated(A \cup more)
          /\ okd' = [okd EXCEPT ![r] = A]
          /\ todo' = [todo EXCEPT ![r] = IF A = {} THEN Dispatched(r) ELSE {}]
          /\ Goto(r, IF A = {} THEN "release" ELSE "mark")
    BY <1>3 DEF DispatchRefused
  <2>2. A \subseteq Machines
    BY <1>d, AcceptedAsked
  <2>3. pc' \in [Returns -> PCs]
    BY <2>1, GotoType DEF PCs
  <2>4. cloud' \in [Machines -> MachineStatus]
    BY <2>1, TerminatedType
  <2>5. okd' \in [Returns -> SUBSET Machines] /\ todo' \in [Returns -> SUBSET Machines]
    BY <1>d, <2>1, <2>2 DEF TypeOK
  <2> QED BY <1>3, <2>3, <2>4, <2>5 DEF DispatchRefused, TypeOK
<1>4. CASE DispatchFails(r)
  <2>1. pc' \in [Returns -> PCs]
    BY <1>4, GotoType DEF DispatchFails, PCs
  <2>2. cloud' \in [Machines -> MachineStatus]
    BY <1>4, TerminatedType DEF DispatchFails
  <2>3. todo' \in [Returns -> SUBSET Machines]
    BY <1>4 DEF DispatchFails, TypeOK
  <2> QED BY <1>4, <2>1, <2>2, <2>3 DEF DispatchFails, TypeOK
<1> QED BY <1>1, <1>2, <1>3, <1>4 DEF DispatchStep

\* The handler's except branch keeps the types.
LEMMA ExceptType ==
  ASSUME TypeOK, NEW r \in Returns, Except(r)
  PROVE  /\ pc' \in [Returns -> PCs] /\ todo' \in [Returns -> SUBSET Machines]
         /\ okd' \in [Returns -> SUBSET Machines]
  BY DEF Except, Goto, TypeOK, PCs

\* What the handler does with the result keeps the types.
LEMMA OutcomeType ==
  ASSUME TypeOK, NEW r \in Returns, OutcomeStep(r)
  PROVE  TypeOK'
<1> USE DEF request, machine, command, outside, setting
<1>1. CASE Mark(r)
  <2>1. recorded' \in [Machines -> MachineStatus]
    BY <1>1 DEF Mark, Record, TypeOK, MachineStatus
  <2>2. /\ pc' \in [Returns -> PCs] /\ todo' \in [Returns -> SUBSET Machines]
        /\ okd' \in [Returns -> SUBSET Machines]
    <3>1. CASE Except(r)
      BY <3>1, ExceptType
    <3>2. CASE Goto(r, IF AllAccepted(r) THEN "settle" ELSE "drop") /\ UNCHANGED <<todo, okd>>
      BY <3>2, GotoType DEF TypeOK, PCs
    <3> QED BY <1>1, <3>1, <3>2 DEF Mark
  <2> QED BY <1>1, <2>1, <2>2 DEF Mark, TypeOK
<1>2. CASE Drop(r)
  <2>1. claim' \in [Machines -> Returns \cup {None}]
    BY <1>2, ReleasedClaims DEF Drop
  <2>2. /\ pc' \in [Returns -> PCs] /\ todo' \in [Returns -> SUBSET Machines]
        /\ okd' \in [Returns -> SUBSET Machines]
    <3>1. CASE Except(r)
      BY <3>1, ExceptType
    <3>2. CASE Goto(r, "settle") /\ UNCHANGED <<todo, okd>>
      BY <3>2, GotoType DEF TypeOK, PCs
    <3> QED BY <1>2, <3>1, <3>2 DEF Drop
  <2> QED BY <1>2, <2>1, <2>2 DEF Drop, TypeOK
<1>3. CASE Settle(r)
  <2>1. SettledStatus(r) \in Status
    BY DEF SettledStatus, Status
  <2>2. Write(r, SettledStatus(r)) \/ UNCHANGED request
    BY <1>3 DEF Settle
  <2>3. /\ status' \in [Returns -> Status] /\ image' \in [Returns -> Status]
        /\ writer' \in Returns \cup {None}
    BY <2>1, <2>2, WriteType
  <2>4. /\ pc' \in [Returns -> PCs] /\ todo' \in [Returns -> SUBSET Machines]
        /\ okd' \in [Returns -> SUBSET Machines]
    <3>1. CASE Except(r)
      BY <3>1, ExceptType
    <3>2. CASE Goto(r, "done") /\ UNCHANGED <<todo, okd>>
      BY <3>2, GotoType DEF TypeOK, PCs, Ended
    <3> QED BY <1>3, <3>1, <3>2 DEF Settle
  <2>5. UNCHANGED <<machine, cloud, command, outside>>
    BY <1>3 DEF Settle
  <2> QED BY <2>3, <2>4, <2>5 DEF TypeOK
<1>4. CASE Release(r)
  <2>1. claim' \in [Machines -> Returns \cup {None}]
    BY <1>4, ReleasedClaims DEF Release
  <2>2. pc' \in [Returns -> PCs]
    BY <1>4, GotoType DEF Release, PCs
  <2>3. todo' \in [Returns -> SUBSET Machines]
    BY <1>4 DEF Release, TypeOK
  <2> QED BY <1>4, <2>1, <2>2, <2>3 DEF Release, TypeOK
<1>5. CASE Fail(r)
  <2>1. CASE Abandon(r) /\ UNCHANGED <<status, image>>
    BY <1>5, <2>1, AbandonType DEF Fail, TypeOK
  <2>2. CASE /\ status' = [status EXCEPT ![r] = "FAILED"]
             /\ image' = status'
             /\ Goto(r, IF pc[r] = "fail" THEN "failed" ELSE "failedLeaky")
             /\ UNCHANGED <<forced, todo, okd>>
    <3>1. pc' \in [Returns -> PCs]
      BY <2>2, GotoType DEF PCs, Ended
    <3>2. status' \in [Returns -> Status]
      BY <2>2 DEF TypeOK, Status
    <3> QED BY <1>5, <2>2, <3>1, <3>2 DEF Fail, TypeOK
  <2> QED BY <1>5, <2>1, <2>2 DEF Fail
<1> QED BY <1>1, <1>2, <1>3, <1>4, <1>5 DEF OutcomeStep

\* A status sync of a return keeps the types.
LEMMA PollTypes ==
  ASSUME TypeOK, NEW p \in Pollers, PollStep(p)
  PROVE  TypeOK'
<1> USE DEF request, machine, command, outside, setting
<1>1. ASSUME NEW v \in PollType, Poll(p, v) PROVE poll' \in [Pollers -> PollType]
  BY <1>1 DEF Poll, TypeOK, PollType
<1>2. ASSUME NEW r \in Returns, NEW view, PollAnswered(p, r, view)
      PROVE  poll' \in [Pollers -> PollType]
  <2> DEFINE v == [for |-> r, verdict |-> ReturnVerdict(Held(r), view, Cardinality(wanted[r]))]
  <2>1. v \in PollType
    BY VerdictType DEF PollType
  <2>2. Poll(p, v)
    BY <1>2 DEF PollAnswered
  <2> HIDE DEF v
  <2> QED BY <1>1, <2>1, <2>2
<1>3. ASSUME NEW r \in Returns, PollFetchFails(p, r) PROVE TypeOK'
  <2>1. poll' \in [Pollers -> PollType]
    BY <1>2, <1>3 DEF PollFetchFails
  <2> QED BY <1>3, <2>1 DEF PollFetchFails, TypeOK, PollType
<1>4. ASSUME NEW r \in Returns, PollFetch(p, r) PROVE TypeOK'
  <2>0. PICK absent \in SUBSET {m \in wanted[r] : cloud[m] = "terminated" \/ m \in Overlooked} :
          \E ignored \in SUBSET (absent \ Held(r)) :
          LET view == [m \in wanted[r] \ ignored |-> IF m \in absent THEN "terminated" ELSE cloud[m]]
          IN  /\ PollAnswered(p, r, view)
              /\ \E rows \in SUBSET {m \in DOMAIN view : view[m] # recorded[m]} :
                   recorded' = [m \in Machines |-> IF m \in rows THEN view[m] ELSE recorded[m]]
    BY <1>4 DEF PollFetch
  <2>1. PICK ignored \in SUBSET (absent \ Held(r)) :
          LET view == [m \in wanted[r] \ ignored |-> IF m \in absent THEN "terminated" ELSE cloud[m]]
          IN  /\ PollAnswered(p, r, view)
              /\ \E rows \in SUBSET {m \in DOMAIN view : view[m] # recorded[m]} :
                   recorded' = [m \in Machines |-> IF m \in rows THEN view[m] ELSE recorded[m]]
    BY <2>0
  <2> DEFINE view == [m \in wanted[r] \ ignored |-> IF m \in absent THEN "terminated" ELSE cloud[m]]
  <2>2. \A m \in DOMAIN view : view[m] \in MachineStatus
    BY DEF TypeOK, MachineStatus
  <2>3. PICK rows \in SUBSET DOMAIN view :
          recorded' = [m \in Machines |-> IF m \in rows THEN view[m] ELSE recorded[m]]
    BY <2>1
  <2>4. PollAnswered(p, r, view)
    BY <2>1
  <2> HIDE DEF view
  <2>5. poll' \in [Pollers -> PollType]
    BY <1>2, <2>4
  <2>6. recorded' \in [Machines -> MachineStatus]
    BY <2>2, <2>3 DEF TypeOK
  <2> QED BY <1>4, <2>5, <2>6 DEF PollFetch, TypeOK, PollType
<1>5. CASE PollApply(p)
  <2>1. Idle \in PollType
    BY DEF Idle, PollType
  <2>2. poll' \in [Pollers -> PollType]
    BY <1>1, <1>5, <2>1 DEF PollApply
  <2>3. poll[p] \in PollType
    BY DEF TypeOK, PollType
  <2>4. status' \in [Returns -> Status]
    BY <1>5, <2>3 DEF PollApply, TypeOK, PollType, Status
  <2> QED BY <1>5, <2>2, <2>4 DEF PollApply, TypeOK, PollType
<1> QED BY <1>3, <1>4, <1>5, WatchedAssumption DEF PollStep

\* Every step keeps the type invariant.
LEMMA NextType == TypeOK /\ [Next]_vars => TypeOK'
<1> SUFFICES ASSUME TypeOK, [Next]_vars PROVE TypeOK' OBVIOUS
<1> USE DEF request, machine, command, outside, setting
<1>1. ASSUME NEW r \in Returns, NEW ask \in Asked[r], Submit(r, ask[1], ask[2]) PROVE TypeOK'
  BY <1>1, SubmitType
<1>2. ASSUME NEW r \in Returns, PersistStep(r) \/ DispatchStep(r) \/ OutcomeStep(r) PROVE TypeOK'
  BY <1>2, PersistType, DispatchType, OutcomeType
<1>3. ASSUME NEW r \in Returns, Command(r) \/ Recover(r) PROVE TypeOK'
  <2>1. /\ status' \in [Returns -> Status] /\ image' \in [Returns -> Status]
        /\ writer' \in Returns \cup {None}
    BY <1>3, OperatorWrites, WriteType
  <2>2. UNCHANGED <<machine, cloud, pc, command, todo, okd, outside>>
    BY <1>3, OperatorWrites
  <2> QED BY <2>1, <2>2 DEF TypeOK
<1>4. ASSUME NEW r \in Returns, Crash(r) PROVE TypeOK'
  BY <1>4, AbandonType DEF Crash, TypeOK
<1>5. ASSUME NEW p \in Pollers, PollStep(p) PROVE TypeOK'
  BY <1>5, PollTypes
<1>6. ASSUME NEW m \in Machines, CloudTerminates(m) PROVE TypeOK'
  BY <1>6 DEF CloudTerminates, TypeOK, MachineStatus
<1>7. ASSUME NEW b \in Breakdowns, CloudBreaks(b[1], b[2]) PROVE TypeOK'
  <2>1. b[1] \in Machines /\ b[2] \in MachineStatus
    BY BreakdownsAssumption DEF MachineStatus
  <2> QED BY <1>7, <2>1 DEF CloudBreaks, TypeOK
<1>8. CASE UNCHANGED vars
  BY <1>8 DEF vars, TypeOK
<1> QED
  BY <1>1, <1>2, <1>3, <1>4, <1>5, <1>6, <1>7, <1>8 DEF Next

\* Every variable of the return flow keeps its type, for any returns, machines,
\* commands and syncs (TypeOK).
THEOREM TypeCorrect == Spec => []TypeOK
  BY InitType, NextType, PTL DEF Spec
-----------------------------------------------------------------------------
(***************************************************************************)
(* Claims and stored returns.                                              *)
(***************************************************************************)
Unstored == {"idle", "persist"}

\* What ClaimsAreStored needs to be inductive.  A return is stored from its
\* first save on, and nobody claims for one that may still be rolled back; a
\* commit under way belongs to the handler that is at its second file, and the
\* image it would restore holds every other return that is stored now.
StoredInv ==
  /\ ClaimsAreStored
  /\ \A r \in Returns : pc[r] \in Unstored => status[r] = "absent"
  /\ \A r \in Returns : pc[r] \notin Unstored \cup {"lost"} => status[r] # "absent"
  /\ \A r \in Returns, m \in Machines :
       pc[r] \in Unstored \cup {"machines"} => claim[m] # r
  /\ \A r \in Returns : pc[r] = "machines" <=> writer = r
  /\ \A r \in Returns : writer # None /\ writer # r =>
       (status[r] = "absent" <=> image[r] = "absent")

\* A step that stores no return, makes no claim and is not part of a JSON
\* commit.
Quiet ==
  /\ \A q \in Returns : status'[q] = "absent" <=> status[q] = "absent"
  /\ \A m \in Machines : claim'[m] \in {claim[m], None}
  /\ \A q \in Returns : pc'[q] # pc[q] =>
       /\ pc'[q] \notin Unstored \cup {"machines"} /\ pc[q] # "machines"
       /\ pc'[q] = "lost" \/ pc[q] \notin Unstored \cup {"lost"}
  /\ writer' = writer
  /\ image' = image \/ image' = status'

\* A quiet step keeps the invariant.
LEMMA QuietKeepsStored ==
  ASSUME TypeOK, StoredInv, Quiet
  PROVE  StoredInv'
<1>1. ClaimsAreStored'
  <2> SUFFICES ASSUME NEW m \in Machines, claim'[m] # None
               PROVE  status'[claim'[m]] # "absent"
    BY DEF ClaimsAreStored
  <2>1. claim'[m] = claim[m] /\ claim[m] \in Returns
    BY DEF Quiet, TypeOK
  <2> QED BY <2>1 DEF StoredInv, ClaimsAreStored, Quiet
<1>2. \A r \in Returns : pc'[r] \in Unstored => status'[r] = "absent"
  BY DEF StoredInv, Quiet
<1>3. \A r \in Returns : pc'[r] \notin Unstored \cup {"lost"} => status'[r] # "absent"
  BY DEF StoredInv, Quiet
<1>4. \A r \in Returns, m \in Machines :
        pc'[r] \in Unstored \cup {"machines"} => claim'[m] # r
  BY NoneAssumption DEF StoredInv, Quiet
<1>5. \A r \in Returns : pc'[r] = "machines" <=> writer' = r
  BY DEF StoredInv, Quiet
<1>6. \A r \in Returns : writer' # None /\ writer' # r =>
        (status'[r] = "absent" <=> image'[r] = "absent")
  BY DEF StoredInv, Quiet
<1> QED BY <1>1, <1>2, <1>3, <1>4, <1>5, <1>6 DEF StoredInv

\* The steps that persist a return.
LEMMA PersistKeepsStored ==
  ASSUME TypeOK, StoredInv, NEW r \in Returns, PersistStep(r)
  PROVE  StoredInv'
<1> USE DEF request, machine, command, outside, setting, Unstored
<1>1. CASE JsonCommitRequests(r)
  <2>1. /\ pc' = [pc EXCEPT ![r] = "machines"] /\ pc[r] = "persist"
        /\ status' = [Superseded(r, wanted[r]) EXCEPT ![r] = "PENDING"]
        /\ image' = status /\ writer' = r /\ writer = None /\ claim' = claim
    BY <1>1 DEF JsonCommitRequests, Goto, Unlocked
  <2>2. /\ status'[r] = "PENDING" /\ pc'[r] = "machines"
        /\ \A q \in Returns : q # r => pc'[q] = pc[q]
        /\ \A q \in Returns : q # r => (status'[q] = "absent" <=> status[q] = "absent")
    BY <2>1, SupersededStatus DEF TypeOK
  <2>3. ClaimsAreStored'
    <3> SUFFICES ASSUME NEW m \in Machines, claim[m] # None
                 PROVE  status'[claim[m]] # "absent"
      BY <2>1 DEF ClaimsAreStored
    <3> QED BY <2>2 DEF StoredInv, ClaimsAreStored, TypeOK
  <2> QED BY <2>1, <2>2, <2>3, NoneAssumption DEF StoredInv
<1>2. CASE JsonCommitMachines(r)
  <2>1. /\ pc' = [pc EXCEPT ![r] = "start"] /\ pc[r] = "machines"
        /\ claim' = [m \in Machines |-> IF m \in wanted[r] THEN r ELSE claim[m]]
        /\ image' = status /\ writer' = None /\ status' = status
    BY <1>2 DEF JsonCommitMachines, Goto
  <2>2. pc'[r] = "start" /\ \A q \in Returns : q # r => pc'[q] = pc[q]
    BY <2>1 DEF TypeOK
  <2>3. status[r] # "absent" /\ writer = r
    BY <2>1 DEF StoredInv
  <2>4. ClaimsAreStored'
    BY <2>1, <2>3 DEF StoredInv, ClaimsAreStored, TypeOK
  <2>5. \A q \in Returns : pc'[q] = "machines" <=> writer' = q
    BY <2>1, <2>2, <2>3, NoneAssumption DEF StoredInv
  <2> QED BY <2>1, <2>2, <2>3, <2>4, <2>5 DEF StoredInv
<1>3. CASE JsonRestore(r)
  <2>1. /\ pc' = [pc EXCEPT ![r] = "lost"] /\ pc[r] = "machines"
        /\ status' \in {image, status} /\ image' = status' /\ writer' = None /\ claim' = claim
    BY <1>3 DEF JsonRestore, Abandon, Goto
  <2>2. pc'[r] = "lost" /\ \A q \in Returns : q # r => pc'[q] = pc[q]
    BY <2>1 DEF TypeOK
  <2>3. /\ writer = r /\ r # None
        /\ \A m \in Machines : claim[m] # r
        /\ \A q \in Returns : q # r => (status'[q] = "absent" <=> status[q] = "absent")
    BY <2>1, NoneAssumption DEF StoredInv
  <2>4. ClaimsAreStored'
    <3> SUFFICES ASSUME NEW m \in Machines, claim[m] # None
                 PROVE  status'[claim[m]] # "absent"
      BY <2>1 DEF ClaimsAreStored
    <3> QED BY <2>3 DEF StoredInv, ClaimsAreStored, TypeOK
  <2>5. \A q \in Returns : pc'[q] = "machines" <=> writer' = q
    BY <2>1, <2>2, <2>3, NoneAssumption DEF StoredInv
  <2> QED BY <2>1, <2>2, <2>3, <2>4, <2>5 DEF StoredInv
<1>4. ASSUME NEW m \in Machines, SqlSupersede(r, m) PROVE StoredInv'
  <2>1. \A q \in Returns : status'[q] = "absent" <=> status[q] = "absent"
    BY <1>4, SupersededStatus DEF SqlSupersede
  <2>2. \A n \in Machines : claim'[n] \in {claim[n], None}
    BY <1>4 DEF SqlSupersede, TypeOK
  <2>3. pc[r] = "persist" /\ (pc' = pc \/ pc' = [pc EXCEPT ![r] = "lost"])
    BY <1>4 DEF SqlSupersede, Abandon, Goto
  <2>4. Quiet
    BY <1>4, <2>1, <2>2, <2>3 DEF SqlSupersede, Quiet, TypeOK
  <2> QED BY <2>4, QuietKeepsStored
<1>5. ASSUME NEW m \in Machines, SqlClaim(r, m) PROVE StoredInv'
  <2>1. /\ pc[r] = "claiming" /\ claim' = [claim EXCEPT ![m] = r]
        /\ \E label \in {"start", "claiming"} : pc' = [pc EXCEPT ![r] = label]
        /\ UNCHANGED <<status, image, writer>>
    BY <1>5 DEF SqlClaim, Goto
  <2>2. pc'[r] \in {"start", "claiming"} /\ \A q \in Returns : q # r => pc'[q] = pc[q]
    BY <2>1 DEF TypeOK
  <2>3. status[r] # "absent"
    BY <2>1 DEF StoredInv
  <2>4. \A n \in Machines : claim'[n] = IF n = m THEN r ELSE claim[n]
    BY <2>1 DEF TypeOK
  <2>5. ClaimsAreStored'
    BY <2>1, <2>3, <2>4 DEF StoredInv, ClaimsAreStored
  <2> QED BY <2>1, <2>2, <2>3, <2>4, <2>5 DEF StoredInv
<1>6. CASE SqlInsert(r)
  <2>1. /\ pc' = [pc EXCEPT ![r] = "claiming"] /\ pc[r] = "persist"
        /\ status' = [status EXCEPT ![r] = "PENDING"] /\ image' = status'
        /\ UNCHANGED <<claim, writer>>
    BY <1>6 DEF SqlInsert, Goto
  <2>2. /\ pc'[r] = "claiming" /\ \A q \in Returns : q # r => pc'[q] = pc[q]
        /\ status'[r] = "PENDING" /\ \A q \in Returns : q # r => status'[q] = status[q]
    BY <2>1 DEF TypeOK
  <2>3. ClaimsAreStored'
    BY <2>1, <2>2 DEF StoredInv, ClaimsAreStored, TypeOK
  <2> QED BY <2>1, <2>2, <2>3 DEF StoredInv
<1>7. CASE CreateFails(r)
  <2>1. /\ pc[r] \in {"persist", "claiming", "start"} /\ pc' = [pc EXCEPT ![r] = "lost"]
        /\ UNCHANGED <<status, image, writer, claim>>
    BY <1>7 DEF CreateFails, Abandon, Goto
  <2>2. Quiet
    BY <2>1 DEF Quiet, TypeOK
  <2> QED BY <2>2, QuietKeepsStored
<1> QED BY <1>1, <1>2, <1>3, <1>4, <1>5, <1>6, <1>7 DEF PersistStep

\* A status command, and a handler past its commits, are quiet.
LEMMA WriteQuiet ==
  ASSUME TypeOK, NEW r \in Returns, NEW s \in Status \ {"absent"}, status[r] # "absent",
         Write(r, s) \/ UNCHANGED request
  PROVE  /\ \A q \in Returns : status'[q] = "absent" <=> status[q] = "absent"
         /\ writer' = writer /\ (image' = image \/ image' = status')
  BY DEF Write, TypeOK, request

\* The deprovisioning call stores, claims and commits nothing.
LEMMA DispatchQuiet ==
  ASSUME TypeOK, StoredInv, NEW r \in Returns, DispatchStep(r)
  PROVE  Quiet
<1> USE DEF request, machine, command, outside, setting, Unstored
<1>1. CASE Start(r)
  <2>1. pc[r] = "start" /\ pc' = [pc EXCEPT ![r] = "dispatch"] /\ claim' = claim
    BY <1>1 DEF Start, Goto
  <2>2. status[r] # "absent"
    BY <2>1 DEF StoredInv
  <2>3. /\ \A q \in Returns : status'[q] = "absent" <=> status[q] = "absent"
        /\ writer' = writer /\ (image' = image \/ image' = status')
    BY <1>1, <2>2, WriteQuiet DEF Start, Status
  <2> QED BY <2>1, <2>3 DEF Quiet, TypeOK
<1>2. CASE DispatchAccepted(r)
  BY <1>2 DEF DispatchAccepted, Goto, Quiet, TypeOK
<1>3. CASE DispatchRefused(r)
  <2>1. /\ pc[r] = "dispatch"
        /\ \E label \in {"release", "mark"} : pc' = [pc EXCEPT ![r] = label]
        /\ UNCHANGED <<status, image, writer, claim>>
    BY <1>3 DEF DispatchRefused, Goto
  <2> QED BY <2>1 DEF Quiet, TypeOK
<1>4. CASE DispatchFails(r)
  BY <1>4 DEF DispatchFails, Goto, Quiet, TypeOK
<1> QED BY <1>1, <1>2, <1>3, <1>4 DEF DispatchStep

\* Neither do the steps that follow it; they only release claims.
LEMMA OutcomeQuiet ==
  ASSUME TypeOK, StoredInv, NEW r \in Returns, OutcomeStep(r)
  PROVE  Quiet
<1> USE DEF request, machine, command, outside, setting, Unstored
<1>1. CASE Mark(r)
  <2>1. /\ pc[r] = "mark" /\ UNCHANGED <<status, image, writer, claim>>
        /\ \E label \in {"settle", "drop", "release"} : pc' = [pc EXCEPT ![r] = label]
    BY <1>1 DEF Mark, Except, Goto
  <2> QED BY <2>1 DEF Quiet, TypeOK
<1>2. CASE Drop(r)
  <2>1. /\ pc[r] = "drop" /\ UNCHANGED <<status, image, writer>>
        /\ \E label \in {"settle", "release"} : pc' = [pc EXCEPT ![r] = label]
        /\ \E ms : claim' = Released(r, ms)
    BY <1>2 DEF Drop, Except, Goto
  <2>2. \A m \in Machines : claim'[m] \in {claim[m], None}
    BY <2>1, ReleasedClaims
  <2> QED BY <2>1, <2>2 DEF Quiet, TypeOK
<1>3. CASE Settle(r)
  <2>1. /\ pc[r] = "settle" /\ claim' = claim
        /\ \E label \in {"done", "release"} : pc' = [pc EXCEPT ![r] = label]
        /\ Write(r, SettledStatus(r)) \/ UNCHANGED request
    BY <1>3 DEF Settle, Except, Goto
  <2>2. status[r] # "absent"
    BY <2>1 DEF StoredInv
  <2>3. SettledStatus(r) \in Status \ {"absent"}
    BY DEF SettledStatus, Status
  <2>4. /\ \A q \in Returns : status'[q] = "absent" <=> status[q] = "absent"
        /\ writer' = writer /\ (image' = image \/ image' = status')
    BY <2>1, <2>2, <2>3, WriteQuiet
  <2> QED BY <2>1, <2>4 DEF Quiet, TypeOK
<1>4. CASE Release(r)
  <2>1. /\ pc[r] = "release" /\ UNCHANGED <<status, image, writer>>
        /\ \E label \in {"fail", "failLeaky"} : pc' = [pc EXCEPT ![r] = label]
        /\ \E ms : claim' = Released(r, ms)
    BY <1>4 DEF Release, Goto
  <2>2. \A m \in Machines : claim'[m] \in {claim[m], None}
    BY <2>1, ReleasedClaims
  <2> QED BY <2>1, <2>2 DEF Quiet, TypeOK
<1>5. CASE Fail(r)
  <2>1. /\ pc[r] \in {"fail", "failLeaky"} /\ UNCHANGED <<writer, claim>>
        /\ \E label \in {"failed", "failedLeaky", "lost"} : pc' = [pc EXCEPT ![r] = label]
        /\ \/ UNCHANGED <<status, image>>
           \/ status' = [status EXCEPT ![r] = "FAILED"] /\ image' = status'
    BY <1>5 DEF Fail, Abandon, Goto
  <2>2. status[r] # "absent"
    BY <2>1 DEF StoredInv
  <2> QED BY <2>1, <2>2 DEF Quiet, TypeOK
<1> QED BY <1>1, <1>2, <1>3, <1>4, <1>5 DEF OutcomeStep

\* Neither does a status sync.
LEMMA PollQuiet ==
  ASSUME TypeOK, NEW p \in Pollers, PollStep(p)
  PROVE  Quiet
<1> USE DEF request, machine, command, outside, setting, Unstored
<1>1. ASSUME NEW r \in Returns, PollFetchFails(p, r) PROVE Quiet
  BY <1>1 DEF PollFetchFails, Quiet
<1>2. ASSUME NEW r \in Returns, PollFetch(p, r) PROVE Quiet
  BY <1>2 DEF PollFetch, Quiet
<1>3. CASE PollApply(p)
  <2>1. poll[p].verdict \in {"IN_PROGRESS", "COMPLETED", "FAILED"}
    BY DEF TypeOK
  <2>2. \A q \in Returns : status'[q] = "absent" <=> status[q] = "absent"
    BY <1>3, <2>1 DEF PollApply, TypeOK
  <2> QED BY <1>3, <2>2 DEF PollApply, Quiet
<1> QED BY <1>1, <1>2, <1>3, WatchedAssumption DEF PollStep

\* Every step keeps the invariant.
LEMMA NextStored == TypeOK /\ StoredInv /\ [Next]_vars => StoredInv'
<1> SUFFICES ASSUME TypeOK, StoredInv, [Next]_vars PROVE StoredInv' OBVIOUS
<1> USE DEF request, machine, command, outside, setting, Unstored
<1>1. ASSUME NEW r \in Returns, NEW ask \in Asked[r], Submit(r, ask[1], ask[2])
      PROVE  StoredInv'
  <2>1. /\ pc[r] = "idle" /\ pc' = [pc EXCEPT ![r] = "persist"]
        /\ UNCHANGED <<status, image, writer, claim>>
    BY <1>1 DEF Submit, Goto
  <2>2. pc'[r] = "persist" /\ \A q \in Returns : q # r => pc'[q] = pc[q]
    BY <2>1 DEF TypeOK
  <2>3. ClaimsAreStored'
    BY <2>1 DEF StoredInv, ClaimsAreStored
  <2> QED BY <2>1, <2>2, <2>3 DEF StoredInv
<1>2. ASSUME NEW r \in Returns, PersistStep(r) PROVE StoredInv'
  BY <1>2, PersistKeepsStored
<1>3. ASSUME NEW r \in Returns, DispatchStep(r) \/ OutcomeStep(r) PROVE StoredInv'
  BY <1>3, DispatchQuiet, OutcomeQuiet, QuietKeepsStored
<1>4. ASSUME NEW r \in Returns, Command(r) \/ Recover(r) PROVE StoredInv'
  <2>1. /\ status[r] # "absent" /\ \E s \in Status \ {"absent"} : Write(r, s)
        /\ UNCHANGED <<claim, pc>>
    BY <1>4, OperatorWrites
  <2>2. /\ \A q \in Returns : status'[q] = "absent" <=> status[q] = "absent"
        /\ writer' = writer /\ (image' = image \/ image' = status')
    BY <2>1, WriteQuiet
  <2>3. Quiet
    BY <2>1, <2>2 DEF Quiet
  <2> QED BY <2>3, QuietKeepsStored
<1>5. ASSUME NEW r \in Returns, Crash(r) PROVE StoredInv'
  <2>1. /\ pc[r] \notin {"idle"} /\ pc' = [pc EXCEPT ![r] = "lost"]
        /\ UNCHANGED <<status, claim>>
        /\ writer' = IF writer = r THEN None ELSE writer
        /\ image' = IF writer = r THEN status ELSE image
    BY <1>5 DEF Crash, Abandon, Goto
  <2>2. pc'[r] = "lost" /\ \A q \in Returns : q # r => pc'[q] = pc[q]
    BY <2>1 DEF TypeOK
  <2>3. ClaimsAreStored'
    BY <2>1 DEF StoredInv, ClaimsAreStored
  <2>4. \A q \in Returns : pc'[q] = "machines" <=> writer' = q
    BY <2>1, <2>2, NoneAssumption DEF StoredInv
  <2>5. \A q \in Returns : writer' # None /\ writer' # q =>
          (status'[q] = "absent" <=> image'[q] = "absent")
    BY <2>1 DEF StoredInv
  <2> QED BY <2>1, <2>2, <2>3, <2>4, <2>5 DEF StoredInv
<1>6. ASSUME NEW p \in Pollers, PollStep(p) PROVE StoredInv'
  BY <1>6, PollQuiet, QuietKeepsStored
<1>7. ASSUME NEW m \in Machines, CloudTerminates(m) PROVE StoredInv'
  BY <1>7, QuietKeepsStored DEF CloudTerminates, Quiet
<1>8. ASSUME NEW b \in Breakdowns, CloudBreaks(b[1], b[2]) PROVE StoredInv'
  BY <1>8, QuietKeepsStored DEF CloudBreaks, Quiet
<1>9. CASE UNCHANGED vars
  BY <1>9, QuietKeepsStored DEF vars, Quiet
<1> QED
  BY <1>1, <1>2, <1>3, <1>4, <1>5, <1>6, <1>7, <1>8, <1>9 DEF Next

\* Nothing is claimed or stored at first.
LEMMA InitStored == Init => StoredInv
  BY NoneAssumption DEF Init, StoredInv, ClaimsAreStored, Unstored

\* A claim names a stored return, on either storage and wherever a commit is
\* cut short, rolled back or overtaken (ClaimsAreStored).
THEOREM EveryClaimStored == Spec => []ClaimsAreStored
<1>1. StoredInv => ClaimsAreStored
  BY DEF StoredInv
<1> QED BY <1>1, InitType, NextType, InitStored, NextStored, PTL DEF Spec
-----------------------------------------------------------------------------
(***************************************************************************)
(* Who may release a claim.                                                *)
(***************************************************************************)

\* Only a forced return has machines to take over before it is stored.
ForcedInv == \A r \in Returns : pc[r] = "persist" /\ todo[r] # {} => forced[r]

\* A step that brings no handler to its commit and gives none that is there
\* more to do.
KeepsForced ==
  \A q \in Returns : pc'[q] = "persist" =>
    pc[q] = "persist" /\ forced'[q] = forced[q] /\ todo'[q] \subseteq todo[q]

\* The steps of a handler once it has been submitted.
LEMMA HandlerKeepsForced ==
  ASSUME TypeOK, NEW r \in Returns,
         PersistStep(r) \/ DispatchStep(r) \/ OutcomeStep(r) \/ Crash(r)
  PROVE  KeepsForced
<1> USE DEF request, machine, command, outside, setting, TypeOK
<1>0. ASSUME NEW label \in PCs \ {"persist"}, Goto(r, label),
             \A q \in Returns : q # r => forced'[q] = forced[q] /\ todo'[q] = todo[q]
      PROVE  KeepsForced
  BY <1>0 DEF Goto, KeepsForced
<1>a. ASSUME Abandon(r) PROVE KeepsForced
  BY <1>a DEF Abandon, Goto, KeepsForced
<1>e. ASSUME Except(r), forced' = forced PROVE KeepsForced
  BY <1>e DEF Except, Goto, KeepsForced
<1> USE DEF PCs, Ended
<1>1. CASE JsonCommitRequests(r)
  BY <1>0, <1>1 DEF JsonCommitRequests
<1>2. CASE JsonCommitMachines(r)
  BY <1>0, <1>2 DEF JsonCommitMachines
<1>3. CASE JsonRestore(r)
  BY <1>a, <1>3 DEF JsonRestore
<1>4. ASSUME NEW m \in Machines, SqlSupersede(r, m) PROVE KeepsForced
  <2>1. CASE todo' = [todo EXCEPT ![r] = @ \ {m}] /\ UNCHANGED <<pc, forced, okd>>
    BY <2>1 DEF KeepsForced
  <2> QED BY <1>a, <1>4, <2>1 DEF SqlSupersede
<1>5. ASSUME NEW m \in Machines, SqlClaim(r, m) PROVE KeepsForced
  BY <1>0, <1>5 DEF SqlClaim
<1>6. CASE SqlInsert(r)
  BY <1>0, <1>6 DEF SqlInsert
<1>7. CASE CreateFails(r)
  BY <1>a, <1>7 DEF CreateFails
<1>8. CASE Start(r)
  BY <1>0, <1>8 DEF Start
<1>9. CASE DispatchAccepted(r)
  BY <1>0, <1>9 DEF DispatchAccepted
<1>10. CASE DispatchRefused(r)
  <2>1. PICK A \in AcceptedSets(Dispatched(r)) :
          /\ todo' = [todo EXCEPT ![r] = IF A = {} THEN Dispatched(r) ELSE {}]
          /\ Goto(r, IF A = {} THEN "release" ELSE "mark")
    BY <1>10 DEF DispatchRefused
  <2> QED BY <1>0, <1>10, <2>1 DEF DispatchRefused
<1>11. CASE DispatchFails(r)
  BY <1>0, <1>11 DEF DispatchFails
<1>12. CASE Mark(r)
  BY <1>0, <1>e, <1>12 DEF Mark
<1>13. CASE Drop(r)
  BY <1>0, <1>e, <1>13 DEF Drop
<1>14. CASE Settle(r)
  BY <1>0, <1>e, <1>14 DEF Settle
<1>15. CASE Release(r)
  BY <1>0, <1>15 DEF Release
<1>16. CASE Fail(r)
  BY <1>0, <1>a, <1>16 DEF Fail
<1>17. CASE Crash(r)
  BY <1>a, <1>17 DEF Crash
<1> QED
  BY <1>1, <1>2, <1>3, <1>4, <1>5, <1>6, <1>7, <1>8, <1>9, <1>10, <1>11, <1>12, <1>13, <1>14,
     <1>15, <1>16, <1>17 DEF PersistStep, DispatchStep, OutcomeStep

\* Every step keeps the invariant.
LEMMA NextForced == TypeOK /\ ForcedInv /\ [Next]_vars => ForcedInv'
<1> SUFFICES ASSUME TypeOK, ForcedInv, [Next]_vars PROVE ForcedInv' OBVIOUS
<1> USE DEF request, machine, command, outside, setting
<1>0. ASSUME KeepsForced PROVE ForcedInv'
  BY <1>0 DEF KeepsForced, ForcedInv
<1>1. ASSUME NEW r \in Returns, NEW ask \in Asked[r], Submit(r, ask[1], ask[2])
      PROVE  ForcedInv'
  <2>1. /\ forced' = [forced EXCEPT ![r] = ask[2]]
        /\ pc' = [pc EXCEPT ![r] = "persist"]
        /\ \E valid \in SUBSET Machines :
             todo' = [todo EXCEPT ![r] = IF ask[2] THEN valid ELSE {}]
    <3>1. ask[1] \subseteq Machines
      BY AskedAssumption
    <3> QED BY <1>1, <3>1 DEF Submit, Goto
  <2>2. ask[2] \in BOOLEAN
    BY AskedAssumption
  <2> QED BY <2>1, <2>2 DEF ForcedInv, TypeOK
<1>2. ASSUME NEW r \in Returns, PersistStep(r) \/ DispatchStep(r) \/ OutcomeStep(r) \/ Crash(r)
      PROVE  ForcedInv'
  BY <1>0, <1>2, HandlerKeepsForced
<1>3. ASSUME UNCHANGED <<pc, forced, todo>> PROVE ForcedInv'
  BY <1>3 DEF ForcedInv
<1>4. ASSUME NEW r \in Returns, Command(r) \/ Recover(r) PROVE ForcedInv'
  BY <1>3, <1>4, OperatorWrites
<1>5. ASSUME NEW p \in Pollers, PollStep(p) PROVE ForcedInv'
  BY <1>3, <1>5 DEF PollStep, PollFetch, PollFetchFails, PollApply
<1>6. ASSUME NEW m \in Machines, CloudTerminates(m) PROVE ForcedInv'
  BY <1>3, <1>6 DEF CloudTerminates
<1>7. ASSUME NEW b \in Breakdowns, CloudBreaks(b[1], b[2]) PROVE ForcedInv'
  BY <1>3, <1>7 DEF CloudBreaks
<1>8. CASE UNCHANGED vars
  BY <1>3, <1>8 DEF vars
<1> QED BY <1>1, <1>2, <1>4, <1>5, <1>6, <1>7, <1>8 DEF Next

\* The steps that release a claim, and on whose account.
LEMMA ReleasesByOwner ==
  ASSUME TypeOK, ForcedInv, [Next]_vars, NEW m \in Machines, claim[m] # None, claim'[m] = None
  PROVE  \/ pc[claim[m]] \in {"drop", "release"}
         \/ \E r \in Returns : pc[r] = "persist" /\ forced[r]
<1> DEFINE Goal == \/ pc[claim[m]] \in {"drop", "release"}
                   \/ \E r \in Returns : pc[r] = "persist" /\ forced[r]
<1> SUFFICES Goal OBVIOUS
<1> USE DEF request, machine, command, outside, setting
<1>0. ASSUME claim' = claim PROVE FALSE
  BY <1>0
<1>1. ASSUME NEW r \in Returns, NEW ms, pc[r] \in {"drop", "release"}, claim' = Released(r, ms)
      PROVE  Goal
  BY <1>1, ReleasedClaims
<1>2. ASSUME NEW r \in Returns, PersistStep(r) PROVE Goal
  <2>1. CASE JsonCommitMachines(r)
    BY <2>1, NoneAssumption DEF JsonCommitMachines, TypeOK
  <2>2. ASSUME NEW n \in Machines, SqlSupersede(r, n) PROVE Goal
    BY <2>2 DEF SqlSupersede, ForcedInv
  <2>3. ASSUME NEW n \in Machines, SqlClaim(r, n) PROVE Goal
    BY <2>3, NoneAssumption DEF SqlClaim, TypeOK
  <2>4. CASE JsonCommitRequests(r) \/ JsonRestore(r) \/ SqlInsert(r) \/ CreateFails(r)
    BY <1>0, <2>4 DEF JsonCommitRequests, JsonRestore, SqlInsert, CreateFails
  <2> QED BY <1>2, <2>1, <2>2, <2>3, <2>4 DEF PersistStep
<1>3. ASSUME NEW r \in Returns, DispatchStep(r) PROVE Goal
  BY <1>0, <1>3 DEF DispatchStep, Start, DispatchAccepted, DispatchRefused, DispatchFails
<1>4. ASSUME NEW r \in Returns, OutcomeStep(r) PROVE Goal
  <2>1. CASE Drop(r)
    BY <1>1, <2>1 DEF Drop
  <2>2. CASE Release(r)
    BY <1>1, <2>2 DEF Release
  <2>3. CASE Mark(r) \/ Settle(r) \/ Fail(r)
    BY <1>0, <2>3 DEF Mark, Settle, Fail
  <2> QED BY <1>4, <2>1, <2>2, <2>3 DEF OutcomeStep
<1>5. ASSUME NEW r \in Returns, NEW ask \in Asked[r], Submit(r, ask[1], ask[2]) PROVE Goal
  BY <1>0, <1>5 DEF Submit
<1>6. ASSUME NEW r \in Returns, Command(r) \/ Recover(r) \/ Crash(r) PROVE Goal
  BY <1>0, <1>6 DEF Command, Recover, Crash
<1>7. ASSUME NEW p \in Pollers, PollStep(p) PROVE Goal
  BY <1>0, <1>7 DEF PollStep, PollFetch, PollFetchFails, PollApply
<1>8. ASSUME NEW n \in Machines, CloudTerminates(n) PROVE Goal
  BY <1>0, <1>8 DEF CloudTerminates
<1>9. ASSUME NEW b \in Breakdowns, CloudBreaks(b[1], b[2]) PROVE Goal
  BY <1>0, <1>9 DEF CloudBreaks
<1>10. CASE UNCHANGED vars
  BY <1>0, <1>10 DEF vars
<1> HIDE DEF Goal
<1> QED BY <1>2, <1>3, <1>4, <1>5, <1>6, <1>7, <1>8, <1>9, <1>10 DEF Next

\* A machine loses its claim only to the handler of the return that holds it or
\* to a forced return (ClaimsReleasedByOwner).
THEOREM OwnersRelease == Spec => ClaimsReleasedByOwner
<1>1. Init => ForcedInv
  BY DEF Init, ForcedInv
<1>2. TypeOK /\ ForcedInv /\ [Next]_vars =>
        [\A m \in Machines : claim[m] # None /\ claim'[m] = None =>
           \/ pc[claim[m]] \in {"drop", "release"}
           \/ \E r \in Returns : pc[r] = "persist" /\ forced[r]]_claim
  BY ReleasesByOwner
<1> QED BY <1>1, <1>2, InitType, NextType, NextForced, PTL DEF Spec, ClaimsReleasedByOwner
-----------------------------------------------------------------------------
(***************************************************************************)
(* Who may change a settled return.                                        *)
(***************************************************************************)
Settled == {"COMPLETED", "FAILED", "CANCELLED"}

\* The table lets no settled status be left (RequestStatus.can_transition_to).
LEMMA SettledTable ==
  ASSUME NEW from \in Settled, NEW to, CanTransition(from, to)
  PROVE  to = from
  BY DEF CanTransition, Settled

\* A status command leaves settled returns alone.
LEMMA WriteStands ==
  ASSUME TypeOK, NEW q \in Returns, NEW s, Write(q, s) \/ UNCHANGED request,
         NEW r \in Returns, status[r] \in Settled
  PROVE  status'[r] = status[r]
  BY SettledTable DEF Write, request, TypeOK

\* The steps that change a settled return.
LEMMA SettledStep ==
  ASSUME TypeOK, StoredInv, [Next]_vars, NEW r \in Returns,
         status[r] \in Settled, status'[r] # status[r]
  PROVE  \/ pc[r] \in {"fail", "failLeaky"} /\ status'[r] = "FAILED"
         \/ writer # None /\ status' = image
<1> DEFINE Goal == \/ pc[r] \in {"fail", "failLeaky"} /\ status'[r] = "FAILED"
                   \/ writer # None /\ status' = image
<1> SUFFICES Goal OBVIOUS
<1> USE DEF request, machine, command, outside, setting
<1>0. ASSUME status' = status PROVE FALSE
  BY <1>0
<1>1. ASSUME NEW q \in Returns, PersistStep(q) PROVE Goal
  <2>1. CASE JsonCommitRequests(q)
    <3>1. status[q] = "absent"
      BY <2>1 DEF JsonCommitRequests, StoredInv, Unstored
    <3>2. r # q /\ Superseded(q, wanted[q])[r] # status[r]
      BY <2>1, <3>1, SupersededStatus DEF JsonCommitRequests, Settled
    <3> QED BY <3>2, SupersededStatus DEF Settled
  <2>2. CASE JsonRestore(q)
    <3>1. writer = q
      BY <2>2 DEF JsonRestore, StoredInv
    <3> QED BY <2>2, <3>1, <1>0, NoneAssumption DEF JsonRestore
  <2>3. ASSUME NEW m \in Machines, SqlSupersede(q, m) PROVE Goal
    <3>1. Superseded(q, {m})[r] # status[r]
      BY <1>0, <2>3 DEF SqlSupersede
    <3> QED BY <3>1, SupersededStatus DEF Settled
  <2>4. CASE SqlInsert(q)
    <3>1. status[q] = "absent"
      BY <2>4 DEF SqlInsert, StoredInv, Unstored
    <3> QED BY <2>4, <3>1 DEF SqlInsert, TypeOK, Settled
  <2>5. ASSUME NEW m \in Machines, SqlClaim(q, m) PROVE Goal
    BY <1>0, <2>5 DEF SqlClaim
  <2>6. CASE JsonCommitMachines(q) \/ CreateFails(q)
    BY <1>0, <2>6 DEF JsonCommitMachines, CreateFails
  <2> QED BY <1>1, <2>1, <2>2, <2>3, <2>4, <2>5, <2>6 DEF PersistStep
<1>2. ASSUME NEW q \in Returns, DispatchStep(q) PROVE Goal
  <2>1. CASE Start(q)
    BY <2>1, WriteStands DEF Start
  <2>2. CASE DispatchAccepted(q) \/ DispatchRefused(q) \/ DispatchFails(q)
    BY <1>0, <2>2 DEF DispatchAccepted, DispatchRefused, DispatchFails
  <2> QED BY <1>2, <2>1, <2>2 DEF DispatchStep
<1>3. ASSUME NEW q \in Returns, OutcomeStep(q) PROVE Goal
  <2>1. CASE Settle(q)
    BY <2>1, WriteStands DEF Settle
  <2>2. CASE Fail(q)
    <3>1. status' = [status EXCEPT ![q] = "FAILED"] /\ pc[q] \in {"fail", "failLeaky"}
      BY <1>0, <2>2 DEF Fail
    <3> QED BY <3>1 DEF TypeOK
  <2>3. CASE Mark(q) \/ Drop(q) \/ Release(q)
    BY <1>0, <2>3 DEF Mark, Drop, Release
  <2> QED BY <1>3, <2>1, <2>2, <2>3 DEF OutcomeStep
<1>4. ASSUME NEW q \in Returns, Command(q) \/ Recover(q) PROVE Goal
  BY <1>4, OperatorWrites, WriteStands
<1>5. ASSUME NEW p \in Pollers, PollStep(p) PROVE Goal
  <2>1. CASE PollApply(p)
    BY <2>1, SettledTable DEF PollApply, TypeOK
  <2>2. ASSUME NEW q \in Returns, PollFetch(p, q) \/ PollFetchFails(p, q) PROVE Goal
    BY <1>0, <2>2 DEF PollFetch, PollFetchFails
  <2> QED BY <1>5, <2>1, <2>2, WatchedAssumption DEF PollStep
<1>6. ASSUME NEW q \in Returns, NEW ask \in Asked[q], Submit(q, ask[1], ask[2]) PROVE Goal
  BY <1>0, <1>6 DEF Submit
<1>7. ASSUME NEW q \in Returns, Crash(q) PROVE Goal
  BY <1>0, <1>7 DEF Crash
<1>8. ASSUME NEW m \in Machines, CloudTerminates(m) PROVE Goal
  BY <1>0, <1>8 DEF CloudTerminates
<1>9. ASSUME NEW b \in Breakdowns, CloudBreaks(b[1], b[2]) PROVE Goal
  BY <1>0, <1>9 DEF CloudBreaks
<1>10. CASE UNCHANGED vars
  BY <1>0, <1>10 DEF vars
<1> HIDE DEF Goal
<1> QED BY <1>1, <1>2, <1>3, <1>4, <1>5, <1>6, <1>7, <1>8, <1>9, <1>10 DEF Next

\* A settled return is changed by nobody but its own handler, failing late, and
\* a commit that is rolled back (SettledReturnStands).
THEOREM SettledStands == Spec => SettledReturnStands
<1>1. TypeOK /\ StoredInv /\ [Next]_vars =>
        [\A r \in Returns :
           status[r] \in {"COMPLETED", "FAILED", "CANCELLED"} /\ status'[r] # status[r] =>
             \/ pc[r] \in {"fail", "failLeaky"} /\ status'[r] = "FAILED"
             \/ writer # None /\ status' = image]_status
  BY SettledStep DEF Settled
<1> QED
  BY <1>1, InitType, NextType, InitStored, NextStored, PTL DEF Spec, SettledReturnStands
-----------------------------------------------------------------------------
(***************************************************************************)
(* What a refused return still holds.                                      *)
(***************************************************************************)

\* What RefusedIsReleased needs to be inductive: a return holds only machines
\* it was asked for, the except branch and a refusal release every machine that
\* was dispatched, and a partial result drops what was not accepted.
HoldsInv(r) ==
  /\ \A m \in Machines : claim[m] = r =>
       /\ m \in wanted[r]
       /\ pc[r] \in {"fail", "failed"} => m \in noContext
       /\ pc[r] \in {"settle", "done"} => okd[r] = wanted[r] \ noContext \/ m \in okd[r]
  /\ pc[r] = "claiming" => todo[r] \subseteq wanted[r]
  /\ pc[r] = "release" => wanted[r] \ noContext \subseteq todo[r]

\* A step that gives a return no machine and does not touch its handler.
Holding(r) ==
  /\ \A m \in Machines : claim'[m] = r => claim[m] = r
  /\ UNCHANGED noContext
  /\ wanted'[r] = wanted[r] /\ okd'[r] = okd[r] /\ todo'[r] = todo[r] /\ pc'[r] = pc[r]

\* Such a step keeps what the return holds within bounds.
LEMMA HoldingKeeps ==
  ASSUME NEW r \in Returns, HoldsInv(r), Holding(r)
  PROVE  HoldsInv(r)'
  BY DEF HoldsInv, Holding

\* The steps of its own handler keep it, up to the dispatch.
LEMMA OwnPersistHolds ==
  ASSUME TypeOK, NEW r \in Returns, HoldsInv(r), PersistStep(r)
  PROVE  HoldsInv(r)'
<1> USE DEF request, machine, command, outside, setting, TypeOK, Goto
<1>1. CASE JsonCommitRequests(r)
  BY <1>1 DEF JsonCommitRequests, HoldsInv
<1>2. CASE JsonCommitMachines(r)
  BY <1>2 DEF JsonCommitMachines, HoldsInv
<1>3. CASE JsonRestore(r)
  BY <1>3 DEF JsonRestore, Abandon, HoldsInv
<1>4. ASSUME NEW m \in Machines, SqlSupersede(r, m) PROVE HoldsInv(r)'
  BY <1>4, NoneAssumption DEF SqlSupersede, Abandon, HoldsInv
<1>5. ASSUME NEW m \in Machines, SqlClaim(r, m) PROVE HoldsInv(r)'
  BY <1>5 DEF SqlClaim, HoldsInv
<1>6. CASE SqlInsert(r)
  BY <1>6 DEF SqlInsert, HoldsInv
<1>7. CASE CreateFails(r)
  BY <1>7 DEF CreateFails, Abandon, HoldsInv
<1> QED BY <1>1, <1>2, <1>3, <1>4, <1>5, <1>6, <1>7 DEF PersistStep

\* The deprovisioning call keeps it.
LEMMA OwnDispatchHolds ==
  ASSUME TypeOK, NEW r \in Returns, HoldsInv(r), DispatchStep(r)
  PROVE  HoldsInv(r)'
<1> USE DEF request, machine, command, outside, setting, TypeOK, Goto, Dispatched
<1>1. CASE Start(r)
  BY <1>1 DEF Start, HoldsInv
<1>2. CASE DispatchAccepted(r)
  BY <1>2 DEF DispatchAccepted, HoldsInv
<1>3. CASE DispatchRefused(r)
  <2>1. PICK A \in AcceptedSets(Dispatched(r)) :
          /\ okd' = [okd EXCEPT ![r] = A]
          /\ todo' = [todo EXCEPT ![r] = IF A = {} THEN Dispatched(r) ELSE {}]
          /\ pc' = [pc EXCEPT ![r] = IF A = {} THEN "release" ELSE "mark"]
    BY <1>3 DEF DispatchRefused
  <2>2. UNCHANGED <<claim, wanted, noContext>>
    BY <1>3 DEF DispatchRefused
  <2> QED BY <2>1, <2>2 DEF HoldsInv
<1>4. CASE DispatchFails(r)
  BY <1>4 DEF DispatchFails, HoldsInv
<1> QED BY <1>1, <1>2, <1>3, <1>4 DEF DispatchStep

\* What the handler does with the result keeps it.
LEMMA OwnOutcomeHolds ==
  ASSUME TypeOK, NEW r \in Returns, HoldsInv(r), OutcomeStep(r)
  PROVE  HoldsInv(r)'
<1> USE DEF request, machine, command, outside, setting, TypeOK, Goto
<1>e. ASSUME Except(r), UNCHANGED <<wanted, noContext>>,
             \A m \in Machines : claim'[m] = r => claim[m] = r
      PROVE  HoldsInv(r)'
  BY <1>e DEF Except, HoldsInv
<1>f. ASSUME NEW ms PROVE \A m \in Machines : Released(r, ms)[m] = r => claim[m] = r /\ m \notin ms
  BY ReleasedClaims, NoneAssumption
<1>1. CASE Mark(r)
  <2>1. CASE Except(r)
    BY <1>1, <1>e, <2>1 DEF Mark
  <2>2. CASE pc' = [pc EXCEPT ![r] = IF AllAccepted(r) THEN "settle" ELSE "drop"]
             /\ UNCHANGED <<todo, okd>>
    BY <1>1, <2>2 DEF Mark, AllAccepted, Dispatched, HoldsInv
  <2> QED BY <1>1, <2>1, <2>2 DEF Mark
<1>2. CASE Drop(r)
  <2>1. CASE Except(r)
    BY <1>2, <1>e, <1>f, <2>1 DEF Drop
  <2>2. CASE /\ claim' = Released(r, Unterminated(r))
             /\ pc' = [pc EXCEPT ![r] = "settle"] /\ UNCHANGED <<todo, okd>>
    <3>1. \A m \in Machines : claim'[m] = r => claim[m] = r /\ m \notin wanted[r] \ okd[r]
      BY <1>f, <2>2 DEF Unterminated
    <3> QED BY <1>2, <2>2, <3>1 DEF Drop, HoldsInv
  <2> QED BY <1>2, <2>1, <2>2 DEF Drop
<1>3. CASE Settle(r)
  <2>1. CASE Except(r)
    BY <1>3, <1>e, <2>1 DEF Settle
  <2>2. CASE pc' = [pc EXCEPT ![r] = "done"] /\ UNCHANGED <<todo, okd>>
    BY <1>3, <2>2 DEF Settle, HoldsInv
  <2> QED BY <1>3, <2>1, <2>2 DEF Settle
<1>4. CASE Release(r)
  <2>1. CASE claim' = Released(r, todo[r]) /\ pc' = [pc EXCEPT ![r] = "fail"]
    <3>1. \A m \in Machines : claim'[m] = r => claim[m] = r /\ m \notin todo[r]
      BY <1>f, <2>1
    <3> QED BY <1>4, <2>1, <3>1 DEF Release, HoldsInv
  <2>2. CASE pc' = [pc EXCEPT ![r] = "failLeaky"] /\ \E ms : claim' = Released(r, ms)
    <3>1. \A m \in Machines : claim'[m] = r => claim[m] = r
      BY <1>f, <2>2
    <3> QED BY <1>4, <2>2, <3>1 DEF Release, HoldsInv
  <2> QED BY <1>4, <2>1, <2>2 DEF Release
<1>5. CASE Fail(r)
  BY <1>5 DEF Fail, Abandon, HoldsInv
<1> QED BY <1>1, <1>2, <1>3, <1>4, <1>5 DEF OutcomeStep

\* The handler of another return gives this one nothing.
LEMMA OthersHold ==
  ASSUME TypeOK, NEW q \in Returns, NEW r \in Returns, q # r,
         PersistStep(q) \/ DispatchStep(q) \/ OutcomeStep(q) \/ Crash(q)
  PROVE  Holding(r)
<1> USE DEF request, machine, command, outside, setting, TypeOK, Goto, Abandon, Except
<1>f. ASSUME NEW ms PROVE \A m \in Machines : Released(q, ms)[m] = r => claim[m] = r
  BY ReleasedClaims, NoneAssumption
<1>1. CASE PersistStep(q)
  <2>1. ASSUME NEW m \in Machines, SqlSupersede(q, m) PROVE Holding(r)
    BY <2>1, NoneAssumption DEF SqlSupersede, Holding
  <2>2. ASSUME NEW m \in Machines, SqlClaim(q, m) PROVE Holding(r)
    BY <2>2 DEF SqlClaim, Holding
  <2>3. CASE JsonCommitRequests(q)
    BY <2>3 DEF JsonCommitRequests, Holding
  <2>4. CASE JsonCommitMachines(q)
    BY <2>4 DEF JsonCommitMachines, Holding
  <2>5. CASE JsonRestore(q) \/ SqlInsert(q) \/ CreateFails(q)
    BY <2>5 DEF JsonRestore, SqlInsert, CreateFails, Holding
  <2> QED BY <1>1, <2>1, <2>2, <2>3, <2>4, <2>5 DEF PersistStep
<1>2. CASE DispatchStep(q)
  <2>1. CASE DispatchRefused(q)
    <3>1. PICK A \in AcceptedSets(Dispatched(q)) :
            /\ okd' = [okd EXCEPT ![q] = A]
            /\ todo' = [todo EXCEPT ![q] = IF A = {} THEN Dispatched(q) ELSE {}]
            /\ pc' = [pc EXCEPT ![q] = IF A = {} THEN "release" ELSE "mark"]
      BY <2>1 DEF DispatchRefused
    <3> QED BY <2>1, <3>1 DEF DispatchRefused, Holding
  <2>2. CASE Start(q) \/ DispatchAccepted(q) \/ DispatchFails(q)
    BY <2>2 DEF Start, DispatchAccepted, DispatchFails, Holding
  <2> QED BY <1>2, <2>1, <2>2 DEF DispatchStep
<1>3. CASE OutcomeStep(q)
  <2>1. CASE Drop(q)
    <3>1. \A m \in Machines : claim'[m] = r => claim[m] = r
      BY <1>f, <2>1 DEF Drop
    <3> QED BY <2>1, <3>1 DEF Drop, Holding
  <2>2. CASE Release(q)
    <3>1. \A m \in Machines : claim'[m] = r => claim[m] = r
      BY <1>f, <2>2 DEF Release
    <3> QED BY <2>2, <3>1 DEF Release, Holding
  <2>3. CASE Mark(q) \/ Settle(q) \/ Fail(q)
    BY <2>3 DEF Mark, Settle, Fail, Holding
  <2> QED BY <1>3, <2>1, <2>2, <2>3 DEF OutcomeStep
<1>4. CASE Crash(q)
  BY <1>4 DEF Crash, Holding
<1> QED BY <1>1, <1>2, <1>3, <1>4

\* Every step keeps it, for every return.
LEMMA NextHolds ==
  ASSUME TypeOK, StoredInv, [Next]_vars, NEW r \in Returns, HoldsInv(r)
  PROVE  HoldsInv(r)'
<1> USE DEF request, machine, command, outside, setting
<1>1. ASSUME NEW q \in Returns, NEW ask \in Asked[q], Submit(q, ask[1], ask[2])
      PROVE  HoldsInv(r)'
  <2>1. pc[q] = "idle" /\ pc' = [pc EXCEPT ![q] = "persist"] /\ UNCHANGED <<claim, okd, noContext>>
    BY <1>1 DEF Submit, Goto
  <2>2. CASE q = r
    <3>1. \A m \in Machines : claim'[m] # r
      BY <2>1, <2>2 DEF StoredInv, Unstored
    <3>2. pc'[r] = "persist"
      BY <2>1, <2>2 DEF TypeOK
    <3> QED BY <3>1, <3>2 DEF HoldsInv
  <2>3. CASE q # r
    <3>1. Holding(r)
      BY <1>1, <2>1, <2>3 DEF Submit, Holding, TypeOK
    <3> QED BY <3>1, HoldingKeeps
  <2> QED BY <2>2, <2>3
<1>2. ASSUME NEW q \in Returns, PersistStep(q) \/ DispatchStep(q) \/ OutcomeStep(q) \/ Crash(q)
      PROVE  HoldsInv(r)'
  <2>1. CASE q # r
    BY <1>2, <2>1, OthersHold, HoldingKeeps
  <2>2. CASE q = r /\ Crash(q)
    BY <2>2 DEF Crash, Abandon, Goto, HoldsInv, TypeOK
  <2> QED BY <1>2, <2>1, <2>2, OwnPersistHolds, OwnDispatchHolds, OwnOutcomeHolds
<1>3. ASSUME UNCHANGED <<claim, noContext, wanted, okd, todo, pc>> PROVE HoldsInv(r)'
  BY <1>3, HoldingKeeps DEF Holding
<1>4. ASSUME NEW q \in Returns, Command(q) \/ Recover(q) PROVE HoldsInv(r)'
  BY <1>3, <1>4, OperatorWrites
<1>5. ASSUME NEW p \in Pollers, PollStep(p) PROVE HoldsInv(r)'
  BY <1>3, <1>5 DEF PollStep, PollFetch, PollFetchFails, PollApply
<1>6. ASSUME NEW m \in Machines, CloudTerminates(m) PROVE HoldsInv(r)'
  BY <1>3, <1>6 DEF CloudTerminates
<1>7. ASSUME NEW b \in Breakdowns, CloudBreaks(b[1], b[2]) PROVE HoldsInv(r)'
  BY <1>3, <1>7 DEF CloudBreaks
<1>8. CASE UNCHANGED vars
  BY <1>3, <1>8 DEF vars
<1> QED BY <1>1, <1>2, <1>4, <1>5, <1>6, <1>7, <1>8 DEF Next

\* A return that ended as failed or partly refused holds no machine that was
\* dispatched and not accepted (RefusedIsReleased).
THEOREM RefusedLetGo == Spec => []RefusedIsReleased
<1> DEFINE AllHold == \A r \in Returns : HoldsInv(r)
<1>1. Init => AllHold
  BY NoneAssumption DEF Init, HoldsInv
<1>2. TypeOK /\ StoredInv /\ [Next]_vars /\ AllHold => AllHold'
  BY NextHolds
<1>3. AllHold => RefusedIsReleased
  BY DEF HoldsInv, RefusedIsReleased, AllAccepted, Dispatched
<1> HIDE DEF AllHold
<1> QED BY <1>1, <1>2, <1>3, InitType, NextType, InitStored, NextStored, PTL DEF Spec
-----------------------------------------------------------------------------
(***************************************************************************)
(* A sync completes a return whose machines are gone.                      *)
(***************************************************************************)
AllGone(r) == \A m \in wanted[r] \ Overlooked : Gone(m)

\* What SyncCompletesGone rests on: a verdict of COMPLETED speaks of machines
\* that are gone, no row of a machine that answers do not overlook is ahead of
\* the provider, and no sync is about a return that was not submitted.
GoneInv ==
  /\ \A p \in Pollers : poll[p].verdict = "COMPLETED" =>
       poll[p].for \in Returns /\ AllGone(poll[p].for)
  /\ \A m \in Machines \ Overlooked : recorded[m] \in GoneStatuses => Gone(m)
  /\ \A m \in Machines : cloud[m] = "stopped" => <<m, "stopped">> \in Breakdowns
  /\ \A r \in Returns : pc[r] = "idle" => \A p \in Pollers : poll[p].for # r

\* COMPLETED is the verdict only when every machine asked for was seen gone
\* (_determine_return_status).
LEMMA CompletedVerdict ==
  ASSUME NEW W, IsFiniteSet(W), NEW view, DOMAIN view \subseteq W,
         NEW db, DOMAIN view = {} => db = {},
         ReturnVerdict(db, view, Cardinality(W)) = "COMPLETED"
  PROVE  \A m \in W : m \in DOMAIN view /\ view[m] \in GoneStatuses
<1> DEFINE G == {m \in DOMAIN view : view[m] \in GoneStatuses}
<1>1. Count(view, GoneStatuses) >= Cardinality(W)
  BY DEF ReturnVerdict
<1>2. Cardinality(G) >= Cardinality(W)
  BY <1>1 DEF Count
<1>3. G \subseteq W
  OBVIOUS
<1> HIDE DEF G
<1>4. /\ IsFiniteSet(G) /\ Cardinality(G) <= Cardinality(W)
      /\ Cardinality(G) = Cardinality(W) => G = W
  BY <1>3, FS_Subset
<1>5. Cardinality(G) \in Nat /\ Cardinality(W) \in Nat
  BY <1>4, FS_CardinalityType
<1>6. G = W
  BY <1>2, <1>4, <1>5
<1> QED BY <1>6 DEF G

\* What has happened to the provider's machines, and which are gone.
LEMMA CloudStep ==
  ASSUME TypeOK, GoneInv, [Next]_vars
  PROVE  /\ \A m \in Machines : Gone(m) => Gone(m)'
         /\ \A m \in Machines : cloud'[m] = "stopped" => <<m, "stopped">> \in Breakdowns
<1> DEFINE Goal == /\ \A m \in Machines : Gone(m) => Gone(m)'
                   /\ \A m \in Machines : cloud'[m] = "stopped" => <<m, "stopped">> \in Breakdowns
<1> SUFFICES Goal OBVIOUS
<1> USE DEF request, machine, command, outside, setting
<1>0. ASSUME cloud' = cloud PROVE Goal
  BY <1>0 DEF Gone, GoneInv
<1>1. ASSUME NEW ms, cloud' = Terminated(ms) PROVE Goal
  BY <1>1 DEF Terminated, Gone, GoneInv, TypeOK
<1>2. ASSUME NEW r \in Returns, DispatchStep(r) PROVE Goal
  <2>1. CASE Start(r)
    BY <1>0, <2>1 DEF Start
  <2>2. CASE DispatchAccepted(r)
    BY <1>1, <2>2 DEF DispatchAccepted
  <2>3. CASE DispatchRefused(r)
    BY <1>1, <2>3 DEF DispatchRefused
  <2>4. CASE DispatchFails(r)
    BY <1>1, <2>4 DEF DispatchFails
  <2> QED BY <1>2, <2>1, <2>2, <2>3, <2>4 DEF DispatchStep
<1>3. ASSUME NEW r \in Returns, PersistStep(r) PROVE Goal
  BY <1>0, <1>3 DEF PersistStep, JsonCommitRequests, JsonCommitMachines, JsonRestore,
     SqlSupersede, SqlClaim, SqlInsert, CreateFails
<1>4. ASSUME NEW r \in Returns, OutcomeStep(r) PROVE Goal
  BY <1>0, <1>4 DEF OutcomeStep, Mark, Drop, Settle, Release, Fail
<1>5. ASSUME NEW r \in Returns, Command(r) \/ Recover(r) \/ Crash(r) PROVE Goal
  BY <1>0, <1>5 DEF Command, Recover, Crash
<1>6. ASSUME NEW r \in Returns, NEW ask \in Asked[r], Submit(r, ask[1], ask[2]) PROVE Goal
  BY <1>0, <1>6 DEF Submit
<1>7. ASSUME NEW p \in Pollers, PollStep(p) PROVE Goal
  BY <1>0, <1>7 DEF PollStep, PollFetch, PollFetchFails, PollApply
<1>8. ASSUME NEW m \in Machines, CloudTerminates(m) PROVE Goal
  BY <1>8 DEF CloudTerminates, Gone, GoneInv, TypeOK
<1>9. ASSUME NEW b \in Breakdowns, CloudBreaks(b[1], b[2]) PROVE Goal
  <2>1. b = <<b[1], b[2]>> /\ b[1] \in Machines /\ b[2] \in {"stopped", "failed"}
    BY BreakdownsAssumption
  <2> QED BY <1>9, <2>1 DEF CloudBreaks, Gone, GoneInv, TypeOK
<1>10. CASE UNCHANGED vars
  BY <1>0, <1>10 DEF vars
<1> HIDE DEF Goal
<1> QED BY <1>2, <1>3, <1>4, <1>5, <1>6, <1>7, <1>8, <1>9, <1>10 DEF Next

\* A step that learns nothing from the provider and submits nothing.
Idling ==
  /\ UNCHANGED <<wanted, poll>>
  /\ \A m \in Machines : recorded'[m] \in {recorded[m], "shutting-down"}
  /\ \A r \in Returns : pc'[r] = "idle" => pc[r] = "idle"

\* Such a step keeps the invariant.
LEMMA IdlingKeepsGone ==
  ASSUME TypeOK, GoneInv, [Next]_vars, Idling
  PROVE  GoneInv'
<1>0. /\ \A m \in Machines : Gone(m) => Gone(m)'
      /\ \A m \in Machines : cloud'[m] = "stopped" => <<m, "stopped">> \in Breakdowns
  BY CloudStep
<1>1. (\A p \in Pollers : poll[p].verdict = "COMPLETED" =>
         poll[p].for \in Returns /\ AllGone(poll[p].for))'
  <2> SUFFICES ASSUME NEW p \in Pollers, poll[p].verdict = "COMPLETED"
               PROVE  (poll[p].for \in Returns /\ AllGone(poll[p].for))'
    BY DEF Idling
  <2>1. poll[p].for \in Returns /\ AllGone(poll[p].for)
    BY DEF GoneInv
  <2> QED BY <1>0, <2>1 DEF AllGone, Idling, TypeOK
<1>2. \A m \in Machines \ Overlooked : recorded'[m] \in GoneStatuses => Gone(m)'
  BY <1>0 DEF Idling, GoneInv, GoneStatuses
<1>3. \A r \in Returns : pc'[r] = "idle" => \A p \in Pollers : poll'[p].for # r
  BY DEF Idling, GoneInv
<1> QED BY <1>0, <1>1, <1>2, <1>3 DEF GoneInv

\* A sync's answer and the verdict on it keep the invariant.
LEMMA PollKeepsGone ==
  ASSUME TypeOK, StoredInv, \A r \in Returns : HoldsInv(r), GoneInv,
         NEW p \in Pollers, PollStep(p)
  PROVE  GoneInv'
<1> USE DEF request, machine, command, outside, setting
<1>a. ASSUME NEW r \in Returns, NEW view, DOMAIN view \subseteq wanted[r],
             DOMAIN view = {} => Held(r) = {},
             \A m \in DOMAIN view \ Overlooked : view[m] \in GoneStatuses => Gone(m),
             PollAnswered(p, r, view), UNCHANGED <<request, cloud, pc, wanted>>,
             \A m \in Machines \ Overlooked : recorded'[m] \in {recorded[m], cloud[m]}
      PROVE  GoneInv'
  <2> DEFINE verdict == ReturnVerdict(Held(r), view, Cardinality(wanted[r]))
  <2>1. IsFiniteSet(wanted[r])
    BY MachinesFinite, FS_Subset DEF TypeOK
  <2>2. verdict = "COMPLETED" => AllGone(r)
    BY <1>a, <2>1, CompletedVerdict DEF AllGone
  <2>3. \A q \in Pollers : poll'[q] = IF q = p THEN [for |-> r, verdict |-> verdict] ELSE poll[q]
    BY <1>a DEF PollAnswered, Poll, TypeOK
  <2> HIDE DEF verdict
  <2>4. pc[r] # "idle"
    BY <1>a DEF PollAnswered, StoredInv, Unstored
  <2>5. \A q \in Pollers : poll'[q].verdict = "COMPLETED" =>
          poll'[q].for \in Returns /\ \A m \in wanted[poll'[q].for] \ Overlooked : Gone(m)
    BY <2>2, <2>3 DEF GoneInv, AllGone
  <2>6. (\A q \in Pollers : poll[q].verdict = "COMPLETED" =>
           poll[q].for \in Returns /\ AllGone(poll[q].for))'
    BY <1>a, <2>5 DEF AllGone, Gone
  <2>7. \A q \in Returns : pc'[q] = "idle" => \A o \in Pollers : poll'[o].for # q
    BY <1>a, <2>3, <2>4 DEF GoneInv
  <2>8. /\ \A m \in Machines \ Overlooked : recorded'[m] \in GoneStatuses => Gone(m)'
        /\ \A m \in Machines : cloud'[m] = "stopped" => <<m, "stopped">> \in Breakdowns
    BY <1>a DEF GoneInv, GoneStatuses, Gone
  <2> QED BY <2>6, <2>7, <2>8 DEF GoneInv
<1>1. ASSUME NEW r \in Returns, PollFetchFails(p, r) PROVE GoneInv'
  <2> DEFINE view == [m \in Held(r) |-> recorded[m]]
  <2>1. DOMAIN view = Held(r) /\ Held(r) \subseteq wanted[r]
    BY DEF Held, HoldsInv
  <2>2. \A m \in DOMAIN view \ Overlooked : view[m] \in GoneStatuses => Gone(m)
    BY DEF GoneInv, Held
  <2>3. /\ PollAnswered(p, r, view) /\ UNCHANGED <<request, cloud, pc, wanted>>
        /\ recorded' = recorded
    BY <1>1 DEF PollFetchFails
  <2> HIDE DEF view
  <2> QED BY <1>a, <2>1, <2>2, <2>3
<1>2. ASSUME NEW r \in Returns, PollFetch(p, r) PROVE GoneInv'
  <2>0. PICK absent \in SUBSET {m \in wanted[r] : cloud[m] = "terminated" \/ m \in Overlooked} :
          \E ignored \in SUBSET (absent \ Held(r)) :
          LET view == [m \in wanted[r] \ ignored |-> IF m \in absent THEN "terminated" ELSE cloud[m]]
          IN  /\ PollAnswered(p, r, view)
              /\ \E rows \in SUBSET {m \in DOMAIN view : view[m] # recorded[m]} :
                   recorded' = [m \in Machines |-> IF m \in rows THEN view[m] ELSE recorded[m]]
    BY <1>2 DEF PollFetch
  <2>1. PICK ignored \in SUBSET (absent \ Held(r)) :
          LET view == [m \in wanted[r] \ ignored |-> IF m \in absent THEN "terminated" ELSE cloud[m]]
          IN  /\ PollAnswered(p, r, view)
              /\ \E rows \in SUBSET {m \in DOMAIN view : view[m] # recorded[m]} :
                   recorded' = [m \in Machines |-> IF m \in rows THEN view[m] ELSE recorded[m]]
    BY <2>0
  <2> DEFINE view == [m \in wanted[r] \ ignored |-> IF m \in absent THEN "terminated" ELSE cloud[m]]
  <2>2. DOMAIN view \subseteq wanted[r] /\ wanted[r] \subseteq Machines
    BY DEF TypeOK
  <2>3. DOMAIN view = {} => Held(r) = {}
    BY DEF Held, HoldsInv
  <2>4. \A m \in DOMAIN view \ Overlooked : view[m] = cloud[m]
    OBVIOUS
  <2>5. \A m \in DOMAIN view \ Overlooked : view[m] \in GoneStatuses => Gone(m)
    BY <2>2, <2>4 DEF GoneInv, GoneStatuses, Gone
  <2>6. PollAnswered(p, r, view) /\ UNCHANGED <<request, cloud, pc, wanted>>
    BY <1>2, <2>1 DEF PollFetch
  <2>7. PICK rows \in SUBSET DOMAIN view :
          recorded' = [m \in Machines |-> IF m \in rows THEN view[m] ELSE recorded[m]]
    BY <2>1
  <2> HIDE DEF view
  <2>8. \A m \in Machines \ Overlooked : recorded'[m] \in {recorded[m], cloud[m]}
    BY <2>4, <2>7
  <2> QED BY <1>a, <2>2, <2>3, <2>5, <2>6, <2>8
<1>3. CASE PollApply(p)
  <2>1. UNCHANGED <<cloud, wanted, recorded, pc>>
    BY <1>3 DEF PollApply
  <2>2. \A q \in Pollers : poll'[q] = IF q = p THEN Idle ELSE poll[q]
    BY <1>3 DEF PollApply, Poll, TypeOK
  <2>3. (\A q \in Pollers : poll[q].verdict = "COMPLETED" =>
           poll[q].for \in Returns /\ AllGone(poll[q].for))'
    BY <2>1, <2>2 DEF GoneInv, AllGone, Gone, Idle
  <2>4. \A q \in Returns : pc'[q] = "idle" => \A o \in Pollers : poll'[o].for # q
    BY <2>1, <2>2, NoneAssumption DEF GoneInv, Idle
  <2>5. /\ \A m \in Machines \ Overlooked : recorded'[m] \in GoneStatuses => Gone(m)'
        /\ \A m \in Machines : cloud'[m] = "stopped" => <<m, "stopped">> \in Breakdowns
    BY <2>1 DEF GoneInv, Gone
  <2> QED BY <2>3, <2>4, <2>5 DEF GoneInv
<1> QED BY <1>1, <1>2, <1>3, WatchedAssumption DEF PollStep

\* The steps of a handler once it has been submitted, and what operators do, are
\* idle in this sense.
LEMMA HandlerIdling ==
  ASSUME TypeOK, NEW r \in Returns,
         PersistStep(r) \/ DispatchStep(r) \/ OutcomeStep(r) \/ Crash(r)
           \/ Command(r) \/ Recover(r)
  PROVE  Idling
<1> USE DEF request, machine, command, outside, setting
<1>0. ASSUME NEW label \in PCs \ {"idle"}, Goto(r, label)
      PROVE  \A q \in Returns : pc'[q] = "idle" => pc[q] = "idle"
  BY <1>0 DEF Goto, TypeOK
<1>1. \A q \in Returns : pc'[q] = "idle" => pc[q] = "idle"
  <2> USE DEF PCs, Ended, Abandon, Except
  <2>1. CASE PersistStep(r)
    BY <1>0, <2>1 DEF PersistStep, JsonCommitRequests, JsonCommitMachines, JsonRestore,
       SqlSupersede, SqlClaim, SqlInsert, CreateFails
  <2>2. CASE DispatchStep(r)
    <3>1. CASE DispatchRefused(r)
      <4>1. PICK label \in {"release", "mark"} : Goto(r, label)
        BY <3>1 DEF DispatchRefused
      <4> QED BY <1>0, <4>1
    <3> QED BY <1>0, <2>2, <3>1 DEF DispatchStep, Start, DispatchAccepted, DispatchFails
  <2>3. CASE OutcomeStep(r)
    BY <1>0, <2>3 DEF OutcomeStep, Mark, Drop, Settle, Release, Fail
  <2>4. CASE Crash(r) \/ Command(r) \/ Recover(r)
    BY <1>0, <2>4 DEF Crash, Command, Recover
  <2> QED BY <2>1, <2>2, <2>3, <2>4
<1>2. UNCHANGED <<wanted, poll>>
  BY DEF PersistStep, JsonCommitRequests, JsonCommitMachines, JsonRestore,
     SqlSupersede, SqlClaim, SqlInsert, CreateFails, DispatchStep, Start, DispatchAccepted,
     DispatchRefused, DispatchFails, OutcomeStep, Mark, Drop, Settle, Release, Fail, Crash,
     Command, Recover
<1>3. \A m \in Machines : recorded'[m] \in {recorded[m], "shutting-down"}
  <2>1. CASE Mark(r)
    BY <2>1 DEF Mark, Record
  <2>2. CASE recorded' = recorded
    BY <2>2
  <2> QED
    BY <2>1, <2>2 DEF PersistStep, JsonCommitRequests, JsonCommitMachines, JsonRestore,
       SqlSupersede, SqlClaim, SqlInsert, CreateFails, DispatchStep, Start, DispatchAccepted,
       DispatchRefused, DispatchFails, OutcomeStep, Drop, Settle, Release, Fail, Crash,
       Command, Recover
<1> QED BY <1>1, <1>2, <1>3 DEF Idling

\* Every step keeps the invariant.
LEMMA NextGone ==
  ASSUME TypeOK, StoredInv, \A r \in Returns : HoldsInv(r), GoneInv, [Next]_vars
  PROVE  GoneInv'
<1> USE DEF request, machine, command, outside, setting
<1>1. ASSUME NEW r \in Returns, NEW ask \in Asked[r], Submit(r, ask[1], ask[2])
      PROVE  GoneInv'
  <2>1. /\ pc[r] = "idle" /\ pc' = [pc EXCEPT ![r] = "persist"]
        /\ UNCHANGED <<recorded, cloud, poll>>
        /\ \A q \in Returns : q # r => wanted'[q] = wanted[q]
    BY <1>1 DEF Submit, Goto, TypeOK
  <2>2. \A p \in Pollers : poll[p].for # r
    BY <2>1 DEF GoneInv
  <2>3. (\A p \in Pollers : poll[p].verdict = "COMPLETED" =>
           poll[p].for \in Returns /\ AllGone(poll[p].for))'
    BY <2>1, <2>2 DEF GoneInv, AllGone, Gone
  <2>4. /\ \A m \in Machines \ Overlooked : recorded'[m] \in GoneStatuses => Gone(m)'
        /\ \A m \in Machines : cloud'[m] = "stopped" => <<m, "stopped">> \in Breakdowns
    BY <2>1 DEF GoneInv, Gone
  <2>5. \A q \in Returns : pc'[q] = "idle" => \A p \in Pollers : poll'[p].for # q
    BY <2>1 DEF GoneInv, TypeOK
  <2> QED BY <2>3, <2>4, <2>5 DEF GoneInv
<1>2. ASSUME NEW r \in Returns,
             PersistStep(r) \/ DispatchStep(r) \/ OutcomeStep(r) \/ Crash(r)
               \/ Command(r) \/ Recover(r)
      PROVE  GoneInv'
  BY <1>2, HandlerIdling, IdlingKeepsGone
<1>3. ASSUME NEW p \in Pollers, PollStep(p) PROVE GoneInv'
  BY <1>3, PollKeepsGone
<1>4. ASSUME UNCHANGED <<wanted, poll, recorded, pc>> PROVE GoneInv'
  BY <1>4, IdlingKeepsGone DEF Idling
<1>5. ASSUME NEW m \in Machines, CloudTerminates(m) PROVE GoneInv'
  BY <1>4, <1>5 DEF CloudTerminates
<1>6. ASSUME NEW b \in Breakdowns, CloudBreaks(b[1], b[2]) PROVE GoneInv'
  BY <1>4, <1>6 DEF CloudBreaks
<1>7. CASE UNCHANGED vars
  BY <1>4, <1>7 DEF vars
<1> QED BY <1>1, <1>2, <1>3, <1>5, <1>6, <1>7 DEF Next

\* A step of a sync that completes a return finds its machines gone.
LEMMA SyncStep ==
  ASSUME TypeOK, GoneInv, [Next]_vars, NEW r \in Returns,
         status[r] # "COMPLETED", status'[r] = "COMPLETED", poll' # poll
  PROVE  AllGone(r)
<1> USE DEF request, machine, command, outside, setting
<1>1. ASSUME NEW q \in Returns,
             PersistStep(q) \/ DispatchStep(q) \/ OutcomeStep(q) \/ Crash(q)
               \/ Command(q) \/ Recover(q)
      PROVE  FALSE
  BY <1>1, HandlerIdling DEF Idling
<1>2. ASSUME NEW q \in Returns, NEW ask \in Asked[q], Submit(q, ask[1], ask[2]) PROVE FALSE
  BY <1>2 DEF Submit
<1>3. ASSUME NEW p \in Pollers, PollStep(p) PROVE AllGone(r)
  <2>1. ASSUME NEW q \in Watched, PollFetch(p, q) \/ PollFetchFails(p, q) PROVE FALSE
    BY <2>1 DEF PollFetch, PollFetchFails
  <2>2. PollApply(p)
    BY <1>3, <2>1 DEF PollStep
  <2>3. r = poll[p].for /\ poll[p].verdict = "COMPLETED"
    BY <2>2 DEF PollApply, TypeOK
  <2> QED BY <2>3 DEF GoneInv
<1>4. ASSUME NEW m \in Machines, CloudTerminates(m) PROVE FALSE
  BY <1>4 DEF CloudTerminates
<1>5. ASSUME NEW b \in Breakdowns, CloudBreaks(b[1], b[2]) PROVE FALSE
  BY <1>5 DEF CloudBreaks
<1>6. ~UNCHANGED vars
  BY DEF vars
<1> QED BY <1>1, <1>2, <1>3, <1>4, <1>5, <1>6 DEF Next

\* A status sync completes a return only when the machines it was asked for, but
\* for those an answer may overlook, are gone, however late the verdict is
\* written and however short the answer was (SyncCompletesGone).
THEOREM SyncsCompleteGone == Spec => SyncCompletesGone
<1> DEFINE AllHold == \A r \in Returns : HoldsInv(r)
<1>1. Init => AllHold
  BY NoneAssumption DEF Init, HoldsInv
<1>2. TypeOK /\ StoredInv /\ [Next]_vars /\ AllHold => AllHold'
  BY NextHolds
<1>3. Init => GoneInv
  BY NoneAssumption DEF Init, GoneInv, Idle, GoneStatuses
<1>4. TypeOK /\ StoredInv /\ AllHold /\ GoneInv /\ [Next]_vars => GoneInv'
  BY NextGone
<1>5. TypeOK /\ GoneInv /\ [Next]_vars =>
        [\A r \in Returns :
           status[r] # "COMPLETED" /\ status'[r] = "COMPLETED" /\ poll' # poll =>
             \A m \in wanted[r] \ Overlooked : Gone(m)]_status
  BY SyncStep DEF AllGone
<1> HIDE DEF AllHold
<1> QED
  BY <1>1, <1>2, <1>3, <1>4, <1>5, InitType, NextType, InitStored, NextStored, PTL
  DEF Spec, SyncCompletesGone
=============================================================================
