----------------------- MODULE ReturnContract_proofs -----------------------
(***************************************************************************)
(* ReturnFlow implements ReturnContract, for any returns, machines and     *)
(* syncs and on either storage.                                            *)
(***************************************************************************)
EXTENDS ReturnFlow_proofs

\* What the refinement needs beyond StoredInv and ForcedInv.  A handler still
\* has to take over or to claim only machines it asks for; saves by themselves
\* are SQL and commits under way are JSON; between units of work nothing is
\* uncommitted; and a commit under way has stored its return and cancelled all
\* the holders of its machines, or nobody, and nothing else.
CommitInv ==
  /\ \A r \in Returns : pc[r] \in {"persist", "claiming"} => todo[r] \subseteq wanted[r]
  /\ \A r \in Returns : pc[r] = "claiming" => storage = "sql"
  /\ writer # None => storage = "json"
  /\ writer = None => image = status
  /\ \A r \in Returns : writer = r =>
       /\ image[r] = "absent"
       /\ \E ms \in {{}, wanted[r]} :
            status = [Committed!Superseding(ms) EXCEPT ![r] = "PENDING"]

\* A step of the implementation seen through the contract.
Promised == [Committed!Next]_Committed!cvars

-----------------------------------------------------------------------------
(***************************************************************************)
(* Steps after a return is stored.                                         *)
(***************************************************************************)

\* A step that submits, persists and claims nothing.
Settling ==
  /\ UNCHANGED <<storage, wanted>>
  /\ \A q \in Returns : pc'[q] \in {"persist", "claiming"} =>
       pc'[q] = pc[q] /\ todo'[q] = todo[q]

\* No committed state changes.
Still == Settling /\ UNCHANGED <<status, image, writer, claim>>

\* One status is written, outside any commit.
Writes(r) ==
  /\ Settling /\ writer = None /\ UNCHANGED <<writer, claim>>
  /\ image' = status'
  /\ \/ status' = status
     \/ \E s \in Status : /\ status' = [status EXCEPT ![r] = s]
                          /\ Committed!Follows(status[r], s)

\* A stored return lets go of machines it holds, outside any commit.
Frees(r) ==
  /\ Settling /\ writer = None /\ UNCHANGED <<status, image, writer>>
  /\ status[r] # "absent"
  /\ \A m \in Machines : claim'[m] # claim[m] => claim[m] = r /\ claim'[m] = None

\* Such steps keep the invariant and the contract.
LEMMA SettlingPromised ==
  ASSUME TypeOK, CommitInv, NEW r \in Returns, Still \/ Writes(r) \/ Frees(r)
  PROVE  CommitInv' /\ Promised
<1> USE DEF Settling
<1>1. CASE Still
  <2>1. /\ \A q \in Returns : pc'[q] \in {"persist", "claiming"} => todo'[q] \subseteq wanted'[q]
        /\ \A q \in Returns : pc'[q] = "claiming" => storage' = "sql"
        /\ writer' # None => storage' = "json"
        /\ writer' = None => image' = status'
    BY <1>1 DEF Still, CommitInv
  <2>2. \A q \in Returns : writer' = q =>
          /\ image'[q] = "absent"
          /\ \E ms \in {{}, wanted'[q]} :
               status' = [Committed!Superseding(ms)' EXCEPT ![q] = "PENDING"]
    BY <1>1 DEF Still, CommitInv, Committed!Superseding
  <2>3. CommitInv'
    BY <2>1, <2>2 DEF CommitInv
  <2>4. Promised
    BY <1>1 DEF Still, Promised, Committed!cvars
  <2> QED BY <2>3, <2>4
<1>2. ASSUME writer = None, writer' = None, image' = status' PROVE CommitInv'
  BY <1>2, NoneAssumption DEF CommitInv, Still, Writes, Frees
<1>3. CASE Writes(r)
  <2>1. writer = None /\ writer' = None /\ image' = status' /\ image = status
    BY <1>3 DEF Writes, CommitInv
  <2>2. UNCHANGED <<claim, wanted>>
    BY <1>3 DEF Writes
  <2>3. CASE status' = status
    BY <1>2, <2>1, <2>2, <2>3 DEF Promised, Committed!cvars
  <2>4. ASSUME NEW s \in Status, status' = [status EXCEPT ![r] = s],
               Committed!Follows(status[r], s)
        PROVE  Committed!Move(r)
    <3>1. image'[r] = s /\ \A q \in Returns : q # r => image'[q] = image[q]
      BY <2>1, <2>4 DEF TypeOK
    <3> QED BY <2>1, <2>2, <2>4, <3>1 DEF Committed!Move
  <2> QED BY <1>2, <1>3, <2>1, <2>3, <2>4 DEF Writes, Promised, Committed!Next
<1>4. CASE Frees(r)
  <2>1. writer = None /\ writer' = None /\ image' = status' /\ image = status
    BY <1>4 DEF Frees, CommitInv
  <2>2. Committed!LetGo(r)
    BY <1>4, <2>1 DEF Frees, Committed!LetGo
  <2> QED BY <1>2, <2>1, <2>2 DEF Promised, Committed!Next
<1> QED BY <1>1, <1>3, <1>4

\* Where the transition table lets a status command go.
LEMMA WriteFollows ==
  ASSUME TypeOK, Settling, NEW r \in Returns, NEW s \in Status, UNCHANGED claim,
         Write(r, s) \/ UNCHANGED request
  PROVE  Still \/ Writes(r)
<1>1. CASE UNCHANGED request
  BY <1>1 DEF request, Still
<1>2. CASE Write(r, s)
  <2>1. /\ writer = None /\ UNCHANGED writer /\ image' = status'
        /\ status' = [status EXCEPT ![r] = s] /\ CanTransition(status[r], s)
    BY <1>2 DEF Write, Unlocked
  <2>2. CASE s = status[r]
    <3>1. status' = status
      BY <2>1, <2>2 DEF TypeOK
    <3> QED BY <2>1, <3>1 DEF Writes
  <2>3. CASE s # status[r]
    <3>1. Committed!Follows(status[r], s)
      BY <2>1, <2>3 DEF CanTransition, Committed!Follows, Committed!Final, Terminal
    <3> QED BY <2>1, <3>1 DEF Writes
  <2> QED BY <2>2, <2>3
<1> QED BY <1>1, <1>2

\* The move of one handler to a label past its saves.
LEMMA GotoSettles ==
  ASSUME TypeOK, NEW r \in Returns, NEW label \in PCs \ {"persist", "claiming"},
         Goto(r, label), UNCHANGED <<storage, wanted>>,
         \A q \in Returns : q # r => todo'[q] = todo[q]
  PROVE  Settling
<1>1. pc'[r] = label /\ \A q \in Returns : q # r => pc'[q] = pc[q]
  BY DEF Goto, TypeOK
<1> QED BY <1>1 DEF Settling

\* The deprovisioning call and what is done with its result.
LEMMA HandlerSettles ==
  ASSUME TypeOK, StoredInv, NEW r \in Returns, DispatchStep(r) \/ OutcomeStep(r)
  PROVE  Still \/ Writes(r) \/ Frees(r)
<1> USE DEF request, machine, command, outside, setting, PCs, Ended
<1>t. ASSUME NEW v, todo' = todo \/ todo' = [todo EXCEPT ![r] = v]
      PROVE  \A q \in Returns : q # r => todo'[q] = todo[q]
  BY <1>t DEF TypeOK
<1>1. CASE Start(r)
  <2>1. Settling
    BY <1>1, GotoSettles DEF Start
  <2>2. UNCHANGED claim /\ (Write(r, "IN_PROGRESS") \/ UNCHANGED request)
    BY <1>1 DEF Start
  <2> QED BY <2>1, <2>2, WriteFollows DEF Status
<1>2. CASE DispatchAccepted(r)
  BY <1>2, GotoSettles DEF DispatchAccepted, Still
<1>3. CASE DispatchRefused(r)
  <2>1. PICK A \in AcceptedSets(Dispatched(r)) :
          /\ todo' = [todo EXCEPT ![r] = IF A = {} THEN Dispatched(r) ELSE {}]
          /\ Goto(r, IF A = {} THEN "release" ELSE "mark")
    BY <1>3 DEF DispatchRefused
  <2>2. UNCHANGED <<status, image, writer, claim, storage, wanted>>
    BY <1>3 DEF DispatchRefused
  <2>3. Settling
    BY <1>t, <2>1, <2>2, GotoSettles
  <2> QED BY <2>2, <2>3 DEF Still
<1>4. CASE DispatchFails(r)
  <2>1. Settling
    BY <1>4, <1>t, GotoSettles DEF DispatchFails
  <2> QED BY <1>4, <2>1 DEF DispatchFails, Still
<1>5. CASE Mark(r)
  <2>1. UNCHANGED <<status, image, writer, claim, storage, wanted>>
    BY <1>5 DEF Mark
  <2>2. CASE Except(r)
    BY <1>t, <2>1, <2>2, GotoSettles DEF Except, Still
  <2>3. CASE Goto(r, IF AllAccepted(r) THEN "settle" ELSE "drop") /\ UNCHANGED <<todo, okd>>
    BY <2>1, <2>3, GotoSettles DEF Still
  <2> QED BY <1>5, <2>2, <2>3 DEF Mark
<1>6. CASE Drop(r)
  <2>1. /\ pc[r] = "drop" /\ writer = None /\ UNCHANGED <<status, image, writer, storage, wanted>>
        /\ \E ms : claim' = Released(r, ms)
    BY <1>6 DEF Drop, Unlocked
  <2>2. Settling
    <3>1. CASE Except(r)
      BY <1>t, <2>1, <3>1, GotoSettles DEF Except
    <3>2. CASE Goto(r, "settle") /\ UNCHANGED <<todo, okd>>
      BY <2>1, <3>2, GotoSettles
    <3> QED BY <1>6, <3>1, <3>2 DEF Drop
  <2>3. status[r] # "absent"
    BY <2>1 DEF StoredInv, Unstored
  <2> QED BY <2>1, <2>2, <2>3, ReleasedClaims DEF Frees
<1>7. CASE Settle(r)
  <2>1. /\ UNCHANGED <<claim, storage, wanted>>
        /\ Write(r, SettledStatus(r)) \/ UNCHANGED request
    BY <1>7 DEF Settle
  <2>2. Settling
    <3>1. CASE Except(r)
      BY <1>t, <2>1, <3>1, GotoSettles DEF Except
    <3>2. CASE Goto(r, "done") /\ UNCHANGED <<todo, okd>>
      BY <2>1, <3>2, GotoSettles
    <3> QED BY <1>7, <3>1, <3>2 DEF Settle
  <2>3. SettledStatus(r) \in Status
    BY DEF SettledStatus, Status
  <2> QED BY <2>1, <2>2, <2>3, WriteFollows
<1>8. CASE Release(r)
  <2>1. /\ pc[r] = "release" /\ writer = None
        /\ UNCHANGED <<status, image, writer, storage, wanted>>
        /\ todo' = [todo EXCEPT ![r] = {}]
        /\ Goto(r, "fail") \/ Goto(r, "failLeaky")
        /\ \E ms : claim' = Released(r, ms)
    BY <1>8 DEF Release, Unlocked
  <2>2. Settling
    BY <1>t, <2>1, GotoSettles
  <2>3. status[r] # "absent"
    BY <2>1 DEF StoredInv, Unstored
  <2> QED BY <2>1, <2>2, <2>3, ReleasedClaims DEF Frees
<1>9. CASE Fail(r)
  <2>1. /\ pc[r] \in {"fail", "failLeaky"} /\ writer = None
        /\ UNCHANGED <<writer, claim, storage, wanted>>
    BY <1>9 DEF Fail, Unlocked
  <2>2. CASE Abandon(r) /\ UNCHANGED <<status, image>>
    BY <1>t, <2>1, <2>2, GotoSettles DEF Abandon, Still
  <2>3. CASE /\ status' = [status EXCEPT ![r] = "FAILED"]
             /\ image' = status'
             /\ Goto(r, IF pc[r] = "fail" THEN "failed" ELSE "failedLeaky")
             /\ UNCHANGED <<forced, todo, okd>>
    <3>1. Settling
      BY <2>1, <2>3, GotoSettles
    <3>2. Committed!Follows(status[r], "FAILED")
      BY <2>1 DEF StoredInv, Unstored, Committed!Follows
    <3> QED BY <2>1, <2>3, <3>1, <3>2 DEF Writes, Status
  <2> QED BY <1>9, <2>2, <2>3 DEF Fail
<1> QED
  BY <1>1, <1>2, <1>3, <1>4, <1>5, <1>6, <1>7, <1>8, <1>9 DEF DispatchStep, OutcomeStep

\* A status sync writes the status of one stored return, or nothing.
LEMMA PollSettles ==
  ASSUME TypeOK, CommitInv, NEW p \in Pollers, PollStep(p)
  PROVE  Still \/ \E r \in Returns : Writes(r)
<1> USE DEF request, machine, command, outside, setting
<1>1. ASSUME NEW r \in Returns, PollFetchFails(p, r) PROVE Still
  BY <1>1 DEF PollFetchFails, Still, Settling
<1>2. ASSUME NEW r \in Returns, PollFetch(p, r) PROVE Still
  BY <1>2 DEF PollFetch, Still, Settling
<1>3. CASE PollApply(p)
  <2> DEFINE r == poll[p].for
             s == poll[p].verdict
  <2>1. s \in Status /\ r \in Returns \cup {None}
    BY DEF TypeOK, Status
  <2>2. /\ writer = None /\ UNCHANGED <<writer, claim, pc, todo, wanted, storage>>
        /\ image' = status'
        /\ status' = IF status[r] # "absent" /\ CanTransition(status[r], s)
                     THEN [status EXCEPT ![r] = s] ELSE status
    BY <1>3 DEF PollApply, Unlocked
  <2> HIDE DEF r, s
  <2>3. Settling
    BY <2>2 DEF Settling
  <2>4. CASE r \in Returns /\ status[r] # "absent" /\ CanTransition(status[r], s)
    <3>1. Write(r, s)
      BY <2>2, <2>4 DEF Write, Unlocked
    <3> QED BY <2>1, <2>2, <2>3, <2>4, <3>1, WriteFollows
  <2>5. CASE status' = status
    BY <2>2, <2>3, <2>5 DEF Still, CommitInv
  <2>6. CASE r \notin Returns
    <3>1. [status EXCEPT ![r] = s] = status
      BY <2>6 DEF TypeOK
    <3> QED BY <2>2, <2>5, <3>1
  <2> QED BY <2>2, <2>4, <2>5, <2>6
<1> QED BY <1>1, <1>2, <1>3, WatchedAssumption DEF PollStep
-----------------------------------------------------------------------------
(***************************************************************************)
(* Steps that submit and store a return.                                   *)
(***************************************************************************)

\* What a forced return cancels is what the contract allows; one that is not
\* forced cancels nobody.
LEMMA SupersededPromised ==
  ASSUME TypeOK, NEW r \in Returns, NEW ms, image = status
  PROVE  /\ forced[r] => Superseded(r, ms) = Committed!Superseding(ms)
         /\ ~forced[r] => Superseded(r, ms) = Committed!Superseding({})
         /\ Committed!Superseding({}) = status
  BY DEF TypeOK, Superseded, Cancellable, Committed!Superseding, Committed!Final

\* A return at its commit, or before it, is not committed.
LEMMA UnstoredAbsent ==
  ASSUME TypeOK, StoredInv, CommitInv, NEW r \in Returns, pc[r] \in Unstored
  PROVE  image[r] = "absent" /\ writer # r
<1>1. status[r] = "absent" /\ writer # r
  BY DEF StoredInv, Unstored
<1> QED BY <1>1 DEF StoredInv, CommitInv

\* A commit under way that ends, with its claims or without, has stored a return.
LEMMA CommitEnds ==
  ASSUME TypeOK, CommitInv, NEW r \in Returns, writer = r, image' = status, UNCHANGED wanted,
         claim' \in {claim, [m \in Machines |-> IF m \in wanted[r] THEN r ELSE claim[m]]}
  PROVE  Promised
<1>1. Committed!Store(r)
  BY DEF CommitInv, Committed!Store
<1> QED BY <1>1 DEF Promised, Committed!Next

\* Once no commit is under way and nothing is uncommitted, the rest of the
\* invariant is about the handlers that claim.
LEMMA NoCommit ==
  ASSUME writer' = None, image' = status',
         \A q \in Returns : pc'[q] \in {"persist", "claiming"} => todo'[q] \subseteq wanted'[q],
         \A q \in Returns : pc'[q] = "claiming" => storage' = "sql"
  PROVE  CommitInv'
  BY NoneAssumption DEF CommitInv

\* validate_command and _filter_machines.
LEMMA SubmitPromised ==
  ASSUME TypeOK, StoredInv, CommitInv, NEW r \in Returns, NEW W, NEW f \in BOOLEAN,
         Submit(r, W, f)
  PROVE  CommitInv' /\ Promised
<1> USE DEF request, machine, outside, setting
<1> DEFINE valid == {m \in W : claim[m] = None \/ f}
<1>1. /\ pc[r] = "idle" /\ pc' = [pc EXCEPT ![r] = "persist"]
      /\ wanted' = [wanted EXCEPT ![r] = valid]
      /\ todo' = [todo EXCEPT ![r] = IF f THEN valid ELSE {}]
      /\ UNCHANGED <<status, image, writer, claim, storage>>
  BY DEF Submit, Goto
<1> HIDE DEF valid
<1>2. image[r] = "absent" /\ writer # r
  BY <1>1, UnstoredAbsent DEF Unstored
<1>3. /\ pc'[r] = "persist" /\ todo'[r] \subseteq wanted'[r]
      /\ \A q \in Returns : q # r => /\ pc'[q] = pc[q] /\ todo'[q] = todo[q]
                                     /\ wanted'[q] = wanted[q]
  BY <1>1 DEF TypeOK
<1>4. /\ \A q \in Returns : pc'[q] \in {"persist", "claiming"} => todo'[q] \subseteq wanted'[q]
      /\ \A q \in Returns : pc'[q] = "claiming" => storage' = "sql"
      /\ writer' # None => storage' = "json"
      /\ writer' = None => image' = status'
  BY <1>1, <1>3 DEF CommitInv
<1>5. \A ms : Committed!Superseding(ms)' = Committed!Superseding(ms)
  BY <1>1 DEF Committed!Superseding
<1>6. \A q \in Returns : writer' = q =>
        /\ image'[q] = "absent"
        /\ \E ms \in {{}, wanted'[q]} :
             status' = [Committed!Superseding(ms)' EXCEPT ![q] = "PENDING"]
  BY <1>1, <1>2, <1>3, <1>5 DEF CommitInv
<1>7. CommitInv'
  BY <1>4, <1>6 DEF CommitInv
<1>8. Committed!Ask(r)
  BY <1>1, <1>2, <1>3 DEF Committed!Ask
<1> QED BY <1>7, <1>8 DEF Promised, Committed!Next

\* The commit on JSON storage.
LEMMA JsonPromised ==
  ASSUME TypeOK, StoredInv, CommitInv, NEW r \in Returns,
         JsonCommitRequests(r) \/ JsonCommitMachines(r) \/ JsonRestore(r)
  PROVE  CommitInv' /\ Promised
<1> USE DEF request, machine, command, outside, setting
<1>1. CASE JsonCommitRequests(r)
  <2>1. /\ storage = "json" /\ pc[r] = "persist" /\ writer = None
        /\ pc' = [pc EXCEPT ![r] = "machines"]
        /\ status' = [Superseded(r, wanted[r]) EXCEPT ![r] = "PENDING"]
        /\ image' = status /\ writer' = r
        /\ UNCHANGED <<claim, wanted, todo, storage>>
    BY <1>1 DEF JsonCommitRequests, Goto, Unlocked
  <2>2. image = status /\ image' = image
    BY <2>1 DEF CommitInv
  <2>3. image[r] = "absent"
    BY <2>1, UnstoredAbsent DEF Unstored
  <2>4. /\ pc'[r] = "machines" /\ \A q \in Returns : q # r => pc'[q] = pc[q]
    BY <2>1 DEF TypeOK
  <2>5. /\ \A q \in Returns : pc'[q] \in {"persist", "claiming"} => todo'[q] \subseteq wanted'[q]
        /\ \A q \in Returns : pc'[q] = "claiming" => storage' = "sql"
        /\ writer' # None => storage' = "json"
        /\ writer' = None => image' = status'
    BY <2>1, <2>4, NoneAssumption DEF CommitInv
  <2>6. \A ms : Committed!Superseding(ms)' = Committed!Superseding(ms)
    BY <2>1, <2>2 DEF Committed!Superseding
  <2>7. \E ms \in {{}, wanted[r]} : Superseded(r, wanted[r]) = Committed!Superseding(ms)
    BY <2>2, SupersededPromised DEF TypeOK
  <2>8. \E ms \in {{}, wanted'[r]} :
          status' = [Committed!Superseding(ms)' EXCEPT ![r] = "PENDING"]
    BY <2>1, <2>6, <2>7
  <2>9. CommitInv'
    BY <2>1, <2>2, <2>3, <2>5, <2>8 DEF CommitInv
  <2> QED BY <2>1, <2>2, <2>9 DEF Promised, Committed!cvars
<1>2. CASE JsonCommitMachines(r) \/ JsonRestore(r)
  <2>1. /\ pc[r] = "machines" /\ writer' = None /\ image' = status'
        /\ \E label \in {"start", "lost"} : pc' = [pc EXCEPT ![r] = label]
        /\ todo' = [todo EXCEPT ![r] = {}]
        /\ UNCHANGED <<wanted, storage>>
    BY <1>2 DEF JsonCommitMachines, JsonRestore, Abandon, Goto
  <2>2. writer = r
    BY <2>1 DEF StoredInv
  <2>3. /\ pc'[r] \in {"start", "lost"}
        /\ \A q \in Returns : q # r => pc'[q] = pc[q] /\ todo'[q] = todo[q]
    BY <2>1 DEF TypeOK
  <2>4. CommitInv'
    <3>1. /\ \A q \in Returns : pc'[q] \in {"persist", "claiming"} => todo'[q] \subseteq wanted'[q]
          /\ \A q \in Returns : pc'[q] = "claiming" => storage' = "sql"
      BY <2>1, <2>3 DEF CommitInv
    <3> QED BY <2>1, <3>1, NoCommit
  <2>5. CASE JsonCommitMachines(r)
    <3>1. /\ image' = status
          /\ claim' = [m \in Machines |-> IF m \in wanted[r] THEN r ELSE claim[m]]
      BY <2>5 DEF JsonCommitMachines
    <3> QED BY <2>1, <2>2, <2>4, <3>1, CommitEnds
  <2>6. CASE JsonRestore(r)
    <3>1. claim' = claim /\ image' \in {image, status}
      BY <2>6 DEF JsonRestore
    <3>2. CASE image' = image
      BY <2>1, <2>4, <3>1, <3>2 DEF Promised, Committed!cvars
    <3>3. CASE image' = status
      BY <2>1, <2>2, <2>4, <3>1, <3>3, CommitEnds
    <3> QED BY <3>1, <3>2, <3>3
  <2> QED BY <1>2, <2>5, <2>6
<1> QED BY <1>1, <1>2

\* The saves on SQL storage.
LEMMA SqlPromised ==
  ASSUME TypeOK, StoredInv, ForcedInv, CommitInv, NEW r \in Returns,
         \/ \E m \in Machines : SqlSupersede(r, m) \/ SqlClaim(r, m)
         \/ SqlInsert(r)
  PROVE  CommitInv' /\ Promised
<1> USE DEF request, machine, command, outside, setting
<1>0. storage = "sql" /\ writer = None /\ image = status
  <2>1. storage = "sql"
    BY DEF SqlSupersede, SqlInsert, SqlClaim, CommitInv
  <2> QED BY <2>1 DEF CommitInv
<1>1. ASSUME NEW m \in Machines, SqlSupersede(r, m) PROVE CommitInv' /\ Promised
  <2>1. /\ pc[r] = "persist" /\ m \in todo[r]
        /\ status' \in {status, Superseded(r, {m})} /\ image' = status'
        /\ UNCHANGED <<wanted, writer, storage>>
        /\ claim' \in {claim, [claim EXCEPT ![m] = None]}
        /\ pc' = pc \/ pc' = [pc EXCEPT ![r] = "lost"]
        /\ \/ todo' = [todo EXCEPT ![r] = @ \ {m}]
           \/ todo' = [todo EXCEPT ![r] = {}]
    BY <1>1 DEF SqlSupersede, Abandon, Goto
  <2>2. /\ \A q \in Returns : pc'[q] \in {pc[q], "lost"} /\ todo'[q] \subseteq todo[q]
    BY <2>1 DEF TypeOK
  <2>3. CommitInv'
    <3>1. /\ \A q \in Returns : pc'[q] \in {"persist", "claiming"} => todo'[q] \subseteq wanted'[q]
          /\ \A q \in Returns : pc'[q] = "claiming" => storage' = "sql"
      BY <2>1, <2>2 DEF CommitInv
    <3> QED BY <1>0, <2>1, <3>1, NoCommit
  <2>4. forced[r] /\ m \in wanted[r]
    BY <2>1 DEF ForcedInv, CommitInv
  <2>5. image[r] = "absent"
    BY <2>1, UnstoredAbsent DEF Unstored
  <2>6. image' \in {image, Committed!Superseding({m})}
    BY <1>0, <2>1, <2>4, SupersededPromised
  <2>7. Committed!Supersede(r, m)
    BY <2>1, <2>4, <2>5, <2>6 DEF Committed!Supersede
  <2> QED BY <2>3, <2>4, <2>7 DEF Promised, Committed!Next
<1>2. ASSUME NEW m \in Machines, SqlClaim(r, m) PROVE CommitInv' /\ Promised
  <2>1. /\ pc[r] = "claiming" /\ m \in todo[r]
        /\ claim' = [claim EXCEPT ![m] = r]
        /\ todo' = [todo EXCEPT ![r] = @ \ {m}]
        /\ \E label \in {"start", "claiming"} : pc' = [pc EXCEPT ![r] = label]
        /\ UNCHANGED <<status, image, writer, wanted, storage>>
    BY <1>2 DEF SqlClaim, Goto
  <2>2. \A q \in Returns : pc'[q] \in {pc[q], "start"} /\ todo'[q] \subseteq todo[q]
    BY <2>1 DEF TypeOK
  <2>3. CommitInv'
    <3>1. /\ \A q \in Returns : pc'[q] \in {"persist", "claiming"} => todo'[q] \subseteq wanted'[q]
          /\ \A q \in Returns : pc'[q] = "claiming" => storage' = "sql"
      BY <2>1, <2>2 DEF CommitInv
    <3> QED BY <1>0, <2>1, <3>1, NoCommit
  <2>4. m \in wanted[r] /\ image[r] # "absent"
    BY <1>0, <2>1 DEF CommitInv, StoredInv, Unstored
  <2>5. Committed!Take(r, m)
    BY <2>1, <2>4 DEF Committed!Take
  <2> QED BY <2>3, <2>4, <2>5 DEF Promised, Committed!Next
<1>3. CASE SqlInsert(r)
  <2>1. /\ pc[r] = "persist" /\ pc' = [pc EXCEPT ![r] = "claiming"]
        /\ status' = [status EXCEPT ![r] = "PENDING"] /\ image' = status'
        /\ todo' = [todo EXCEPT ![r] = wanted[r]]
        /\ UNCHANGED <<claim, writer, wanted, storage>>
    BY <1>3 DEF SqlInsert, Goto
  <2>2. /\ todo'[r] = wanted[r]
        /\ \A q \in Returns : q # r => pc'[q] = pc[q] /\ todo'[q] = todo[q]
    BY <2>1 DEF TypeOK
  <2>3. CommitInv'
    <3>1. /\ \A q \in Returns : pc'[q] \in {"persist", "claiming"} => todo'[q] \subseteq wanted'[q]
          /\ \A q \in Returns : pc'[q] = "claiming" => storage' = "sql"
      BY <1>0, <2>1, <2>2 DEF CommitInv
    <3> QED BY <1>0, <2>1, <3>1, NoCommit
  <2>4. image[r] = "absent"
    BY <2>1, UnstoredAbsent DEF Unstored
  <2>5. image' = [Committed!Superseding({}) EXCEPT ![r] = "PENDING"]
    BY <1>0, <2>1, SupersededPromised
  <2>6. Committed!Store(r)
    BY <2>1, <2>4, <2>5 DEF Committed!Store
  <2> QED BY <2>3, <2>6 DEF Promised, Committed!Next
<1> QED BY <1>1, <1>2, <1>3

\* A handler that gives up or dies; one at its second file leaves its return
\* stored without claims.
LEMMA DyingPromised ==
  ASSUME TypeOK, StoredInv, CommitInv, NEW r \in Returns, CreateFails(r) \/ Crash(r)
  PROVE  CommitInv' /\ Promised
<1> USE DEF request, machine, command, outside, setting, PCs, Ended
<1>1. /\ Goto(r, "lost") /\ todo' = [todo EXCEPT ![r] = {}]
      /\ UNCHANGED <<status, claim, wanted, storage>>
  BY DEF CreateFails, Crash, Abandon
<1>2. \A q \in Returns : q # r => todo'[q] = todo[q]
  BY <1>1 DEF TypeOK
<1>3. Settling
  BY <1>1, <1>2, GotoSettles
<1>4. CASE writer' = writer /\ image' = image
  BY <1>1, <1>3, <1>4, SettlingPromised DEF Still
<1>5. CASE Crash(r) /\ writer = r
  <2>1. writer' = None /\ image' = status
    BY <1>5 DEF Crash
  <2>2. Promised
    BY <1>1, <1>5, <2>1, CommitEnds
  <2>3. /\ \A q \in Returns : pc'[q] \in {"persist", "claiming"} => todo'[q] \subseteq wanted'[q]
        /\ \A q \in Returns : pc'[q] = "claiming" => storage' = "sql"
    BY <1>1, <1>3 DEF Settling, CommitInv
  <2> QED BY <1>1, <2>1, <2>2, <2>3, NoCommit
<1> QED BY <1>4, <1>5 DEF CreateFails, Crash

-----------------------------------------------------------------------------
(***************************************************************************)
(* The refinement.                                                         *)
(***************************************************************************)

\* Every step keeps the invariant and is a step of the contract, or invisible.
LEMMA NextPromised ==
  TypeOK /\ StoredInv /\ ForcedInv /\ CommitInv /\ [Next]_vars => CommitInv' /\ Promised
<1> SUFFICES ASSUME TypeOK, StoredInv, ForcedInv, CommitInv, [Next]_vars
             PROVE  CommitInv' /\ Promised
  OBVIOUS
<1> USE DEF request, machine, command, outside, setting
<1>0. ASSUME Still PROVE CommitInv' /\ Promised
  <2>1. CASE Returns = {}
    <3>1. CommitInv'
      BY <1>0, <2>1 DEF Still, Settling, CommitInv
    <3> QED BY <1>0, <3>1 DEF Still, Settling, Promised, Committed!cvars
  <2> QED BY <1>0, <2>1, SettlingPromised
<1>1. ASSUME NEW r \in Returns, NEW ask \in Asked[r], Submit(r, ask[1], ask[2])
      PROVE  CommitInv' /\ Promised
  <2>1. ask[2] \in BOOLEAN
    BY AskedAssumption
  <2> QED BY <1>1, <2>1, SubmitPromised
<1>2. ASSUME NEW r \in Returns, PersistStep(r) PROVE CommitInv' /\ Promised
  BY <1>2, JsonPromised, SqlPromised, DyingPromised DEF PersistStep
<1>3. ASSUME NEW r \in Returns, DispatchStep(r) \/ OutcomeStep(r) PROVE CommitInv' /\ Promised
  BY <1>3, HandlerSettles, SettlingPromised
<1>4. ASSUME NEW r \in Returns, Command(r) \/ Recover(r) PROVE CommitInv' /\ Promised
  <2>1. PICK s \in Status \ {"absent"} : Write(r, s)
    BY <1>4, OperatorWrites
  <2>2. UNCHANGED <<machine, cloud, pc, command, todo, okd, outside>>
    BY <1>4, OperatorWrites
  <2>3. Settling
    BY <2>1, <2>2 DEF Write, Settling
  <2> QED BY <2>1, <2>2, <2>3, WriteFollows, SettlingPromised
<1>5. ASSUME NEW r \in Returns, Crash(r) PROVE CommitInv' /\ Promised
  BY <1>5, DyingPromised
<1>6. ASSUME NEW p \in Pollers, PollStep(p) PROVE CommitInv' /\ Promised
  BY <1>0, <1>6, PollSettles, SettlingPromised
<1>7. ASSUME NEW m \in Machines, CloudTerminates(m) PROVE CommitInv' /\ Promised
  BY <1>0, <1>7 DEF CloudTerminates, Still, Settling
<1>8. ASSUME NEW b \in Breakdowns, CloudBreaks(b[1], b[2]) PROVE CommitInv' /\ Promised
  BY <1>0, <1>8 DEF CloudBreaks, Still, Settling
<1>9. CASE UNCHANGED vars
  BY <1>0, <1>9 DEF vars, Still, Settling
<1> QED
  BY <1>1, <1>2, <1>3, <1>4, <1>5, <1>6, <1>7, <1>8, <1>9 DEF Next

\* The return flow implements ReturnContract on the statuses of finished units
\* of work, on either storage and wherever a handler fails or dies: in
\* particular a JSON commit of two files looks like one step
\* (CommittedAsPromised).
THEOREM Refinement == Spec => CommittedAsPromised
<1>1. Init => Committed!Init
  BY DEF Init, Committed!Init
<1>2. Init => ForcedInv /\ CommitInv
  BY NoneAssumption DEF Init, ForcedInv, CommitInv
<1>3. TypeOK /\ StoredInv /\ ForcedInv /\ CommitInv /\ [Next]_vars
        => CommitInv' /\ [Committed!Next]_Committed!cvars
  BY NextPromised DEF Promised
<1> QED
  BY <1>1, <1>2, <1>3, InitType, NextType, InitStored, NextStored, NextForced, PTL
  DEF Spec, CommittedAsPromised, Committed!Spec
=============================================================================
