----------------------- MODULE CircuitBreaker_proofs -----------------------
(***************************************************************************)
(* Proofs about CircuitBreaker for any number of threads, any threshold    *)
(* and any timeouts: the type invariant, that the clocks of a provider     *)
(* circuit run, that no failure at the threshold goes by without opening   *)
(* the circuit, and that a guarded circuit stays open.                     *)
(***************************************************************************)
EXTENDS CircuitBreaker, TLAPS

CallType == [pc : {"idle", "sent", "close", "opened", "count", "stamp", "trip", "decide", "delay"},
             attempt : 0 .. MaxAttempts, seen : 0 .. Threshold, renewed : BOOLEAN]

\* A call moves to a label and the other calls stay where they are.
Moves(c, label) ==
  /\ call' \in [Callers -> CallType]
  /\ call'[c].pc = label
  /\ \A d \in Callers : d # c => call'[d] = call[d]

\* What the type invariant needs to be inductive: a circuit has callers of its own
\* kind only, and on a guarded circuit a failure has just been stamped when the
\* state is read, so the circuit is never half-open.
GuardedInv ==
  /\ kind = "provider" => \A c \in Callers : call[c].pc = "idle"
  /\ kind = "guarded" =>
       /\ pass = "idle" /\ state # "HALF_OPEN"
       /\ \A c \in Callers : call[c].pc \in {"trip", "decide", "delay"} => sinceFailure = 0

-----------------------------------------------------------------------------
(***************************************************************************)
(* Lemmas about the operators.                                             *)
(***************************************************************************)

\* The capped count is a count.
LEMMA CappedType == \A n \in Nat : Capped(n) \in 0 .. Threshold
  BY ThresholdAssumption DEF Capped

\* Setting a call to a well-formed value moves it to that value's label.
LEMMA SetCallMoves ==
  ASSUME TypeOK, NEW c \in Callers, NEW v \in CallType, SetCall(c, v)
  PROVE  Moves(c, v.pc)
  BY DEF TypeOK, SetCall, CallType, Moves

\* A call that has ended is idle.
LEMMA NoCallMoves ==
  ASSUME TypeOK, NEW c \in Callers, SetCall(c, NoCall)
  PROVE  Moves(c, "idle")
<1>1. NoCall \in CallType /\ NoCall.pc = "idle"
  BY AttemptsAssumption, ThresholdAssumption DEF NoCall, CallType
<1> HIDE DEF NoCall
<1> QED BY <1>1, SetCallMoves

\* The move of a call to another label.
LEMMA GotoMoves ==
  ASSUME TypeOK, NEW c \in Callers,
         NEW label \in {"sent", "close", "opened", "trip", "decide"}, Goto(c, label)
  PROVE  Moves(c, label)
<1> DEFINE v == [call[c] EXCEPT !.pc = label]
<1>1. call[c] \in CallType
  BY DEF TypeOK, CallType
<1>2. v \in CallType /\ v.pc = label
  BY <1>1 DEF CallType
<1>3. SetCall(c, v)
  BY DEF Goto
<1> HIDE DEF v
<1> QED BY <1>2, <1>3, SetCallMoves

\* Reading the state closes no circuit, starts the clock of a half-open one and
\* keeps the ages within their bounds.
LEMMA ReadStateMoves ==
  ASSUME TypeOK, ReadState
  PROVE  /\ state' \in {"CLOSED", "OPEN", "HALF_OPEN"}
         /\ sinceHalf' \in (0 .. HalfOpenTimeout) \cup {None}
         /\ state' = "CLOSED" <=> state = "CLOSED"
         /\ state' = "HALF_OPEN" /\ (state = "HALF_OPEN" => sinceHalf # None)
              => sinceHalf' # None
         /\ UNCHANGED <<count, sinceFailure>>
         /\ sinceFailure = 0 /\ state = "OPEN" => state' = "OPEN"
<1>1. 0 \in 0 .. HalfOpenTimeout /\ 0 # None
  BY TimeoutsAssumption, NoneAssumption
<1>2. sinceFailure = 0 => ~ResetDue
  BY TimeoutsAssumption DEF ResetDue
<1> QED BY <1>1, <1>2 DEF ReadState, TrialOver, ResetDue, TypeOK

-----------------------------------------------------------------------------
(***************************************************************************)
(* The type invariant.                                                     *)
(***************************************************************************)

\* The circuit starts well typed.
LEMMA InitType == Init => TypeOK
<1> SUFFICES ASSUME Init PROVE TypeOK OBVIOUS
<1>1. NoCall \in CallType
  BY AttemptsAssumption, ThresholdAssumption DEF NoCall, CallType
<1>2. 0 \in 0 .. Threshold
  BY ThresholdAssumption
<1> QED BY <1>1, <1>2 DEF Init, TypeOK, CallType

\* Where each step of a guarded call takes it.
LEMMA CallMoves ==
  ASSUME TypeOK, GuardedInv, NEW c \in Callers, CallStep(c)
  PROVE  /\ CallStart(c) \/ CallRenews(c) \/ CallRepeats(c) => Moves(c, "sent")
         /\ CallSucceeds(c) => Moves(c, "close")
         /\ CallHitsQuota(c) => Moves(c, "opened")
         /\ CallFails(c) => Moves(c, "count")
         /\ CallCounts(c) => Moves(c, "stamp")
         /\ CallStamps(c) => Moves(c, "trip")
         /\ CallTrips(c) => Moves(c, "decide")
         /\ CallCloses(c) \/ CallRejected(c) \/ CallStampsQuota(c) => Moves(c, "idle")
         /\ CallDecides(c) => \E label \in {"idle", "delay"} : Moves(c, label)
<1>c. call[c] \in CallType
  BY DEF TypeOK, CallType
<1>1. CallStart(c) => Moves(c, "sent")
  BY GotoMoves DEF CallStart
<1>2. CallRepeats(c) => Moves(c, "sent")
  BY GotoMoves DEF CallRepeats
<1>3. CallSucceeds(c) => Moves(c, "close")
  BY GotoMoves DEF CallSucceeds
<1>4. CallHitsQuota(c) => Moves(c, "opened")
  BY GotoMoves DEF CallHitsQuota
<1>5. CallStamps(c) => Moves(c, "trip")
  BY GotoMoves DEF CallStamps
<1>6. CallTrips(c) => Moves(c, "decide")
  BY GotoMoves DEF CallTrips
<1>7. CallCloses(c) \/ CallRejected(c) \/ CallStampsQuota(c) => Moves(c, "idle")
  BY NoCallMoves DEF CallCloses, CallRejected, CallStampsQuota
<1>8. ASSUME CallRenews(c) PROVE Moves(c, "sent")
  <2> DEFINE v == [call[c] EXCEPT !.renewed = TRUE]
  <2>1. v \in CallType /\ v.pc = "sent" /\ SetCall(c, v)
    BY <1>8, <1>c DEF CallRenews, CallType
  <2> HIDE DEF v
  <2> QED BY <2>1, SetCallMoves
<1>9. ASSUME CallFails(c) PROVE Moves(c, "count")
  <2> DEFINE v == [call[c] EXCEPT !.pc = "count", !.seen = count]
  <2>1. v \in CallType /\ v.pc = "count" /\ SetCall(c, v)
    BY <1>9, <1>c DEF CallFails, CallType, TypeOK
  <2> HIDE DEF v
  <2> QED BY <2>1, SetCallMoves
<1>10. ASSUME CallCounts(c) PROVE Moves(c, "stamp")
  <2> DEFINE v == [call[c] EXCEPT !.pc = "stamp", !.seen = 0]
  <2>0. 0 \in 0 .. Threshold
    BY ThresholdAssumption
  <2>1. v \in CallType /\ v.pc = "stamp" /\ SetCall(c, v)
    BY <1>10, <1>c, <2>0 DEF CallCounts, CallType
  <2> HIDE DEF v
  <2> QED BY <2>1, SetCallMoves
<1>11. ASSUME CallDecides(c) PROVE \E label \in {"idle", "delay"} : Moves(c, label)
  <2>1. CASE SetCall(c, NoCall)
    BY <2>1, NoCallMoves
  <2>2. CASE ShouldRetry(state', call[c].attempt)
             /\ SetCall(c, [call[c] EXCEPT !.pc = "delay", !.attempt = @ + 1])
    <3> DEFINE v == [call[c] EXCEPT !.pc = "delay", !.attempt = @ + 1]
    <3>1. call[c].attempt \in 0 .. MaxAttempts
      BY <1>c DEF CallType
    <3>2. state' # "HALF_OPEN"
      <4>1. ReadState /\ call[c].pc = "decide"
        BY <1>11 DEF CallDecides
      <4>2. sinceFailure = 0 /\ state # "HALF_OPEN"
        BY <4>1 DEF GuardedInv, TypeOK
      <4>3. state = "CLOSED" \/ state = "OPEN"
        BY <4>2 DEF TypeOK
      <4> QED BY <4>1, <4>2, <4>3, ReadStateMoves
    <3>4. call[c].attempt < MaxAttempts
      BY <2>2, <3>2 DEF ShouldRetry
    <3>5. call[c].attempt + 1 \in 0 .. MaxAttempts
      BY <3>1, <3>4, AttemptsAssumption
    <3>3. v \in CallType /\ v.pc = "delay" /\ SetCall(c, v)
      BY <1>c, <2>2, <3>5 DEF CallType
    <3> HIDE DEF v
    <3> QED BY <3>3, SetCallMoves
  <2> QED BY <1>11, <2>1, <2>2 DEF CallDecides
<1> QED
  BY <1>1, <1>2, <1>3, <1>4, <1>5, <1>6, <1>7, <1>8, <1>9, <1>10, <1>11

\* Recording an outcome on a provider circuit keeps the record well typed.
LEMMA RecordType ==
  ASSUME TypeOK, RecordSuccess \/ RecordFailure
  PROVE  /\ state' \in {"CLOSED", "OPEN", "HALF_OPEN"}
         /\ count' \in 0 .. Threshold
         /\ sinceFailure' \in (0 .. ResetTimeout) \cup {None}
         /\ sinceHalf' \in (0 .. HalfOpenTimeout) \cup {None}
<1>1. CASE RecordSuccess
  BY <1>1, ThresholdAssumption DEF RecordSuccess, Close, TypeOK
<1>2. CASE RecordFailure
  <2>1. count + 1 \in Nat
    BY ThresholdAssumption DEF TypeOK
  <2>2. 0 \in 0 .. ResetTimeout
    BY TimeoutsAssumption
  <2> QED BY <1>2, <2>1, <2>2, CappedType DEF RecordFailure, TypeOK
<1> QED BY <1>1, <1>2

\* What a step of a guarded call does to the record.
LEMMA CallRecord ==
  ASSUME TypeOK, GuardedInv, NEW c \in Callers, CallStep(c)
  PROVE  /\ TypeOK'
         /\ kind = "guarded" /\ kind' = kind /\ pass' = pass /\ state' # "HALF_OPEN"
         /\ state = "OPEN" => state' = "OPEN"
         /\ sinceFailure' \in {sinceFailure, 0}
<1> DEFINE Goal == /\ state' \in {"CLOSED", "OPEN", "HALF_OPEN"}
                   /\ count' \in 0 .. Threshold
                   /\ sinceFailure' \in (0 .. ResetTimeout) \cup {None}
                   /\ sinceHalf' \in (0 .. HalfOpenTimeout) \cup {None}
                   /\ state' # "HALF_OPEN"
                   /\ state = "OPEN" => state' = "OPEN"
                   /\ sinceFailure' \in {sinceFailure, 0}
<1>0. 0 \in 0 .. ResetTimeout /\ 0 \in 0 .. Threshold
  BY TimeoutsAssumption, ThresholdAssumption
<1>1. kind = "guarded" /\ state # "HALF_OPEN" /\ pass = "idle"
  <2>1. call[c].pc # "idle" \/ kind = "guarded"
    BY DEF CallStep, CallStart, CallSucceeds, CallCloses, CallRenews, CallRejected, CallHitsQuota,
       CallStampsQuota, CallFails, CallCounts, CallStamps, CallTrips, CallDecides, CallRepeats
  <2> QED BY <2>1 DEF GuardedInv, TypeOK
<1>2. ASSUME CallStart(c) \/ CallRenews(c) \/ CallRejected(c) \/ CallFails(c) PROVE Goal
  BY <1>1, <1>2 DEF CallStart, CallRenews, CallRejected, CallFails, circuit, TypeOK
<1>3. ASSUME CallSucceeds(c) PROVE Goal
  BY <1>0, <1>1, <1>3 DEF CallSucceeds, TypeOK
<1>4. ASSUME CallCloses(c) PROVE Goal
  BY <1>1, <1>4 DEF CallCloses, Close, Closes, TypeOK
<1>5. ASSUME CallHitsQuota(c) PROVE Goal
  BY <1>5 DEF CallHitsQuota, TypeOK
<1>6. ASSUME CallStampsQuota(c) PROVE Goal
  BY <1>0, <1>1, <1>6 DEF CallStampsQuota, TypeOK
<1>7. ASSUME CallCounts(c) PROVE Goal
  <2>1. call[c].seen + 1 \in Nat
    BY ThresholdAssumption DEF TypeOK
  <2> QED BY <1>1, <1>7, <2>1, CappedType DEF CallCounts, TypeOK
<1>8. ASSUME CallStamps(c) PROVE Goal
  BY <1>0, <1>1, <1>8 DEF CallStamps, TypeOK
<1>9. ASSUME CallTrips(c) PROVE Goal
  BY <1>1, <1>9 DEF CallTrips, TypeOK
<1>10. ASSUME CallDecides(c) \/ CallRepeats(c) PROVE Goal
  <2>1. ReadState /\ call[c].pc \in {"decide", "delay"}
    BY <1>10 DEF CallDecides, CallRepeats
  <2>2. sinceFailure = 0
    BY <1>1, <2>1 DEF GuardedInv
  <2>3. state = "CLOSED" \/ state = "OPEN"
    BY <1>1 DEF TypeOK
  <2> QED BY <2>1, <2>2, <2>3, ReadStateMoves DEF TypeOK
<1>11. Goal
  <2> HIDE DEF Goal
  <2> QED
    BY <1>2, <1>3, <1>4, <1>5, <1>6, <1>7, <1>8, <1>9, <1>10 DEF CallStep
<1>12. call' \in [Callers -> CallType]
  BY CallMoves DEF CallStep, Moves
<1>13. UNCHANGED <<kind, up, pass>>
  BY DEF CallStep
<1> QED BY <1>1, <1>11, <1>12, <1>13 DEF TypeOK, CallType

\* A step of a guarded call keeps the invariant: on the way to reading the state
\* it stamps the failure.
LEMMA CallGuarded ==
  ASSUME TypeOK, GuardedInv, NEW c \in Callers, CallStep(c)
  PROVE  GuardedInv'
<1>0. /\ kind = "guarded" /\ kind' = kind /\ pass' = pass /\ state' # "HALF_OPEN"
      /\ sinceFailure' \in {sinceFailure, 0} /\ pass = "idle"
  BY CallRecord DEF GuardedInv
<1>1. \A d \in Callers : d # c => call'[d] = call[d]
  BY CallMoves DEF CallStep, Moves
<1>2. ASSUME call'[c].pc \in {"trip", "decide", "delay"} PROVE sinceFailure' = 0
  <2>1. CASE CallStamps(c)
    BY <2>1 DEF CallStamps
  <2>2. CASE CallTrips(c) \/ CallDecides(c) \/ CallRepeats(c)
    <3>1. call[c].pc \in {"trip", "decide", "delay"}
      BY <2>2 DEF CallTrips, CallDecides, CallRepeats
    <3> QED BY <1>0, <3>1 DEF GuardedInv
  <2>3. CASE CallStart(c) \/ CallSucceeds(c) \/ CallCloses(c) \/ CallRenews(c) \/ CallRejected(c)
             \/ CallHitsQuota(c) \/ CallStampsQuota(c) \/ CallFails(c) \/ CallCounts(c)
    <3>1. call'[c].pc \notin {"trip", "decide", "delay"}
      BY <2>3, CallMoves DEF Moves
    <3> QED BY <1>2, <3>1
  <2> QED BY <2>1, <2>2, <2>3 DEF CallStep
<1>3. \A d \in Callers : call'[d].pc \in {"trip", "decide", "delay"} => sinceFailure' = 0
  BY <1>0, <1>1, <1>2 DEF GuardedInv
<1> QED BY <1>0, <1>3 DEF GuardedInv

\* The steps of the event loop keep both.
LEMMA LoopKeeps ==
  ASSUME TypeOK, GuardedInv, LoopStep
  PROVE  TypeOK' /\ GuardedInv'
<1>0. kind = "provider" /\ UNCHANGED <<kind, call>>
  BY DEF LoopStep, DispatchEnds, PassCheck, PassEnds, PassSilent, Flip, GuardedInv, TypeOK
<1>1. GuardedInv'
  BY <1>0 DEF GuardedInv
<1>2. CASE DispatchEnds \/ PassEnds
  <2>1. RecordSuccess \/ RecordFailure
    BY <1>2 DEF DispatchEnds, PassEnds
  <2>2. up' = up /\ pass' \in {pass, "idle"}
    BY <1>2 DEF DispatchEnds, PassEnds
  <2> QED BY <1>0, <1>1, <2>1, <2>2, RecordType DEF TypeOK
<1>3. CASE PassCheck
  <2>1. ReadState /\ up' = up /\ pass' \in {"idle", "fetch"}
    BY <1>3 DEF PassCheck
  <2> QED BY <1>0, <1>1, <2>1, ReadStateMoves DEF TypeOK
<1>4. CASE PassSilent \/ Flip
  BY <1>0, <1>1, <1>4 DEF PassSilent, Flip, circuit, TypeOK
<1> QED BY <1>2, <1>3, <1>4 DEF LoopStep

\* Time passes: the ages stay in range, and no call is among the statements that
\* stamp and read.
LEMMA TickKeeps ==
  ASSUME TypeOK, GuardedInv, Tick
  PROVE  /\ TypeOK' /\ GuardedInv'
         /\ sinceFailure # None => sinceFailure' # None
         /\ sinceHalf # None => sinceHalf' # None
         /\ UNCHANGED <<kind, state, count, up, call, pass>>
<1>1. /\ sinceFailure' \in (0 .. ResetTimeout) \cup {None}
      /\ sinceHalf' \in (0 .. HalfOpenTimeout) \cup {None}
      /\ sinceFailure # None => sinceFailure' # None
      /\ sinceHalf # None => sinceHalf' # None
  BY TimeoutsAssumption, NoneAssumption DEF Tick, Older, TypeOK
<1>2. UNCHANGED <<kind, state, count, up, call, pass>>
      /\ \A c \in Callers : call[c].pc \in {"idle", "sent"}
  BY DEF Tick
<1>3. GuardedInv'
  BY <1>2 DEF GuardedInv
<1> QED BY <1>1, <1>2, <1>3 DEF TypeOK

\* Every step keeps the type invariant and its strengthening.
LEMMA NextType == TypeOK /\ GuardedInv /\ [Next]_vars => TypeOK' /\ GuardedInv'
<1> SUFFICES ASSUME TypeOK, GuardedInv, [Next]_vars PROVE TypeOK' /\ GuardedInv' OBVIOUS
<1>1. ASSUME NEW c \in Callers, CallStep(c) PROVE TypeOK' /\ GuardedInv'
  BY <1>1, CallRecord, CallGuarded
<1>2. CASE UNCHANGED vars
  BY <1>2 DEF vars, TypeOK, GuardedInv
<1> QED BY <1>1, <1>2, LoopKeeps, TickKeeps DEF Next

\* At the start nothing has been called.
LEMMA InitGuarded == Init => GuardedInv
  BY DEF Init, GuardedInv, NoCall

\* The circuit's record, every call and the reconcile pass stay well formed, and
\* a call is repeated no more often than configured (TypeOK), whatever the
\* threshold, timeouts and number of threads.
THEOREM TypeCorrect == Spec => []TypeOK
  BY InitType, InitGuarded, NextType, PTL DEF Spec

\* A guarded circuit that has opened stays open (GuardedStaysOpen).
THEOREM GuardedNeverResets == Spec => GuardedStaysOpen
<1>1. TypeOK /\ GuardedInv /\ [Next]_vars =>
        [kind = "guarded" /\ state = "OPEN" => state' = "OPEN"]_state
  <2> SUFFICES ASSUME TypeOK, GuardedInv, [Next]_vars, kind = "guarded", state = "OPEN"
               PROVE  state' = "OPEN"
    OBVIOUS
  <2>1. ASSUME NEW c \in Callers, CallStep(c) PROVE state' = "OPEN"
    BY <2>1, CallRecord
  <2>2. ~LoopStep
    BY DEF LoopStep, DispatchEnds, PassCheck, PassEnds, PassSilent, Flip, GuardedInv
  <2>3. CASE Tick \/ UNCHANGED vars
    BY <2>3 DEF Tick, vars
  <2> QED BY <2>1, <2>2, <2>3 DEF Next
<1> QED BY <1>1, InitType, InitGuarded, NextType, PTL DEF Spec, GuardedStaysOpen

-----------------------------------------------------------------------------
(***************************************************************************)
(* The clocks of a provider circuit, and the threshold of any.             *)
(***************************************************************************)

\* A provider circuit that is not closed knows its last failure: an open one may
\* have come from half-open, which kept it.
Timed ==
  kind = "provider" =>
    /\ state # "CLOSED" => sinceFailure # None
    /\ state = "HALF_OPEN" => sinceHalf # None

CircuitInv == Timed /\ NoMissedTrip

\* Recording an outcome stamps a failure, and opens a closed circuit that
\* reaches its threshold.
LEMMA RecordInv ==
  ASSUME TypeOK, CircuitInv, kind = "provider", UNCHANGED <<kind, call>>,
         RecordSuccess \/ RecordFailure
  PROVE  CircuitInv'
<1> USE DEF CircuitInv
<1>1. CASE RecordSuccess
  <2>1. ~(count' >= Threshold)
    BY <1>1, ThresholdAssumption DEF RecordSuccess
  <2> QED BY <1>1, <2>1 DEF RecordSuccess, Close, Closes, Timed, NoMissedTrip, TypeOK
<1>2. CASE RecordFailure
  <2>1. /\ state' = IF Trips(count + 1) THEN "OPEN" ELSE state
        /\ count' = Capped(count + 1) /\ sinceFailure' = 0 /\ sinceHalf' = sinceHalf
    BY <1>2 DEF RecordFailure
  <2>2. Timed'
    BY <2>1, NoneAssumption DEF Timed
  <2>3. state' = "CLOSED" => ~(count + 1 >= Threshold)
    BY <2>1 DEF Trips
  <2>4. state' = "CLOSED" => ~(count' >= Threshold)
    BY <2>1, <2>3, ThresholdAssumption DEF Capped, TypeOK
  <2> QED BY <2>2, <2>4 DEF NoMissedTrip
<1> QED BY <1>1, <1>2

\* A guarded call that makes the count reach the threshold goes on to open the
\* circuit, whatever the other threads write meanwhile.
LEMMA CallInv ==
  ASSUME TypeOK, GuardedInv, CircuitInv, NEW c \in Callers, CallStep(c)
  PROVE  CircuitInv'
<1>0. kind' = "guarded" /\ (state' = "CLOSED" => state = "CLOSED")
  <2>1. kind = "guarded" /\ kind' = kind /\ (state = "OPEN" => state' = "OPEN")
    BY CallRecord
  <2> QED BY <2>1 DEF GuardedInv, TypeOK
<1>1. Timed'
  BY <1>0 DEF Timed
<1>d. \A d \in Callers : d # c => call'[d] = call[d]
  BY CallMoves DEF CallStep, Moves
<1>2. NoMissedTrip'
  <2> SUFFICES ASSUME state' = "CLOSED", count' >= Threshold
               PROVE  \E d \in Callers : call'[d].pc \in {"stamp", "trip"}
    BY DEF NoMissedTrip
  <2>1. CASE CallCounts(c)
    <3>1. call'[c].pc = "stamp"
      BY <2>1, CallMoves DEF Moves
    <3> QED BY <3>1
  <2>2. CASE CallStamps(c)
    <3>1. call'[c].pc = "trip"
      BY <2>2, CallMoves DEF Moves
    <3> QED BY <3>1
  <2>3. CASE CallTrips(c)
    <3>1. count' = count /\ state' = IF Trips(count) THEN "OPEN" ELSE state
      BY <2>3 DEF CallTrips
    <3> QED BY <1>0, <3>1 DEF Trips
  <2>4. CASE CallSucceeds(c)
    <3>1. count' = 0
      BY <2>4 DEF CallSucceeds
    <3> QED BY <3>1, ThresholdAssumption
  <2>5. CASE CallStart(c) \/ CallCloses(c) \/ CallRenews(c) \/ CallRejected(c)
             \/ CallHitsQuota(c) \/ CallStampsQuota(c) \/ CallFails(c) \/ CallDecides(c)
             \/ CallRepeats(c)
    <3>1. count' = count /\ call[c].pc \notin {"stamp", "trip"}
      BY <2>5 DEF CallStart, CallCloses, CallRenews, CallRejected, CallHitsQuota,
         CallStampsQuota, CallFails, CallDecides, CallRepeats, ReadState, circuit
    <3>2. PICK d \in Callers : call[d].pc \in {"stamp", "trip"}
      BY <1>0, <3>1 DEF CircuitInv, NoMissedTrip
    <3> QED BY <1>d, <3>1, <3>2
  <2> QED BY <2>1, <2>2, <2>3, <2>4, <2>5 DEF CallStep
<1> QED BY <1>1, <1>2 DEF CircuitInv

\* Every step keeps the invariant.
LEMMA NextCircuit == TypeOK /\ GuardedInv /\ CircuitInv /\ [Next]_vars => CircuitInv'
<1> SUFFICES ASSUME TypeOK, GuardedInv, CircuitInv, [Next]_vars PROVE CircuitInv' OBVIOUS
<1>1. ASSUME NEW c \in Callers, CallStep(c) PROVE CircuitInv'
  BY <1>1, CallInv
<1>2. CASE LoopStep
  <2>0. kind = "provider" /\ UNCHANGED <<kind, call>>
    BY <1>2 DEF LoopStep, DispatchEnds, PassCheck, PassEnds, PassSilent, Flip, GuardedInv, TypeOK
  <2>1. CASE DispatchEnds \/ PassEnds
    <3>1. RecordSuccess \/ RecordFailure
      BY <2>1 DEF DispatchEnds, PassEnds
    <3> QED BY <2>0, <3>1, RecordInv
  <2>2. CASE PassCheck
    <3>1. ReadState
      BY <2>2 DEF PassCheck
    <3>2. /\ state' = "CLOSED" <=> state = "CLOSED"
          /\ state' = "HALF_OPEN" /\ (state = "HALF_OPEN" => sinceHalf # None)
               => sinceHalf' # None
          /\ UNCHANGED <<count, sinceFailure>>
      BY <3>1, ReadStateMoves
    <3> QED BY <2>0, <3>2 DEF CircuitInv, Timed, NoMissedTrip
  <2>3. CASE PassSilent \/ Flip
    BY <2>0, <2>3 DEF PassSilent, Flip, circuit, CircuitInv, Timed, NoMissedTrip
  <2> QED BY <1>2, <2>1, <2>2, <2>3 DEF LoopStep
<1>3. CASE Tick
  <2>1. /\ sinceFailure # None => sinceFailure' # None
        /\ sinceHalf # None => sinceHalf' # None
        /\ UNCHANGED <<kind, state, count, up, call, pass>>
    BY <1>3, TickKeeps
  <2> QED BY <2>1 DEF CircuitInv, Timed, NoMissedTrip
<1>4. CASE UNCHANGED vars
  BY <1>4 DEF vars, CircuitInv, Timed, NoMissedTrip
<1> QED BY <1>1, <1>2, <1>3, <1>4 DEF Next

\* It holds at the start.
LEMMA InitCircuit == Init => CircuitInv
  BY ThresholdAssumption DEF Init, CircuitInv, Timed, NoMissedTrip

\* A provider circuit is never stuck: the clock that ends an open or half-open
\* state is running, in whatever order dispatches and passes moved it there
\* (CircuitCanMove).
THEOREM NeverStuck == Spec => []CircuitCanMove
<1>1. CircuitInv => CircuitCanMove
  BY DEF CircuitInv, Timed, CircuitCanMove
<1> QED
  BY <1>1, InitType, InitGuarded, InitCircuit, NextType, NextCircuit, PTL DEF Spec

\* No failure that reaches the threshold goes by without opening the circuit,
\* with any number of threads overwriting each other's counts (NoMissedTrip).
THEOREM EveryTripHappens == Spec => []NoMissedTrip
<1>1. CircuitInv => NoMissedTrip
  BY DEF CircuitInv
<1> QED
  BY <1>1, InitType, InitGuarded, InitCircuit, NextType, NextCircuit, PTL DEF Spec
=============================================================================
