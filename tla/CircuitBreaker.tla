--------------------------- MODULE CircuitBreaker ---------------------------
(***************************************************************************)
(* One circuit of CircuitBreakerStrategy: a record shared by every caller  *)
(* in the process that uses its key.                                       *)
(*                                                                         *)
(* There are two kinds of circuit, and no record serves both.  A guarded   *)
(* circuit (key kubernetes.<api>, or the AWS handler type) belongs to the  *)
(* calls of one handler, made from worker threads: each failure goes       *)
(* through should_retry, each success through record_success.  A provider  *)
(* circuit (key provider:<name>) is used on the event loop: dispatches     *)
(* record their outcome on it, and the reconcile pass asks is_open first,  *)
(* polls, and records one outcome for the whole pass.                      *)
(*                                                                         *)
(* Times are kept as ages, counted up to the timeout they are compared     *)
(* with: the age of the last failure and of the half-open state.  Nothing  *)
(* guards the record, so a guarded call takes a step for every statement   *)
(* that reads or writes it; a test and the write it guards are one step,   *)
(* since no thread that comes in between could change the outcome.         *)
(***************************************************************************)
EXTENDS Integers

CONSTANTS
  Callers,          \* threads that make guarded calls
  Threshold,        \* failure_threshold; the count stops there
  ResetTimeout,     \* reset_timeout, in ticks
  HalfOpenTimeout,  \* half_open_timeout, in ticks
  MaxAttempts,      \* max_attempts of a guarded call
  None              \* a time that was never set

ASSUME ThresholdAssumption == Threshold \in Nat \ {0}
ASSUME TimeoutsAssumption == ResetTimeout \in Nat \ {0} /\ HalfOpenTimeout \in Nat \ {0}
ASSUME AttemptsAssumption == MaxAttempts \in Nat
ASSUME NoneAssumption == None \notin Int

VARIABLES
  kind,         \* "guarded" or "provider", by the circuit's key
  state,        \* "CLOSED", "OPEN" or "HALF_OPEN"
  count,        \* failure_count, up to Threshold
  sinceFailure, \* age of last_failure_time
  sinceHalf,    \* age of half_open_start_time
  up,           \* whether the provider answers
  call,         \* each guarded call
  pass          \* the reconcile pass: "idle" or "fetch"

vars == <<kind, state, count, sinceFailure, sinceHalf, up, call, pass>>
circuit == <<state, count, sinceFailure, sinceHalf>>

NoCall == [pc |-> "idle", attempt |-> 0, seen |-> 0, renewed |-> FALSE]

Init ==
  /\ kind \in {"guarded", "provider"}
  /\ state = "CLOSED"
  /\ count = 0
  /\ sinceFailure = None
  /\ sinceHalf = None
  /\ up = TRUE
  /\ call = [c \in Callers |-> NoCall]
  /\ pass = "idle"

Capped(n) == IF n > Threshold THEN Threshold ELSE n

-----------------------------------------------------------------------------
(***************************************************************************)
(* _get_current_state: the state a reader finds, and leaves behind.        *)
(***************************************************************************)
ResetDue == state = "OPEN" /\ sinceFailure # None /\ sinceFailure >= ResetTimeout

\* Mutant: a half-open circuit never times out.
TrialOverNever == FALSE

TrialOver == state = "HALF_OPEN" /\ sinceHalf # None /\ sinceHalf >= HalfOpenTimeout

ReadState ==
  /\ state' = IF ResetDue THEN "HALF_OPEN" ELSE IF TrialOver THEN "OPEN" ELSE state
  /\ sinceHalf' = IF ResetDue THEN 0 ELSE IF TrialOver THEN None ELSE sinceHalf
  /\ UNCHANGED <<count, sinceFailure>>

\* Mutant: one failure too many is tolerated.
TripsLate(n) == state = "CLOSED" /\ n > Threshold

\* record_failure opens the circuit only from CLOSED; a failed trial counts
\* and leaves the circuit half-open.
Trips(n) == state = "CLOSED" /\ n >= Threshold


\* record_success closes a half-open circuit; an open one stays open.
Closes == state = "HALF_OPEN"

Close ==
  /\ state' = IF Closes THEN "CLOSED" ELSE state
  /\ sinceHalf' = IF Closes THEN None ELSE sinceHalf

RecordSuccess ==
  /\ count' = 0
  /\ Close
  /\ UNCHANGED sinceFailure

\* Mutant: the time of the failure is not recorded.
RecordFailureUntimed ==
  /\ count' = Capped(count + 1)
  /\ state' = IF Trips(count + 1) THEN "OPEN" ELSE state
  /\ UNCHANGED <<sinceFailure, sinceHalf>>

RecordFailure ==
  /\ count' = Capped(count + 1)
  /\ state' = IF Trips(count + 1) THEN "OPEN" ELSE state
  /\ sinceFailure' = 0
  /\ UNCHANGED sinceHalf

-----------------------------------------------------------------------------
(***************************************************************************)
(* A guarded call.  Nothing asks the circuit before the first attempt.     *)
(***************************************************************************)
SetCall(c, value) == call' = [call EXCEPT ![c] = value]
Goto(c, label) == SetCall(c, [call[c] EXCEPT !.pc = label])

CallStart(c) ==
  /\ kind = "guarded"
  /\ call[c].pc = "idle"
  /\ Goto(c, "sent")
  /\ UNCHANGED circuit

\* record_success: the count is reset, then a half-open circuit closed.
CallSucceeds(c) ==
  /\ call[c].pc = "sent"
  /\ count' = 0
  /\ Goto(c, "close")
  /\ UNCHANGED <<state, sinceFailure, sinceHalf>>

CallCloses(c) ==
  /\ call[c].pc = "close"
  /\ Close
  /\ SetCall(c, NoCall)
  /\ UNCHANGED <<count, sinceFailure>>

\* The first 401 of a call renews the credential and sends it again, without a
\* word to the circuit (Kubernetes).
CallRenews(c) ==
  /\ call[c].pc = "sent" /\ ~call[c].renewed
  /\ SetCall(c, [call[c] EXCEPT !.renewed = TRUE])
  /\ UNCHANGED circuit

\* A permanent client error, or a credential that cannot be renewed: not
\* retried, not counted.
CallRejected(c) ==
  /\ call[c].pc = "sent"
  /\ SetCall(c, NoCall)
  /\ UNCHANGED circuit

\* _force_open on a quota error.
CallHitsQuota(c) ==
  /\ call[c].pc = "sent"
  /\ state' = "OPEN"
  /\ Goto(c, "opened")
  /\ UNCHANGED <<count, sinceFailure, sinceHalf>>

CallStampsQuota(c) ==
  /\ call[c].pc = "opened"
  /\ sinceFailure' = 0
  /\ SetCall(c, NoCall)
  /\ UNCHANGED <<state, count, sinceHalf>>

\* should_retry: record_failure reads the count, writes it back, stamps the
\* failure and opens the circuit if the count of the moment has reached the
\* threshold; then the state is read.
CallFails(c) ==
  /\ call[c].pc = "sent"
  /\ SetCall(c, [call[c] EXCEPT !.pc = "count", !.seen = count])
  /\ UNCHANGED circuit

CallCounts(c) ==
  /\ call[c].pc = "count"
  /\ count' = Capped(call[c].seen + 1)
  /\ SetCall(c, [call[c] EXCEPT !.pc = "stamp", !.seen = 0])
  /\ UNCHANGED <<state, sinceFailure, sinceHalf>>

\* Mutant: a failure of an open circuit is not stamped.
CallStampsClosed(c) ==
  /\ call[c].pc = "stamp"
  /\ sinceFailure' = IF state = "OPEN" THEN sinceFailure ELSE 0
  /\ Goto(c, "trip")
  /\ UNCHANGED <<state, count, sinceHalf>>

CallStamps(c) ==
  /\ call[c].pc = "stamp"
  /\ sinceFailure' = 0
  /\ Goto(c, "trip")
  /\ UNCHANGED <<state, count, sinceHalf>>

CallTrips(c) ==
  /\ call[c].pc = "trip"
  /\ state' = IF Trips(count) THEN "OPEN" ELSE state
  /\ Goto(c, "decide")
  /\ UNCHANGED <<count, sinceFailure, sinceHalf>>

\* Mutant: a closed circuit lets a call be retried for ever.
ShouldRetryAlways(s, attempt) == s = "CLOSED" \/ (s = "HALF_OPEN" /\ attempt < 1)

ShouldRetry(s, attempt) ==
  \/ s = "CLOSED" /\ attempt < MaxAttempts
  \/ s = "HALF_OPEN" /\ attempt < 1

CallDecides(c) ==
  /\ call[c].pc = "decide"
  /\ ReadState
  /\ IF ShouldRetry(state', call[c].attempt)
     THEN SetCall(c, [call[c] EXCEPT !.pc = "delay", !.attempt = @ + 1])
     ELSE SetCall(c, NoCall)

\* get_delay and on_retry read the state again; then the call is repeated.
CallRepeats(c) ==
  /\ call[c].pc = "delay"
  /\ ReadState
  /\ Goto(c, "sent")

-----------------------------------------------------------------------------
(***************************************************************************)
(* A provider circuit.                                                     *)
(***************************************************************************)
\* A dispatch of the provisioning service ends (_record_provider_success,
\* _record_provider_failure).
DispatchEnds ==
  /\ kind = "provider"
  /\ IF up THEN RecordSuccess ELSE RecordFailure
  /\ UNCHANGED <<up, pass>>

\* The reconcile pass: _circuit_open skips a provider whose circuit is open.
PassCheck ==
  /\ kind = "provider"
  /\ pass = "idle"
  /\ ReadState
  /\ pass' = IF state' = "OPEN" THEN "idle" ELSE "fetch"
  /\ UNCHANGED up

\* One outcome for the pass: any request the provider answered makes it good.
PassEnds ==
  /\ pass = "fetch"
  /\ IF up THEN RecordSuccess ELSE RecordFailure
  /\ pass' = "idle"
  /\ UNCHANGED up

\* No outcome: there was nothing to poll, or every poll hit its own timeout
\* before the provider answered.
PassSilent ==
  /\ pass = "fetch"
  /\ pass' = "idle"
  /\ UNCHANGED <<circuit, up>>

\* The provider goes down or comes back.
Flip ==
  /\ kind = "provider"
  /\ up' = ~up
  /\ UNCHANGED <<circuit, pass>>

Older(age, limit) == IF age = None \/ age >= limit THEN age ELSE age + 1

\* Time passes.  A tick is far longer than the few statements of record_success
\* and should_retry, so no call is among them.
Tick ==
  /\ \A c \in Callers : call[c].pc \in {"idle", "sent"}
  /\ sinceFailure' = Older(sinceFailure, ResetTimeout)
  /\ sinceHalf' = Older(sinceHalf, HalfOpenTimeout)
  /\ <<sinceFailure', sinceHalf'>> # <<sinceFailure, sinceHalf>>
  /\ UNCHANGED <<kind, state, count, up, call, pass>>

CallStep(c) ==
  /\ \/ CallStart(c) \/ CallSucceeds(c) \/ CallCloses(c)
     \/ CallRenews(c) \/ CallRejected(c)
     \/ CallHitsQuota(c) \/ CallStampsQuota(c)
     \/ CallFails(c) \/ CallCounts(c) \/ CallStamps(c) \/ CallTrips(c)
     \/ CallDecides(c) \/ CallRepeats(c)
  /\ UNCHANGED <<kind, up, pass>>

LoopStep ==
  /\ DispatchEnds \/ PassCheck \/ PassEnds \/ PassSilent \/ Flip
  /\ UNCHANGED <<kind, call>>

Next == (\E c \in Callers : CallStep(c)) \/ LoopStep \/ Tick

Spec == Init /\ [][Next]_vars

\* Fairness: while requests are in flight at the provider the reconcile loop
\* keeps coming round, and time passes.
LiveSpec == Spec /\ WF_vars(PassCheck /\ UNCHANGED <<kind, call>>) /\ WF_vars(Tick)

-----------------------------------------------------------------------------
(***************************************************************************)
(* Properties.                                                             *)
(***************************************************************************)

\* Type invariant; a guarded call is repeated at most max_attempts times, and
\* once more for a credential, whatever resets the failure count meanwhile.
TypeOK ==
  /\ kind \in {"guarded", "provider"}
  /\ state \in {"CLOSED", "OPEN", "HALF_OPEN"}
  /\ count \in 0 .. Threshold
  /\ sinceFailure \in (0 .. ResetTimeout) \cup {None}
  /\ sinceHalf \in (0 .. HalfOpenTimeout) \cup {None}
  /\ up \in BOOLEAN
  /\ call \in [Callers -> [pc : {"idle", "sent", "close", "opened", "count", "stamp", "trip",
                                 "decide", "delay"},
                           attempt : 0 .. MaxAttempts, seen : 0 .. Threshold,
                           renewed : BOOLEAN]]
  /\ pass \in {"idle", "fetch"}

\* The clock that ends a state of a provider circuit is running while the
\* circuit is in it: an open circuit knows its last failure, a half-open one its
\* start.  Without it, _get_current_state would leave the circuit there for good.
CircuitCanMove ==
  kind = "provider" =>
    /\ state = "OPEN" => sinceFailure # None
    /\ state = "HALF_OPEN" => sinceHalf # None

\* No failure that reaches the threshold goes by without opening the circuit,
\* although threads overwrite each other's counts and a success resets them in
\* the middle of record_failure: a closed circuit at its threshold has a thread
\* on its way to open it.
NoMissedTrip ==
  state = "CLOSED" /\ count >= Threshold => \E c \in Callers : call[c].pc \in {"stamp", "trip"}

\* A guarded circuit that has opened stays open for as long as the process
\* lives: should_retry stamps the failure just before it reads the state, so the
\* reset window never expires for a reader, no one else reads the state, and a
\* success closes only a half-open circuit.  From then on no call of that handler
\* is retried.  This contradicts "subsequent calls fast-fail with
\* CircuitBreakerOpenError until the reset window expires" (k8s base_handler.py:513)
\* and circuit_breaker_reset_timeout, "seconds after the circuit opens before the
\* breaker transitions to half-open and allows a probe request through" (k8s
\* config.py:617).
GuardedStaysOpen == [][kind = "guarded" /\ state = "OPEN" => state' = "OPEN"]_state

\* Of the passes that poll again and again, not all stay without an outcome.
\* Nothing in the code promises this: polls of a provider that hangs run into
\* their timeouts, and no outcome is recorded (reconcile_once).
OutcomesReported == []<>(pass = "fetch") => []<><<PassEnds>>_pass

\* If a provider stays down, the reconcile loop does not keep polling it, as long
\* as its passes report outcomes: the circuit opens again and again, although a
\* failed trial does not open it (record_failure, half_open_timeout).
DeadServiceOpens ==
  kind = "provider" /\ <>[](~up) /\ OutcomesReported => []<>(state = "OPEN")

=============================================================================
