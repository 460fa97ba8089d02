--------------------------- MODULE ReturnContract ---------------------------
(***************************************************************************)
(* What return handling promises about committed units of work, whatever   *)
(* the storage and wherever a handler fails.                               *)
(*                                                                         *)
(* A return is stored in one step, together with all the claims on the     *)
(* machines it asks for and, if it is forced, the cancellation of every    *)
(* return that holds one of them; or else without claims, which it then    *)
(* takes machine by machine.                                               *)
(* A machine is taken only by a stored return that asks for it.  It is     *)
(* given up only by the return that holds it, or to a return about to be   *)
(* stored that asks for it.  A status follows the transition table, or is  *)
(* forced to FAILED.                                                       *)
(***************************************************************************)
CONSTANTS
  Returns,
  Machines,
  None         \* no holder

VARIABLES
  phase,       \* status of each return, "absent" before it is stored
  holder,      \* the return that holds each machine
  asks         \* the machines each return asks for

cvars == <<phase, holder, asks>>

Final == {"COMPLETED", "FAILED", "CANCELLED"}

\* Where a status may go.
Follows(from, to) ==
  \/ from = "PENDING" /\ to # "absent"
  \/ from = "IN_PROGRESS" /\ to \in Final \cup {"PARTIAL"}
  \/ from = "PARTIAL" /\ to = "COMPLETED"
  \/ from # "absent" /\ to = "FAILED"

Init ==
  /\ phase = [r \in Returns |-> "absent"]
  /\ holder = [m \in Machines |-> None]
  /\ asks = [r \in Returns |-> {}]

Ask(r) ==
  /\ phase[r] = "absent"
  /\ UNCHANGED <<phase, holder>>
  /\ \A q \in Returns : q # r => asks'[q] = asks[q]

\* The statuses once the returns that hold one of ms are cancelled.
Superseding(ms) ==
  [q \in Returns |-> IF (\E m \in ms : holder[m] = q) /\ phase[q] \notin Final \cup {"absent"}
                     THEN "CANCELLED" ELSE phase[q]]

Store(r) ==
  /\ phase[r] = "absent"
  /\ \E ms \in {{}, asks[r]} : phase' = [Superseding(ms) EXCEPT ![r] = "PENDING"]
  /\ holder' \in {holder, [m \in Machines |-> IF m \in asks[r] THEN r ELSE holder[m]]}
  /\ UNCHANGED asks

Supersede(r, m) ==
  /\ phase[r] = "absent" /\ m \in asks[r]
  /\ phase' \in {phase, Superseding({m})}
  /\ holder' \in {holder, [holder EXCEPT ![m] = None]}
  /\ UNCHANGED asks

Take(r, m) ==
  /\ phase[r] # "absent" /\ m \in asks[r]
  /\ holder' = [holder EXCEPT ![m] = r]
  /\ UNCHANGED <<phase, asks>>

LetGo(r) ==
  /\ phase[r] # "absent"
  /\ UNCHANGED <<phase, asks>>
  /\ \A m \in Machines : holder'[m] # holder[m] => holder[m] = r /\ holder'[m] = None

Move(r) ==
  /\ Follows(phase[r], phase'[r])
  /\ \A q \in Returns : q # r => phase'[q] = phase[q]
  /\ UNCHANGED <<holder, asks>>

Next ==
  \E r \in Returns :
    \/ LetGo(r) \/ Move(r) \/ Ask(r) \/ Store(r)
    \/ \E m \in asks[r] : Supersede(r, m) \/ Take(r, m)

Spec == Init /\ [][Next]_cvars
=============================================================================
