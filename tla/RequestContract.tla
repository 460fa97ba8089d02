-------------------------- MODULE RequestContract --------------------------
(***************************************************************************)
(* What a client may rely on when it watches one stored request, whoever   *)
(* writes it and in whatever order: a settled outcome stands, except that  *)
(* PARTIAL may still be upgraded to COMPLETED; recorded ids and the first  *)
(* status-check stamp are never dropped; and the deadline is set once.     *)
(***************************************************************************)
CONSTANTS
  Outcomes,     \* terminal statuses
  Unset         \* no deadline yet

VARIABLES phase, resources, machines, due, stamped

cvars == <<phase, resources, machines, due, stamped>>

Init ==
  /\ phase = "none"
  /\ resources = {} /\ machines = {}
  /\ due = Unset
  /\ stamped = FALSE

\* What every write keeps.
Keeps ==
  /\ resources \subseteq resources'
  /\ machines \subseteq machines'
  /\ due = Unset \/ due' = due
  /\ stamped => stamped'

Open ==
  /\ phase = "none" /\ phase' = "open"
  /\ UNCHANGED <<resources, machines, due, stamped>>

Record == phase # "none" /\ phase' = phase /\ Keeps

Settle == phase = "open" /\ phase' \in Outcomes /\ Keeps

Upgrade == phase = "PARTIAL" /\ phase' = "COMPLETED" /\ Keeps

Next == Open \/ Record \/ Settle \/ Upgrade

Spec == Init /\ [][Next]_cvars
=============================================================================
