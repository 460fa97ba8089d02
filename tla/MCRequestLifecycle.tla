------------------------ MODULE MCRequestLifecycle ------------------------
(***************************************************************************)
(* Model checking RequestLifecycle on small instances.                     *)
(***************************************************************************)
EXTENDS RequestLifecycle, TLC

\* Instances are interchangeable; the safety runs quotient by them.
MachineSymmetry == Permutations(Machines)

\* The provider gives every verdict; or makes progress and completes; or gives
\* verdicts that settle a request, which a later one may still correct.
EveryVerdict == ProviderVerdicts
Healing == {Verdict("partial", FALSE, TRUE), Verdict("fulfilled", FALSE, FALSE)}

Settling ==
  {Verdict("failed", FALSE, TRUE), Verdict("partial", TRUE, TRUE), Verdict("fulfilled", FALSE, FALSE)}

\* The operator gives every command there is.
EveryCommand == Commands
=============================================================================
