---------------------------- MODULE MCReturnFlow ----------------------------
(* Small instances of ReturnFlow for TLC. *)
EXTENDS ReturnFlow, TLC

CONSTANTS r1, r2, m1, m2

\* One command names both machines; the other names one of them, and may be
\* forced.
Overlapping == r1 :> {<<{m1, m2}, FALSE>>} @@ r2 :> {{m1}} \X BOOLEAN

\* The shared machine may fail by itself.
Fails == {<<m1, "failed">>}
=============================================================================
