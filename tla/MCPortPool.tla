----------------------------- MODULE MCPortPool -----------------------------
(* PortPool on a small range of ports. *)
EXTENDS PortPool, TLC

Range5 == 1 .. 5

\* Sound: sandboxes are told apart by their state only.
Names == Permutations(Sandboxes)
=============================================================================
