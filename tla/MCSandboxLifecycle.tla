-------------------------- MODULE MCSandboxLifecycle --------------------------
(* SandboxLifecycle with a few requests. *)
EXTENDS SandboxLifecycle, TLC

\* Sound: requests, and the messages named after them, are told apart by their state only.
Names == Permutations(Requests)
=============================================================================
