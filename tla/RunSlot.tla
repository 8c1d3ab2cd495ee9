------------------------------ MODULE RunSlot ------------------------------
(***************************************************************************)
(* What the agent run table promises to the rest of the server, for one    *)
(* session: a session is a slot that at most one run occupies.  A run      *)
(* takes a free slot, leaves it once, and never takes it again.  The one   *)
(* concession the code makes is visible here: the handler of a run that    *)
(* somebody else ended (a cancel, the clean-up job) may still replace that *)
(* verdict, once, by its own.                                              *)
(*                                                                         *)
(* AgentRun implements this module (AgentRun!SlotSpec).                    *)
(***************************************************************************)
CONSTANT Runs

VARIABLE status     \* status column of each run's row, "none" before the row exists

Own     == {"completed", "failed"}                \* verdicts of the run's handler
Foreign == {"aborted", "system_interrupted"}      \* verdicts of a cancel or of the clean-up job
Status  == {"none", "running"} \union Own \union Foreign

SlotFree == \A r \in Runs : status[r] # "running"

Init == status = [r \in Runs |-> "none"]

\* A run takes the slot: only a free one.
Begin(r) ==
  /\ status[r] = "none"
  /\ SlotFree
  /\ status' = [status EXCEPT ![r] = "running"]

\* A run leaves the slot.
End(r) ==
  /\ status[r] = "running"
  /\ \E s \in Own \union Foreign : status' = [status EXCEPT ![r] = s]

\* The handler of a run ended by somebody else reports its own verdict late.
Overrule(r) ==
  /\ status[r] \in Foreign
  /\ \E s \in Own : status' = [status EXCEPT ![r] = s]

Next == \E r \in Runs : Begin(r) \/ End(r) \/ Overrule(r)

Spec == Init /\ [][Next]_status
=============================================================================
