----------------------------- MODULE PortLease -----------------------------
(***************************************************************************)
(* What the port pool of the local sandbox server promises: a port belongs *)
(* to at most one sandbox, from the moment its container is created until  *)
(* the container is gone.  Stopping a container does not give its ports    *)
(* back, so that it can be started again.                                  *)
(*                                                                         *)
(* PortPool implements this module as long as the server does not restart  *)
(* (PortPool!LeaseSpec).                                                   *)
(***************************************************************************)
CONSTANTS Sandboxes, Ports

VARIABLE leased     \* ports of each sandbox

Init == leased = [s \in Sandboxes |-> {}]

Take(s) ==
  /\ leased[s] = {}
  /\ \E P \in SUBSET Ports :
       /\ \A t \in Sandboxes : P \intersect leased[t] = {}
       /\ leased' = [leased EXCEPT ![s] = P]

GiveBack(s) == leased' = [leased EXCEPT ![s] = {}]

Next == \E s \in Sandboxes : Take(s) \/ GiveBack(s)

Spec == Init /\ [][Next]_leased
=============================================================================
