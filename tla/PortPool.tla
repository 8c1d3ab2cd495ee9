------------------------------ MODULE PortPool ------------------------------
(***************************************************************************)
(* The host ports of the local sandbox server (ii_sandbox_server with      *)
(* provider "docker").  PortPoolManager keeps in memory which ports are    *)
(* allocated, and to which sandbox; Docker decides which ports are really  *)
(* bound: those of running containers.  Containers outlive the server, and *)
(* they stop, vanish and fail behind its back.                             *)
(*                                                                         *)
(* The server is one event loop and calls Docker synchronously, so what a  *)
(* handler does between two awaits is one step.  The status that a handler *)
(* writes into the sandboxes table right after a Docker call is part of    *)
(* the call's step.                                                        *)
(***************************************************************************)
EXTENDS Naturals, FiniteSets

CONSTANTS
  Sandboxes,     \* ids given to create requests
  Ports,         \* SANDBOX_PORT_RANGE_START .. SANDBOX_PORT_RANGE_END
  PortsPer,      \* number of DEFAULT_EXPOSED_PORTS
  MaxRestarts,   \* bound: restarts of the sandbox server
  Events         \* what may happen besides create, connect and delete: subset of EventKinds

EventKinds == {"pause",      \* a sandbox is paused and resumed
               "cleanup",    \* POST /ports/cleanup
               "refuse",     \* Docker answers with an API error
               "break",      \* the connection to Docker breaks during a create
               "cut",        \* ... during a delete or a resume
               "exit",       \* a container stops by itself
               "vanish",     \* a container is removed by hand (docker rm, docker container prune)
               "scan"}       \* the scan at start-up fails

ASSUME PortsAreNumbers == Ports \subseteq Nat /\ IsFiniteSet(Ports)
ASSUME PoolConstants ==
  /\ PortsPer \in Nat \ {0}
  /\ MaxRestarts \in Nat
  /\ Events \subseteq EventKinds

VARIABLES
  up,          \* the server runs
  restarts,    \* restarts so far
  allocated,   \* PortPoolManager._allocated_ports
  byId,        \* _sandbox_ports[sandbox_id]: entry made by a create or a connect
  byName,      \* _sandbox_ports[first 12 characters of the id]: entry made by the scan
  pc,          \* position of each create request
  container,   \* status of each sandbox's container, "none" if there is none
  bind,        \* host ports each container was created with
  row          \* status in the sandboxes table, "none" without a row

pool   == <<allocated, byId, byName>>
docker == <<container, bind>>
vars   == <<up, restarts, pool, pc, docker, row>>

\* A port set: does it exist, and does it know its container (set_container_id)?
Entry   == [state : {"absent", "unlinked", "linked"}, ports : SUBSET Ports]
NoEntry == [state |-> "absent", ports |-> {}]
Linked(P) == [state |-> "linked", ports |-> P]

TypeOK ==
  /\ up \in BOOLEAN
  /\ restarts \in 0 .. MaxRestarts
  /\ allocated \in SUBSET Ports
  /\ byId \in [Sandboxes -> Entry]
  /\ byName \in [Sandboxes -> Entry]
  /\ pc \in [Sandboxes -> {"new", "waiting", "ready", "failed"}]
  /\ container \in [Sandboxes -> {"none", "created", "running", "exited"}]
  /\ bind \in [Sandboxes -> SUBSET Ports]
  /\ row \in [Sandboxes -> {"none", "running", "paused"}]

Init ==
  /\ up = TRUE
  /\ restarts = 0
  /\ allocated = {}
  /\ byId = [s \in Sandboxes |-> NoEntry]
  /\ byName = [s \in Sandboxes |-> NoEntry]
  /\ pc = [s \in Sandboxes |-> "new"]
  /\ container = [s \in Sandboxes |-> "none"]
  /\ bind = [s \in Sandboxes |-> {}]
  /\ row = [s \in Sandboxes |-> "none"]

Exists(s)  == container[s] # "none"
Running    == {s \in Sandboxes : container[s] = "running"}
Bound      == UNION {bind[s] : s \in Running}     \* ports Docker will not bind again
Startable(s) == bind[s] \intersect Bound = {}

-----------------------------------------------------------------------------
(* PortPoolManager.                                                        *)

\* Mutant: the range ends one port too late.
FreeOffByOne == (Ports \union {p + 1 : p \in Ports}) \ allocated

\* _find_available_port, once per container port: the lowest free ports.
Free      == Ports \ allocated
Lowest(F) == {p \in F : Cardinality({x \in F : x < p}) < PortsPer}

\* release_ports
Release(s) ==
  /\ allocated' = allocated \ byId[s].ports
  /\ byId' = [byId EXCEPT ![s] = NoEntry]
  /\ UNCHANGED byName

\* Mutant: set_container_id is forgotten.
RegisterUnlinked(s, P) ==
  /\ allocated' = allocated \union P
  /\ byId' = [byId EXCEPT ![s] = [state |-> "unlinked", ports |-> P]]
  /\ UNCHANGED byName

\* allocate_ports and set_container_id, or _register_existing_ports.
Register(s, P) ==
  /\ allocated' = allocated \union P
  /\ byId' = [byId EXCEPT ![s] = Linked(P)]
  /\ UNCHANGED byName

\* _register_existing_ports: an entry under the full id is left as it is; a container
\* that does not run shows no ports.
RegisterExisting(s, running) ==
  IF byId[s].state = "absent"
  THEN Register(s, IF running THEN bind[s] ELSE {})
  ELSE UNCHANGED pool

\* cleanup_orphaned_allocations: entries whose container is gone.
Orphans(entries) == {s \in Sandboxes : entries[s].state = "linked" /\ ~Exists(s)}
Without(entries, S) == [s \in Sandboxes |-> IF s \in S THEN NoEntry ELSE entries[s]]

\* Mutant: entries of stopped containers are taken for orphans.
CleanupStopped ==
  LET Dead(entries) == {s \in Sandboxes : entries[s].state = "linked" /\ s \notin Running} IN
  /\ "cleanup" \in Events
  /\ up
  /\ allocated' = allocated \ UNION ({byId[s].ports : s \in Dead(byId)}
                                     \union {byName[s].ports : s \in Dead(byName)})
  /\ byId' = Without(byId, Dead(byId))
  /\ byName' = Without(byName, Dead(byName))
  /\ UNCHANGED <<up, restarts, pc, docker, row>>

Cleanup ==
  /\ "cleanup" \in Events
  /\ up
  /\ allocated' = allocated \ UNION ({byId[s].ports : s \in Orphans(byId)}
                                     \union {byName[s].ports : s \in Orphans(byName)})
  /\ byId' = Without(byId, Orphans(byId))
  /\ byName' = Without(byName, Orphans(byName))
  /\ UNCHANGED <<up, restarts, pc, docker, row>>

-----------------------------------------------------------------------------
(* DockerSandbox.create and SandboxController.create_sandbox.              *)

Requested(s) == up /\ pc[s] = "new"
Enough       == Cardinality(Free) >= PortsPer

SetContainer(s, status, P) ==
  /\ container' = [container EXCEPT ![s] = status]
  /\ bind' = [bind EXCEPT ![s] = IF status = "none" THEN {} ELSE P]

\* RuntimeError: what was allocated so far is rolled back.
CreateExhausted(s) ==
  /\ Requested(s)
  /\ ~Enough
  /\ pc' = [pc EXCEPT ![s] = "failed"]
  /\ UNCHANGED <<up, restarts, pool, docker, row>>

CreateStarted(s) ==
  LET P == Lowest(Free) IN
  /\ Requested(s)
  /\ Enough
  /\ P \intersect Bound = {}
  /\ Register(s, P)
  /\ SetContainer(s, "running", P)
  /\ pc' = [pc EXCEPT ![s] = "waiting"]
  /\ UNCHANGED <<up, restarts, row>>

\* APIError or ImageNotFound: the ports just allocated are released.  When it is the
\* start that Docker refuses (a port is bound), the container stays behind, created.
CreateRefused(s) ==
  LET P == Lowest(Free) IN
  /\ Requested(s)
  /\ Enough
  /\ \/ P \intersect Bound # {} /\ SetContainer(s, "created", P)
     \/ "refuse" \in Events /\ \E left \in {"none", "created"} : SetContainer(s, left, P)
  /\ pc' = [pc EXCEPT ![s] = "failed"]
  /\ UNCHANGED <<up, restarts, pool, row>>

\* Any other exception: the allocation stays, without a container id, whatever the
\* call has done.
CreateBroken(s) ==
  LET P == Lowest(Free) IN
  /\ "break" \in Events
  /\ Requested(s)
  /\ Enough
  /\ allocated' = allocated \union P
  /\ byId' = [byId EXCEPT ![s] = [state |-> "unlinked", ports |-> P]]
  /\ \/ \E left \in {"none", "created"} : SetContainer(s, left, P)
     \/ P \intersect Bound = {} /\ SetContainer(s, "running", P)
  /\ pc' = [pc EXCEPT ![s] = "failed"]
  /\ UNCHANGED <<up, restarts, byName, row>>

\* The health check answers and the row is written.
Ready(s) ==
  /\ up
  /\ pc[s] = "waiting"
  /\ container[s] = "running"
  /\ pc' = [pc EXCEPT ![s] = "ready"]
  /\ row' = [row EXCEPT ![s] = "running"]
  /\ UNCHANGED <<up, restarts, pool, docker>>

\* It does not within CONTAINER_STARTUP_TIMEOUT, or the row cannot be written: the
\* container and its ports are left to themselves, and no row tells of them.
NotReady(s) ==
  /\ up
  /\ pc[s] = "waiting"
  /\ pc' = [pc EXCEPT ![s] = "failed"]
  /\ UNCHANGED <<up, restarts, pool, docker, row>>

-----------------------------------------------------------------------------
(* SandboxController.connect, pause_sandbox, delete_sandbox.               *)

\* A second connect changes nothing here, and neither does one without a container.
Connect(s) ==
  /\ up
  /\ row[s] = "running"
  /\ Exists(s)
  /\ byId[s].state = "absent"
  /\ RegisterExisting(s, s \in Running)
  /\ UNCHANGED <<up, restarts, pc, docker, row>>

\* The container may be started and the inspection after it fail: the row stays paused
\* and the ports are not registered.
ResumeBroken(s) ==
  /\ "cut" \in Events
  /\ up
  /\ row[s] = "paused"
  /\ Exists(s) /\ Startable(s)
  /\ container' = [container EXCEPT ![s] = "running"]
  /\ UNCHANGED <<up, restarts, pool, pc, bind, row>>

\* Docker refuses to start the container when one of its ports is bound: the resume
\* then raises and changes nothing.
Resume(s) ==
  /\ up
  /\ row[s] = "paused"
  /\ Exists(s)
  /\ s \notin Running => Startable(s)
  /\ container' = [container EXCEPT ![s] = "running"]
  /\ RegisterExisting(s, TRUE)
  /\ row' = [row EXCEPT ![s] = "running"]
  /\ UNCHANGED <<up, restarts, pc, bind>>

\* stop answers False on an error of Docker; the row says paused all the same.
Pause(s) ==
  /\ "pause" \in Events
  /\ up
  /\ row[s] # "none"
  /\ \/ /\ s \in Running
        /\ container' = [container EXCEPT ![s] = "exited"]
     \/ /\ s \notin Running \/ "refuse" \in Events
        /\ UNCHANGED container
  /\ row' = [row EXCEPT ![s] = "paused"]
  /\ UNCHANGED <<up, restarts, pool, pc, bind>>

\* By request, by the time-out queue, or by the orphan loop.  An APIError makes the
\* provider answer False, which nobody looks at.
Delete(s) ==
  /\ up
  /\ row[s] # "none"
  /\ row' = [row EXCEPT ![s] = "none"]
  /\ \/ Exists(s) /\ SetContainer(s, "none", {}) /\ Release(s)
     \/ ~Exists(s) /\ Release(s) /\ UNCHANGED docker
     \/ "refuse" \in Events /\ UNCHANGED <<docker, pool>>
  /\ UNCHANGED <<up, restarts, pc>>

\* Any other exception, in the look-up, the removal or the clean-up of the volume that
\* follows the release: a request or the queue keeps the row, the orphan loop swallows
\* the exception and deletes it.
DeleteBroken(s) ==
  /\ "cut" \in Events
  /\ up
  /\ row[s] # "none"
  /\ \E left \in {row[s], "none"} : row' = [row EXCEPT ![s] = left]
  /\ \/ UNCHANGED <<docker, pool>>
     \/ Exists(s) /\ SetContainer(s, "none", {}) /\ (Release(s) \/ UNCHANGED pool)
     \/ ~Exists(s) /\ Release(s) /\ UNCHANGED docker
  /\ UNCHANGED <<up, restarts, pc>>

-----------------------------------------------------------------------------
(* Docker, and restarts of the server.                                     *)

Exit(s) ==
  /\ "exit" \in Events
  /\ s \in Running
  /\ container' = [container EXCEPT ![s] = "exited"]
  /\ UNCHANGED <<up, restarts, pool, pc, bind, row>>

Vanish(s) ==
  /\ "vanish" \in Events
  /\ Exists(s)
  /\ SetContainer(s, "none", {})
  /\ UNCHANGED <<up, restarts, pool, pc, row>>

\* The server dies or is stopped; create requests that wait are lost.
Die ==
  /\ up
  /\ restarts < MaxRestarts
  /\ up' = FALSE
  /\ restarts' = restarts + 1
  /\ allocated' = {}
  /\ byId' = [s \in Sandboxes |-> NoEntry]
  /\ byName' = [s \in Sandboxes |-> NoEntry]
  /\ pc' = [s \in Sandboxes |-> IF pc[s] = "waiting" THEN "failed" ELSE pc[s]]
  /\ UNCHANGED <<docker, row>>

\* scan_existing_containers: running and created containers, under the short name.
Boot ==
  LET Found == {s \in Sandboxes : container[s] \in {"running", "created"}} IN
  /\ ~up
  /\ up' = TRUE
  /\ \E S \in IF "scan" \in Events THEN {{}, Found} ELSE {Found} :
       /\ byName' = [s \in Sandboxes |-> IF s \in S THEN Linked(bind[s]) ELSE NoEntry]
       /\ allocated' = UNION {bind[s] : s \in S}
  /\ UNCHANGED <<restarts, byId, pc, docker, row>>

Request(s) ==
  \/ CreateExhausted(s) \/ CreateStarted(s) \/ CreateRefused(s) \/ CreateBroken(s)
  \/ Ready(s) \/ NotReady(s)
  \/ Connect(s) \/ Resume(s) \/ ResumeBroken(s) \/ Pause(s)
  \/ Delete(s) \/ DeleteBroken(s)

Next ==
  \/ \E s \in Sandboxes : Request(s) \/ Exit(s) \/ Vanish(s)
  \/ Cleanup \/ Die \/ Boot

Spec == Init /\ [][Next]_vars

-----------------------------------------------------------------------------
(* Properties.                                                             *)

\* No port that a running container has bound is offered to a new sandbox: otherwise
\* Docker refuses the new container, and every later one, as the lowest free ports
\* are always tried first.
BoundIsAllocated == up => \A s \in Running : bind[s] \subseteq allocated

\* A paused sandbox can be resumed: nobody has bound its ports in the meantime.
PausedCanResume ==
  \A s \in Sandboxes : row[s] = "paused" /\ container[s] = "exited" => Startable(s)

\* A port that is allocated belongs to a container that exists, or the next clean-up
\* gives it back: no allocation is stuck without a container.
Owned(p)       == \E s \in Sandboxes : p \in bind[s]
Reclaimable(p) == \/ \E s \in Orphans(byId) : p \in byId[s].ports
                  \/ \E s \in Orphans(byName) : p \in byName[s].ports
NoPortLost == \A p \in allocated : Owned(p) \/ Reclaimable(p)

\* Without a restart, the bindings of the containers that have been started implement
\* a lease of ports.
Lease == INSTANCE PortLease WITH
  leased <- [s \in Sandboxes |-> IF container[s] \in {"running", "exited"} THEN bind[s] ELSE {}]
LeaseSpec == Lease!Spec

-----------------------------------------------------------------------------
(* The inductive invariants the proofs rest on.                            *)

\* Ports with an entry under a full id are allocated, to one sandbox, and bound by no
\* other container.
BooksInv ==
  /\ \A s \in Sandboxes : byId[s].ports \subseteq allocated
  /\ \A s, t \in Sandboxes : s # t => byId[s].ports \intersect byId[t].ports = {}

\* What holds while the server does not restart: the books are Docker's state.
SteadyInv ==
  /\ up
  /\ BooksInv
  /\ \A p \in allocated : \E s \in Sandboxes : p \in byId[s].ports
  /\ \A s \in Sandboxes : byName[s] = NoEntry
  /\ \A s \in Sandboxes :
       container[s] \in {"running", "exited"} =>
         byId[s].state # "absent" /\ byId[s].ports = bind[s]
  /\ \A s \in Sandboxes :
       pc[s] = "new" => container[s] = "none" /\ byId[s] = NoEntry /\ row[s] = "none"
  /\ \A s \in Sandboxes : container[s] = "created" => pc[s] = "failed" /\ row[s] = "none"

\* What survives restarts as long as no container is stopped and no clean-up is run.
RestartInv ==
  /\ BooksInv
  /\ ~up => \A s \in Sandboxes : byId[s] = NoEntry
  /\ BoundIsAllocated
  /\ \A s, t \in Running : s # t => bind[s] \intersect bind[t] = {}
  /\ \A s \in Sandboxes, t \in Running : s # t => byId[s].ports \intersect bind[t] = {}
  /\ \A s \in Sandboxes : container[s] # "exited" /\ row[s] # "paused"
  /\ \A s \in Sandboxes :
       pc[s] = "new" => container[s] = "none" /\ byId[s] = NoEntry /\ row[s] = "none"

\* Across restarts: a port that is allocated is in an entry that knows its container, and
\* such an entry has no ports the container does not have.
EntryInv ==
  /\ \A p \in allocated : \E s \in Sandboxes :
       \/ byId[s].state = "linked" /\ p \in byId[s].ports
       \/ byName[s].state = "linked" /\ p \in byName[s].ports
  /\ \A s \in Sandboxes :
       Exists(s) => /\ byId[s].state = "linked" => byId[s].ports \subseteq bind[s]
                    /\ byName[s].state = "linked" => byName[s].ports \subseteq bind[s]
  /\ \A s \in Sandboxes :
       pc[s] = "new" => ~Exists(s) /\ byId[s] = NoEntry /\ byName[s] = NoEntry
=============================================================================
