--------------------------- MODULE PortPool_proofs ---------------------------
(***************************************************************************)
(* Proofs about PortPool for any sandboxes, any range of ports and any     *)
(* number of ports per sandbox.                                            *)
(***************************************************************************)
EXTENDS PortPool, TLAPS

\* The ports of a new sandbox come from the free ones.
LEMMA LowestFree == Lowest(Free) \subseteq Ports \ allocated
  BY DEF Lowest, Free

-----------------------------------------------------------------------------
(* Type correctness.                                                       *)

LEMMA EntryType ==
  ASSUME NEW P \in SUBSET Ports
  PROVE  /\ NoEntry \in Entry
         /\ Linked(P) \in Entry
         /\ [state |-> "unlinked", ports |-> P] \in Entry
  BY DEF Entry, NoEntry, Linked

LEMMA TypeInit == Init => TypeOK
  <1>1. NoEntry \in Entry
    BY DEF NoEntry, Entry
  <1>2. 0 \in 0 .. MaxRestarts
    BY PoolConstants
  <1> QED
    BY <1>1, <1>2 DEF Init, TypeOK

\* The pool stays well typed under its two operations.
LEMMA PoolType ==
  ASSUME TypeOK, NEW s \in Sandboxes, NEW P \in SUBSET Ports,
         Register(s, P) \/ Release(s)
  PROVE  /\ allocated' \in SUBSET Ports
         /\ byId' \in [Sandboxes -> Entry]
         /\ byName' \in [Sandboxes -> Entry]
  BY EntryType DEF TypeOK, Register, Release

LEMMA ContainerType ==
  ASSUME TypeOK, NEW s \in Sandboxes, NEW P \in SUBSET Ports,
         NEW st \in {"none", "created", "running", "exited"}, SetContainer(s, st, P)
  PROVE  /\ container' \in [Sandboxes -> {"none", "created", "running", "exited"}]
         /\ bind' \in [Sandboxes -> SUBSET Ports]
  BY DEF TypeOK, SetContainer

LEMMA RegisterExistingType ==
  ASSUME TypeOK, NEW s \in Sandboxes, NEW r \in BOOLEAN, RegisterExisting(s, r)
  PROVE  /\ allocated' \in SUBSET Ports
         /\ byId' \in [Sandboxes -> Entry]
         /\ byName' \in [Sandboxes -> Entry]
  <1>1. CASE byId[s].state = "absent"
    <2> DEFINE P == IF r THEN bind[s] ELSE {}
    <2>1. P \in SUBSET Ports
      BY DEF TypeOK
    <2>2. Register(s, P)
      BY <1>1 DEF RegisterExisting
    <2> HIDE DEF P
    <2> QED
      BY <2>1, <2>2, PoolType
  <1>2. CASE byId[s].state # "absent"
    BY <1>2 DEF RegisterExisting, TypeOK, pool
  <1> QED
    BY <1>1, <1>2

\* What a delete may do, whether it succeeds, is refused or breaks off.
LEMMA DeleteEffect ==
  ASSUME TypeOK, NEW s \in Sandboxes, Delete(s) \/ DeleteBroken(s)
  PROVE  /\ up /\ row[s] # "none" /\ UNCHANGED <<up, restarts, pc>>
         /\ row' \in [Sandboxes -> {"none", "running", "paused"}]
         /\ row'[s] \in {row[s], "none"} /\ \A t \in Sandboxes : t # s => row'[t] = row[t]
         /\ \/ UNCHANGED <<docker, pool>>
            \/ SetContainer(s, "none", {}) /\ UNCHANGED pool
            \/ /\ SetContainer(s, "none", {}) \/ (~Exists(s) /\ UNCHANGED docker)
               /\ Release(s)
  <1>1. CASE Delete(s)
    BY <1>1 DEF Delete, TypeOK
  <1>2. CASE DeleteBroken(s)
    <2>1. PICK left \in {row[s], "none"} : row' = [row EXCEPT ![s] = left]
      BY <1>2 DEF DeleteBroken
    <2> QED
      BY <1>2, <2>1 DEF DeleteBroken, TypeOK
  <1> QED
    BY <1>1, <1>2

LEMMA TypeStep == TypeOK /\ [Next]_vars => TypeOK'
  <1> SUFFICES ASSUME TypeOK, [Next]_vars PROVE TypeOK'
    OBVIOUS
  <1> USE DEF pool, docker
  <1>0. Lowest(Free) \in SUBSET Ports
    BY LowestFree
  <1>e. NoEntry \in Entry
    BY EntryType
  <1>1. ASSUME NEW s \in Sandboxes, CreateExhausted(s) \/ NotReady(s) \/ Ready(s)
        PROVE TypeOK'
    BY <1>1 DEF CreateExhausted, NotReady, Ready, TypeOK
  <1>2. ASSUME NEW s \in Sandboxes, CreateStarted(s) PROVE TypeOK'
    <2>1. Register(s, Lowest(Free)) /\ SetContainer(s, "running", Lowest(Free))
      BY <1>2 DEF CreateStarted
    <2> QED
      BY <1>0, <1>2, <2>1, PoolType, ContainerType DEF CreateStarted, TypeOK
  <1>3. ASSUME NEW s \in Sandboxes, CreateRefused(s) PROVE TypeOK'
    <2>1. PICK left \in {"none", "created"} : SetContainer(s, left, Lowest(Free))
      BY <1>3 DEF CreateRefused
    <2> QED
      BY <1>0, <1>3, <2>1, ContainerType DEF CreateRefused, TypeOK
  <1>4. ASSUME NEW s \in Sandboxes, CreateBroken(s) PROVE TypeOK'
    <2>1. PICK left \in {"none", "created", "running"} : SetContainer(s, left, Lowest(Free))
      BY <1>4 DEF CreateBroken
    <2>2. [state |-> "unlinked", ports |-> Lowest(Free)] \in Entry
      BY <1>0, EntryType
    <2> QED
      BY <1>0, <1>4, <2>1, <2>2, ContainerType DEF CreateBroken, TypeOK
  <1>5. ASSUME NEW s \in Sandboxes, Connect(s) PROVE TypeOK'
    <2>1. (s \in Running) \in BOOLEAN
      BY DEF Running
    <2>2. RegisterExisting(s, s \in Running)
      BY <1>5 DEF Connect
    <2> QED
      BY <1>5, <2>1, <2>2, RegisterExistingType DEF Connect, TypeOK
  <1>6. ASSUME NEW s \in Sandboxes, Resume(s) PROVE TypeOK'
    BY <1>6, RegisterExistingType DEF Resume, TypeOK
  <1>7. ASSUME NEW s \in Sandboxes, Pause(s) \/ Exit(s) \/ ResumeBroken(s) PROVE TypeOK'
    BY <1>7 DEF Pause, Exit, ResumeBroken, TypeOK
  <1>8. ASSUME NEW s \in Sandboxes, Delete(s) \/ DeleteBroken(s) PROVE TypeOK'
    <2>0. (UNCHANGED pool \/ Release(s)) /\ (UNCHANGED docker \/ SetContainer(s, "none", {}))
      BY <1>8, DeleteEffect
    <2>1. /\ allocated' \in SUBSET Ports
          /\ byId' \in [Sandboxes -> Entry]
          /\ byName' \in [Sandboxes -> Entry]
      BY <2>0, PoolType DEF TypeOK
    <2>2. /\ container' \in [Sandboxes -> {"none", "created", "running", "exited"}]
          /\ bind' \in [Sandboxes -> SUBSET Ports]
      BY <2>0, ContainerType DEF TypeOK
    <2> QED
      BY <1>8, <2>1, <2>2, DeleteEffect DEF TypeOK
  <1>9. ASSUME NEW s \in Sandboxes, Vanish(s) PROVE TypeOK'
    BY <1>9, ContainerType DEF Vanish, TypeOK
  <1>10. CASE Cleanup
    BY <1>10, <1>e DEF Cleanup, Without, TypeOK
  <1>11. CASE Die
    <2>1. restarts' \in 0 .. MaxRestarts
      BY <1>11, PoolConstants DEF Die, TypeOK
    <2>2. pc' \in [Sandboxes -> {"new", "waiting", "ready", "failed"}]
      BY <1>11 DEF Die, TypeOK
    <2> QED
      BY <1>11, <1>e, <2>1, <2>2 DEF Die, TypeOK
  <1>12. CASE Boot
    <2>1. PICK S \in SUBSET Sandboxes :
            /\ byName' = [s \in Sandboxes |-> IF s \in S THEN Linked(bind[s]) ELSE NoEntry]
            /\ allocated' = UNION {bind[s] : s \in S}
      BY <1>12 DEF Boot
    <2>2. byName' \in [Sandboxes -> Entry]
      BY <2>1, <1>e, EntryType DEF TypeOK
    <2>3. allocated' \in SUBSET Ports
      BY <2>1 DEF TypeOK
    <2> QED
      BY <1>12, <2>2, <2>3 DEF Boot, TypeOK
  <1>13. CASE UNCHANGED vars
    BY <1>13 DEF vars, TypeOK
  <1> QED
    BY <1>1, <1>2, <1>3, <1>4, <1>5, <1>6, <1>7, <1>8, <1>9, <1>10, <1>11, <1>12, <1>13
       DEF Next, Request

\* Every reachable state is well typed.
THEOREM TypeCorrect == Spec => []TypeOK
  BY TypeInit, TypeStep, PTL DEF Spec

-----------------------------------------------------------------------------
(* Without a restart the books are Docker's state.                         *)

\* Giving a sandbox ports that no other entry has keeps the books in order.
LEMMA RegisterBooks ==
  ASSUME TypeOK, BooksInv, NEW s \in Sandboxes, NEW P \in SUBSET Ports, NEW st,
         \A t \in Sandboxes : t # s => P \intersect byId[t].ports = {},
         allocated' = allocated \union P,
         byId' = [byId EXCEPT ![s] = [state |-> st, ports |-> P]]
  PROVE  BooksInv'
  <1>1. byId'[s].ports = P /\ \A t \in Sandboxes : t # s => byId'[t] = byId[t]
    BY DEF TypeOK
  <1> QED
    BY <1>1 DEF BooksInv

LEMMA ReleaseBooks ==
  ASSUME TypeOK, BooksInv, NEW s \in Sandboxes, Release(s)
  PROVE  BooksInv'
  <1>1. byId'[s].ports = {} /\ \A t \in Sandboxes : t # s => byId'[t] = byId[t]
    BY DEF TypeOK, Release, NoEntry
  <1> QED
    BY <1>1 DEF BooksInv, Release

LEMMA SteadyInit == Init => SteadyInv
  BY DEF Init, SteadyInv, BooksInv, NoEntry

LEMMA SteadyStep ==
  ASSUME MaxRestarts = 0, TypeOK, SteadyInv, [Next]_vars
  PROVE  SteadyInv'
  <1> USE DEF pool, docker
  <1>p. Lowest(Free) \in SUBSET Ports /\ Lowest(Free) \intersect allocated = {}
    BY LowestFree
  <1>0. /\ BooksInv
        /\ \A s \in Sandboxes : byId[s].ports \subseteq allocated
    BY DEF SteadyInv, BooksInv
  <1>1. ASSUME NEW s \in Sandboxes, CreateExhausted(s) \/ NotReady(s) \/ Ready(s)
        PROVE SteadyInv'
    <2>1. BooksInv' /\ UNCHANGED <<up, pool, docker>>
      BY <1>0, <1>1 DEF BooksInv, CreateExhausted, NotReady, Ready
    <2>2. /\ pc'[s] \in {"ready", "failed"}
          /\ container[s] = "created" => pc[s] = "failed" /\ row[s] = "none"
          /\ pc[s] # "failed" /\ (row' = row \/ container[s] = "running")
          /\ \A t \in Sandboxes : t # s => pc'[t] = pc[t] /\ row'[t] = row[t]
      BY <1>1 DEF CreateExhausted, NotReady, Ready, Requested, TypeOK, SteadyInv
    <2> QED
      BY <2>1, <2>2 DEF SteadyInv
  <1>1a. ASSUME NEW s \in Sandboxes, Pause(s) \/ Exit(s) PROVE SteadyInv'
    <2>1. BooksInv' /\ UNCHANGED <<up, pool, pc, bind>>
      BY <1>0, <1>1a DEF BooksInv, Pause, Exit
    <2>2. /\ container'[s] = container[s] \/ (container[s] = "running" /\ container'[s] = "exited")
          /\ container'[s] = "created" => row'[s] = "none"
          /\ pc[s] = "new" => container' = container /\ row' = row
          /\ \A t \in Sandboxes : t # s => container'[t] = container[t] /\ row'[t] = row[t]
      BY <1>1a DEF Pause, Exit, Running, TypeOK, SteadyInv
    <2> QED
      BY <2>1, <2>2 DEF SteadyInv
  <1>2. ASSUME NEW s \in Sandboxes, Requested(s), NEW st \in {"linked", "unlinked"},
               allocated' = allocated \union Lowest(Free),
               byId' = [byId EXCEPT ![s] = [state |-> st, ports |-> Lowest(Free)]],
               NEW to \in {"none", "created", "running"}, SetContainer(s, to, Lowest(Free)),
               NEW p \in {"waiting", "failed"}, pc' = [pc EXCEPT ![s] = p],
               to = "created" => p = "failed",
               UNCHANGED <<up, byName, row>>
        PROVE SteadyInv'
    <2>1. byId[s] = NoEntry /\ container[s] = "none" /\ row[s] = "none"
      BY <1>2 DEF Requested, SteadyInv
    <2>2. BooksInv'
      <3>1. \A t \in Sandboxes : t # s => Lowest(Free) \intersect byId[t].ports = {}
        BY <1>0, <1>p
      <3> QED
        BY <1>0, <1>2, <1>p, <3>1, RegisterBooks
    <2>3. /\ byId'[s] = [state |-> st, ports |-> Lowest(Free)]
          /\ container'[s] = to /\ pc'[s] = p
          /\ to = "running" => bind'[s] = Lowest(Free)
          /\ \A t \in Sandboxes : t # s =>
               byId'[t] = byId[t] /\ container'[t] = container[t] /\ bind'[t] = bind[t]
                 /\ pc'[t] = pc[t]
      BY <1>2 DEF TypeOK, SetContainer
    <2>4. \A x \in allocated' : \E t \in Sandboxes : x \in byId'[t].ports
      <3> SUFFICES ASSUME NEW x \in allocated' PROVE \E t \in Sandboxes : x \in byId'[t].ports
        OBVIOUS
      <3>1. CASE x \in Lowest(Free)
        BY <3>1, <2>3
      <3>2. CASE x \in allocated
        <4>1. PICK t \in Sandboxes : x \in byId[t].ports
          BY <3>2 DEF SteadyInv
        <4> QED
          BY <4>1, <2>1, <2>3 DEF NoEntry
      <3> QED
        BY <1>2, <3>1, <3>2
    <2> QED
      BY <1>2, <2>1, <2>2, <2>3, <2>4 DEF SteadyInv
  <1>3. ASSUME NEW s \in Sandboxes, CreateStarted(s) PROVE SteadyInv'
    <2>1. byId' = [byId EXCEPT ![s] = [state |-> "linked", ports |-> Lowest(Free)]]
      BY <1>3 DEF CreateStarted, Register, Linked
    <2> QED
      BY <1>2, <1>3, <2>1 DEF CreateStarted, Register
  <1>4. ASSUME NEW s \in Sandboxes, CreateBroken(s) PROVE SteadyInv'
    <2>1. PICK to \in {"none", "created", "running"} : SetContainer(s, to, Lowest(Free))
      BY <1>4 DEF CreateBroken
    <2> QED
      BY <1>2, <1>4, <2>1 DEF CreateBroken
  <1>5. ASSUME NEW s \in Sandboxes, CreateRefused(s) PROVE SteadyInv'
    <2>1. PICK left \in {"none", "created"} : SetContainer(s, left, Lowest(Free))
      BY <1>5 DEF CreateRefused
    <2>2. /\ container'[s] = left /\ pc'[s] = "failed"
          /\ \A t \in Sandboxes : t # s =>
               container'[t] = container[t] /\ bind'[t] = bind[t] /\ pc'[t] = pc[t]
      BY <1>5, <2>1 DEF CreateRefused, TypeOK, SetContainer
    <2>3. row[s] = "none" /\ BooksInv'
      BY <1>0, <1>5 DEF CreateRefused, Requested, SteadyInv, BooksInv
    <2> QED
      BY <1>5, <2>2, <2>3 DEF CreateRefused, SteadyInv
  <1>6. ASSUME NEW s \in Sandboxes, Connect(s) PROVE SteadyInv'
    <2>1. container[s] = "created"
      BY <1>6 DEF Connect, Exists, SteadyInv, TypeOK
    <2> QED
      BY <1>6, <2>1 DEF Connect, SteadyInv
  <1>7. ASSUME NEW s \in Sandboxes, Resume(s) PROVE SteadyInv'
    <2>1. container[s] \in {"running", "exited"}
      BY <1>7 DEF Resume, Exists, SteadyInv, TypeOK
    <2>2. UNCHANGED pool /\ BooksInv'
      BY <1>0, <1>7, <2>1 DEF Resume, RegisterExisting, SteadyInv, BooksInv
    <2>3. /\ container'[s] = "running"
          /\ \A t \in Sandboxes : t # s => container'[t] = container[t] /\ row'[t] = row[t]
      BY <1>7 DEF Resume, TypeOK
    <2> QED
      BY <1>7, <2>1, <2>2, <2>3 DEF Resume, SteadyInv
  <1>7a. ASSUME NEW s \in Sandboxes, ResumeBroken(s) PROVE SteadyInv'
    <2>1. container[s] \in {"running", "exited"}
      BY <1>7a DEF ResumeBroken, Exists, SteadyInv, TypeOK
    <2>2. /\ container'[s] = "running" /\ BooksInv'
          /\ \A t \in Sandboxes : t # s => container'[t] = container[t]
      BY <1>0, <1>7a DEF ResumeBroken, BooksInv, TypeOK
    <2> QED
      BY <1>7a, <2>1, <2>2 DEF ResumeBroken, SteadyInv
  <1>8. ASSUME NEW s \in Sandboxes, Delete(s) \/ DeleteBroken(s) PROVE SteadyInv'
    <2>1. /\ row'[s] \in {row[s], "none"} /\ pc' = pc /\ pc[s] # "new" /\ up'
          /\ \A t \in Sandboxes : t # s => row'[t] = row[t]
      BY <1>8, DeleteEffect DEF SteadyInv
    <2>2. CASE UNCHANGED <<docker, pool>>
      BY <1>0, <2>1, <2>2 DEF SteadyInv, BooksInv
    <2>4. CASE SetContainer(s, "none", {}) /\ UNCHANGED pool
      <3>1. /\ container'[s] = "none" /\ BooksInv'
            /\ \A t \in Sandboxes : t # s => container'[t] = container[t] /\ bind'[t] = bind[t]
        BY <1>0, <2>4 DEF SetContainer, TypeOK, BooksInv
      <3> QED
        BY <2>1, <2>4, <3>1 DEF SteadyInv
    <2>3. CASE Release(s) /\ (SetContainer(s, "none", {}) \/ (~Exists(s) /\ UNCHANGED docker))
      <3>1. BooksInv'
        BY <1>0, <2>3, ReleaseBooks
      <3>2. /\ container'[s] = "none" /\ byId'[s].ports = {}
            /\ \A t \in Sandboxes : t # s =>
                 container'[t] = container[t] /\ bind'[t] = bind[t] /\ byId'[t] = byId[t]
        BY <2>3 DEF TypeOK, SetContainer, Release, Exists, NoEntry
      <3>3. \A x \in allocated' : \E t \in Sandboxes : x \in byId'[t].ports
        BY <2>3, <3>2 DEF SteadyInv, Release
      <3> QED
        BY <2>1, <2>3, <3>1, <3>2, <3>3 DEF SteadyInv, Release
    <2> QED
      BY <1>8, <2>2, <2>3, <2>4, DeleteEffect
  <1>9. ASSUME NEW s \in Sandboxes, Vanish(s) PROVE SteadyInv'
    <2>1. BooksInv'
      BY <1>0, <1>9 DEF Vanish, BooksInv
    <2> QED
      BY <1>9, <2>1 DEF Vanish, SetContainer, SteadyInv, TypeOK
  <1>10. CASE Cleanup
    <2>1. Orphans(byName) = {}
      BY DEF Orphans, SteadyInv, NoEntry
    <2>2. allocated' = allocated \ UNION {byId[s].ports : s \in Orphans(byId)}
      BY <1>10, <2>1 DEF Cleanup
    <2>3. \A s \in Sandboxes :
            byId'[s] = IF s \in Orphans(byId) THEN NoEntry ELSE byId[s]
      BY <1>10 DEF Cleanup, Without
    <2>4. BooksInv'
      <3>1. ASSUME NEW s \in Sandboxes PROVE byId'[s].ports \subseteq allocated'
        <4>1. CASE s \in Orphans(byId)
          BY <2>3, <4>1 DEF NoEntry
        <4>2. CASE s \notin Orphans(byId)
          <5>1. \A o \in Orphans(byId) : byId[s].ports \intersect byId[o].ports = {}
            BY <1>0, <4>2 DEF BooksInv, Orphans
          <5> QED
            BY <1>0, <2>2, <2>3, <4>2, <5>1
        <4> QED
          BY <4>1, <4>2
      <3>2. \A s, t \in Sandboxes : s # t => byId'[s].ports \intersect byId'[t].ports = {}
        BY <1>0, <2>3 DEF BooksInv, NoEntry
      <3> QED
        BY <3>1, <3>2 DEF BooksInv
    <2>5. \A x \in allocated' : \E t \in Sandboxes : x \in byId'[t].ports
      BY <2>2, <2>3 DEF SteadyInv
    <2>6. \A s \in Sandboxes : byName'[s] = NoEntry
      BY <1>10 DEF Cleanup, Without, SteadyInv
    <2> QED
      BY <1>10, <2>3, <2>4, <2>5, <2>6 DEF Cleanup, SteadyInv, Orphans, Exists
  <1>11. CASE Die \/ Boot
    BY <1>11 DEF Die, Boot, SteadyInv, TypeOK
  <1>12. CASE UNCHANGED vars
    BY <1>0, <1>12 DEF vars, SteadyInv, BooksInv
  <1> QED
    BY <1>1, <1>1a, <1>3, <1>4, <1>5, <1>6, <1>7, <1>7a, <1>8, <1>9, <1>10, <1>11, <1>12
       DEF Next, Request

\* The inductive invariant of a server that does not restart.
THEOREM SteadyInvariant == ASSUME MaxRestarts = 0 PROVE Spec => []SteadyInv
  <1>1. TypeOK /\ SteadyInv /\ [Next]_vars => SteadyInv'
    BY SteadyStep
  <1> QED
    BY <1>1, SteadyInit, TypeCorrect, PTL DEF Spec

\* Every port bound by a running container is allocated (without a restart).
THEOREM BoundPortsAllocated == ASSUME MaxRestarts = 0 PROVE Spec => []BoundIsAllocated
  <1>1. SteadyInv => BoundIsAllocated
    BY DEF SteadyInv, BooksInv, BoundIsAllocated, Running
  <1> QED
    BY <1>1, SteadyInvariant, PTL

\* A paused sandbox's ports are bound by nobody else (without a restart).
THEOREM PausedSandboxesResume == ASSUME MaxRestarts = 0 PROVE Spec => []PausedCanResume
  <1>1. ASSUME SteadyInv PROVE PausedCanResume
    <2> SUFFICES ASSUME NEW s \in Sandboxes, container[s] = "exited",
                        NEW t \in Running
                 PROVE  bind[s] \intersect bind[t] = {}
      BY DEF PausedCanResume, Startable, Bound
    <2>1. t \in Sandboxes /\ t # s
      BY DEF Running
    <2> QED
      BY <1>1, <2>1 DEF SteadyInv, BooksInv, Running
  <1> QED
    BY <1>1, SteadyInvariant, PTL

-----------------------------------------------------------------------------
(* Without a restart the pool implements a lease of ports.                 *)

Leased == [s \in Sandboxes |-> IF container[s] \in {"running", "exited"} THEN bind[s] ELSE {}]

\* A step that touches one sandbox's container moves its lease only.
LEMMA LeaseFrame ==
  ASSUME NEW s \in Sandboxes,
         \A t \in Sandboxes : t # s => container'[t] = container[t] /\ bind'[t] = bind[t]
  PROVE  Leased' = [Leased EXCEPT ![s] = Leased'[s]]
  BY DEF Leased

\* Every step of the pool without a restart takes a lease, gives one back, or neither.
LEMMA LeaseStep ==
  ASSUME MaxRestarts = 0, TypeOK, SteadyInv, [Next]_vars
  PROVE  [Lease!Next]_Leased
  <1> USE DEF docker
  <1>1. ASSUME NEW s \in Sandboxes, NEW to \in {"none", "created", "running"},
               Requested(s), SetContainer(s, to, Lowest(Free))
        PROVE  [Lease!Next]_Leased
    <2>1. container[s] = "none"
      BY <1>1 DEF Requested, SteadyInv
    <2>2. \A t \in Sandboxes : t # s => container'[t] = container[t] /\ bind'[t] = bind[t]
      BY <1>1 DEF SetContainer, TypeOK
    <2>3. Leased' = [Leased EXCEPT ![s] = Leased'[s]]
      BY <2>2, LeaseFrame
    <2>4. Leased[s] = {}
      BY <2>1 DEF Leased
    <2>5. Leased'[s] = {} \/ Leased'[s] = Lowest(Free)
      BY <1>1 DEF Leased, SetContainer, TypeOK
    <2>6. Lowest(Free) \in SUBSET Ports /\ Lowest(Free) \intersect allocated = {}
      BY LowestFree
    <2>7. \A t \in Sandboxes : Leased[t] \subseteq allocated
      BY DEF Leased, SteadyInv, BooksInv
    <2>8. CASE Leased'[s] = Lowest(Free)
      <3>1. \A t \in Sandboxes : Lowest(Free) \intersect Leased[t] = {}
        BY <2>6, <2>7
      <3>2. Lease!Take(s)
        BY <2>3, <2>4, <2>6, <2>8, <3>1 DEF Lease!Take, Leased
      <3> QED
        BY <3>2 DEF Lease!Next
    <2>9. CASE Leased'[s] = {}
      <3>1. Lease!GiveBack(s)
        BY <2>3, <2>9 DEF Lease!GiveBack, Leased
      <3> QED
        BY <3>1 DEF Lease!Next
    <2> QED
      BY <2>5, <2>8, <2>9
  <1>2. ASSUME NEW s \in Sandboxes, SetContainer(s, "none", {})
        PROVE  [Lease!Next]_Leased
    <2>1. \A t \in Sandboxes : t # s => container'[t] = container[t] /\ bind'[t] = bind[t]
      BY <1>2 DEF SetContainer, TypeOK
    <2>2. Leased' = [Leased EXCEPT ![s] = Leased'[s]] /\ Leased'[s] = {}
      BY <1>2, <2>1, LeaseFrame DEF SetContainer, Leased, TypeOK
    <2>3. Lease!GiveBack(s)
      BY <2>2 DEF Lease!GiveBack, Leased
    <2> QED
      BY <2>3 DEF Lease!Next
  <1>3. ASSUME NEW s \in Sandboxes, bind' = bind,
               container[s] \in {"running", "exited"}, container'[s] \in {"running", "exited"},
               \A t \in Sandboxes : t # s => container'[t] = container[t]
        PROVE  Leased' = Leased
    BY <1>3 DEF Leased
  <1>4. ASSUME NEW s \in Sandboxes, Request(s) PROVE [Lease!Next]_Leased
    <2>1. CASE CreateExhausted(s) \/ Ready(s) \/ NotReady(s) \/ Connect(s)
      BY <2>1 DEF CreateExhausted, Ready, NotReady, Connect, Leased
    <2>2. CASE CreateStarted(s)
      BY <1>1, <2>2 DEF CreateStarted
    <2>3. CASE CreateRefused(s)
      BY <1>1, <2>3 DEF CreateRefused
    <2>4. CASE CreateBroken(s)
      BY <1>1, <2>4 DEF CreateBroken
    <2>5. CASE Resume(s)
      <3>1. container[s] \in {"running", "exited"}
        BY <2>5 DEF Resume, Exists, SteadyInv, TypeOK
      <3> QED
        BY <1>3, <2>5, <3>1 DEF Resume, TypeOK
    <2>6. CASE Pause(s)
      <3>1. CASE UNCHANGED container
        BY <2>6, <3>1 DEF Pause, Leased
      <3>2. CASE s \in Running /\ container' = [container EXCEPT ![s] = "exited"]
        BY <1>3, <2>6, <3>2 DEF Pause, Running, TypeOK
      <3> QED
        BY <2>6, <3>1, <3>2 DEF Pause
    <2>7. CASE Delete(s)
      BY <1>2, <2>7 DEF Delete, Leased
    <2>8. CASE DeleteBroken(s)
      BY <1>2, <2>8 DEF DeleteBroken, Leased
    <2>9. CASE ResumeBroken(s)
      <3>1. container[s] \in {"running", "exited"}
        BY <2>9 DEF ResumeBroken, Exists, SteadyInv, TypeOK
      <3> QED
        BY <1>3, <2>9, <3>1 DEF ResumeBroken, TypeOK
    <2> QED
      BY <1>4, <2>1, <2>2, <2>3, <2>4, <2>5, <2>6, <2>7, <2>8, <2>9 DEF Request
  <1>5. ASSUME NEW s \in Sandboxes, Exit(s) PROVE Leased' = Leased
    BY <1>3, <1>5 DEF Exit, Running, TypeOK
  <1>6. ASSUME NEW s \in Sandboxes, Vanish(s) PROVE [Lease!Next]_Leased
    BY <1>2, <1>6 DEF Vanish
  <1>7. CASE Cleanup \/ Die \/ Boot \/ UNCHANGED vars
    BY <1>7 DEF Cleanup, Die, Boot, vars, Leased
  <1> QED
    BY <1>4, <1>5, <1>6, <1>7 DEF Next

\* The bindings of started containers implement PortLease (without a restart).
THEOREM ImplementsLease == ASSUME MaxRestarts = 0 PROVE Spec => LeaseSpec
  <1>1. Init => Lease!Init
    BY DEF Init, Lease!Init
  <1>2. TypeOK /\ SteadyInv /\ [Next]_vars => [Lease!Next]_Leased
    BY LeaseStep
  <1> QED
    BY <1>1, <1>2, SteadyInvariant, TypeCorrect, PTL DEF Spec, LeaseSpec, Lease!Spec, Leased

-----------------------------------------------------------------------------
(* Across restarts, as long as no container stops and no clean-up is run.  *)

NoStops == Events \intersect {"pause", "exit", "cleanup", "scan"} = {}

LEMMA RestartInit == Init => RestartInv
  BY DEF Init, RestartInv, BooksInv, BoundIsAllocated, Running, NoEntry

LEMMA RestartStep ==
  ASSUME NoStops, TypeOK, RestartInv, [Next]_vars
  PROVE  RestartInv'
  <1> USE DEF pool, docker
  <1>p. Lowest(Free) \in SUBSET Ports /\ Lowest(Free) \intersect allocated = {}
    BY LowestFree
  <1>0. /\ BooksInv
        /\ \A s \in Sandboxes : byId[s].ports \subseteq allocated
    BY DEF RestartInv, BooksInv
  <1>1. ASSUME NEW s \in Sandboxes, CreateExhausted(s) \/ NotReady(s) \/ Ready(s)
        PROVE RestartInv'
    <2>1. BooksInv' /\ BoundIsAllocated' /\ Running' = Running /\ UNCHANGED <<up, pool, docker>>
      BY <1>0, <1>1
         DEF BooksInv, CreateExhausted, NotReady, Ready, BoundIsAllocated, Running, RestartInv
    <2>2. /\ pc'[s] \in {"ready", "failed"} /\ row'[s] # "paused"
          /\ \A t \in Sandboxes : t # s => pc'[t] = pc[t] /\ row'[t] = row[t]
      BY <1>1 DEF CreateExhausted, NotReady, Ready, TypeOK, RestartInv
    <2> QED
      BY <2>1, <2>2 DEF RestartInv
  <1>2. ASSUME NEW s \in Sandboxes, Requested(s), NEW st \in {"linked", "unlinked"},
               allocated' = allocated \union Lowest(Free),
               byId' = [byId EXCEPT ![s] = [state |-> st, ports |-> Lowest(Free)]],
               NEW to \in {"none", "created", "running"}, SetContainer(s, to, Lowest(Free)),
               NEW p \in {"waiting", "failed"}, pc' = [pc EXCEPT ![s] = p],
               UNCHANGED <<up, row>>
        PROVE RestartInv'
    <2>1. up /\ container[s] = "none"
      BY <1>2 DEF Requested, RestartInv
    <2>2. /\ byId'[s] = [state |-> st, ports |-> Lowest(Free)]
          /\ container'[s] = to /\ pc'[s] = p
          /\ to = "running" => bind'[s] = Lowest(Free)
          /\ \A t \in Sandboxes : t # s =>
               byId'[t] = byId[t] /\ container'[t] = container[t] /\ bind'[t] = bind[t]
                 /\ pc'[t] = pc[t]
      BY <1>2 DEF TypeOK, SetContainer
    <2>3. BooksInv'
      <3>1. \A t \in Sandboxes : t # s => Lowest(Free) \intersect byId[t].ports = {}
        BY <1>0, <1>p
      <3> QED
        BY <1>0, <1>2, <1>p, <3>1, RegisterBooks
    <2>4. \A t \in Running : t # s /\ bind[t] \subseteq allocated
      BY <2>1 DEF RestartInv, BoundIsAllocated, Running
    <2>5. ASSUME NEW t \in Running'
          PROVE  \/ t = s /\ bind'[s] = Lowest(Free)
                 \/ t # s /\ t \in Running /\ bind'[t] = bind[t]
      BY <2>2 DEF Running
    <2>6. BoundIsAllocated'
      BY <1>2, <2>4, <2>5 DEF BoundIsAllocated
    <2>7. \A t, u \in Running' : t # u => bind'[t] \intersect bind'[u] = {}
      BY <1>p, <2>4, <2>5 DEF RestartInv
    <2>8. ASSUME NEW u \in Sandboxes, NEW t \in Running', u # t
          PROVE byId'[u].ports \intersect bind'[t] = {}
      <3>1. CASE t = s
        BY <1>0, <1>p, <2>2, <2>4, <2>5, <2>8, <3>1
      <3>2. CASE t # s
        <4>1. t \in Running /\ bind'[t] = bind[t]
          BY <2>5, <3>2
        <4> QED
          BY <1>p, <2>2, <2>4, <2>8, <4>1 DEF RestartInv
      <3> QED
        BY <3>1, <3>2
    <2> QED
      BY <1>2, <2>1, <2>2, <2>3, <2>6, <2>7, <2>8 DEF RestartInv
  <1>3. ASSUME NEW s \in Sandboxes, CreateStarted(s) PROVE RestartInv'
    <2>1. byId' = [byId EXCEPT ![s] = [state |-> "linked", ports |-> Lowest(Free)]]
      BY <1>3 DEF CreateStarted, Register, Linked
    <2> QED
      BY <1>2, <1>3, <2>1 DEF CreateStarted, Register
  <1>4. ASSUME NEW s \in Sandboxes, CreateBroken(s) PROVE RestartInv'
    <2>1. PICK to \in {"none", "created", "running"} : SetContainer(s, to, Lowest(Free))
      BY <1>4 DEF CreateBroken
    <2> QED
      BY <1>2, <1>4, <2>1 DEF CreateBroken
  <1>5. ASSUME NEW s \in Sandboxes, s \notin Running', UNCHANGED <<up, pool>>,
               \A t \in Sandboxes : row'[t] \in {row[t], "none"},
               \A t \in Sandboxes : pc'[t] = "new" => pc[t] = "new",
               \A t \in Sandboxes : t # s => container'[t] = container[t] /\ bind'[t] = bind[t],
               container'[s] # "exited", pc'[s] = "new" => container'[s] = "none"
        PROVE RestartInv'
    <2>1. Running' \subseteq Running /\ \A t \in Running' : bind'[t] = bind[t]
      BY <1>5 DEF Running
    <2>2. BooksInv' /\ BoundIsAllocated'
      BY <1>0, <1>5, <2>1 DEF BooksInv, BoundIsAllocated, RestartInv
    <2> QED
      BY <1>5, <2>1, <2>2 DEF RestartInv
  <1>6. ASSUME NEW s \in Sandboxes, CreateRefused(s) PROVE RestartInv'
    <2>1. PICK left \in {"none", "created"} : SetContainer(s, left, Lowest(Free))
      BY <1>6 DEF CreateRefused
    <2>2. /\ container'[s] = left /\ pc'[s] = "failed"
          /\ \A t \in Sandboxes : t # s =>
               container'[t] = container[t] /\ bind'[t] = bind[t] /\ pc'[t] = pc[t]
      BY <1>6, <2>1 DEF CreateRefused, TypeOK, SetContainer
    <2> QED
      BY <1>5, <1>6, <2>2 DEF CreateRefused, Running
  <1>7. ASSUME NEW s \in Sandboxes, Vanish(s) PROVE RestartInv'
    <2>1. /\ container'[s] = "none"
          /\ \A t \in Sandboxes : t # s => container'[t] = container[t] /\ bind'[t] = bind[t]
      BY <1>7 DEF Vanish, SetContainer, TypeOK
    <2> QED
      BY <1>5, <1>7, <2>1 DEF Vanish, Running
  <1>8. ASSUME NEW s \in Sandboxes, Connect(s) PROVE RestartInv'
    <2> DEFINE P == IF s \in Running THEN bind[s] ELSE {}
    <2>1. Register(s, P) /\ UNCHANGED <<up, restarts, pc, container, bind, row>>
      BY <1>8 DEF Connect, RegisterExisting
    <2>2. P \in SUBSET Ports
      BY DEF TypeOK
    <2>3. /\ \A t \in Sandboxes : t # s => P \intersect byId[t].ports = {}
          /\ \A t \in Running : t # s => P \intersect bind[t] = {}
      BY DEF RestartInv, Running
    <2> HIDE DEF P
    <2>4. /\ byId' = [byId EXCEPT ![s] = [state |-> "linked", ports |-> P]]
          /\ allocated' = allocated \union P
      BY <2>1 DEF Register, Linked
    <2>5. BooksInv'
      BY <1>0, <2>2, <2>3, <2>4, RegisterBooks
    <2>6. byId'[s].ports = P /\ \A t \in Sandboxes : t # s => byId'[t] = byId[t]
      BY <2>4 DEF TypeOK
    <2>7. BoundIsAllocated' /\ Running' = Running
      BY <2>1, <2>4 DEF BoundIsAllocated, Running, RestartInv
    <2>8. pc[s] # "new" /\ up
      BY <1>8 DEF Connect, RestartInv
    <2> QED
      BY <2>1, <2>3, <2>5, <2>6, <2>7, <2>8 DEF RestartInv
  <1>9. ASSUME NEW s \in Sandboxes, Delete(s) \/ DeleteBroken(s) PROVE RestartInv'
    <2>1. /\ row'[s] \in {row[s], "none"} /\ pc' = pc /\ pc[s] # "new" /\ up /\ up'
          /\ \A t \in Sandboxes : t # s => row'[t] = row[t]
      BY <1>9, DeleteEffect DEF RestartInv
    <2>4. CASE SetContainer(s, "none", {}) /\ UNCHANGED pool
      <3>1. /\ container'[s] = "none"
            /\ \A t \in Sandboxes : t # s => container'[t] = container[t] /\ bind'[t] = bind[t]
        BY <2>4 DEF SetContainer, TypeOK
      <3>2. UNCHANGED up /\ s \notin Running'
        BY <2>1, <3>1 DEF Running
      <3> QED
        BY <1>5, <2>1, <2>4, <3>1, <3>2
    <2>2. CASE UNCHANGED <<docker, pool>>
      <3>1. BooksInv' /\ BoundIsAllocated' /\ Running' = Running
        BY <1>0, <2>1, <2>2 DEF BooksInv, BoundIsAllocated, Running, RestartInv
      <3> QED
        BY <2>1, <2>2, <3>1 DEF RestartInv
    <2>3. CASE Release(s) /\ (SetContainer(s, "none", {}) \/ (~Exists(s) /\ UNCHANGED docker))
      <3>1. BooksInv'
        BY <1>0, <2>3, ReleaseBooks
      <3>2. /\ container'[s] = "none" /\ byId'[s] = NoEntry
            /\ \A t \in Sandboxes : t # s =>
                 container'[t] = container[t] /\ bind'[t] = bind[t] /\ byId'[t] = byId[t]
        BY <2>3 DEF TypeOK, SetContainer, Release, Exists
      <3>3. \A t \in Running' : t \in Running /\ t # s /\ bind'[t] = bind[t]
        BY <3>2 DEF Running
      <3>4. BoundIsAllocated'
        BY <2>1, <2>3, <3>3 DEF BoundIsAllocated, RestartInv, Release
      <3>5. \A u \in Sandboxes, t \in Running' : u # t => byId'[u].ports \intersect bind'[t] = {}
        BY <3>2, <3>3 DEF RestartInv, NoEntry
      <3> QED
        BY <2>1, <3>1, <3>2, <3>3, <3>4, <3>5 DEF RestartInv
    <2> QED
      BY <1>9, <2>2, <2>3, <2>4, DeleteEffect
  <1>10. CASE Die
    <2>1. \A s \in Sandboxes : byId'[s] = NoEntry /\ (pc'[s] = "new" => pc[s] = "new")
      BY <1>10 DEF Die, TypeOK
    <2>2. BooksInv' /\ BoundIsAllocated' /\ Running' = Running
      BY <1>10, <2>1 DEF Die, BooksInv, BoundIsAllocated, Running, NoEntry
    <2> QED
      BY <1>10, <2>1, <2>2 DEF Die, RestartInv, NoEntry
  <1>11. CASE Boot
    <2>1. /\ \A s \in Sandboxes : byId[s] = NoEntry
          /\ UNCHANGED <<byId, container, bind, row, pc>> /\ Running' = Running /\ up'
      BY <1>11 DEF Boot, RestartInv, Running
    <2>2. allocated' = UNION {bind[s] : s \in {x \in Sandboxes : container[x] \in {"running", "created"}}}
      BY <1>11 DEF Boot, NoStops
    <2>3. BooksInv' /\ BoundIsAllocated'
      BY <2>1, <2>2 DEF BooksInv, BoundIsAllocated, Running, NoEntry
    <2> QED
      BY <2>1, <2>3 DEF RestartInv
  <1>12. ASSUME NEW s \in Sandboxes PROVE ~Resume(s) /\ ~ResumeBroken(s) /\ ~Pause(s) /\ ~Exit(s)
    BY DEF Resume, ResumeBroken, Pause, Exit, RestartInv, NoStops
  <1>13. CASE UNCHANGED vars
    BY <1>0, <1>13 DEF vars, RestartInv, BooksInv, BoundIsAllocated, Running
  <1>14. ASSUME Cleanup PROVE FALSE
    BY <1>14 DEF Cleanup, NoStops
  <1> QED
    BY <1>1, <1>3, <1>4, <1>6, <1>7, <1>8, <1>9, <1>10, <1>11, <1>12, <1>13, <1>14
       DEF Next, Request

\* The inductive invariant of a server that restarts.
THEOREM RestartInvariant == ASSUME NoStops PROVE Spec => []RestartInv
  <1>1. TypeOK /\ RestartInv /\ [Next]_vars => RestartInv'
    BY RestartStep
  <1> QED
    BY <1>1, RestartInit, TypeCorrect, PTL DEF Spec

\* Every port bound by a running container is allocated, across restarts, if no
\* container is stopped, no clean-up is run and the scans succeed.
THEOREM BoundPortsAllocatedAcrossRestarts == ASSUME NoStops PROVE Spec => []BoundIsAllocated
  <1>1. RestartInv => BoundIsAllocated
    BY DEF RestartInv
  <1> QED
    BY <1>1, RestartInvariant, PTL

-----------------------------------------------------------------------------
(* Across restarts, whatever containers do: no port is lost.               *)

\* Only a broken create leaves an entry without a container id.
NoBreaks == "break" \notin Events

LEMMA EntryInit == Init => EntryInv
  BY DEF Init, EntryInv, Exists

\* A new entry for s, or none where there was none, keeps the others.
LEMMA RegisterEntry ==
  ASSUME TypeOK, EntryInv, NEW s \in Sandboxes, NEW P \in SUBSET Ports, Register(s, P),
         byId[s].state # "linked", pc'[s] # "new",
         Exists(s)' => P \subseteq bind'[s] /\ (byName[s].state = "linked" => byName[s].ports \subseteq bind'[s]),
         \A t \in Sandboxes : t # s =>
           container'[t] = container[t] /\ bind'[t] = bind[t] /\ pc'[t] = pc[t]
  PROVE  EntryInv'
  <1>1. /\ byId'[s] = [state |-> "linked", ports |-> P] /\ byName' = byName
        /\ allocated' = allocated \union P
        /\ \A t \in Sandboxes : t # s => byId'[t] = byId[t]
    BY DEF Register, Linked, TypeOK
  <1>2. ASSUME NEW p \in allocated'
        PROVE  \E t \in Sandboxes :
                 \/ byId'[t].state = "linked" /\ p \in byId'[t].ports
                 \/ byName'[t].state = "linked" /\ p \in byName'[t].ports
    <2>1. CASE p \in P
      BY <1>1, <2>1
    <2>2. CASE p \in allocated
      <3>1. PICK t \in Sandboxes : \/ byId[t].state = "linked" /\ p \in byId[t].ports
                                   \/ byName[t].state = "linked" /\ p \in byName[t].ports
        BY <2>2 DEF EntryInv
      <3> QED
        BY <1>1, <3>1
    <2> QED
      BY <1>1, <2>1, <2>2
  <1>3. ASSUME NEW t \in Sandboxes, Exists(t)'
        PROVE  /\ byId'[t].state = "linked" => byId'[t].ports \subseteq bind'[t]
               /\ byName'[t].state = "linked" => byName'[t].ports \subseteq bind'[t]
    BY <1>1, <1>3 DEF EntryInv, Exists
  <1>4. ASSUME NEW t \in Sandboxes, pc'[t] = "new"
        PROVE  ~Exists(t)' /\ byId'[t] = NoEntry /\ byName'[t] = NoEntry
    BY <1>1, <1>4 DEF EntryInv, Exists
  <1> QED
    BY <1>2, <1>3, <1>4 DEF EntryInv

\* A step that leaves the books alone and adds no container to an entry.
LEMMA BooksKept ==
  ASSUME EntryInv, UNCHANGED pool,
         \A t \in Sandboxes : Exists(t)' =>
           \/ Exists(t) /\ bind'[t] = bind[t]
           \/ byId[t] = NoEntry /\ byName[t] = NoEntry,
         \A t \in Sandboxes : pc'[t] = "new" => pc[t] = "new" /\ ~Exists(t)'
  PROVE  EntryInv'
  BY DEF EntryInv, pool, Exists, NoEntry

LEMMA EntryStep ==
  ASSUME NoBreaks, TypeOK, EntryInv, [Next]_vars
  PROVE  EntryInv'
  <1> USE DEF docker
  <1>p. Lowest(Free) \in SUBSET Ports
    BY LowestFree
  <1>1. ASSUME NEW s \in Sandboxes,
               \/ CreateExhausted(s) \/ Ready(s) \/ NotReady(s) \/ Pause(s) \/ Exit(s)
               \/ ResumeBroken(s)
        PROVE EntryInv'
    <2>1. UNCHANGED pool /\ UNCHANGED bind
      BY <1>1 DEF CreateExhausted, Ready, NotReady, Pause, Exit, ResumeBroken
    <2>2. \A t \in Sandboxes : Exists(t)' => Exists(t)
      BY <1>1 DEF CreateExhausted, Ready, NotReady, Pause, Exit, ResumeBroken, Exists, Running,
                  TypeOK
    <2>3. \A t \in Sandboxes : pc'[t] = "new" => pc[t] = "new"
      BY <1>1 DEF CreateExhausted, Ready, NotReady, Pause, Exit, ResumeBroken, TypeOK
    <2> QED
      BY <2>1, <2>2, <2>3, BooksKept DEF EntryInv
  <1>2. ASSUME NEW s \in Sandboxes, CreateStarted(s) PROVE EntryInv'
    <2>1. /\ Register(s, Lowest(Free)) /\ pc[s] = "new"
          /\ SetContainer(s, "running", Lowest(Free)) /\ pc' = [pc EXCEPT ![s] = "waiting"]
      BY <1>2 DEF CreateStarted, Requested
    <2>2. /\ byId[s] = NoEntry /\ byName[s] = NoEntry
      BY <2>1 DEF EntryInv
    <2>3. /\ pc'[s] = "waiting" /\ bind'[s] = Lowest(Free)
          /\ \A t \in Sandboxes : t # s =>
               container'[t] = container[t] /\ bind'[t] = bind[t] /\ pc'[t] = pc[t]
      BY <2>1 DEF SetContainer, TypeOK
    <2> QED
      BY <1>p, <2>1, <2>2, <2>3, RegisterEntry DEF NoEntry
  <1>3. ASSUME NEW s \in Sandboxes, CreateRefused(s) PROVE EntryInv'
    <2>1. PICK left \in {"none", "created"} : SetContainer(s, left, Lowest(Free))
      BY <1>3 DEF CreateRefused
    <2>2. /\ pc[s] = "new" /\ pc' = [pc EXCEPT ![s] = "failed"] /\ UNCHANGED pool
      BY <1>3 DEF CreateRefused, Requested
    <2>3. byId[s] = NoEntry /\ byName[s] = NoEntry
      BY <2>2 DEF EntryInv
    <2>4. /\ pc'[s] = "failed"
          /\ \A t \in Sandboxes : t # s =>
               container'[t] = container[t] /\ bind'[t] = bind[t] /\ pc'[t] = pc[t]
      BY <2>1, <2>2 DEF SetContainer, TypeOK
    <2> QED
      BY <2>2, <2>3, <2>4, BooksKept DEF EntryInv, Exists
  <1>4. ASSUME NEW s \in Sandboxes, CreateBroken(s) PROVE FALSE
    BY <1>4 DEF CreateBroken, NoBreaks
  <1>5. ASSUME NEW s \in Sandboxes, Connect(s) \/ Resume(s) PROVE EntryInv'
    <2>1. /\ Exists(s) /\ UNCHANGED <<pc, bind>> /\ container'[s] # "none"
          /\ \A t \in Sandboxes : t # s => container'[t] = container[t]
      BY <1>5 DEF Connect, Resume, Exists, Running, TypeOK
    <2>2. pc[s] # "new"
      BY <2>1 DEF EntryInv
    <2>3. PICK r \in BOOLEAN : RegisterExisting(s, r)
      <3>1. CASE Connect(s)
        <4>1. RegisterExisting(s, s \in Running)
          BY <3>1 DEF Connect
        <4>2. (s \in Running) \in BOOLEAN
          BY DEF Running
        <4> QED
          BY <4>1, <4>2
      <3>2. CASE Resume(s)
        <4>1. RegisterExisting(s, TRUE)
          BY <3>2 DEF Resume
        <4> QED
          BY <4>1
      <3> QED
        BY <1>5, <3>1, <3>2
    <2>4. CASE byId[s].state = "absent"
      <3> DEFINE P == IF r THEN bind[s] ELSE {}
      <3>1. Register(s, P)
        BY <2>3, <2>4 DEF RegisterExisting
      <3>2. P \in SUBSET Ports /\ P \subseteq bind[s]
        BY DEF TypeOK
      <3>3. byName[s].state = "linked" => byName[s].ports \subseteq bind'[s]
        BY <2>1 DEF EntryInv
      <3> HIDE DEF P
      <3> QED
        BY <2>1, <2>2, <2>4, <3>1, <3>2, <3>3, RegisterEntry
    <2>5. CASE byId[s].state # "absent"
      <3>1. UNCHANGED pool
        BY <2>3, <2>5 DEF RegisterExisting
      <3>2. \A t \in Sandboxes : Exists(t)' => Exists(t)
        BY <2>1 DEF Exists
      <3> QED
        BY <2>1, <3>1, <3>2, BooksKept DEF EntryInv
    <2> QED
      BY <2>4, <2>5
  <1>6. ASSUME NEW s \in Sandboxes, Vanish(s) PROVE EntryInv'
    <2>1. /\ UNCHANGED pool /\ UNCHANGED pc /\ container'[s] = "none"
          /\ \A t \in Sandboxes : t # s => container'[t] = container[t] /\ bind'[t] = bind[t]
      BY <1>6 DEF Vanish, SetContainer, TypeOK
    <2> QED
      BY <2>1, BooksKept DEF EntryInv, Exists
  <1>7. ASSUME NEW s \in Sandboxes, Delete(s) \/ DeleteBroken(s) PROVE EntryInv'
    <2>1. pc' = pc
      BY <1>7, DeleteEffect
    <2>4. CASE SetContainer(s, "none", {}) /\ UNCHANGED pool
      <3>1. /\ container'[s] = "none"
            /\ \A t \in Sandboxes : t # s => container'[t] = container[t] /\ bind'[t] = bind[t]
        BY <2>4 DEF SetContainer, TypeOK
      <3> QED
        BY <2>1, <2>4, <3>1, BooksKept DEF EntryInv, Exists
    <2>2. CASE UNCHANGED <<docker, pool>>
      BY <2>1, <2>2, BooksKept DEF EntryInv, Exists
    <2>3. CASE Release(s) /\ (SetContainer(s, "none", {}) \/ (~Exists(s) /\ UNCHANGED docker))
      <3>1. /\ container'[s] = "none" /\ byId'[s] = NoEntry /\ byName' = byName
            /\ allocated' = allocated \ byId[s].ports
            /\ \A t \in Sandboxes : t # s =>
                 container'[t] = container[t] /\ bind'[t] = bind[t] /\ byId'[t] = byId[t]
        BY <2>3 DEF TypeOK, SetContainer, Release, Exists
      <3>2. ASSUME NEW p \in allocated'
            PROVE  \E t \in Sandboxes :
                     \/ byId'[t].state = "linked" /\ p \in byId'[t].ports
                     \/ byName'[t].state = "linked" /\ p \in byName'[t].ports
        <4>1. PICK t \in Sandboxes : \/ byId[t].state = "linked" /\ p \in byId[t].ports
                                     \/ byName[t].state = "linked" /\ p \in byName[t].ports
          BY <3>1 DEF EntryInv
        <4> QED
          BY <3>1, <4>1
      <3> QED
        BY <2>1, <3>1, <3>2 DEF EntryInv, Exists
    <2> QED
      BY <1>7, <2>2, <2>3, <2>4, DeleteEffect
  <1>8. CASE Cleanup
    <2>1. /\ UNCHANGED <<pc, container, bind>>
          /\ allocated' = allocated \ UNION ({byId[s].ports : s \in Orphans(byId)}
                                             \union {byName[s].ports : s \in Orphans(byName)})
          /\ byId' = Without(byId, Orphans(byId)) /\ byName' = Without(byName, Orphans(byName))
      BY <1>8 DEF Cleanup
    <2>2. \A t \in Sandboxes :
            /\ byId'[t] = IF t \in Orphans(byId) THEN NoEntry ELSE byId[t]
            /\ byName'[t] = IF t \in Orphans(byName) THEN NoEntry ELSE byName[t]
      BY <2>1 DEF Without
    <2>3. ASSUME NEW p \in allocated'
          PROVE  \E t \in Sandboxes :
                   \/ byId'[t].state = "linked" /\ p \in byId'[t].ports
                   \/ byName'[t].state = "linked" /\ p \in byName'[t].ports
      <3>1. PICK t \in Sandboxes : \/ byId[t].state = "linked" /\ p \in byId[t].ports
                                   \/ byName[t].state = "linked" /\ p \in byName[t].ports
        BY <2>1 DEF EntryInv
      <3>2. /\ p \in byId[t].ports => t \notin Orphans(byId)
            /\ p \in byName[t].ports => t \notin Orphans(byName)
        BY <2>1
      <3> QED
        BY <2>2, <3>1, <3>2
    <2>4. UNCHANGED <<pc, container, bind>>
      BY <2>1
    <2> QED
      BY <2>2, <2>3, <2>4 DEF EntryInv, Exists, NoEntry
  <1>9. CASE Die
    <2>1. /\ allocated' = {} /\ UNCHANGED <<container, bind>>
          /\ \A s \in Sandboxes : byId'[s] = NoEntry /\ byName'[s] = NoEntry
          /\ \A s \in Sandboxes : pc'[s] = "new" => pc[s] = "new"
      BY <1>9 DEF Die, TypeOK
    <2> QED
      BY <2>1 DEF EntryInv, Exists, NoEntry
  <1>10. CASE Boot
    <2>1. PICK S \in SUBSET {s \in Sandboxes : container[s] \in {"running", "created"}} :
            /\ byName' = [s \in Sandboxes |-> IF s \in S THEN Linked(bind[s]) ELSE NoEntry]
            /\ allocated' = UNION {bind[s] : s \in S}
      BY <1>10 DEF Boot
    <2>2. /\ UNCHANGED <<byId, pc, container, bind>> /\ S \subseteq Sandboxes
          /\ \A s \in S : byName'[s] = [state |-> "linked", ports |-> bind[s]]
          /\ \A s \in Sandboxes \ S : byName'[s] = NoEntry
      BY <1>10, <2>1 DEF Boot, Linked
    <2>3. ASSUME NEW p \in allocated'
          PROVE  \E t \in Sandboxes : byName'[t].state = "linked" /\ p \in byName'[t].ports
      <3>1. PICK t \in S : p \in bind[t]
        BY <2>1
      <3>2. byName'[t] = [state |-> "linked", ports |-> bind[t]] /\ t \in Sandboxes
        BY <2>2
      <3>3. byName'[t].state = "linked" /\ byName'[t].ports = bind[t]
        BY <3>2
      <3> QED
        BY <3>1, <3>2, <3>3
    <2>4. ASSUME NEW t \in Sandboxes, Exists(t)'
          PROVE  /\ byId'[t].state = "linked" => byId'[t].ports \subseteq bind'[t]
                 /\ byName'[t].state = "linked" => byName'[t].ports \subseteq bind'[t]
      <3>1. Exists(t) /\ UNCHANGED <<byId, bind>>
        BY <2>2, <2>4 DEF Exists
      <3>2. byName'[t] \in {[state |-> "linked", ports |-> bind[t]], NoEntry}
        BY <2>2
      <3>3. byName'[t].state = "linked" => byName'[t].ports = bind[t]
        BY <3>2 DEF NoEntry
      <3> QED
        BY <3>1, <3>3 DEF EntryInv
    <2>5. ASSUME NEW t \in Sandboxes, pc'[t] = "new"
          PROVE  ~Exists(t)' /\ byId'[t] = NoEntry /\ byName'[t] = NoEntry
      BY <2>1, <2>2, <2>5 DEF EntryInv, Exists
    <2> QED
      BY <2>3, <2>4, <2>5 DEF EntryInv
  <1>11. CASE UNCHANGED vars
    BY <1>11, BooksKept DEF vars, Exists, EntryInv
  <1> QED
    BY <1>1, <1>2, <1>3, <1>4, <1>5, <1>6, <1>7, <1>8, <1>9, <1>10, <1>11 DEF Next, Request

LEMMA EntriesSuffice == EntryInv => NoPortLost
  <1> SUFFICES ASSUME EntryInv, NEW p \in allocated PROVE Owned(p) \/ Reclaimable(p)
    BY DEF NoPortLost
  <1>1. PICK s \in Sandboxes : \/ byId[s].state = "linked" /\ p \in byId[s].ports
                               \/ byName[s].state = "linked" /\ p \in byName[s].ports
    BY DEF EntryInv
  <1>2. CASE Exists(s)
    BY <1>1, <1>2 DEF EntryInv, Owned
  <1>3. CASE ~Exists(s)
    BY <1>1, <1>3 DEF Reclaimable, Orphans
  <1> QED
    BY <1>2, <1>3

\* Through restarts, pauses, exits, clean-ups and failed scans, every allocated port belongs
\* to a container or can be reclaimed, as long as no create ends half-way.
THEOREM PortsAreNeverLost == ASSUME NoBreaks PROVE Spec => []NoPortLost
  <1>1. TypeOK /\ EntryInv /\ [Next]_vars => EntryInv'
    BY EntryStep
  <1> QED
    BY <1>1, EntryInit, EntriesSuffice, TypeCorrect, PTL DEF Spec
=============================================================================
