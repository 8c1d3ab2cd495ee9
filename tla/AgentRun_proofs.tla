--------------------------- MODULE AgentRun_proofs ---------------------------
(***************************************************************************)
(* Proofs about AgentRun for any sets of query and cancel commands, any    *)
(* bound on the turns and any faults.                                      *)
(***************************************************************************)
EXTENDS AgentRun, FiniteSetTheorems, TLAPS

\* A status read concerns a run of the session.
LEMMA RunOfType == \A x \in Readers : RunOf(x) \in Queries
  BY DEF Readers, Events, RunOf

LEMMA ReaderTypes == Queries \subseteq Readers /\ Events \subseteq Readers
  BY DEF Readers

LEMMA WriterTypes ==
  /\ Queries \subseteq Writers /\ Cancels \subseteq Writers /\ Reaper \in Writers
  /\ NoOne \notin Writers
  BY ActorsDisjoint DEF Writers

-----------------------------------------------------------------------------
(* Type correctness.                                                       *)

LEMMA TypeInit == Init => TypeOK
  <1> SUFFICES ASSUME Init PROVE TypeOK
    OBVIOUS
  <1>1. NoRead \in ReadState
    BY DEF NoRead, RunStatus, ReadState
  <1>2. 0 \in 0 .. Turns /\ 0 < Turns
    BY TurnsPositive
  <1> QED
    BY <1>1, <1>2 DEF Init, TypeOK, RunStatus, QueryPc, TurnAhead

LEMMA TypeStep == TypeOK /\ [Next]_vars => TypeOK'
  <1> SUFFICES ASSUME TypeOK, [Next]_vars PROVE TypeOK'
    OBVIOUS
  <1> USE DEF TypeOK, TurnAhead, dbVars, queryVars, readVars, otherVars, Goto, GotoC
  <1>r. /\ Read \in ReadState
        /\ NoRead \in ReadState
    BY DEF Read, NoRead, RunStatus, ReadState
  <1>g. ASSUME NEW x \in Readers,
               NEW r \in ReadState
        PROVE [rd EXCEPT ![x] = r]
                \in [Readers -> ReadState]
    OBVIOUS
  <1>c. ASSUME NEW q \in Queries, NEW s \in {"none"} \union Ended, NEW pc \in QueryPc,
               Conclude(q, s, pc)
        PROVE /\ outcome' \in [Queries -> {"none"} \union Ended]
              /\ qpc' \in [Queries -> QueryPc]
              /\ rd' \in [Readers -> ReadState]
    BY <1>c, <1>r, <1>g, ReaderTypes DEF Conclude
  <1>l. ASSUME NEW q \in Queries, NEW n, LoopHead(q, n)
        PROVE /\ outcome' \in [Queries -> {"none"} \union Ended]
              /\ qpc' \in [Queries -> QueryPc]
              /\ rd' \in [Readers -> ReadState]
              /\ (qpc' = [qpc EXCEPT ![q] = "turn"] /\ n < Turns) \/ qpc' = [qpc EXCEPT ![q] = "save"]
    <2>1. CASE n < Turns
      BY <1>l, <2>1, <1>r, <1>g, ReaderTypes, ZenonT(40) DEF LoopHead, QueryPc
    <2>2. CASE ~(n < Turns)
      <3>1. Conclude(q, "completed", "save")
        BY <1>l, <2>2 DEF LoopHead
      <3>2. "completed" \in {"none"} \union Ended /\ "save" \in QueryPc
        BY DEF Ended, QueryPc
      <3> QED
        BY <3>1, <3>2, <1>c DEF Conclude
    <2> QED
      BY <2>1, <2>2
  <1>f. ASSUME NEW w \in Writers, NEW t, FlushAndEvict(w, t)
        PROVE /\ rowLock' \in [Queries -> Writers \union {NoOne}]
              /\ cache' \in [Queries -> RunStatus]
              /\ row' = row /\ seen' = seen
    BY <1>f DEF FlushAndEvict, RunStatus
  <1>m. ASSUME NEW w \in Writers, NEW t, NEW s \in Ended, CommitRow(w, t, s)
        PROVE /\ rowLock' \in [Queries -> Writers \union {NoOne}]
              /\ row' \in [Queries -> [status : RunStatus, version : Nat]]
              /\ seen' = seen
    <2>1. CASE t \in Queries
      BY <1>m, <2>1 DEF CommitRow, RunStatus
    <2>2. CASE t \notin Queries
      BY <1>m, <2>2 DEF CommitRow, RunStatus
    <2> QED
      BY <2>1, <2>2
  <1>1. ASSUME NEW q \in Queries, Validate(q) \/ Acquire(q) \/ CheckRunning(q) \/ GetSandbox(q)
        PROVE TypeOK'
    <2>1. CASE Validate(q)
      BY <2>1 DEF Validate, QueryPc
    <2>2. CASE Acquire(q)
      BY <2>2 DEF Acquire, QueryPc
    <2>3. CASE CheckRunning(q)
      <3>1. \E pc \in {"insert", "leave", "raise"} : qpc' = [qpc EXCEPT ![q] = pc]
        BY <2>3 DEF CheckRunning
      <3> QED
        BY <2>3, <3>1 DEF CheckRunning, QueryPc
    <2>4. CASE GetSandbox(q)
      <3>1. PICK pc \in {"unlock", "raise"} : Goto(q, pc)
        BY <2>4 DEF GetSandbox
      <3> QED
        BY <2>4, <3>1 DEF GetSandbox, QueryPc
    <2> QED
      BY <1>1, <2>1, <2>2, <2>3, <2>4
  <1>2. ASSUME NEW q \in Queries, CreateRun(q) PROVE TypeOK'
    BY <1>2 DEF CreateRun, QueryPc, RunStatus
  <1>3. ASSUME NEW q \in Queries, Release(q) PROVE TypeOK'
    BY <1>3 DEF Release, QueryPc
  <1>4. ASSUME NEW q \in Queries, LeaseExpires(q) PROVE TypeOK'
    BY <1>4 DEF LeaseExpires
  <1>5. ASSUME NEW q \in Queries, StartAgent(q) PROVE TypeOK'
    <2>1. CASE /\ LoopHead(q, 0)
               /\ base' = [base EXCEPT ![q] = IF q \in Fresh THEN {} ELSE saved]
      BY <1>5, <2>1, <1>l DEF StartAgent
    <2>2. CASE Conclude(q, "failed", "final_read") /\ UNCHANGED base
      <3>1. "failed" \in {"none"} \union Ended /\ "final_read" \in QueryPc
        BY DEF Ended, QueryPc
      <3> QED
        BY <1>5, <2>2, <3>1, <1>c DEF StartAgent, Conclude
    <2> QED
      BY <1>5, <2>1, <2>2 DEF StartAgent
  <1>6. ASSUME NEW q \in Queries, CheckedInterruption(q) PROVE TypeOK'
    <2>1. CASE Interrupted(q)
      <3>1. rd' \in [Readers -> ReadState]
        BY <1>6, <2>1, <1>r, <1>g, ReaderTypes DEF CheckedInterruption
      <3>2. outcome' \in [Queries -> {"none"} \union Ended]
        BY <1>6, <2>1 DEF CheckedInterruption, Ended
      <3> QED
        BY <1>6, <2>1, <3>1, <3>2 DEF CheckedInterruption, QueryPc
    <2>2. CASE ~Interrupted(q)
      <3>1. rd' \in [Readers -> ReadState]
        BY <1>6, <2>2, <1>r, <1>g, ReaderTypes DEF CheckedInterruption
      <3> QED
        BY <1>6, <2>2, <3>1 DEF CheckedInterruption, QueryPc
    <2> QED
      BY <2>1, <2>2
  <1>7. ASSUME NEW q \in Queries, FakeTurn(q) PROVE TypeOK'
    BY <1>7, <1>r, ReaderTypes DEF FakeTurn, Conclude, QueryPc
  <1>8. ASSUME NEW q \in Queries, AgentStep(q) PROVE TypeOK'
    <2>1. PICK pc \in QueryPc :
            /\ Goto(q, pc)
            /\ pc = "turn" => turn[q] + 1 < Turns
            /\ pc \in {"save", "toolcheck", "turn"}
            /\ outcome' = IF pc = "save" THEN [outcome EXCEPT ![q] = "completed"] ELSE outcome
            /\ rd' = [rd EXCEPT ![<<q, turn[q] + 1>>] = Read,
                               ![q] = IF pc = "save" THEN NoRead ELSE Read]
      BY <1>8 DEF AgentStep, QueryPc
    <2>2. /\ turn' \in [Queries -> 0 .. Turns]
          /\ pc = "turn" => turn'[q] < Turns
      <3>1. turn[q] < Turns /\ turn[q] \in 0 .. Turns /\ Turns \in Nat
        BY <1>8, TurnsPositive DEF AgentStep
      <3>2. turn' = [turn EXCEPT ![q] = turn[q] + 1]
        BY <1>8 DEF AgentStep
      <3> QED
        BY <2>1, <3>1, <3>2
    <2> DEFINE e == <<q, turn[q] + 1>>
    <2>3. e \in Readers
      BY <1>8, TurnsPositive, ReaderTypes DEF AgentStep, TurnAhead, Events
    <2>4. rd' \in [Readers -> ReadState]
      BY <2>1, <2>3, <1>r, ReaderTypes
    <2>5. outcome' \in [Queries -> {"none"} \union Ended]
      BY <2>1 DEF Ended
    <2>6. metrics' \in [Events -> {"none", "published", "charged", "dropped", "lost"}]
      BY <1>8 DEF AgentStep
    <2> QED
      BY <1>8, <2>1, <2>2, <2>4, <2>5, <2>6 DEF AgentStep, TurnAhead
  <1>9. ASSUME NEW q \in Queries, RunTools(q) \/ AgentRaises(q) PROVE TypeOK'
    <2>1. CASE RunTools(q) /\ LoopHead(q, turn[q])
      BY <2>1, <1>l, SMTT(30) DEF RunTools
    <2>2. CASE (RunTools(q) \/ AgentRaises(q)) /\ Conclude(q, "completed", "save")
      <3>1. "completed" \in {"none"} \union Ended /\ "save" \in QueryPc
        BY DEF Ended, QueryPc
      <3> QED
        BY <2>2, <3>1, <1>c DEF RunTools, AgentRaises, Conclude
    <2> QED
      BY <1>9, <2>1, <2>2 DEF RunTools, AgentRaises
  <1>10. ASSUME NEW q \in Queries, SaveHistory(q) PROVE TypeOK'
    <2>1. /\ saved' \in SUBSET Queries
          /\ outcome' \in [Queries -> {"none"} \union Ended]
      BY <1>10 DEF SaveHistory, Ended
    <2> QED
      BY <1>10, <2>1 DEF SaveHistory, QueryPc
  <1>11. ASSUME NEW q \in Queries, FinalRead(q) \/ FinalSame(q) PROVE TypeOK'
    <2>1. CASE FinalRead(q)
      <3>1. q \in Writers /\ row[q].version \in Nat
        BY WriterTypes
      <3> QED
        BY <2>1, <3>1 DEF FinalRead, QueryPc
    <2>2. CASE FinalSame(q)
      BY <2>2 DEF FinalSame, QueryPc, RunStatus
    <2> QED
      BY <1>11, <2>1, <2>2
  <1>12. ASSUME NEW q \in Queries, FinalFlush(q) PROVE TypeOK'
    <2>1. CASE FlushAndEvict(q, q) /\ Goto(q, "final_commit")
      BY <1>12, <2>1, <1>f, WriterTypes DEF FinalFlush, QueryPc
    <2>2. CASE StaleRow(q, q) /\ Goto(q, "error") /\ UNCHANGED <<dbVars, cache>>
      BY <1>12, <2>2 DEF FinalFlush, QueryPc
    <2> QED
      BY <1>12, <2>1, <2>2 DEF FinalFlush
  <1>13. ASSUME NEW q \in Queries, FinalCommit(q) PROVE TypeOK'
    BY <1>13 DEF FinalCommit, CommitRow, QueryPc, RunStatus, Ended
  <1>14. ASSUME NEW q \in Queries, Crash(q) PROVE TypeOK'
    BY <1>14, <1>r DEF Crash, QueryPc
  <1>15. ASSUME NEW x \in Readers, Reading(x) PROVE TypeOK'
    <2>1. RunOf(x) \in Queries
      BY RunOfType
    <2>2. CASE CacheGet(x)
      <3>1. [pc |-> IF cache[RunOf(x)] # "none" THEN "got" ELSE "db", val |-> cache[RunOf(x)]]
              \in ReadState
        BY <2>1 DEF ReadState
      <3> QED
        BY <2>2, <3>1, <1>g DEF CacheGet
    <2>3. CASE DbGet(x)
      <3>1. [pc |-> "set", val |-> row[RunOf(x)].status] \in ReadState
        BY <2>1 DEF ReadState
      <3> QED
        BY <2>3, <3>1, <1>g DEF DbGet
    <2>4. CASE CacheSet(x)
      <3>1. cache' \in [Queries -> RunStatus]
        BY <2>1, <2>4 DEF CacheSet, ReadState
      <3>2. rd' \in [Readers -> ReadState]
        BY <2>4 DEF CacheSet, ReadState
      <3> QED
        BY <2>4, <3>1, <3>2 DEF CacheSet
    <2> QED
      BY <1>15, <2>2, <2>3, <2>4 DEF Reading
  <1>16. ASSUME NEW e \in Events, HandleMetrics(e) PROVE TypeOK'
    BY <1>16, <1>r, ReaderTypes DEF HandleMetrics
  <1>17. ASSUME NEW t \in Queries, CacheDrop(t) PROVE TypeOK'
    BY <1>17 DEF CacheDrop, RunStatus
  <1>18. ASSUME NEW t \in Queries, ReapSelect(t) PROVE TypeOK'
    BY <1>18, WriterTypes DEF ReapSelect
  <1>19. ASSUME NEW t \in Queries, ReapCommit(t) PROVE TypeOK'
    BY <1>19 DEF ReapCommit, CommitRow, RunStatus, Ended
  <1>20. ASSUME NEW c \in Cancels, CancelFind(c) PROVE TypeOK'
    <2>1. CASE GotoC(c, "notfound") \/ GotoC(c, "error")
      BY <1>20, <2>1 DEF CancelFind
    <2>2. ASSUME NEW t \in Running, GotoC(c, "flush"),
                 target' = [target EXCEPT ![c] = t], seen' = [seen EXCEPT ![c] = row[t].version]
          PROVE TypeOK'
      <3>1. t \in Queries /\ row[t].version \in Nat
        BY DEF Running
      <3> QED
        BY <1>20, <2>2, <3>1, WriterTypes DEF CancelFind
    <2> QED
      BY <1>20, <2>1, <2>2 DEF CancelFind
  <1>21. ASSUME NEW c \in Cancels, CancelFlush(c) \/ CancelEvict(c) PROVE TypeOK'
    <2>1. CASE CancelFlush(c) /\ FlushAndEvict(c, target[c]) /\ GotoC(c, "commit")
      BY <2>1, <1>f, WriterTypes DEF CancelFlush
    <2>2. CASE CancelFlush(c) /\ GotoC(c, "conflict") /\ UNCHANGED <<dbVars, cache>>
      BY <2>2 DEF CancelFlush
    <2>3. CASE CancelEvict(c)
      BY <2>3 DEF CancelEvict, RunStatus
    <2> QED
      BY <1>21, <2>1, <2>2, <2>3 DEF CancelFlush
  <1>22. ASSUME NEW c \in Cancels, CancelCommit(c) PROVE TypeOK'
    BY <1>22, <1>m, WriterTypes DEF CancelCommit, Ended
  <1>23. CASE UNCHANGED vars
    BY <1>23 DEF vars
  <1> QED
    BY <1>1, <1>2, <1>3, <1>4, <1>5, <1>6, <1>7, <1>8, <1>9, <1>10, <1>11, <1>12, <1>13,
       <1>14, <1>15, <1>16, <1>17, <1>18, <1>19, <1>20, <1>21, <1>22, <1>23
       DEF Next, Handler, Canceller

\* Every reachable state is well-formed: the table, the cache, the handlers and the
\* readers hold only values the code can hold.
THEOREM TypeCorrect == Spec => []TypeOK
  BY TypeInit, TypeStep, PTL DEF Spec
-----------------------------------------------------------------------------
(* At most one run of the session is running.                              *)

LEMMA SlotInit == Init => SlotInv
  BY DEF Init, SlotInv, Running

\* Every commit ends a run: no step but CreateRun adds a running row.
LEMMA CommitEnds ==
  ASSUME TypeOK, NEW w, NEW t, NEW s \in {"none"} \union Ended, CommitRow(w, t, s)
  PROVE Running' \subseteq Running
  BY DEF TypeOK, CommitRow, Running, Ended

LEMMA SlotStep ==
  ASSUME LeaseCoversLookup, TypeOK, SlotInv, [Next]_vars
  PROVE SlotInv'
  <1> USE DEF SlotInv, TypeOK, dbVars, queryVars, readVars, otherVars, Goto, GotoC
  <1>t. SharedLock
    BY DEF LeaseCoversLookup
  <1>1. ASSUME NEW q \in Queries, Validate(q) PROVE SlotInv'
    BY <1>1, SMTT(30) DEF Validate, Running
  <1>2. ASSUME NEW q \in Queries, Acquire(q) PROVE SlotInv'
    <2>1. lock = NoOne /\ lock' = q /\ Running' = Running
      BY <1>2, <1>t DEF Acquire, Running
    <2>2. NoOne \notin Queries
      BY ActorsDisjoint
    <2> QED
      BY <1>2, <2>1, <2>2 DEF Acquire
  <1>3. ASSUME NEW q \in Queries, CheckRunning(q) PROVE SlotInv'
    <2>1. Running' = Running /\ lock' = lock
      BY <1>3 DEF CheckRunning, Running
    <2>2. qpc'[q] = "insert" => Running = {}
      <3>1. Cardinality({}) = 0
        BY FS_EmptySet
      <3> QED
        BY <1>3, <3>1 DEF CheckRunning
    <2> QED
      BY <1>3, <2>1, <2>2 DEF CheckRunning
  <1>4. ASSUME NEW q \in Queries, CreateRun(q) PROVE SlotInv'
    <2>1. Running = {} /\ lock = q
      BY <1>4 DEF CreateRun
    <2>2. Running' = {q}
      BY <1>4, <2>1 DEF CreateRun, Running
    <2>3. \A r \in Queries : qpc'[r] # "insert"
      BY <1>4, <2>1 DEF CreateRun
    <2> QED
      BY <1>4, <2>2, <2>3 DEF CreateRun
  <1>5. ASSUME NEW q \in Queries, GetSandbox(q) PROVE SlotInv'
    BY <1>5, SMTT(30) DEF GetSandbox, Running
  <1>6. ASSUME NEW q \in Queries, Release(q) PROVE SlotInv'
    <2>1. \A r \in Queries : qpc'[r] \in {"check", "insert"} => r # q /\ qpc'[r] = qpc[r]
      BY <1>6, <1>t DEF Release
    <2>2. Running' = Running
      BY <1>6 DEF Release, Running
    <2> QED
      BY <1>6, <2>1, <2>2 DEF Release
  <1>7. ASSUME NEW q \in Queries, LeaseExpires(q) PROVE SlotInv'
    <2>1. \A r \in Queries : qpc[r] \notin {"check", "insert"}
      BY <1>7 DEF LeaseExpires, LeaseCoversLookup
    <2> QED
      BY <1>7, <2>1 DEF LeaseExpires, Running
  <1>8. ASSUME NEW q \in Queries, NEW pc \in QueryPc \ {"check", "insert"},
               Goto(q, pc), UNCHANGED <<row, lock>>
        PROVE SlotInv'
    BY <1>8 DEF Running
  <1>9. ASSUME NEW q \in Queries,
               \/ StartAgent(q) \/ CheckedInterruption(q) \/ FakeTurn(q) \/ AgentStep(q)
               \/ RunTools(q) \/ AgentRaises(q) \/ SaveHistory(q)
               \/ FinalRead(q) \/ FinalSame(q) \/ FinalFlush(q) \/ Crash(q)
        PROVE SlotInv'
    <2>1. UNCHANGED <<row, lock>>
      BY <1>9 DEF StartAgent, CheckedInterruption, FakeTurn, AgentStep, RunTools, AgentRaises,
         SaveHistory, FinalRead, FinalSame, FinalFlush, FlushAndEvict, Crash
    <2>2. \E pc \in QueryPc \ {"check", "insert"} : Goto(q, pc)
      BY <1>9 DEF StartAgent, CheckedInterruption, FakeTurn, AgentStep, RunTools, AgentRaises,
         SaveHistory, FinalRead, FinalSame, FinalFlush, Crash, LoopHead, Conclude, QueryPc
    <2> QED
      BY <1>8, <2>1, <2>2
  <1>10. ASSUME NEW q \in Queries, FinalCommit(q) PROVE SlotInv'
    <2>1. Running' \subseteq Running
      BY <1>10, CommitEnds DEF FinalCommit
    <2> QED
      BY <1>10, <2>1 DEF FinalCommit
  <1>11. ASSUME UNCHANGED <<lock, qpc>>, Running' \subseteq Running PROVE SlotInv'
    BY <1>11
  <1>12. ASSUME NEW x \in Readers, Reading(x) PROVE SlotInv'
    BY <1>11, <1>12 DEF Reading, CacheGet, DbGet, CacheSet, Running
  <1>13. ASSUME NEW e \in Events, HandleMetrics(e) PROVE SlotInv'
    BY <1>11, <1>13 DEF HandleMetrics, Running
  <1>14. ASSUME NEW t \in Queries, CacheDrop(t) \/ ReapSelect(t) PROVE SlotInv'
    BY <1>11, <1>14 DEF CacheDrop, ReapSelect, Running
  <1>15. ASSUME NEW t \in Queries, ReapCommit(t) PROVE SlotInv'
    <2>1. Running' \subseteq Running
      BY <1>15, CommitEnds DEF ReapCommit, Ended
    <2> QED
      BY <1>11, <1>15, <2>1 DEF ReapCommit
  <1>16. ASSUME NEW c \in Cancels, CancelFind(c) \/ CancelFlush(c) \/ CancelEvict(c)
         PROVE SlotInv'
    BY <1>11, <1>16 DEF CancelFind, CancelFlush, CancelEvict, FlushAndEvict, Running
  <1>17. ASSUME NEW c \in Cancels, CancelCommit(c) PROVE SlotInv'
    <2>1. Running' \subseteq Running
      BY <1>17, CommitEnds DEF CancelCommit, Ended
    <2> QED
      BY <1>11, <1>17, <2>1 DEF CancelCommit
  <1>18. CASE UNCHANGED vars
    BY <1>11, <1>18 DEF vars, Running
  <1> QED
    BY <1>1, <1>2, <1>3, <1>4, <1>5, <1>6, <1>7, <1>9, <1>10, <1>12, <1>13, <1>14, <1>15,
       <1>16, <1>17, <1>18 DEF Next, Handler, Canceller

\* For every number of query and cancel commands and whatever fails, the session has at
\* most one running run, provided the lease of the lock outlives the look-up.
THEOREM OneRunPerSession ==
  ASSUME LeaseCoversLookup
  PROVE  Spec => []AtMostOneRunning
  <1>1. SlotInv => AtMostOneRunning
    <2> SUFFICES ASSUME SlotInv PROVE Cardinality(Running) <= 1
      BY DEF AtMostOneRunning
    <2>1. CASE Running = {}
      BY <2>1, FS_EmptySet
    <2>2. CASE Running # {}
      <3>1. PICK r \in Running : TRUE
        BY <2>2
      <3>2. Running = {r}
        BY <3>1 DEF SlotInv
      <3> QED
        BY <3>2, FS_Singleton
    <2> QED
      BY <2>1, <2>2
  <1>2. TypeOK /\ SlotInv /\ [Next]_vars => SlotInv'
    BY SlotStep
  <1> QED
    BY <1>1, <1>2, SlotInit, TypeCorrect, PTL DEF Spec
-----------------------------------------------------------------------------
(* Frames: which steps touch a row, a cache entry, a reader.               *)

LEMMA RowFrame ==
  ASSUME TypeOK, [Next]_vars, NEW t \in Queries
  PROVE  \/ row'[t] = row[t]
         \/ CreateRun(t) \/ FinalCommit(t) \/ ReapCommit(t)
         \/ \E c \in Cancels : CancelCommit(c) /\ target[c] = t
  <1> USE DEF TypeOK, dbVars
  <1>1. ASSUME NEW q \in Queries, CreateRun(q) \/ FinalCommit(q) \/ ReapCommit(q)
        PROVE q = t \/ row'[t] = row[t]
    BY <1>1 DEF CreateRun, FinalCommit, ReapCommit, CommitRow
  <1>2. ASSUME NEW c \in Cancels, CancelCommit(c)
        PROVE target[c] = t \/ row'[t] = row[t]
    BY <1>2 DEF CancelCommit, CommitRow
  <1>3. ASSUME NEW q \in Queries, Handler(q), ~CreateRun(q), ~FinalCommit(q)
        PROVE row' = row
    BY <1>3 DEF Handler, Validate, Acquire, CheckRunning, GetSandbox, Release, StartAgent,
       CheckedInterruption, FakeTurn, AgentStep, RunTools, AgentRaises, SaveHistory,
       FinalRead, FinalSame, FinalFlush, FlushAndEvict
  <1>4. ASSUME NEW q \in Queries, LeaseExpires(q) \/ Crash(q) \/ CacheDrop(q) \/ ReapSelect(q)
        PROVE row' = row
    BY <1>4 DEF LeaseExpires, Crash, CacheDrop, ReapSelect
  <1>5. ASSUME NEW x \in Readers, Reading(x) PROVE row' = row
    BY <1>5 DEF Reading, CacheGet, DbGet, CacheSet
  <1>6. ASSUME NEW e \in Events, HandleMetrics(e) PROVE row' = row
    BY <1>6 DEF HandleMetrics
  <1>7. ASSUME NEW c \in Cancels, CancelFind(c) \/ CancelFlush(c) \/ CancelEvict(c)
        PROVE row' = row
    BY <1>7 DEF CancelFind, CancelFlush, CancelEvict, FlushAndEvict
  <1>8. CASE UNCHANGED vars
    BY <1>8 DEF vars
  <1> QED
    BY <1>1, <1>2, <1>3, <1>4, <1>5, <1>6, <1>7, <1>8 DEF Next, Canceller

LEMMA CacheFrame ==
  ASSUME TypeOK, [Next]_vars, NEW t \in Queries
  PROVE  \/ cache'[t] = cache[t]
         \/ cache'[t] = "none"
         \/ \E x \in Readers : CacheSet(x) /\ RunOf(x) = t
  <1> USE DEF TypeOK
  <1>1. ASSUME NEW q \in Queries, Handler(q)
        PROVE cache' = cache \/ cache' = [cache EXCEPT ![q] = "none"]
    BY <1>1 DEF Handler, Validate, Acquire, CheckRunning, CreateRun, GetSandbox, Release, StartAgent,
       CheckedInterruption, FakeTurn, AgentStep, RunTools, AgentRaises, SaveHistory,
       FinalRead, FinalSame, FinalFlush, FlushAndEvict, FinalCommit
  <1>2. ASSUME NEW q \in Queries, LeaseExpires(q) \/ Crash(q) \/ ReapSelect(q) \/ ReapCommit(q)
        PROVE cache' = cache
    BY <1>2 DEF LeaseExpires, Crash, ReapSelect, ReapCommit
  <1>3. ASSUME NEW q \in Queries, CacheDrop(q)
        PROVE cache' = [cache EXCEPT ![q] = "none"]
    BY <1>3 DEF CacheDrop
  <1>4. ASSUME NEW x \in Readers, CacheSet(x) PROVE RunOf(x) = t \/ cache'[t] = cache[t]
    BY <1>4 DEF CacheSet
  <1>5. ASSUME NEW x \in Readers, CacheGet(x) \/ DbGet(x) PROVE cache' = cache
    BY <1>5 DEF CacheGet, DbGet
  <1>6. ASSUME NEW e \in Events, HandleMetrics(e) PROVE cache' = cache
    BY <1>6 DEF HandleMetrics
  <1>7. ASSUME NEW c \in Cancels, CancelFind(c) \/ Canceller(c)
        PROVE cache' = cache \/ cache' = [cache EXCEPT ![target[c]] = "none"]
    BY <1>7 DEF CancelFind, Canceller, CancelFlush, CancelCommit, CancelEvict, FlushAndEvict
  <1>8. CASE UNCHANGED vars
    BY <1>8 DEF vars
  <1> QED
    BY <1>1, <1>2, <1>3, <1>4, <1>5, <1>6, <1>7, <1>8 DEF Next, Reading

LEMMA ReaderFrame ==
  ASSUME TypeOK, [Next]_vars, NEW x \in Readers
  PROVE  \/ rd'[x] = rd[x]
         \/ rd'[x] = NoRead
         \/ rd'[x] = Read /\ qpc[RunOf(x)] \in WithRow
         \/ Reading(x)
  <1> USE DEF TypeOK, readVars
  <1>1. ASSUME NEW q \in Queries, StartAgent(q) \/ RunTools(q) \/ AgentRaises(q)
        PROVE /\ qpc[q] \in WithRow
              /\ \/ rd' = [rd EXCEPT ![q] = NoRead]
                 \/ rd' = [rd EXCEPT ![q] = Read]
    BY <1>1 DEF StartAgent, RunTools, AgentRaises, LoopHead, Conclude, WithRow
  <1>2. ASSUME NEW q \in Queries, CheckedInterruption(q) \/ FakeTurn(q)
        PROVE /\ qpc[q] \in WithRow
              /\ \/ rd' = [rd EXCEPT ![q] = NoRead]
                 \/ rd' = [rd EXCEPT ![q] = Read]
    BY <1>2 DEF CheckedInterruption, FakeTurn, Conclude, WithRow
  <1>3. ASSUME NEW q \in Queries, \/ rd' = [rd EXCEPT ![q] = NoRead]
                                  \/ rd' = [rd EXCEPT ![q] = Read],
               qpc[q] \in WithRow
        PROVE \/ rd'[x] = rd[x] \/ rd'[x] = NoRead
              \/ rd'[x] = Read /\ qpc[RunOf(x)] \in WithRow
    <2>1. q \in Readers /\ RunOf(q) = q
      BY ReaderTypes DEF RunOf
    <2> QED
      BY <1>3, <2>1
  <1>4. ASSUME NEW q \in Queries, AgentStep(q)
        PROVE \/ rd'[x] = rd[x] \/ rd'[x] = NoRead
              \/ rd'[x] = Read /\ qpc[RunOf(x)] \in WithRow
    <2> DEFINE e == <<q, turn[q] + 1>>
    <2>1. PICK r \in {NoRead, Read} : rd' = [rd EXCEPT ![e] = Read, ![q] = r]
      BY <1>4 DEF AgentStep
    <2>2. q \in Readers /\ RunOf(q) = q /\ qpc[q] \in WithRow
      BY <1>4, ReaderTypes DEF AgentStep, RunOf, WithRow
    <2>3. RunOf(e) = q
      <3>1. turn[q] + 1 \in Nat
        BY TurnsPositive
      <3>2. e \in Queries \X Nat
        BY <3>1
      <3>3. e \notin Queries
        BY <3>2, ActorsDisjoint
      <3> QED
        BY <3>3 DEF RunOf
    <2> QED
      BY <2>1, <2>2, <2>3
  <1>5. ASSUME NEW q \in Queries, Crash(q) PROVE rd'[x] = rd[x] \/ rd'[x] = NoRead
    BY <1>5 DEF Crash
  <1>6. ASSUME NEW q \in Queries,
               \/ Validate(q) \/ Acquire(q) \/ CheckRunning(q) \/ CreateRun(q) \/ GetSandbox(q)
               \/ Release(q) \/ SaveHistory(q) \/ FinalRead(q) \/ FinalSame(q)
               \/ FinalFlush(q) \/ FinalCommit(q) \/ LeaseExpires(q)
               \/ CacheDrop(q) \/ ReapSelect(q) \/ ReapCommit(q)
        PROVE rd' = rd
    BY <1>6 DEF Validate, Acquire, CheckRunning, CreateRun, GetSandbox, Release, SaveHistory,
       FinalRead, FinalSame, FinalFlush, FinalCommit, LeaseExpires, CacheDrop, ReapSelect,
       ReapCommit
  <1>7. ASSUME NEW y \in Readers, Reading(y) PROVE y = x \/ rd'[x] = rd[x]
    BY <1>7 DEF Reading, CacheGet, DbGet, CacheSet
  <1>8. ASSUME NEW e \in Events, HandleMetrics(e) PROVE rd'[x] = rd[x] \/ rd'[x] = NoRead
    BY <1>8 DEF HandleMetrics
  <1>9. ASSUME NEW c \in Cancels, CancelFind(c) \/ Canceller(c) PROVE rd' = rd
    BY <1>9 DEF CancelFind, Canceller, CancelFlush, CancelCommit, CancelEvict
  <1>10. CASE UNCHANGED vars
    BY <1>10 DEF vars
  <1> QED
    BY <1>1, <1>2, <1>3, <1>4, <1>5, <1>6, <1>7, <1>8, <1>9, <1>10 DEF Next, Handler
-----------------------------------------------------------------------------
(* What a run's row goes through.                                          *)

LEMMA RunInit == Init => RunInv
  <1> SUFFICES ASSUME Init PROVE RunInv
    OBVIOUS
  <1>1. RowInv
    BY DEF Init, RowInv, BeforeRow, WithRow
  <1>2. ReadInv
    BY RunOfType DEF Init, ReadInv, DropOnlyAfterEnd, NoRead, Known, Ended
  <1>3. AbortInv
    BY DEF Init, AbortInv
  <1>4. HolderInv
    BY ActorsDisjoint DEF Init, HolderInv
  <1>5. CancelInv
    BY DEF Init, CancelInv
  <1> QED
    BY <1>1, <1>2, <1>3, <1>4, <1>5 DEF RunInv

\* A row is inserted, or the writer that holds it commits a verdict of its own kind
\* over the version it has read.
LEMMA RowMoves ==
  ASSUME TypeOK, RunInv, [Next]_vars, NEW t \in Queries, row'[t] # row[t]
  PROVE  \/ /\ qpc[t] = "insert" /\ qpc' = [qpc EXCEPT ![t] = "sandbox"]
            /\ row[t].status = "none" /\ row'[t].status = "running"
            /\ rowLock[t] = NoOne
         \/ /\ rowLock[t] \in Writers /\ rowLock'[t] = NoOne
            /\ seen[rowLock[t]] = row[t].version
            /\ row[t].version \in Nat /\ row'[t].version = row[t].version + 1
            /\ \/ /\ rowLock[t] = t /\ qpc[t] = "final_commit"
                  /\ qpc' = [qpc EXCEPT ![t] = "done"]
                  /\ row[t].status \notin {"none", "completed", "failed"}
                  /\ row'[t].status \in {"completed", "failed"}
               \/ /\ row[t].status = "running"
                  /\ row'[t].status \in {"aborted", "system_interrupted"}
                  /\ qpc' = qpc
  <1> USE DEF TypeOK
  <1>1. CASE CreateRun(t)
    <2>1. row[t].status = "none"
      BY <1>1 DEF CreateRun, RunInv, RowInv, BeforeRow
    <2>2. rowLock[t] = NoOne
      BY <1>1, <2>1 DEF CreateRun, RunInv, HolderInv, Writers
    <2> QED
      BY <1>1, <2>1, <2>2 DEF CreateRun, Goto
  <1>2. ASSUME NEW w \in Writers, NEW s, CommitRow(w, t, s)
        PROVE /\ rowLock[t] = w /\ rowLock'[t] = NoOne /\ w # NoOne
              /\ seen[w] = row[t].version
              /\ row[t].version \in Nat /\ row'[t].version = row[t].version + 1
              /\ row'[t].status = s
    <2>1. rowLock[t] = w /\ w # NoOne
      BY <1>2, WriterTypes DEF CommitRow
    <2>2. seen[w] = row[t].version
      BY <2>1 DEF RunInv, HolderInv
    <2> QED
      BY <1>2, <2>1, <2>2 DEF CommitRow
  <1>3. CASE FinalCommit(t)
    <2>1. CommitRow(t, t, outcome[t]) /\ t \in Writers
      BY <1>3, WriterTypes DEF FinalCommit
    <2>2. outcome[t] \in {"completed", "failed"}
      BY <1>3 DEF FinalCommit, RunInv, AbortInv
    <2>3. row[t].status \notin {"none", "completed", "failed"}
      BY <1>3 DEF FinalCommit, RunInv, RowInv, WithRow
    <2> QED
      BY <1>3, <1>2, <2>1, <2>2, <2>3 DEF FinalCommit, Goto
  <1>4. CASE ReapCommit(t)
    <2>1. CommitRow(Reaper, t, "system_interrupted") /\ Reaper \in Writers
      BY <1>4, WriterTypes DEF ReapCommit
    <2>2. row[t].status = "running"
      BY <2>1, <1>2 DEF RunInv, HolderInv
    <2> QED
      BY <1>4, <1>2, <2>1, <2>2 DEF ReapCommit, queryVars
  <1>5. CASE \E c \in Cancels : CancelCommit(c) /\ target[c] = t
    <2>1. PICK c \in Cancels : CancelCommit(c) /\ target[c] = t
      BY <1>5
    <2>2. CommitRow(c, t, "aborted") /\ c \in Writers
      BY <2>1, WriterTypes DEF CancelCommit
    <2>3. row[t].status = "running"
      BY <2>2, <1>2 DEF RunInv, HolderInv
    <2> QED
      BY <1>2, <2>1, <2>2, <2>3 DEF CancelCommit, queryVars
  <1> QED
    BY <1>1, <1>3, <1>4, <1>5, RowFrame

\* A row never goes back: it stays, an end stays an end, an own verdict stays for good.
LEMMA RowKeeps ==
  ASSUME TypeOK, RunInv, [Next]_vars, NEW t \in Queries
  PROVE  /\ row[t].status # "none" => row'[t].status # "none"
         /\ row[t].status \in Ended => row'[t].status \in Ended
         /\ \A s : row[t].status \in {s, "completed", "failed"} /\ s \in Ended
                     => row'[t].status \in {s, "completed", "failed"}
         /\ row[t].status \in {"completed", "failed"} => row'[t] = row[t]
  BY RowMoves DEF Ended

\* A handler goes forward: the row comes before everything that needs it.
LEMMA PcFrame ==
  ASSUME TypeOK, [Next]_vars, NEW t \in Queries
  PROVE  \/ qpc'[t] = qpc[t]
         \/ qpc[t] \in BeforeRow /\ qpc'[t] \notin WithRow
         \/ CreateRun(t)
         \/ qpc[t] \in WithRow \ {"done"} /\ qpc'[t] \notin BeforeRow
         \/ qpc[t] # "done" /\ qpc'[t] \notin BeforeRow \union WithRow
  <1> USE DEF TypeOK, Goto
  <1>1. ASSUME NEW q \in Queries, Validate(q) \/ Acquire(q) \/ CheckRunning(q)
        PROVE \/ qpc'[t] = qpc[t]
              \/ qpc[t] \in BeforeRow /\ qpc'[t] \notin WithRow
    BY <1>1 DEF Validate, Acquire, CheckRunning, BeforeRow, WithRow
  <1>2. ASSUME NEW q \in Queries, CreateRun(q) PROVE qpc'[t] = qpc[t] \/ CreateRun(t)
    BY <1>2 DEF CreateRun
  <1>3. ASSUME NEW q \in Queries, NEW pc \in QueryPc \ BeforeRow,
               qpc[q] \in WithRow \ {"done"}, Goto(q, pc)
        PROVE \/ qpc'[t] = qpc[t]
              \/ qpc[t] \in WithRow \ {"done"} /\ qpc'[t] \notin BeforeRow
    BY <1>3
  <1>4. ASSUME NEW q \in Queries,
               \/ GetSandbox(q) \/ StartAgent(q) \/ CheckedInterruption(q) \/ FakeTurn(q)
               \/ AgentStep(q) \/ RunTools(q) \/ AgentRaises(q) \/ SaveHistory(q)
               \/ FinalRead(q) \/ FinalSame(q) \/ FinalFlush(q) \/ FinalCommit(q)
        PROVE /\ qpc[q] \in WithRow \ {"done"}
              /\ \E pc \in QueryPc \ BeforeRow : Goto(q, pc)
    BY <1>4 DEF GetSandbox, StartAgent, CheckedInterruption, FakeTurn, AgentStep, RunTools,
       AgentRaises, SaveHistory, FinalRead, FinalSame, FinalFlush, FinalCommit,
       LoopHead, Conclude, QueryPc, BeforeRow, WithRow
  <1>5. ASSUME NEW q \in Queries, Release(q)
        PROVE \/ qpc'[t] = qpc[t]
              \/ qpc[t] \in WithRow \ {"done"} /\ qpc'[t] \notin BeforeRow
              \/ qpc[t] # "done" /\ qpc'[t] \notin BeforeRow \union WithRow
    BY <1>5 DEF Release, BeforeRow, WithRow
  <1>6. ASSUME NEW q \in Queries, Crash(q)
        PROVE \/ qpc'[t] = qpc[t]
              \/ qpc[t] # "done" /\ qpc'[t] \notin BeforeRow \union WithRow
    BY <1>6 DEF Crash, Stopped, BeforeRow, WithRow
  <1>7. ASSUME NEW q \in Queries,
               LeaseExpires(q) \/ CacheDrop(q) \/ ReapSelect(q) \/ ReapCommit(q)
        PROVE qpc' = qpc
    BY <1>7 DEF LeaseExpires, CacheDrop, ReapSelect, ReapCommit, queryVars
  <1>8. ASSUME NEW x \in Readers, Reading(x) PROVE qpc' = qpc
    BY <1>8 DEF Reading, CacheGet, DbGet, CacheSet, queryVars
  <1>9. ASSUME NEW e \in Events, HandleMetrics(e) PROVE qpc' = qpc
    BY <1>9 DEF HandleMetrics, queryVars
  <1>10. ASSUME NEW c \in Cancels, CancelFind(c) \/ Canceller(c) PROVE qpc' = qpc
    BY <1>10 DEF CancelFind, Canceller, CancelFlush, CancelCommit, CancelEvict, queryVars
  <1>11. CASE UNCHANGED vars
    BY <1>11 DEF vars, queryVars
  <1> QED
    BY <1>1, <1>2, <1>3, <1>4, <1>5, <1>6, <1>7, <1>8, <1>9, <1>10, <1>11 DEF Next, Handler

LEMMA RowInvStep ==
  ASSUME TypeOK, RunInv, [Next]_vars
  PROVE  RowInv'
  <1> USE DEF TypeOK
  <1>2. ASSUME NEW t \in Queries
        PROVE /\ qpc'[t] \in BeforeRow => row'[t].status = "none"
              /\ qpc'[t] \in WithRow => row'[t].status # "none"
              /\ row'[t].status \in {"completed", "failed"} => qpc'[t] = "done"
    <2>1. CASE row'[t] = row[t]
      BY <2>1, PcFrame DEF RunInv, RowInv, CreateRun, BeforeRow, WithRow
    <2>2. CASE row'[t] # row[t]
      <3>1. CASE qpc[t] = "insert" /\ qpc' = [qpc EXCEPT ![t] = "sandbox"]
        <4>1. row'[t].status = "running" /\ qpc'[t] = "sandbox"
          BY <2>2, <3>1, RowMoves
        <4> QED
          BY <4>1 DEF BeforeRow, WithRow
      <3>2. CASE qpc[t] = "final_commit" /\ qpc' = [qpc EXCEPT ![t] = "done"]
        <4>1. row'[t].status \in {"completed", "failed"} /\ qpc'[t] = "done"
          BY <2>2, <3>2, RowMoves
        <4> QED
          BY <4>1 DEF BeforeRow, WithRow
      <3>3. CASE qpc' = qpc /\ row[t].status = "running"
        <4>1. row'[t].status \in {"aborted", "system_interrupted"}
          BY <2>2, <3>3, RowMoves
        <4> QED
          BY <3>3, <4>1 DEF RunInv, RowInv, BeforeRow, WithRow
      <3> QED
        BY <2>2, <3>1, <3>2, <3>3, RowMoves
    <2> QED
      BY <2>1, <2>2
  <1> QED
    BY <1>2 DEF RowInv

\* What is known of a run after a step was known, or in its row, before.
LEMMA KnownStep ==
  ASSUME TypeOK, RunInv, [Next]_vars, NEW t \in Queries, NEW s \in Ended, Known(t, s)'
  PROVE  Known(t, s) \/ row[t].status = s
  <1> USE DEF TypeOK
  <1>n. s # "none"
    BY DEF Ended
  <1>1. CASE cache'[t] = s
    <2>1. CASE cache'[t] = cache[t]
      BY <1>1, <2>1 DEF Known
    <2>2. CASE \E x \in Readers : CacheSet(x) /\ RunOf(x) = t
      <3>1. PICK x \in Readers : CacheSet(x) /\ RunOf(x) = t
        BY <2>2
      <3>2. rd[x].val = s
        BY <1>1, <3>1 DEF CacheSet
      <3> QED
        BY <3>1, <3>2 DEF Known
    <2> QED
      BY <1>n, <1>1, <2>1, <2>2, CacheFrame
  <1>2. ASSUME NEW x \in Readers, RunOf(x) = t, rd'[x].val = s
        PROVE Known(t, s) \/ row[t].status = s
    <2>1. CASE rd'[x] = rd[x]
      BY <1>2, <2>1 DEF Known
    <2>2. CASE rd'[x] = NoRead \/ rd'[x] = Read
      BY <1>n, <1>2, <2>2 DEF NoRead, Read
    <2>3. CASE CacheGet(x)
      <3>1. cache[t] = s
        BY <1>2, <2>3 DEF CacheGet
      <3> QED
        BY <3>1 DEF Known
    <2>4. CASE DbGet(x)
      BY <1>2, <2>4 DEF DbGet
    <2>5. CASE CacheSet(x)
      <3>1. rd[x].val = s
        BY <1>2, <2>5 DEF CacheSet, ReadState
      <3> QED
        BY <1>2, <3>1 DEF Known
    <2> QED
      BY <2>1, <2>2, <2>3, <2>4, <2>5, ReaderFrame DEF Reading
  <1> QED
    BY <1>1, <1>2 DEF Known

\* Only the subscriber drops an event, after it has read that the run is not running.
LEMMA MetricsFrame ==
  ASSUME TypeOK, [Next]_vars, NEW e \in Events, metrics'[e] = "dropped"
  PROVE  metrics[e] = "dropped" \/ (HandleMetrics(e) /\ rd[e].val # "running")
  <1> USE DEF TypeOK, readVars
  <1>1. ASSUME NEW q \in Queries, Handler(q) PROVE metrics'[e] \in {metrics[e], "published"}
    BY <1>1 DEF Handler, Validate, Acquire, CheckRunning, CreateRun, GetSandbox, Release,
       StartAgent, CheckedInterruption, FakeTurn, AgentStep, RunTools, AgentRaises,
       SaveHistory, FinalRead, FinalSame, FinalFlush, FinalCommit
  <1>2. ASSUME NEW q \in Queries, Crash(q) PROVE metrics'[e] \in {metrics[e], "lost"}
    BY <1>2 DEF Crash
  <1>3. ASSUME NEW q \in Queries,
               LeaseExpires(q) \/ CacheDrop(q) \/ ReapSelect(q) \/ ReapCommit(q)
        PROVE metrics' = metrics
    BY <1>3 DEF LeaseExpires, CacheDrop, ReapSelect, ReapCommit
  <1>4. ASSUME NEW x \in Readers, Reading(x) PROVE metrics' = metrics
    BY <1>4 DEF Reading, CacheGet, DbGet, CacheSet
  <1>5. ASSUME NEW f \in Events, HandleMetrics(f)
        PROVE metrics'[e] = metrics[e] \/ (f = e /\ rd[e].val # "running")
    BY <1>5 DEF HandleMetrics
  <1>6. ASSUME NEW c \in Cancels, CancelFind(c) \/ Canceller(c) PROVE metrics' = metrics
    BY <1>6 DEF CancelFind, Canceller, CancelFlush, CancelCommit, CancelEvict
  <1>7. CASE UNCHANGED vars
    BY <1>7 DEF vars
  <1> QED
    BY <1>1, <1>2, <1>3, <1>4, <1>5, <1>6, <1>7 DEF Next

LEMMA ReadInvStep ==
  ASSUME TypeOK, RunInv, [Next]_vars
  PROVE  ReadInv'
  <1> USE DEF TypeOK
  <1>1. ASSUME NEW x \in Readers
        PROVE /\ rd'[x].pc # "idle" => row'[RunOf(x)].status # "none"
              /\ rd'[x].pc \in {"set", "got"} => rd'[x].val # "none"
    <2> DEFINE t == RunOf(x)
    <2>t. t \in Queries
      BY RunOfType
    <2>r. /\ rd[x].pc # "idle" => row[t].status # "none"
          /\ rd[x].pc \in {"set", "got"} => rd[x].val # "none"
      BY DEF RunInv, ReadInv
    <2>k. row[t].status # "none" => row'[t].status # "none"
      BY <2>t, RowKeeps
    <2> HIDE DEF t
    <2>1. CASE rd'[x] = rd[x]
      BY <2>1, <2>r, <2>k DEF t
    <2>2. CASE rd'[x] = NoRead
      BY <2>2 DEF NoRead
    <2>3. CASE rd'[x] = Read /\ qpc[t] \in WithRow
      BY <2>t, <2>k, <2>3 DEF Read, RunInv, RowInv, t
    <2>4. CASE CacheGet(x)
      BY <2>r, <2>k, <2>4 DEF CacheGet, t
    <2>5. CASE DbGet(x)
      BY <2>r, <2>k, <2>5 DEF DbGet, t
    <2>6. CASE CacheSet(x)
      <3>1. rd[x].pc = "set" /\ rd'[x].val = rd[x].val
        BY <2>6 DEF CacheSet, ReadState
      <3> QED
        BY <2>r, <2>k, <3>1 DEF t
    <2> QED
      BY <2>1, <2>2, <2>3, <2>4, <2>5, <2>6, ReaderFrame DEF Reading, t
  <1>2. ASSUME NEW t \in Queries, NEW s \in Ended, Known(t, s)'
        PROVE row'[t].status \in {s, "completed", "failed"}
    <2>1. row[t].status \in {s, "completed", "failed"}
      BY <1>2, KnownStep DEF RunInv, ReadInv
    <2> QED
      BY <2>1, RowKeeps
  <1>3. ASSUME NEW e \in Events, metrics'[e] = "dropped"
        PROVE row'[e[1]].status \in Ended
    <2>1. e[1] \in Queries /\ e \in Readers /\ RunOf(e) = e[1]
      BY ReaderTypes, ActorsDisjoint DEF Events, RunOf
    <2>2. metrics[e] = "dropped" \/ (HandleMetrics(e) /\ rd[e].val # "running")
      BY <1>3, MetricsFrame
    <2>3. row[e[1]].status \in Ended
      <3>1. CASE metrics[e] = "dropped"
        BY <3>1 DEF RunInv, ReadInv, DropOnlyAfterEnd
      <3>2. CASE HandleMetrics(e) /\ rd[e].val # "running"
        <4>1. rd[e].pc = "got" /\ rd[e].val # "none" /\ rd[e].val \in RunStatus
          BY <3>2, <2>1 DEF HandleMetrics, RunInv, ReadInv, ReadState
        <4>2. rd[e].val \in Ended
          BY <3>2, <4>1 DEF RunStatus
        <4>3. Known(e[1], rd[e].val)
          BY <2>1 DEF Known
        <4> QED
          BY <2>1, <4>2, <4>3 DEF RunInv, ReadInv, Ended
      <3> QED
        BY <2>2, <3>1, <3>2
    <2> QED
      BY <2>1, <2>3, RowKeeps
  <1> QED
    BY <1>1, <1>2, <1>3 DEF ReadInv, DropOnlyAfterEnd, Known

LEMMA AbortInvStep ==
  ASSUME TypeOK, RunInv, [Next]_vars
  PROVE  AbortInv'
  <1> DEFINE
        Row(q)  == outcome'[q] = "aborted" => row'[q].status \in {"aborted", "completed", "failed"}
        Path(q) == /\ qpc'[q] = "fake" => outcome'[q] = "aborted"
                   /\ qpc'[q] \in {"save", "final_read"}
                        => outcome'[q] \in {"completed", "failed", "aborted"}
                   /\ qpc'[q] \in {"final_flush", "final_commit"}
                        => outcome'[q] \in {"completed", "failed"}
  <1> USE DEF TypeOK, Goto
  <1>1. ASSUME NEW q \in Queries,
               row[q].status \in {"aborted", "completed", "failed"}
        PROVE row'[q].status \in {"aborted", "completed", "failed"}
    BY <1>1, RowKeeps DEF Ended
  <1>2. ASSUME NEW q \in Queries, outcome'[q] = outcome[q] PROVE Row(q)
    BY <1>1, <1>2 DEF RunInv, AbortInv
  <1>3. ASSUME NEW q \in Queries, outcome'[q] = outcome[q], qpc'[q] = qpc[q]
        PROVE Row(q) /\ Path(q)
    BY <1>2, <1>3 DEF RunInv, AbortInv
  <1>4. ASSUME NEW q \in Queries, outcome'[q] \in {"completed", "failed"}, qpc'[q] # "fake"
        PROVE Row(q) /\ Path(q)
    BY <1>4
  <1>5. ASSUME NEW q \in Queries, NEW p, Goto(q, p), outcome' = outcome,
               p \notin {"fake", "save", "final_read", "final_flush", "final_commit"}
        PROVE Row(q) /\ Path(q)
    BY <1>2, <1>5
  <1>6. ASSUME NEW q \in Queries, Handler(q) PROVE Row(q) /\ Path(q)
    <2>1. CASE Validate(q) \/ Acquire(q) \/ CheckRunning(q) \/ CreateRun(q) \/ GetSandbox(q)
      <3>1. /\ outcome' = outcome
            /\ \E p \in QueryPc : /\ Goto(q, p)
                                  /\ p \notin {"fake", "save", "final_read", "final_flush",
                                               "final_commit"}
        BY <2>1 DEF Validate, Acquire, CheckRunning, CreateRun, GetSandbox, QueryPc
      <3> QED
        BY <3>1, <1>5
    <2>2. CASE Release(q)
      <3>1. /\ outcome' = outcome
            /\ qpc'[q] \notin {"fake", "save", "final_read", "final_flush", "final_commit"}
        BY <2>2 DEF Release
      <3> QED
        BY <3>1, <1>2
    <2>3. ASSUME NEW n, LoopHead(q, n) PROVE Row(q) /\ Path(q)
      BY <2>3, <1>4, <1>5 DEF LoopHead, Conclude
    <2>4. CASE StartAgent(q) \/ RunTools(q) \/ AgentRaises(q)
      <3>1. \/ LoopHead(q, 0) \/ LoopHead(q, turn[q])
            \/ outcome'[q] \in {"completed", "failed"} /\ qpc'[q] # "fake"
        BY <2>4 DEF StartAgent, RunTools, AgentRaises, Conclude
      <3> QED
        BY <3>1, <2>3, <1>4
    <2>5. CASE CheckedInterruption(q)
      <3>1. CASE Interrupted(q)
        <4>1. Known(q, "aborted")
          BY <3>1, ReaderTypes DEF Interrupted, Known, RunOf
        <4>2. row[q].status \in {"aborted", "completed", "failed"}
          BY <4>1 DEF RunInv, ReadInv, Ended
        <4>3. qpc'[q] = "fake" /\ outcome'[q] = "aborted"
          BY <2>5, <3>1 DEF CheckedInterruption
        <4> QED
          BY <1>1, <4>2, <4>3
      <3>2. CASE ~Interrupted(q)
        <4>1. outcome' = outcome /\ qpc'[q] \in {"step", "tools"}
          BY <2>5, <3>2 DEF CheckedInterruption
        <4> QED
          BY <1>2, <4>1
      <3> QED
        BY <3>1, <3>2
    <2>6. CASE FakeTurn(q)
      <3>1. outcome[q] = "aborted" /\ outcome'[q] = outcome[q] /\ qpc'[q] = "save"
        BY <2>6 DEF FakeTurn, Conclude, RunInv, AbortInv
      <3> QED
        BY <1>2, <3>1
    <2>7. CASE AgentStep(q)
      <3>1. PICK p \in {"save", "toolcheck", "turn"} :
              /\ Goto(q, p)
              /\ outcome' = IF p = "save" THEN [outcome EXCEPT ![q] = "completed"] ELSE outcome
        BY <2>7 DEF AgentStep
      <3> QED
        BY <3>1, <1>2
    <2>8. CASE SaveHistory(q)
      <3>1. qpc'[q] = "final_read" /\ outcome'[q] \in {outcome[q], "failed"}
        BY <2>8 DEF SaveHistory
      <3>2. outcome[q] \in {"completed", "failed", "aborted"}
        BY <2>8 DEF SaveHistory, RunInv, AbortInv
      <3> QED
        BY <3>1, <3>2, <1>2
    <2>9. CASE FinalRead(q)
      <3>1. /\ outcome' = outcome /\ outcome[q] \in {"completed", "failed", "aborted"}
            /\ qpc'[q] = IF row[q].status = outcome[q] THEN "final_same" ELSE "final_flush"
            /\ qpc[q] = "final_read"
        BY <2>9 DEF FinalRead, RunInv, AbortInv
      <3>2. CASE outcome[q] = "aborted"
        <4>1. row[q].status = "aborted"
          BY <3>1, <3>2 DEF RunInv, AbortInv, RowInv
        <4> QED
          BY <1>2, <3>1, <3>2, <4>1
      <3>3. CASE outcome[q] # "aborted"
        BY <1>2, <3>1, <3>3
      <3> QED
        BY <3>2, <3>3
    <2>10. CASE FinalSame(q) \/ FinalCommit(q)
      BY <2>10, <1>2 DEF FinalSame, FinalCommit
    <2>11. CASE FinalFlush(q)
      <3>1. /\ qpc[q] = "final_flush" /\ outcome' = outcome
            /\ qpc'[q] \in {"final_commit", "error"}
        BY <2>11 DEF FinalFlush
      <3> QED
        BY <1>2, <3>1 DEF RunInv, AbortInv
    <2> QED
      BY <1>6, <2>1, <2>2, <2>4, <2>5, <2>6, <2>7, <2>8, <2>9, <2>10, <2>11 DEF Handler
  <1>7. ASSUME NEW q \in Queries, NEW r \in Queries, q # r, Handler(r)
        PROVE outcome'[q] = outcome[q] /\ qpc'[q] = qpc[q]
    BY <1>7 DEF Handler, Validate, Acquire, CheckRunning, CreateRun, GetSandbox, Release,
       StartAgent, CheckedInterruption, FakeTurn, AgentStep, RunTools, AgentRaises,
       SaveHistory, FinalRead, FinalSame, FinalFlush, FinalCommit, LoopHead, Conclude
  <1>8. ASSUME NEW r \in Queries, Crash(r), NEW q \in Queries PROVE Row(q) /\ Path(q)
    <2>1. outcome' = outcome /\ qpc' = [qpc EXCEPT ![r] = "crashed"]
      BY <1>8 DEF Crash
    <2> QED
      BY <2>1, <1>2, <1>3
  <1>9. ASSUME ~(\E q \in Queries : Handler(q) \/ Crash(q)) PROVE outcome' = outcome /\ qpc' = qpc
    <2>1. ASSUME NEW q \in Queries,
                 LeaseExpires(q) \/ CacheDrop(q) \/ ReapSelect(q) \/ ReapCommit(q)
          PROVE outcome' = outcome /\ qpc' = qpc
      BY <2>1 DEF LeaseExpires, CacheDrop, ReapSelect, ReapCommit, queryVars
    <2>2. ASSUME NEW x \in Readers, Reading(x) PROVE outcome' = outcome /\ qpc' = qpc
      BY <2>2 DEF Reading, CacheGet, DbGet, CacheSet, queryVars
    <2>3. ASSUME NEW e \in Events, HandleMetrics(e) PROVE outcome' = outcome /\ qpc' = qpc
      BY <2>3 DEF HandleMetrics, queryVars
    <2>4. ASSUME NEW c \in Cancels, CancelFind(c) \/ Canceller(c)
          PROVE outcome' = outcome /\ qpc' = qpc
      BY <2>4 DEF CancelFind, Canceller, CancelFlush, CancelCommit, CancelEvict, queryVars
    <2>5. CASE UNCHANGED vars
      BY <2>5 DEF vars, queryVars
    <2> QED
      BY <1>9, <2>1, <2>2, <2>3, <2>4, <2>5 DEF Next
  <1>10. ASSUME NEW q \in Queries PROVE Row(q) /\ Path(q)
    BY <1>3, <1>6, <1>7, <1>8, <1>9
  <1> QED
    BY <1>10 DEF AbortInv

\* Who holds a row: nobody, the writer of before, or the one that has just flushed it.
LEMMA LockFrame ==
  ASSUME TypeOK, [Next]_vars, NEW t \in Queries
  PROVE  \/ rowLock'[t] = NoOne
         \/ rowLock'[t] = rowLock[t]
         \/ FinalFlush(t) /\ FlushAndEvict(t, t) /\ Goto(t, "final_commit")
         \/ ReapSelect(t)
         \/ \E c \in Cancels : /\ CancelFlush(c) /\ FlushAndEvict(c, t) /\ GotoC(c, "commit")
                               /\ target[c] = t
  <1> USE DEF TypeOK, dbVars
  <1>1. ASSUME NEW q \in Queries, Crash(q)
        PROVE rowLock'[t] = NoOne \/ (rowLock'[t] = rowLock[t] /\ rowLock[t] # q)
    BY <1>1 DEF Crash
  <1>2. ASSUME NEW q \in Queries, FinalFlush(q)
        PROVE \/ rowLock'[t] = rowLock[t]
              \/ q = t /\ FlushAndEvict(t, t) /\ Goto(t, "final_commit")
    BY <1>2 DEF FinalFlush, FlushAndEvict
  <1>3. ASSUME NEW q \in Queries, FinalCommit(q) \/ ReapCommit(q)
        PROVE rowLock'[t] = rowLock[t] \/ rowLock'[t] = NoOne
    BY <1>3 DEF FinalCommit, ReapCommit, CommitRow
  <1>4. ASSUME NEW c \in Cancels, CancelCommit(c)
        PROVE rowLock'[t] = rowLock[t] \/ rowLock'[t] = NoOne
    BY <1>4 DEF CancelCommit, CommitRow
  <1>5. ASSUME NEW c \in Cancels, CancelFlush(c)
        PROVE \/ rowLock'[t] = rowLock[t]
              \/ FlushAndEvict(c, t) /\ GotoC(c, "commit") /\ target[c] = t
    BY <1>5 DEF CancelFlush, FlushAndEvict
  <1>6. ASSUME NEW q \in Queries, ReapSelect(q) PROVE q = t \/ rowLock'[t] = rowLock[t]
    BY <1>6 DEF ReapSelect
  <1>7. ASSUME NEW q \in Queries,
               Handler(q) \/ LeaseExpires(q) \/ CacheDrop(q), ~FinalFlush(q), ~FinalCommit(q)
        PROVE rowLock' = rowLock
    BY <1>7 DEF Handler, Validate, Acquire, CheckRunning, CreateRun, GetSandbox, Release,
       StartAgent, CheckedInterruption, FakeTurn, AgentStep, RunTools, AgentRaises,
       SaveHistory, FinalRead, FinalSame, LeaseExpires, CacheDrop
  <1>8. ASSUME NEW x \in Readers, Reading(x) PROVE rowLock' = rowLock
    BY <1>8 DEF Reading, CacheGet, DbGet, CacheSet
  <1>9. ASSUME NEW e \in Events, HandleMetrics(e) PROVE rowLock' = rowLock
    BY <1>9 DEF HandleMetrics
  <1>10. ASSUME NEW c \in Cancels, CancelFind(c) \/ CancelEvict(c) PROVE rowLock' = rowLock
    BY <1>10 DEF CancelFind, CancelEvict
  <1>11. CASE UNCHANGED vars
    BY <1>11 DEF vars
  <1> QED
    BY <1>1, <1>2, <1>3, <1>4, <1>5, <1>6, <1>7, <1>8, <1>9, <1>10, <1>11 DEF Next, Canceller

\* The writer that holds a row only moves by giving it up.
LEMMA HolderWaits ==
  ASSUME TypeOK, RunInv, [Next]_vars, NEW t \in Queries,
         rowLock[t] # NoOne, rowLock'[t] = rowLock[t]
  PROVE  LET w == rowLock[t] IN
         /\ seen'[w] = seen[w]
         /\ w \in Queries => qpc'[t] = "final_commit"
         /\ w \in Cancels => cpc'[w] = "commit" /\ target'[w] = t
         /\ w = Reaper => reaping' = t
  <1> DEFINE w == rowLock[t]
  <1> USE DEF TypeOK, dbVars, otherVars, Goto, GotoC
  <1>w. /\ w \in Writers
        /\ w \in Queries => w = t /\ qpc[t] = "final_commit"
        /\ w \in Cancels => cpc[w] = "commit" /\ target[w] = t
        /\ w = Reaper => reaping = t
    BY DEF RunInv, HolderInv
  <1>d. /\ Queries \intersect Cancels = {} /\ Reaper \notin Queries \union Cancels
        /\ NoOne \notin Queries
    BY ActorsDisjoint
  <1> DEFINE Waits == /\ seen'[w] = seen[w]
                      /\ w \in Queries => qpc'[t] = "final_commit"
                      /\ w \in Cancels => cpc'[w] = "commit" /\ target'[w] = t
                      /\ w = Reaper => reaping' = t
  <1>0. ASSUME UNCHANGED <<seen, qpc, cpc, target, reaping>> PROVE Waits
    BY <1>0, <1>w
  <1>1. ASSUME NEW q \in Queries, Handler(q), ~FinalRead(q), ~FinalCommit(q) PROVE Waits
    <2>1. UNCHANGED <<seen, cpc, target, reaping>>
      BY <1>1 DEF Handler, Validate, Acquire, CheckRunning, CreateRun, GetSandbox, Release,
         StartAgent, CheckedInterruption, FakeTurn, AgentStep, RunTools, AgentRaises,
         SaveHistory, FinalSame, FinalFlush, FlushAndEvict
    <2>2. qpc[t] = "final_commit" => qpc'[t] = "final_commit"
      BY <1>1 DEF Handler, Validate, Acquire, CheckRunning, CreateRun, GetSandbox, Release,
         StartAgent, CheckedInterruption, FakeTurn, AgentStep, RunTools, AgentRaises,
         SaveHistory, FinalSame, FinalFlush, LoopHead, Conclude
    <2> QED
      BY <2>1, <2>2, <1>w
  <1>2. ASSUME NEW q \in Queries, FinalRead(q) PROVE Waits
    <2>1. /\ UNCHANGED <<cpc, target, reaping>>
          /\ qpc[q] = "final_read"
          /\ \E p : qpc' = [qpc EXCEPT ![q] = p]
          /\ \E v : seen' = [seen EXCEPT ![q] = v]
      BY <1>2 DEF FinalRead
    <2>2. w # q
      BY <2>1, <1>w
    <2>3. w \in Queries => t # q
      BY <2>2, <1>w
    <2> QED
      BY <2>1, <2>2, <2>3, <1>w
  <1>3. ASSUME NEW q \in Queries, FinalCommit(q) PROVE Waits
    <2>1. q # t
      BY <1>3, <1>d DEF FinalCommit, CommitRow
    <2> QED
      BY <1>3, <2>1, <1>w DEF FinalCommit, CommitRow
  <1>4. ASSUME NEW q \in Queries, Crash(q) PROVE Waits
    <2>1. w \in Queries => q # t
      BY <1>4, <1>w, <1>d DEF Crash
    <2> QED
      BY <1>4, <2>1, <1>w DEF Crash
  <1>5. ASSUME NEW q \in Queries, LeaseExpires(q) \/ CacheDrop(q) PROVE Waits
    BY <1>0, <1>5 DEF LeaseExpires, CacheDrop, queryVars
  <1>6. ASSUME NEW q \in Queries, ReapSelect(q) PROVE Waits
    <2>1. w # Reaper
      BY <1>6, <1>w, <1>d DEF ReapSelect
    <2> QED
      BY <1>6, <2>1, <1>w DEF ReapSelect, queryVars
  <1>7. ASSUME NEW q \in Queries, ReapCommit(q) PROVE Waits
    <2>1. w # Reaper
      BY <1>7, <1>w, <1>d DEF ReapCommit, CommitRow
    <2> QED
      BY <1>7, <2>1, <1>w DEF ReapCommit, CommitRow, queryVars
  <1>8. ASSUME NEW x \in Readers, Reading(x) PROVE Waits
    BY <1>0, <1>8 DEF Reading, CacheGet, DbGet, CacheSet, queryVars
  <1>9. ASSUME NEW e \in Events, HandleMetrics(e) PROVE Waits
    BY <1>0, <1>9 DEF HandleMetrics, queryVars
  <1>10. ASSUME NEW c \in Cancels, CancelFind(c) PROVE Waits
    <2>1. w # c
      BY <1>10, <1>w DEF CancelFind
    <2>2. seen' = seen \/ \E v : seen' = [seen EXCEPT ![c] = v]
      BY <1>10 DEF CancelFind
    <2>3. target' = target \/ \E v : target' = [target EXCEPT ![c] = v]
      BY <1>10 DEF CancelFind
    <2>4. \E v : cpc' = [cpc EXCEPT ![c] = v]
      BY <1>10 DEF CancelFind
    <2> QED
      BY <1>10, <2>1, <2>2, <2>3, <2>4, <1>w DEF CancelFind, queryVars
  <1>11. ASSUME NEW c \in Cancels, Canceller(c) PROVE Waits
    <2>1. w # c
      BY <1>11, <1>w, <1>d, WriterTypes
         DEF Canceller, CancelFlush, CancelCommit, CancelEvict, CommitRow
    <2>2. UNCHANGED <<seen, target, reaping, qpc>>
      BY <1>11 DEF Canceller, CancelFlush, CancelCommit, CancelEvict, CommitRow,
         FlushAndEvict, queryVars
    <2>3. \E v : cpc' = [cpc EXCEPT ![c] = v]
      BY <1>11 DEF Canceller, CancelFlush, CancelCommit, CancelEvict
    <2> QED
      BY <2>1, <2>2, <2>3, <1>w
  <1>12. CASE UNCHANGED vars
    BY <1>0, <1>12 DEF vars, queryVars
  <1> QED
    BY <1>1, <1>2, <1>3, <1>4, <1>5, <1>6, <1>7, <1>8, <1>9, <1>10, <1>11, <1>12 DEF Next

LEMMA HolderInvStep ==
  ASSUME TypeOK, RunInv, [Next]_vars
  PROVE  HolderInv'
  <1> USE DEF TypeOK
  <1>1. ASSUME NEW t \in Queries
        PROVE LET w == rowLock'[t] IN
              /\ w \in Queries => w = t /\ qpc'[t] = "final_commit"
              /\ w \in Cancels => /\ cpc'[w] = "commit" /\ target'[w] = t
                                  /\ row'[t].status = "running"
              /\ w = Reaper => reaping' = t /\ row'[t].status = "running"
              /\ w # NoOne => seen'[w] = row'[t].version
    <2>1. CASE rowLock'[t] = NoOne
      BY <2>1, ActorsDisjoint
    <2>2. CASE rowLock'[t] = rowLock[t] /\ rowLock[t] # NoOne
      <3>1. row'[t] = row[t]
        BY <2>2, RowMoves
      <3> QED
        BY <2>2, <3>1, HolderWaits DEF RunInv, HolderInv
    <2>3. CASE FinalFlush(t) /\ FlushAndEvict(t, t) /\ Goto(t, "final_commit")
      <3>1. rowLock'[t] = t /\ row' = row /\ seen' = seen /\ seen[t] = row[t].version
        BY <2>3 DEF FlushAndEvict
      <3>2. qpc'[t] = "final_commit"
        BY <2>3 DEF Goto
      <3> QED
        BY <3>1, <3>2, ActorsDisjoint
    <2>4. CASE ReapSelect(t)
      <3>1. /\ rowLock'[t] = Reaper /\ row' = row /\ seen'[Reaper] = row[t].version
            /\ row[t].status = "running" /\ reaping' = t
        BY <2>4, WriterTypes DEF ReapSelect
      <3> QED
        BY <3>1, ActorsDisjoint
    <2>5. ASSUME NEW c \in Cancels, CancelFlush(c), FlushAndEvict(c, t), GotoC(c, "commit"),
                 target[c] = t
          PROVE /\ rowLock'[t] = c /\ row' = row /\ seen' = seen /\ seen[c] = row[t].version
                /\ cpc'[c] = "commit" /\ target'[c] = t /\ row[t].status = "running"
      <3>1. rowLock'[t] = c /\ row' = row /\ seen' = seen /\ seen[c] = row[t].version
        BY <2>5 DEF FlushAndEvict
      <3>2. cpc[c] = "flush" /\ cpc'[c] = "commit" /\ target' = target
        BY <2>5 DEF CancelFlush, GotoC
      <3>3. row[t].status = "running"
        BY <2>5, <3>1, <3>2, WriterTypes DEF RunInv, CancelInv
      <3> QED
        BY <2>5, <3>1, <3>2, <3>3
    <2> QED
      BY <2>1, <2>2, <2>3, <2>4, <2>5, LockFrame, ActorsDisjoint
  <1> QED
    BY <1>1 DEF HolderInv

\* A cancel's target and version come from its select; then only its own steps move it.
LEMMA CancelFrame ==
  ASSUME TypeOK, [Next]_vars, NEW c \in Cancels
  PROVE  \/ cpc'[c] = cpc[c] /\ target'[c] = target[c] /\ seen'[c] = seen[c]
         \/ CancelFind(c)
         \/ CancelFlush(c) \/ CancelCommit(c) \/ CancelEvict(c)
  <1> USE DEF TypeOK, dbVars, otherVars
  <1>1. ASSUME NEW d \in Cancels, d # c, CancelFind(d) \/ Canceller(d)
        PROVE cpc'[c] = cpc[c] /\ target'[c] = target[c] /\ seen'[c] = seen[c]
    BY <1>1, WriterTypes DEF CancelFind, Canceller, CancelFlush, CancelCommit, CancelEvict,
       CommitRow, FlushAndEvict, GotoC
  <1>2. ASSUME NEW q \in Queries,
               \/ Handler(q) \/ LeaseExpires(q) \/ Crash(q) \/ CacheDrop(q)
               \/ ReapSelect(q) \/ ReapCommit(q)
        PROVE cpc'[c] = cpc[c] /\ target'[c] = target[c] /\ seen'[c] = seen[c]
    <2>1. CASE FinalRead(q) \/ ReapSelect(q)
      <3>1. c # q /\ c # Reaper /\ c \in Writers
        BY WriterTypes, ActorsDisjoint
      <3>2. UNCHANGED <<cpc, target>>
        BY <2>1 DEF FinalRead, ReapSelect
      <3>3. seen' = [seen EXCEPT ![q] = row[q].version]
            \/ seen' = [seen EXCEPT ![Reaper] = row[q].version]
        BY <2>1 DEF FinalRead, ReapSelect
      <3> QED
        BY <3>1, <3>2, <3>3
    <2>2. CASE ~FinalRead(q) /\ ~ReapSelect(q)
      BY <1>2, <2>2 DEF Handler, Validate, Acquire, CheckRunning, CreateRun, GetSandbox, Release,
         StartAgent, CheckedInterruption, FakeTurn, AgentStep, RunTools, AgentRaises,
         SaveHistory, FinalSame, FinalFlush, FlushAndEvict, FinalCommit, CommitRow,
         LeaseExpires, Crash, CacheDrop, ReapCommit
    <2> QED
      BY <2>1, <2>2
  <1>3. ASSUME NEW x \in Readers, Reading(x) PROVE UNCHANGED <<cpc, target, seen>>
    BY <1>3 DEF Reading, CacheGet, DbGet, CacheSet
  <1>4. ASSUME NEW e \in Events, HandleMetrics(e) PROVE UNCHANGED <<cpc, target, seen>>
    BY <1>4 DEF HandleMetrics
  <1>5. CASE UNCHANGED vars
    BY <1>5 DEF vars
  <1> QED
    BY <1>1, <1>2, <1>3, <1>4, <1>5 DEF Next, Canceller

LEMMA CancelInvStep ==
  ASSUME TypeOK, RunInv, [Next]_vars
  PROVE  CancelInv'
  <1> USE DEF TypeOK
  <1>1. ASSUME NEW c \in Cancels,
               cpc'[c] \in {"flush", "commit", "evict", "done", "conflict"}
        PROVE LET t == target'[c] IN
              /\ t \in Queries
              /\ row'[t].status # "none"
              /\ cpc'[c] = "flush" =>
                   \/ seen'[c] = row'[t].version /\ row'[t].status = "running"
                   \/ seen'[c] < row'[t].version /\ row'[t].status \in Ended
              /\ cpc'[c] \in {"evict", "done", "conflict"} => row'[t].status \in Ended
    <2>1. CASE cpc'[c] = cpc[c] /\ target'[c] = target[c] /\ seen'[c] = seen[c]
      <3> DEFINE t == target[c]
      <3>1. /\ t \in Queries /\ row[t].status # "none"
            /\ cpc[c] = "flush" =>
                 \/ seen[c] = row[t].version /\ row[t].status = "running"
                 \/ seen[c] < row[t].version /\ row[t].status \in Ended
            /\ cpc[c] \in {"evict", "done", "conflict"} => row[t].status \in Ended
        BY <1>1, <2>1 DEF RunInv, CancelInv
      <3>2. /\ row'[t].status # "none"
            /\ row[t].status \in Ended => row'[t].status \in Ended
        BY <3>1, RowKeeps
      <3>3. \/ row'[t] = row[t]
            \/ row'[t].version = row[t].version + 1 /\ row'[t].status \in Ended
        BY <3>1, RowMoves DEF Ended
      <3>4. seen[c] \in Nat /\ row[t].version \in Nat
        BY <3>1, WriterTypes
      <3> QED
        BY <2>1, <3>1, <3>2, <3>3, <3>4
    <2>2. CASE CancelFind(c)
      <3>1. PICK t \in Running : /\ target' = [target EXCEPT ![c] = t]
                                 /\ seen' = [seen EXCEPT ![c] = row[t].version]
                                 /\ GotoC(c, "flush")
        BY <1>1, <2>2 DEF CancelFind, GotoC
      <3>2. t \in Queries /\ row[t].status = "running" /\ row' = row
        BY <2>2 DEF CancelFind, Running
      <3>3. /\ target'[c] = t /\ seen'[c] = row[t].version /\ cpc'[c] = "flush"
        BY <3>1, WriterTypes DEF GotoC
      <3> QED
        BY <3>2, <3>3
    <2>3. CASE CancelFlush(c)
      <3> DEFINE t == target[c]
      <3>1. /\ target' = target /\ row' = row /\ cpc[c] = "flush"
            /\ cpc'[c] \in {"commit", "conflict"}
            /\ cpc'[c] = "conflict" => row[t].version # seen[c]
        BY <2>3 DEF CancelFlush, FlushAndEvict, StaleRow, GotoC, dbVars
      <3> QED
        BY <3>1 DEF RunInv, CancelInv
    <2>4. CASE CancelCommit(c)
      <3> DEFINE t == target[c]
      <3>1. /\ target' = target /\ cpc[c] = "commit" /\ cpc'[c] = "evict"
            /\ CommitRow(c, t, "aborted")
        BY <2>4 DEF CancelCommit, GotoC
      <3>2. t \in Queries
        BY <3>1 DEF RunInv, CancelInv
      <3>3. row'[t].status = "aborted"
        BY <3>1, <3>2 DEF CommitRow
      <3> QED
        BY <3>1, <3>2, <3>3 DEF Ended
    <2>5. CASE CancelEvict(c)
      <3>1. target' = target /\ row' = row /\ cpc[c] = "evict" /\ cpc'[c] = "done"
        BY <2>5 DEF CancelEvict, GotoC, dbVars
      <3> QED
        BY <3>1 DEF RunInv, CancelInv
    <2> QED
      BY <2>1, <2>2, <2>3, <2>4, <2>5, CancelFrame
  <1> QED
    BY <1>1 DEF CancelInv

\* Row, cache, readers and writers agree in every reachable state.
THEOREM RunInvariant == Spec => []RunInv
  <1>1. TypeOK /\ RunInv /\ [Next]_vars => RunInv'
    BY RowInvStep, ReadInvStep, AbortInvStep, HolderInvStep, CancelInvStep DEF RunInv
  <1> QED
    BY <1>1, RunInit, TypeCorrect, PTL DEF Spec

\* Whatever the interleaving of writers and readers, the cache never holds an end that
\* is not in the table.
THEOREM CacheIsNeverAhead == Spec => []CacheNeverAhead
  <1>1. RunInv => CacheNeverAhead
    BY DEF RunInv, ReadInv, Known, CacheNeverAhead, Ended
  <1> QED
    BY <1>1, RunInvariant, PTL

\* No usage event of a running run is dropped.
THEOREM OnlyEndedRunsDrop == Spec => []DropOnlyAfterEnd
  <1>1. RunInv => DropOnlyAfterEnd
    BY DEF RunInv, ReadInv
  <1> QED
    BY <1>1, RunInvariant, PTL

\* What a cancel command tells the user of the run it found is true.
THEOREM CancelAnswersTrue == Spec => []AnswerToCancelIsTrue
  <1>1. RunInv => AnswerToCancelIsTrue
    BY DEF RunInv, CancelInv, AnswerToCancelIsTrue
  <1> QED
    BY <1>1, RunInvariant, PTL

\* Every verdict is written over the version its writer has read, by the holder of the row.
THEOREM VersionedWrites == Spec => NoBlindWrite
  <1>1. ASSUME TypeOK, RunInv, [Next]_vars
        PROVE [\A t \in Queries :
                 row[t].status # "none" /\ row'[t] # row[t] =>
                   /\ rowLock[t] # NoOne
                   /\ seen[rowLock[t]] = row[t].version
                   /\ row'[t].version = row[t].version + 1]_row
    BY <1>1, RowMoves, WriterTypes
  <1> QED
    BY <1>1, TypeCorrect, RunInvariant, PTL DEF Spec, NoBlindWrite

\* Once no reader can bring "running" back, a cancelled run is seen as cancelled until
\* its own handler overrules the cancellation.
THEOREM VisibleCancelIsHonoured == Spec => CancelIsHonoured
  <1> DEFINE Honoured(q) ==
        AbortVisible(q) =>
          /\ AbortVisible(q)' \/ qpc[q] = "final_commit"
          /\ rd[q].pc \in {"get", "db"} /\ rd'[q].pc \in {"set", "got"} => rd'[q].val = "aborted"
  <1>1. ASSUME TypeOK, RunInv, [Next]_vars, NEW q \in Queries, AbortVisible(q)
        PROVE AbortVisible(q)' \/ qpc[q] = "final_commit"
    <2> USE DEF TypeOK
    <2> SUFFICES ASSUME qpc[q] # "final_commit" PROVE AbortVisible(q)'
      OBVIOUS
    <2>1. row'[q] = row[q] /\ row[q].status = "aborted"
      BY <1>1, RowMoves DEF AbortVisible
    <2>2. cache'[q] # "running"
      <3>1. ASSUME NEW x \in Readers, CacheSet(x), RunOf(x) = q PROVE cache'[q] # "running"
        BY <1>1, <3>1 DEF CacheSet, AbortVisible, Pending
      <3> QED
        BY <1>1, <3>1, CacheFrame DEF AbortVisible
    <2>3. ASSUME NEW x \in Readers, RunOf(x) = q, rd'[x].pc = "set" PROVE rd'[x].val # "running"
      <3>1. CASE rd'[x] = rd[x]
        BY <1>1, <2>3, <3>1 DEF AbortVisible, Pending
      <3>2. CASE rd'[x] = NoRead \/ rd'[x] = Read
        BY <3>2 DEF NoRead, Read
      <3>3. CASE CacheGet(x) \/ CacheSet(x)
        BY <1>1, <2>3, <3>3 DEF CacheGet, CacheSet, ReadState
      <3>4. CASE DbGet(x)
        BY <2>1, <2>3, <3>4 DEF DbGet
      <3> QED
        BY <1>1, <3>1, <3>2, <3>3, <3>4, ReaderFrame DEF Reading
    <2> QED
      BY <2>1, <2>2, <2>3 DEF AbortVisible, Pending
  <1>2. ASSUME TypeOK, RunInv, [Next]_vars, NEW q \in Queries, AbortVisible(q),
               rd[q].pc \in {"get", "db"}, rd'[q].pc \in {"set", "got"}
        PROVE rd'[q].val = "aborted"
    <2> USE DEF TypeOK
    <2>1. q \in Readers /\ RunOf(q) = q
      BY ReaderTypes DEF RunOf
    <2>2. CASE CacheGet(q)
      <3>1. cache[q] # "none" /\ cache[q] # "running" /\ rd'[q].val = cache[q]
        BY <1>2, <2>1, <2>2 DEF CacheGet, AbortVisible
      <3>2. cache[q] \in Ended /\ Known(q, cache[q])
        BY <1>2, <3>1 DEF RunStatus, Known
      <3>3. "aborted" \in {cache[q], "completed", "failed"}
        BY <1>2, <3>2 DEF RunInv, ReadInv, AbortVisible
      <3> QED
        BY <3>1, <3>3
    <2>3. CASE DbGet(q)
      BY <1>2, <2>1, <2>3 DEF DbGet, AbortVisible
    <2>4. CASE CacheSet(q)
      BY <1>2, <2>4 DEF CacheSet
    <2> QED
      BY <1>2, <2>1, <2>2, <2>3, <2>4, ReaderFrame, SMTT(30) DEF Reading, NoRead, Read
  <1>3. ASSUME TypeOK, RunInv, [Next]_vars PROVE [\A q \in Queries : Honoured(q)]_vars
    BY <1>1, <1>2, <1>3
  <1> QED
    BY <1>3, TypeCorrect, RunInvariant, PTL DEF Spec, CancelIsHonoured

\* The table is a slot that one run at a time takes and leaves once.
THEOREM ImplementsSlot ==
  ASSUME LeaseCoversLookup
  PROVE  Spec => SlotSpec
  <1> DEFINE status == [q \in Queries |-> row[q].status]
  <1>1. Init => Slot!Init
    BY DEF Init, Slot!Init
  <1>2. ASSUME TypeOK, RunInv, SlotInv, [Next]_vars
        PROVE [Slot!Next]_status
    <2> USE DEF TypeOK
    <2> SUFFICES ASSUME status' # status PROVE Slot!Next
      OBVIOUS
    <2>1. PICK t \in Queries : row'[t] # row[t]
      OBVIOUS
    <2>2. \A u \in Queries : u # t => row'[u] = row[u]
      <3>1. ASSUME NEW w, NEW s, CommitRow(w, t, s)
            PROVE \A u \in Queries : u # t => row'[u] = row[u]
        BY <3>1 DEF CommitRow
      <3>2. CreateRun(t) => \A u \in Queries : u # t => row'[u] = row[u]
        BY DEF CreateRun
      <3> QED
        BY <1>2, <2>1, <3>1, <3>2, RowFrame DEF FinalCommit, ReapCommit, CancelCommit
    <2>3. \A s : row'[t].status = s => status' = [status EXCEPT ![t] = s]
      BY <2>2
    <2>4. CASE qpc[t] = "insert" /\ row[t].status = "none" /\ row'[t].status = "running"
      <3>1. Slot!SlotFree
        BY <1>2, <2>4 DEF SlotInv, Running, Slot!SlotFree
      <3> QED
        BY <2>3, <2>4, <3>1 DEF Slot!Next, Slot!Begin
    <2>5. CASE row[t].status = "running" /\ row'[t].status \in Ended
      <3>1. row'[t].status \in Slot!Own \union Slot!Foreign
        BY <2>5 DEF Ended, Slot!Own, Slot!Foreign
      <3> QED
        BY <2>3, <2>5, <3>1 DEF Slot!Next, Slot!End
    <2>6. CASE /\ row[t].status \in {"aborted", "system_interrupted"}
               /\ row'[t].status \in {"completed", "failed"}
      BY <2>3, <2>6 DEF Slot!Next, Slot!Overrule, Slot!Own, Slot!Foreign
    <2> QED
      BY <1>2, <2>1, <2>4, <2>5, <2>6, RowMoves DEF Ended, RunStatus
  <1>3. TypeOK /\ SlotInv /\ [Next]_vars => SlotInv'
    BY SlotStep
  <1> QED
    BY <1>1, <1>2, <1>3, SlotInit, TypeCorrect, RunInvariant, PTL DEF Spec, SlotSpec, Slot!Spec

-----------------------------------------------------------------------------
(* Nobody waits for ever, and no handler goes round in a circle. *)

\* Every step leaves the session lock with such a handler, or with nobody.
LEMMA LockHeldStep ==
  ASSUME TypeOK, LockHeld, [Next]_vars
  PROVE  LockHeld'
PROOF
<1> USE DEF TypeOK, LockHeld, Goto
<1>1. ASSUME NEW q \in Queries, Validate(q) \/ Acquire(q) \/ CheckRunning(q) \/ CreateRun(q) \/ GetSandbox(q)
      PROVE  LockHeld'
  BY <1>1 DEF Validate, Acquire, CheckRunning, CreateRun, GetSandbox
<1>2. ASSUME NEW q \in Queries, Release(q) PROVE LockHeld'
  BY <1>2 DEF Release
<1>3. ASSUME NEW q \in Queries, NEW pc \in QueryPc, lock' = lock, Goto(q, pc),
             qpc[q] \notin {"check", "insert", "sandbox", "unlock", "leave", "raise", "crashed"}
      PROVE  LockHeld'
  BY <1>3
<1>4. ASSUME NEW q \in Queries,
             \/ StartAgent(q) \/ CheckedInterruption(q) \/ FakeTurn(q)
             \/ AgentStep(q) \/ RunTools(q) \/ AgentRaises(q) \/ SaveHistory(q)
             \/ FinalRead(q) \/ FinalSame(q) \/ FinalFlush(q) \/ FinalCommit(q)
      PROVE  /\ lock' = lock
             /\ qpc[q] \notin {"check", "insert", "sandbox", "unlock", "leave", "raise", "crashed"}
             /\ \E pc \in QueryPc : Goto(q, pc)
  BY <1>4 DEF StartAgent, CheckedInterruption, FakeTurn, AgentStep, RunTools,
     AgentRaises, SaveHistory, FinalRead, FinalSame, FinalFlush, FinalCommit,
     LoopHead, Conclude, QueryPc
<1>5. ASSUME NEW q \in Queries, LeaseExpires(q) PROVE LockHeld'
  BY <1>5 DEF LeaseExpires
<1>6. ASSUME NEW q \in Queries, Crash(q) PROVE LockHeld'
  BY <1>6 DEF Crash
<1>7. ASSUME NEW q \in Queries, CacheDrop(q) \/ ReapSelect(q) \/ ReapCommit(q) PROVE UNCHANGED <<qpc, lock>>
  BY <1>7 DEF CacheDrop, ReapSelect, ReapCommit, queryVars
<1>8. ASSUME NEW x \in Readers, Reading(x) PROVE UNCHANGED <<qpc, lock>>
  BY <1>8 DEF Reading, CacheGet, DbGet, CacheSet, queryVars
<1>9. ASSUME NEW e \in Events, HandleMetrics(e) PROVE UNCHANGED <<qpc, lock>>
  BY <1>9 DEF HandleMetrics, queryVars
<1>10. ASSUME NEW c \in Cancels, CancelFind(c) \/ Canceller(c) PROVE UNCHANGED <<qpc, lock>>
  BY <1>10 DEF CancelFind, Canceller, CancelFlush, CancelCommit, CancelEvict, queryVars
<1>11. UNCHANGED vars => UNCHANGED <<qpc, lock>>
  BY DEF vars, queryVars
<1>12. CASE UNCHANGED <<qpc, lock>>
  BY <1>12
<1> HIDE DEF LockHeld
<1> QED
  BY <1>1, <1>2, <1>3, <1>4, <1>5, <1>6, <1>7, <1>8, <1>9, <1>10, <1>11, <1>12 DEF Next, Handler

\* NobodyWaitsInACircle: whoever is waited for, for the session lock or for a row, does not wait (lock.py:15-37,
\* agent_run_service.py:121-137).
THEOREM WaitsAreShort == Spec => []NobodyWaitsInACircle
PROOF
<1>1. Init => LockHeld
  BY DEF Init, LockHeld
<1>2. TypeOK /\ RunInv /\ LockHeld => NobodyWaitsInACircle
  <2> SUFFICES ASSUME TypeOK, RunInv, LockHeld, NEW t \in Queries
               PROVE  LET w == rowLock[t] IN
                      \/ w = NoOne
                      \/ w \in Queries /\ w = t /\ qpc[w] = "final_commit"
                      \/ w \in Cancels /\ target[w] = t /\ cpc[w] = "commit"
                      \/ w = Reaper /\ reaping = t
    BY DEF NobodyWaitsInACircle, LockHeld
  <2> DEFINE w == rowLock[t]
  <2>1. w \in Queries \/ w \in Cancels \/ w = Reaper \/ w = NoOne
    BY DEF TypeOK, Writers
  <2> QED
    BY <2>1 DEF RunInv, HolderInv
<1> QED
  BY <1>1, <1>2, LockHeldStep, TypeCorrect, RunInvariant, PTL DEF Spec

\* The numbers of the places.
LEMMA PlacesLeft ==
  /\ StepsLeft("start") = 17 /\ StepsLeft("wait") = 16 /\ StepsLeft("check") = 15 /\ StepsLeft("insert") = 14
  /\ StepsLeft("sandbox") = 13 /\ StepsLeft("unlock") = 12 /\ StepsLeft("leave") = 12 /\ StepsLeft("raise") = 12
  /\ StepsLeft("init") = 11 /\ StepsLeft("toolcheck") = 10 /\ StepsLeft("tools") = 9 /\ StepsLeft("turn") = 8
  /\ StepsLeft("step") = 7 /\ StepsLeft("fake") = 6 /\ StepsLeft("save") = 5 /\ StepsLeft("final_read") = 4
  /\ StepsLeft("final_flush") = 3 /\ StepsLeft("final_same") = 3 /\ StepsLeft("final_commit") = 2
  /\ \A place \in Stopped : StepsLeft(place) = 0
PROOF BY DEF StepsLeft, Stopped

LEMMA ReadsLeftAt ==
  /\ ReadsLeft("get") = 4 /\ ReadsLeft("db") = 3 /\ ReadsLeft("set") = 2 /\ ReadsLeft("got") = 1 /\ ReadsLeft("idle") = 0
PROOF BY DEF ReadsLeft

\* Every look-up has a number of steps left.
LEMMA ReadsAreLeft ==
  ASSUME NEW reads \in [Readers -> ReadState], NEW x \in Readers
  PROVE  ReadsLeft(reads[x].pc) \in Nat
PROOF
<1>1. reads[x].pc \in {"idle", "get", "db", "set", "got"}
  BY DEF ReadState
<1> QED
  BY <1>1, ReadsLeftAt

\* A step of a handler takes it on, to the next turn or towards its end, and moves no other handler.
LEMMA HandlerStep ==
  ASSUME TypeOK, NEW q \in Queries, Handler(q) \/ Crash(q)
  PROVE  /\ Advances(q)
         /\ \A p \in Queries : p # q => turn'[p] = turn[p] /\ qpc'[p] = qpc[p]
PROOF
<1> USE PlacesLeft DEF TypeOK, Goto, Advances
<1>1. CASE Validate(q) \/ Acquire(q) \/ CheckRunning(q) \/ CreateRun(q) \/ GetSandbox(q)
  BY <1>1 DEF Validate, Acquire, CheckRunning, CreateRun, GetSandbox, Stopped
<1>2. CASE Release(q)
  BY <1>2 DEF Release, Stopped
<1>3. CASE StartAgent(q)
  BY <1>3 DEF StartAgent, LoopHead, Conclude
<1>4. CASE CheckedInterruption(q) \/ FakeTurn(q)
  BY <1>4 DEF CheckedInterruption, FakeTurn, Conclude
<1>5. CASE AgentStep(q)
  BY <1>5 DEF AgentStep
<1>6. CASE RunTools(q) \/ AgentRaises(q)
  BY <1>6 DEF RunTools, AgentRaises, LoopHead, Conclude
<1>7. CASE SaveHistory(q) \/ FinalRead(q) \/ FinalSame(q) \/ FinalFlush(q) \/ FinalCommit(q)
  BY <1>7 DEF SaveHistory, FinalRead, FinalSame, FinalFlush, FinalCommit, Stopped
<1>8. CASE Crash(q)
  <2>1. qpc[q] \in QueryPc \ (Stopped \union {"start"}) /\ qpc' = [qpc EXCEPT ![q] = "crashed"] /\ turn' = turn
    BY <1>8 DEF Crash
  <2>2. StepsLeft(qpc[q]) > 0
    BY <2>1 DEF QueryPc, Stopped
  <2> QED
    BY <2>1, <2>2 DEF Stopped
<1> QED
  BY <1>1, <1>2, <1>3, <1>4, <1>5, <1>6, <1>7, <1>8 DEF Handler

\* It starts a look-up for the event of the turn it begins, and for itself when it gets to another place.
LEMMA HandlerReads ==
  ASSUME TypeOK, NEW q \in Queries, Handler(q) \/ Crash(q)
  PROVE  \A x \in Readers : \/ x = q
                            \/ ReadsLeft(rd'[x].pc) <= ReadsLeft(rd[x].pc)
                            \/ x = <<q, turn'[q]>> /\ turn'[q] = turn[q] + 1 /\ x \in Events
PROOF
<1> DEFINE NoLater(x) == ReadsLeft(rd'[x].pc) <= ReadsLeft(rd[x].pc)
           Begins(x) == x = <<q, turn'[q]>> /\ turn'[q] = turn[q] + 1 /\ x \in Events
           Goal == \A x \in Readers : x = q \/ NoLater(x) \/ Begins(x)
<1> SUFFICES Goal
  OBVIOUS
<1>0. \A x \in Readers : ReadsLeft(rd[x].pc) \in Nat
  BY ReadsAreLeft DEF TypeOK
<1>k. ASSUME NEW x \in Readers, rd'[x] = rd[x] PROVE NoLater(x)
  <2>1. ReadsLeft(rd[x].pc) <= ReadsLeft(rd[x].pc)
    BY <1>0
  <2> QED
    BY <2>1, <1>k
<1>1. ASSUME rd' = rd PROVE Goal
  <2> HIDE DEF NoLater, Begins
  <2> QED
    BY <1>k, <1>1
<1>2. ASSUME NEW r, rd' = [rd EXCEPT ![q] = r] PROVE Goal
  <2>1. \A x \in Readers : x # q => rd'[x] = rd[x]
    BY <1>2 DEF TypeOK
  <2> HIDE DEF NoLater, Begins
  <2> QED
    BY <2>1, <1>k
<1>3. CASE Validate(q) \/ Acquire(q) \/ CheckRunning(q) \/ CreateRun(q) \/ GetSandbox(q) \/ Release(q)
           \/ SaveHistory(q) \/ FinalRead(q) \/ FinalSame(q) \/ FinalFlush(q) \/ FinalCommit(q)
  <2>1. rd' = rd
    BY <1>3 DEF Validate, Acquire, CheckRunning, CreateRun, GetSandbox, Release, SaveHistory, FinalRead, FinalSame,
       FinalFlush, FinalCommit, readVars
  <2> QED
    BY <1>1, <2>1
<1>4. CASE StartAgent(q) \/ CheckedInterruption(q) \/ FakeTurn(q) \/ RunTools(q) \/ AgentRaises(q)
  <2>1. rd' = [rd EXCEPT ![q] = Read] \/ rd' = [rd EXCEPT ![q] = NoRead]
    BY <1>4 DEF StartAgent, CheckedInterruption, FakeTurn, RunTools, AgentRaises, LoopHead, Conclude
  <2> QED
    BY <1>2, <2>1
<1>5. CASE AgentStep(q)
  <2> DEFINE e == <<q, turn[q] + 1>>
  <2>1. turn' = [turn EXCEPT ![q] = turn[q] + 1] /\ turn[q] \in 0 .. Turns /\ turn[q] < Turns
    BY <1>5 DEF AgentStep, TypeOK, TurnAhead
  <2>2. e \in Events
    BY <2>1, TurnsPositive DEF Events
  <2>3. \A x \in Readers : x = q \/ x = e \/ rd'[x] = rd[x]
    BY <1>5 DEF AgentStep, TypeOK
  <2>4. turn'[q] = turn[q] + 1
    BY <2>1 DEF TypeOK
  <2>5. Begins(e)
    BY <2>2, <2>4
  <2> HIDE DEF NoLater, Begins, e
  <2> QED
    BY <1>k, <2>3, <2>5
<1>6. CASE Crash(q)
  <2>1. \A x \in Readers : rd'[x] = NoRead \/ rd'[x] = rd[x]
    BY <1>6 DEF Crash
  <2>2. ASSUME NEW x \in Readers, rd'[x] = NoRead PROVE NoLater(x)
    BY <1>0, <2>2, ReadsLeftAt DEF NoRead
  <2> HIDE DEF NoLater, Begins
  <2> QED
    BY <1>k, <2>1, <2>2
<1> QED
  BY <1>3, <1>4, <1>5, <1>6 DEF Handler

\* A step of a look-up, or of the event handler that has its answer, ends it sooner, and moves no other.
LEMMA ReaderStep ==
  ASSUME TypeOK, NEW x \in Readers, Reading(x) \/ (x \in Events /\ HandleMetrics(x))
  PROVE  /\ ReadsLeft(rd'[x].pc) < ReadsLeft(rd[x].pc)
         /\ \A y \in Readers : y # x => rd'[y] = rd[y]
         /\ UNCHANGED <<qpc, turn, cpc>>
PROOF
<1> USE ReadsLeftAt DEF TypeOK, queryVars, otherVars
<1>1. CASE Reading(x)
  <2>1. CASE CacheGet(x)
    BY <2>1 DEF CacheGet
  <2>2. CASE DbGet(x)
    BY <2>2 DEF DbGet
  <2>3. CASE CacheSet(x)
    BY <2>3 DEF CacheSet
  <2> QED
    BY <1>1, <2>1, <2>2, <2>3 DEF Reading
<1>2. CASE x \in Events /\ HandleMetrics(x)
  BY <1>2 DEF HandleMetrics, NoRead
<1> QED
  BY <1>1, <1>2

\* A step of a cancel brings it closer to its answer.
LEMMA CancelStep ==
  ASSUME TypeOK, NEW c \in Cancels, CancelFind(c) \/ Canceller(c)
  PROVE  /\ CancelLeft(cpc'[c]) < CancelLeft(cpc[c])
         /\ \A d \in Cancels : d # c => cpc'[d] = cpc[d]
         /\ UNCHANGED <<qpc, turn, rd>>
PROOF
<1>1. /\ CancelLeft("idle") = 4 /\ CancelLeft("flush") = 3 /\ CancelLeft("commit") = 2 /\ CancelLeft("evict") = 1
      /\ CancelLeft("done") = 0 /\ CancelLeft("notfound") = 0 /\ CancelLeft("conflict") = 0 /\ CancelLeft("error") = 0
  BY DEF CancelLeft
<1> USE <1>1 DEF TypeOK, GotoC, queryVars, readVars
<1>2. CASE CancelFind(c)
  BY <1>2 DEF CancelFind
<1>3. CASE CancelFlush(c) \/ CancelCommit(c) \/ CancelEvict(c)
  BY <1>3 DEF CancelFlush, CancelCommit, CancelEvict
<1> QED
  BY <1>2, <1>3 DEF Canceller

\* HandlersCountDown: query handlers, status checks, event handlers and cancels come to their end in a bounded number
\* of their own steps, for any bound on the turns, any number of commands and any faults.
THEOREM HandlersEnd == Spec => HandlersCountDown
PROOF
<1> DEFINE Same(q)   == turn'[q] = turn[q] /\ qpc'[q] = qpc[q] /\ ReadsLeft(rd'[q].pc) <= ReadsLeft(rd[q].pc)
           Sooner(x) == ReadsLeft(rd'[x].pc) < ReadsLeft(rd[x].pc)
           Fits(x)   == ReadsLeft(rd'[x].pc) <= ReadsLeft(rd[x].pc)
           Begins(e) == turn[e[1]] < e[2] /\ turn'[e[1]] = e[2]
           Closer(c) == CancelLeft(cpc'[c]) < CancelLeft(cpc[c])
           Ahead(q)  == (Handler(q) => Advances(q)) /\ (Advances(q) \/ Same(q))
           Heard(e)  == (HandleMetrics(e) => Sooner(e)) /\ (Fits(e) \/ Begins(e))
           Near(c)   == (Canceller(c) => cpc'[c] # cpc[c]) /\ (cpc'[c] = cpc[c] \/ Closer(c))
           Down == /\ \A q \in Queries : Ahead(q)
                   /\ \A x \in Readers : Reading(x) => Sooner(x)
                   /\ \A e \in Events : Heard(e)
                   /\ \A c \in Cancels : Near(c)
<1>1. ASSUME TypeOK, [Next]_vars PROVE Down
  <2>0. \A x \in Readers : rd'[x] = rd[x] => Fits(x)
    <3>1. \A x \in Readers : ReadsLeft(rd[x].pc) \in Nat
      BY <1>1, ReadsAreLeft DEF TypeOK
    <3>2. ASSUME NEW x \in Readers, rd'[x] = rd[x] PROVE Fits(x)
      <4>1. ReadsLeft(rd[x].pc) <= ReadsLeft(rd[x].pc)
        BY <3>1
      <4> QED
        BY <3>2, <4>1
    <3> QED
      BY <3>2
  <2>1. \A x \in Readers : Sooner(x) => Fits(x)
    <3>1. \A x \in Readers : ReadsLeft(rd[x].pc) \in Nat
      BY <1>1, ReadsAreLeft DEF TypeOK
    <3>2. TypeOK'
      BY <1>1, TypeStep
    <3>3. \A x \in Readers : ReadsLeft(rd'[x].pc) \in Nat
      BY <3>2, ReadsAreLeft DEF TypeOK
    <3> QED
      BY <3>1, <3>3
  <2>2. \A q \in Queries : Handler(q) => Advances(q)
    BY <1>1, HandlerStep
  <2>3. \A x \in Readers : Reading(x) => Sooner(x)
    BY <1>1, ReaderStep
  <2>4. \A e \in Events : HandleMetrics(e) => Sooner(e)
    BY <1>1, ReaderStep, ReaderTypes
  <2>5. \A c \in Cancels : Canceller(c) => cpc'[c] # cpc[c]
    <3>1. \A c \in Cancels : CancelLeft(cpc[c]) \in Nat
      BY <1>1 DEF TypeOK, CancelLeft
    <3>2. ASSUME NEW c \in Cancels, Canceller(c) PROVE cpc'[c] # cpc[c]
      <4>1. CancelLeft(cpc'[c]) < CancelLeft(cpc[c])
        BY <1>1, <3>2, CancelStep
      <4> QED
        BY <3>1, <4>1
    <3> QED
      BY <3>2
  <2>6. ASSUME NEW q \in Queries, Handler(q) \/ Crash(q) PROVE Down
    <3>1. Advances(q) /\ \A p \in Queries : p # q => turn'[p] = turn[p] /\ qpc'[p] = qpc[p]
      BY <1>1, <2>6, HandlerStep
    <3>2. \A x \in Readers : \/ x = q
                             \/ Fits(x)
                             \/ x = <<q, turn'[q]>> /\ turn'[q] = turn[q] + 1 /\ x \in Events
      BY <1>1, <2>6, HandlerReads
    <3>3. \A e \in Events : e # q /\ e \notin Queries
      BY ActorsDisjoint DEF Events
    <3>4. cpc' = cpc
      <4>1. CASE Crash(q)
        BY <4>1 DEF Crash, otherVars
      <4>2. CASE Handler(q)
        BY <4>2 DEF Handler, Validate, Acquire, CheckRunning, CreateRun, GetSandbox, Release,
           StartAgent, CheckedInterruption, FakeTurn, AgentStep, RunTools, AgentRaises,
           SaveHistory, FinalRead, FinalSame, FinalFlush, FinalCommit, otherVars
      <4> QED
        BY <2>6, <4>1, <4>2
    <3>5. ASSUME NEW e \in Events, e = <<q, turn'[q]>>, turn'[q] = turn[q] + 1 PROVE Begins(e)
      BY <1>1, <3>5 DEF TypeOK
    <3>6. ASSUME NEW p \in Queries PROVE Ahead(p)
      <4>1. CASE p = q
        BY <2>2, <3>1, <4>1
      <4>2. CASE p # q
        <5>1. Fits(p)
          BY <3>2, <3>3, <4>2, ReaderTypes
        <5> QED
          BY <2>2, <3>1, <4>2, <5>1
      <4> QED
        BY <4>1, <4>2
    <3> HIDE DEF Sooner, Fits, Begins, Closer, Ahead
    <3>7. ASSUME NEW e \in Events PROVE Heard(e)
      BY <2>4, <3>2, <3>3, <3>5, ReaderTypes
    <3> QED
      BY <2>3, <2>5, <3>4, <3>6, <3>7
  <2>7. ASSUME NEW x \in Readers, Reading(x) \/ (x \in Events /\ HandleMetrics(x)) PROVE Down
    <3>1. Sooner(x) /\ (\A y \in Readers : y # x => rd'[y] = rd[y]) /\ UNCHANGED <<qpc, turn, cpc>>
      BY <1>1, <2>7, ReaderStep
    <3>2. \A y \in Readers : Fits(y)
      <4> HIDE DEF Sooner, Fits
      <4> QED
        BY <2>0, <2>1, <3>1
    <3>3. \A q \in Queries : Same(q)
      BY <3>1, <3>2, ReaderTypes
    <3> HIDE DEF Sooner, Fits, Begins, Closer, Same
    <3> QED
      BY <2>2, <2>3, <2>4, <2>5, <3>1, <3>2, <3>3, ReaderTypes
  <2>8. ASSUME NEW c \in Cancels, CancelFind(c) \/ Canceller(c) PROVE Down
    <3>1. Closer(c) /\ (\A d \in Cancels : d # c => cpc'[d] = cpc[d]) /\ UNCHANGED <<qpc, turn, rd>>
      BY <1>1, <2>8, CancelStep
    <3>2. \A x \in Readers : Fits(x)
      <4> HIDE DEF Fits
      <4> QED
        BY <2>0, <3>1
    <3>3. \A q \in Queries : Same(q)
      BY <3>1, <3>2, ReaderTypes
    <3> HIDE DEF Sooner, Fits, Begins, Closer, Same
    <3> QED
      BY <2>2, <2>3, <2>4, <2>5, <3>1, <3>2, <3>3, ReaderTypes
  <2>9. CASE UNCHANGED <<qpc, turn, rd, cpc>>
    <3>2. \A x \in Readers : Fits(x)
      <4> HIDE DEF Fits
      <4> QED
        BY <2>0, <2>9
    <3>3. \A q \in Queries : Same(q)
      BY <2>9, <3>2, ReaderTypes
    <3> HIDE DEF Sooner, Fits, Begins, Closer, Same
    <3> QED
      BY <2>2, <2>3, <2>4, <2>5, <2>9, <3>2, <3>3, ReaderTypes
  <2>10. ASSUME NEW q \in Queries, LeaseExpires(q) \/ CacheDrop(q) \/ ReapSelect(q) \/ ReapCommit(q)
         PROVE  UNCHANGED <<qpc, turn, rd, cpc>>
    BY <2>10 DEF LeaseExpires, CacheDrop, ReapSelect, ReapCommit, queryVars, readVars, otherVars
  <2>11. UNCHANGED vars => UNCHANGED <<qpc, turn, rd, cpc>>
    BY DEF vars, queryVars, readVars, otherVars
  <2>12. Next \/ UNCHANGED vars
    BY <1>1
  <2> HIDE DEF Down
  <2> QED
    BY <2>6, <2>7, <2>8, <2>9, <2>10, <2>11, <2>12, ReaderTypes DEF Next
<1>2. TypeOK /\ [Next]_vars => [Down]_vars
  BY <1>1
<1>3. Spec => [][Down]_vars
  BY <1>2, TypeCorrect, PTL DEF Spec
<1>4. Down <=>
        /\ \A q \in Queries :
             /\ Handler(q) => Advances(q)
             /\ \/ Advances(q)
                \/ /\ turn'[q] = turn[q] /\ qpc'[q] = qpc[q]
                   /\ ReadsLeft(rd'[q].pc) <= ReadsLeft(rd[q].pc)
        /\ \A x \in Readers : Reading(x) => ReadsLeft(rd'[x].pc) < ReadsLeft(rd[x].pc)
        /\ \A e \in Events :
             /\ HandleMetrics(e) => ReadsLeft(rd'[e].pc) < ReadsLeft(rd[e].pc)
             /\ \/ ReadsLeft(rd'[e].pc) <= ReadsLeft(rd[e].pc)
                \/ turn[e[1]] < e[2] /\ turn'[e[1]] = e[2]
        /\ \A c \in Cancels :
             /\ Canceller(c) => cpc'[c] # cpc[c]
             /\ cpc'[c] = cpc[c] \/ CancelLeft(cpc'[c]) < CancelLeft(cpc[c])
  BY Zenon
<1>5. [][Down]_vars => HandlersCountDown
  BY <1>4, PTL DEF HandlersCountDown
<1> QED
  BY <1>3, <1>5
=============================================================================
