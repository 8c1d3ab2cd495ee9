------------------------------ MODULE AgentRun ------------------------------
(***************************************************************************)
(* The life of the agent runs of ONE session of the ii-agent server.       *)
(*                                                                         *)
(* A "query" command inserts a row of agent_run_tasks (status running)     *)
(* under the session lock, runs the agent outside of the lock and writes   *)
(* the run's final status.  A "cancel" command and the periodic clean-up   *)
(* job write the same row.  The agent, and the handler of every event that *)
(* carries a run id, read the status through the entity cache.             *)
(*                                                                         *)
(* Rows, lock key and cache key of two sessions are disjoint, so one       *)
(* session stands for all of them.  A step is what the code does between   *)
(* two awaits that another actor can observe.                              *)
(***************************************************************************)
EXTENDS Naturals, FiniteSets

CONSTANTS
  Queries,      \* query commands sent for the session: one handler call, and so one run, each
  Fresh,        \* those sent without "resume": they start the conversation anew
  Cancels,      \* cancel commands sent for the session
  Reaper,       \* the scheduled clean-up job
  NoOne,        \* no lock holder
  Turns,        \* bound: LLM turns of one run (the agent's max_turns)
  SharedLock,   \* TRUE: redis_session_enabled, one Redis lock; FALSE: an asyncio.Lock
  Faults,       \* what may go wrong: subset of FaultKinds
  ExpireAt      \* positions of a live handler at which the 60 s lease of the lock may run out

FaultKinds == {"sandbox", "init", "step", "save", "timeout", "drop", "crash"}

ASSUME ActorsDisjoint ==
  /\ Fresh \subseteq Queries
  /\ Queries \intersect Cancels = {}
  /\ Reaper \notin Queries \union Cancels
  /\ NoOne \notin Queries \union Cancels \union {Reaper}
  /\ \A q \in Queries : q \notin Queries \X Nat     \* a command is not an event
ASSUME TurnsPositive == Turns \in Nat \ {0}
ASSUME ModesOK == SharedLock \in BOOLEAN /\ Faults \subseteq FaultKinds

Writers == Queries \union Cancels \union {Reaper}
Events  == Queries \X (1 .. Turns)     \* the METRICS_UPDATE event of each turn of each run
Readers == Queries \union Events       \* who reads a run's status: its agent, its event handlers

Ended     == {"completed", "failed", "aborted", "system_interrupted"}
RunStatus == {"none", "running"} \union Ended

VARIABLES
  row,       \* committed rows of agent_run_tasks: status ("none": no row) and version
  rowLock,   \* writer whose open transaction holds the row
  seen,      \* version of the row a writer's transaction has loaded
  cache,     \* entity cache entry "agent_task:<id>": a status, "none" if absent
  lock,      \* holder of the Redis session lock
  qpc,       \* position of each query handler (its agent loop included)
  outcome,   \* status the handler is going to write
  turn,      \* LLM turns the agent has started
  rd,        \* status read in progress of each reader: position and value
  metrics,   \* fate of each METRICS_UPDATE event
  base,      \* runs in the history the agent of a query has restored
  saved,     \* runs in the history stored for the session
  cpc,       \* position of each cancel handler
  target,    \* run a cancel handler has found
  reaping    \* run whose row the clean-up job has selected

dbVars    == <<row, rowLock, seen>>
queryVars == <<qpc, outcome, turn, base, saved>>
readVars  == <<rd, metrics>>
otherVars == <<cpc, target, reaping>>
vars      == <<dbVars, cache, lock, queryVars, readVars, otherVars>>

QueryPc == {"start", "wait", "check", "insert", "sandbox", "unlock", "leave", "raise",
            "init", "turn", "step", "toolcheck", "tools", "fake", "save",
            "final_read", "final_same", "final_flush", "final_commit",
            "returned", "done", "error", "crashed"}
TurnAhead == {"start", "wait", "check", "insert", "sandbox", "unlock", "init", "turn", "step"}
Stopped == {"returned", "done", "error", "crashed"}   \* the handler has ended

BeforeRow == {"start", "wait", "check", "insert"}
WithRow   == {"sandbox", "unlock", "init", "turn", "step", "toolcheck", "tools", "fake", "save",
              "final_read", "final_same", "final_flush", "final_commit", "done"}

ReadState == [pc : {"idle", "get", "db", "set", "got"}, val : RunStatus]

TypeOK ==
  /\ row \in [Queries -> [status : RunStatus, version : Nat]]
  /\ rowLock \in [Queries -> Writers \union {NoOne}]
  /\ seen \in [Writers -> Nat]
  /\ cache \in [Queries -> RunStatus]
  /\ lock \in Queries \union {NoOne}
  /\ qpc \in [Queries -> QueryPc]
  /\ outcome \in [Queries -> {"none"} \union Ended]
  /\ turn \in [Queries -> 0 .. Turns]
  /\ \A q \in Queries : qpc[q] \in TurnAhead => turn[q] < Turns
  /\ rd \in [Readers -> ReadState]
  /\ metrics \in [Events -> {"none", "published", "charged", "dropped", "lost"}]
  /\ base \in [Queries -> SUBSET Queries]
  /\ saved \in SUBSET Queries
  /\ cpc \in [Cancels -> {"idle", "flush", "commit", "evict", "done", "notfound",
                          "conflict", "error"}]
  /\ target \in [Cancels -> Queries \union {NoOne}]
  /\ reaping \in Queries \union {NoOne}

NoRead == [pc |-> "idle", val |-> "none"]
Read   == [pc |-> "get", val |-> "none"]

Init ==
  /\ row = [q \in Queries |-> [status |-> "none", version |-> 0]]
  /\ rowLock = [q \in Queries |-> NoOne]
  /\ seen = [w \in Writers |-> 0]
  /\ cache = [q \in Queries |-> "none"]
  /\ lock = NoOne
  /\ qpc = [q \in Queries |-> "start"]
  /\ outcome = [q \in Queries |-> "none"]
  /\ turn = [q \in Queries |-> 0]
  /\ rd = [x \in Readers |-> NoRead]
  /\ metrics = [e \in Events |-> "none"]
  /\ base = [q \in Queries |-> {}]
  /\ saved = {}
  /\ cpc = [c \in Cancels |-> "idle"]
  /\ target = [c \in Cancels |-> NoOne]
  /\ reaping = NoOne

Running == {q \in Queries : row[q].status = "running"}

-----------------------------------------------------------------------------
(* AgentRunService.get_task_by_id: read the cache, on a miss read the row  *)
(* and fill the cache.  Three awaits, so three steps.                      *)

RunOf(x) == IF x \in Queries THEN x ELSE x[1]

CacheGet(x) ==
  LET hit == cache[RunOf(x)] # "none" IN
  /\ rd[x].pc = "get"
  /\ rd' = [rd EXCEPT ![x] = [pc |-> IF hit THEN "got" ELSE "db",
                              val |-> cache[RunOf(x)]]]
  /\ UNCHANGED <<dbVars, cache, lock, queryVars, metrics, otherVars>>

DbGet(x) ==
  /\ rd[x].pc = "db"
  /\ rd' = [rd EXCEPT ![x] = [pc |-> "set", val |-> row[RunOf(x)].status]]
  /\ UNCHANGED <<dbVars, cache, lock, queryVars, metrics, otherVars>>

CacheSet(x) ==
  /\ rd[x].pc = "set"
  /\ cache' = [cache EXCEPT ![RunOf(x)] = rd[x].val]
  /\ rd' = [rd EXCEPT ![x].pc = "got"]
  /\ UNCHANGED <<dbVars, lock, queryVars, metrics, otherVars>>

\* A Redis entry lives 3600 s; the memory cache drops its oldest entry when full.
CacheDrop(t) ==
  /\ "drop" \in Faults
  /\ cache[t] # "none"
  /\ cache' = [cache EXCEPT ![t] = "none"]
  /\ UNCHANGED <<dbVars, lock, queryVars, readVars, otherVars>>

\* EventSubscriber.should_handle, then MetricsSubscriber.handle_event.
HandleMetrics(e) ==
  /\ rd[e].pc = "got"
  /\ rd' = [rd EXCEPT ![e] = NoRead]
  /\ metrics' = [metrics EXCEPT ![e] = IF rd[e].val = "running" THEN "charged"
                                                                ELSE "dropped"]
  /\ UNCHANGED <<dbVars, cache, lock, queryVars, otherVars>>

-----------------------------------------------------------------------------
(* UserQueryHandler.handle, up to the release of the session lock.         *)

Goto(q, pc) == qpc' = [qpc EXCEPT ![q] = pc]

\* update_session_name_and_validation; refused: no session, or not enough credits.
Validate(q) ==
  /\ qpc[q] = "start"
  /\ Goto(q, "wait") \/ Goto(q, "returned")
  /\ UNCHANGED <<dbVars, cache, lock, outcome, turn, base, saved, readVars, otherVars>>

\* Mutant: the handler does not wait for the session lock.
AcquireBusy(q) ==
  /\ qpc[q] = "wait"
  /\ lock' = IF SharedLock THEN q ELSE lock
  /\ Goto(q, "check")
  /\ UNCHANGED <<dbVars, cache, outcome, turn, base, saved, readVars, otherVars>>

\* Without Redis, get_lock returns a new asyncio.Lock: nobody else can hold it.
Acquire(q) ==
  /\ qpc[q] = "wait"
  /\ SharedLock => lock = NoOne
  /\ lock' = IF SharedLock THEN q ELSE lock
  /\ Goto(q, "check")
  /\ UNCHANGED <<dbVars, cache, outcome, turn, base, saved, readVars, otherVars>>

\* get_running_task ends in scalar_one_or_none, which raises on two rows.
CheckRunning(q) ==
  /\ qpc[q] = "check"
  /\ \/ Running = {} /\ Goto(q, "insert")
     \/ Cardinality(Running) = 1 /\ Goto(q, "leave")
     \/ Cardinality(Running) > 1 /\ Goto(q, "raise")
  /\ UNCHANGED <<dbVars, cache, lock, outcome, turn, base, saved, readVars, otherVars>>

CreateRun(q) ==
  /\ qpc[q] = "insert"
  /\ row' = [row EXCEPT ![q] = [status |-> "running", version |-> 1]]
  /\ Goto(q, "sandbox")
  /\ UNCHANGED <<rowLock, seen, cache, lock, outcome, turn, base, saved, readVars, otherVars>>

\* sandbox_service.get_sandbox_by_session, still under the lock.
GetSandbox(q) ==
  /\ qpc[q] = "sandbox"
  /\ \/ Goto(q, "unlock")
     \/ "sandbox" \in Faults /\ Goto(q, "raise")
  /\ UNCHANGED <<dbVars, cache, lock, outcome, turn, base, saved, readVars, otherVars>>

\* Mutant: acquire and release without "async with": an exception keeps the lock.
ReleaseUnlessRaised(q) ==
  LET owned == ~SharedLock \/ lock = q IN
  /\ qpc[q] \in {"unlock", "leave", "raise"}
  /\ lock' = IF lock = q /\ qpc[q] # "raise" THEN NoOne ELSE lock
  /\ Goto(q, CASE ~owned \/ qpc[q] = "raise" -> "error"
               [] owned /\ qpc[q] = "leave"  -> "returned"
               [] owned /\ qpc[q] = "unlock" -> "init")
  /\ UNCHANGED <<dbVars, cache, outcome, turn, base, saved, readVars, otherVars>>

\* Leaving "async with lock": releasing a lease that ran out raises.
Release(q) ==
  LET owned == ~SharedLock \/ lock = q IN
  /\ qpc[q] \in {"unlock", "leave", "raise"}
  /\ lock' = IF lock = q THEN NoOne ELSE lock
  /\ Goto(q, CASE ~owned \/ qpc[q] = "raise" -> "error"
               [] owned /\ qpc[q] = "leave"  -> "returned"
               [] owned /\ qpc[q] = "unlock" -> "init")
  /\ UNCHANGED <<dbVars, cache, outcome, turn, base, saved, readVars, otherVars>>

\* The lease of the Redis lock runs out: of a slow handler, or of one that died.
LeaseExpires(q) ==
  /\ lock = q
  /\ qpc[q] \in ExpireAt \union {"crashed"}
  /\ lock' = NoOne
  /\ UNCHANGED <<dbVars, cache, queryVars, readVars, otherVars>>

-----------------------------------------------------------------------------
(* UserQueryHandler._process_query and AgentController.run_impl.           *)

\* End of run_impl (or of _process_query's try block, for "failed").
Conclude(q, s, pc) ==
  /\ outcome' = [outcome EXCEPT ![q] = s]
  /\ Goto(q, pc)
  /\ rd' = [rd EXCEPT ![q] = NoRead]

\* Mutant: one turn too many.
LoopHeadExtraTurn(q, done) ==
  IF done <= Turns
  THEN /\ Goto(q, "turn")
       /\ rd' = [rd EXCEPT ![q] = Read]
       /\ UNCHANGED outcome
  ELSE Conclude(q, "completed", "save")

\* Head of the loop: another turn, whose first act is is_interrupted(), or none left.
LoopHead(q, done) ==
  IF done < Turns
  THEN /\ Goto(q, "turn")
       /\ rd' = [rd EXCEPT ![q] = Read]
       /\ UNCHANGED outcome
  ELSE Conclude(q, "completed", "save")

\* Upload the files, restore the history (and clear it unless the query resumes) and
\* enter the loop; errors mean FAILED.
StartAgent(q) ==
  /\ qpc[q] = "init"
  /\ \/ /\ base' = [base EXCEPT ![q] = IF q \in Fresh THEN {} ELSE saved]
        /\ LoopHead(q, 0)
     \/ /\ "init" \in Faults
        /\ Conclude(q, "failed", "final_read")
        /\ UNCHANGED base
  /\ UNCHANGED <<dbVars, cache, lock, turn, saved, metrics, otherVars>>

\* is_interrupted() has answered; only "aborted" counts.  An interrupted run adds
\* a fake assistant turn, which asks is_interrupted() once more.
Interrupted(q) == rd[q].val = "aborted"

CheckedInterruption(q) ==
  /\ qpc[q] \in {"turn", "toolcheck"}
  /\ rd[q].pc = "got"
  /\ IF Interrupted(q)
     THEN /\ Goto(q, "fake")
          /\ outcome' = [outcome EXCEPT ![q] = "aborted"]
          /\ rd' = [rd EXCEPT ![q] = Read]
     ELSE /\ Goto(q, IF qpc[q] = "turn" THEN "step" ELSE "tools")
          /\ rd' = [rd EXCEPT ![q] = NoRead]
          /\ UNCHANGED outcome
  /\ UNCHANGED <<dbVars, cache, lock, turn, base, saved, metrics, otherVars>>

FakeTurn(q) ==
  /\ qpc[q] = "fake"
  /\ rd[q].pc = "got"
  /\ Conclude(q, outcome[q], "save")
  /\ UNCHANGED <<dbVars, cache, lock, turn, base, saved, metrics, otherVars>>

\* One LLM call.  Its METRICS_UPDATE event is handled by a task of its own.  The
\* answer holds no tool call (done, or dropped and retried) or some.
AgentStep(q) ==
  LET n == turn[q] + 1
      e == <<q, n>>
  IN
  /\ qpc[q] = "step"
  /\ turn' = [turn EXCEPT ![q] = n]
  /\ metrics' = [metrics EXCEPT ![e] = "published"]
  /\ \E pc \in {"save", "toolcheck"} \union (IF n < Turns THEN {"turn"} ELSE {}) :
       /\ Goto(q, pc)
       /\ outcome' = IF pc = "save" THEN [outcome EXCEPT ![q] = "completed"] ELSE outcome
       /\ rd' = [rd EXCEPT ![e] = Read, ![q] = IF pc = "save" THEN NoRead ELSE Read]
  /\ UNCHANGED <<dbVars, cache, lock, base, saved, otherVars>>

\* run_tools_batch: next turn, or a message to the user that completes the run.
RunTools(q) ==
  /\ qpc[q] = "tools"
  /\ \/ LoopHead(q, turn[q])
     \/ Conclude(q, "completed", "save")
  /\ UNCHANGED <<dbVars, cache, lock, turn, base, saved, metrics, otherVars>>

\* ChatSessionContext.arun turns an exception of the agent into an error event and
\* an error result, which is not "interrupted": the run counts as completed.
AgentRaises(q) ==
  /\ "step" \in Faults
  /\ qpc[q] \in {"turn", "step", "toolcheck", "tools", "fake"}
  /\ Conclude(q, "completed", "save")
  /\ UNCHANGED <<dbVars, cache, lock, turn, base, saved, metrics, otherVars>>

\* save_to_session, in arun's finally block.
SaveHistory(q) ==
  /\ qpc[q] = "save"
  /\ \/ /\ saved' = base[q] \union {q}
        /\ UNCHANGED outcome
     \/ /\ "save" \in Faults
        /\ outcome' = [outcome EXCEPT ![q] = "failed"]
        /\ UNCHANGED saved
  /\ Goto(q, "final_read")
  /\ UNCHANGED <<dbVars, cache, lock, turn, base, readVars, otherVars>>

-----------------------------------------------------------------------------
(* AgentRunService.update_task_status.  Readers take no row lock, so the   *)
(* flush and the evict that follows it are one step; the commit is not.    *)

\* Mutant: the new status is put into the cache instead of evicting the entry.
FlushAndStore(w, t) ==
  /\ rowLock[t] = NoOne
  /\ row[t].version = seen[w]
  /\ rowLock' = [rowLock EXCEPT ![t] = w]
  /\ cache' = [cache EXCEPT ![t] = IF w \in Queries THEN outcome[w] ELSE "aborted"]
  /\ UNCHANGED <<row, seen>>

\* UPDATE ... WHERE version = <the version loaded>: waits for the row, fails if it moved.
FlushAndEvict(w, t) ==
  /\ rowLock[t] = NoOne
  /\ row[t].version = seen[w]
  /\ rowLock' = [rowLock EXCEPT ![t] = w]
  /\ cache' = [cache EXCEPT ![t] = "none"]
  /\ UNCHANGED <<row, seen>>

StaleRow(w, t) == rowLock[t] = NoOne /\ row[t].version # seen[w]

CommitRow(w, t, s) ==
  /\ rowLock[t] = w
  /\ row' = [row EXCEPT ![t] = [status |-> s, version |-> row[t].version + 1]]
  /\ rowLock' = [rowLock EXCEPT ![t] = NoOne]
  /\ UNCHANGED seen

\* End of _process_query.  Writing the status the row already has is no UPDATE.
FinalRead(q) ==
  /\ qpc[q] = "final_read"
  /\ seen' = [seen EXCEPT ![q] = row[q].version]
  /\ Goto(q, IF row[q].status = outcome[q] THEN "final_same" ELSE "final_flush")
  /\ UNCHANGED <<row, rowLock, cache, lock, outcome, turn, base, saved, readVars, otherVars>>

FinalSame(q) ==
  /\ qpc[q] = "final_same"
  /\ cache' = [cache EXCEPT ![q] = "none"]
  /\ Goto(q, "done")
  /\ UNCHANGED <<dbVars, lock, outcome, turn, base, saved, readVars, otherVars>>

FinalFlush(q) ==
  /\ qpc[q] = "final_flush"
  /\ \/ FlushAndEvict(q, q) /\ Goto(q, "final_commit")
     \/ StaleRow(q, q) /\ Goto(q, "error") /\ UNCHANGED <<dbVars, cache>>
  /\ UNCHANGED <<lock, outcome, turn, base, saved, readVars, otherVars>>

FinalCommit(q) ==
  /\ qpc[q] = "final_commit"
  /\ CommitRow(q, q, outcome[q])
  /\ Goto(q, "done")
  /\ UNCHANGED <<cache, lock, outcome, turn, base, saved, readVars, otherVars>>

-----------------------------------------------------------------------------
(* CancelHandler.handle: the row keeps the version of its first select.    *)

GotoC(c, pc) == cpc' = [cpc EXCEPT ![c] = pc]

CancelFind(c) ==
  /\ cpc[c] = "idle"
  /\ \/ /\ Running = {}
        /\ GotoC(c, "notfound")
        /\ UNCHANGED <<target, seen>>
     \/ \E t \in Running :
          /\ Cardinality(Running) = 1
          /\ GotoC(c, "flush")
          /\ target' = [target EXCEPT ![c] = t]
          /\ seen' = [seen EXCEPT ![c] = row[t].version]
     \/ /\ Cardinality(Running) > 1
        /\ GotoC(c, "error")
        /\ UNCHANGED <<target, seen>>
  /\ UNCHANGED <<row, rowLock, cache, lock, queryVars, readVars, reaping>>

\* Mutant: the cancel's commit is forgotten, its session closes and rolls back.
CancelFlushRolledBack(c) ==
  /\ cpc[c] = "flush"
  /\ rowLock[target[c]] = NoOne
  /\ cache' = [cache EXCEPT ![target[c]] = "none"]
  /\ GotoC(c, "evict")
  /\ UNCHANGED <<dbVars, lock, queryVars, readVars, target, reaping>>

CancelFlush(c) ==
  /\ cpc[c] = "flush"
  /\ \/ FlushAndEvict(c, target[c]) /\ GotoC(c, "commit")
     \/ StaleRow(c, target[c]) /\ GotoC(c, "conflict") /\ UNCHANGED <<dbVars, cache>>
  /\ UNCHANGED <<lock, queryVars, readVars, target, reaping>>

CancelCommit(c) ==
  /\ cpc[c] = "commit"
  /\ CommitRow(c, target[c], "aborted")
  /\ GotoC(c, "evict")
  /\ UNCHANGED <<cache, lock, queryVars, readVars, target, reaping>>

\* The second evict, and the CANCELLED status sent to the user.
CancelEvict(c) ==
  /\ cpc[c] = "evict"
  /\ cache' = [cache EXCEPT ![target[c]] = "none"]
  /\ GotoC(c, "done")
  /\ UNCHANGED <<dbVars, lock, queryVars, readVars, target, reaping>>

-----------------------------------------------------------------------------
(* cleanup_long_running_tasks: SELECT ... FOR UPDATE SKIP LOCKED of the    *)
(* rows that have been running for 45 minutes, then one commit.  It leaves *)
(* the cache alone.  Bound: a batch is one row.                            *)

\* Mutants: the select forgets the status; the batch is not committed.
ReapSelectAnyStatus(t) ==
  /\ "timeout" \in Faults
  /\ reaping = NoOne
  /\ row[t].status # "none"
  /\ rowLock[t] = NoOne
  /\ rowLock' = [rowLock EXCEPT ![t] = Reaper]
  /\ seen' = [seen EXCEPT ![Reaper] = row[t].version]
  /\ reaping' = t
  /\ UNCHANGED <<row, cache, lock, queryVars, readVars, cpc, target>>

ReapRolledBack(t) ==
  /\ reaping = t
  /\ rowLock' = [rowLock EXCEPT ![t] = NoOne]
  /\ reaping' = NoOne
  /\ UNCHANGED <<row, seen, cache, lock, queryVars, readVars, cpc, target>>

ReapSelect(t) ==
  /\ "timeout" \in Faults
  /\ reaping = NoOne
  /\ row[t].status = "running"
  /\ rowLock[t] = NoOne
  /\ rowLock' = [rowLock EXCEPT ![t] = Reaper]
  /\ seen' = [seen EXCEPT ![Reaper] = row[t].version]
  /\ reaping' = t
  /\ UNCHANGED <<row, cache, lock, queryVars, readVars, cpc, target>>

ReapCommit(t) ==
  /\ reaping = t
  /\ CommitRow(Reaper, t, "system_interrupted")
  /\ reaping' = NoOne
  /\ UNCHANGED <<cache, lock, queryVars, readVars, cpc, target>>

-----------------------------------------------------------------------------
\* The worker process running a handler dies: its transaction is rolled back, its
\* event handlers die with it, its Redis lock stays until the lease runs out.
Crash(q) ==
  /\ "crash" \in Faults
  /\ qpc[q] \notin Stopped \union {"start"}
  /\ Goto(q, "crashed")
  /\ rowLock' = [t \in Queries |-> IF rowLock[t] = q THEN NoOne ELSE rowLock[t]]
  /\ rd' = [x \in Readers |-> IF RunOf(x) = q THEN NoRead ELSE rd[x]]
  /\ metrics' = [e \in Events |-> IF e[1] = q /\ metrics[e] = "published"
                                  THEN "lost" ELSE metrics[e]]
  /\ UNCHANGED <<row, seen, cache, lock, outcome, turn, base, saved, otherVars>>

Handler(q) ==
  \/ Validate(q) \/ Acquire(q) \/ CheckRunning(q) \/ CreateRun(q) \/ GetSandbox(q) \/ Release(q)
  \/ StartAgent(q) \/ CheckedInterruption(q) \/ FakeTurn(q) \/ AgentStep(q) \/ RunTools(q)
  \/ AgentRaises(q) \/ SaveHistory(q)
  \/ FinalRead(q) \/ FinalSame(q) \/ FinalFlush(q) \/ FinalCommit(q)

Reading(x)   == CacheGet(x) \/ DbGet(x) \/ CacheSet(x)
Canceller(c) == CancelFlush(c) \/ CancelCommit(c) \/ CancelEvict(c)

Next ==
  \/ \E q \in Queries : Handler(q) \/ LeaseExpires(q) \/ Crash(q)
  \/ \E x \in Readers : Reading(x)
  \/ \E e \in Events : HandleMetrics(e)
  \/ \E t \in Queries : CacheDrop(t) \/ ReapSelect(t) \/ ReapCommit(t)
  \/ \E c \in Cancels : CancelFind(c) \/ Canceller(c)

Spec == Init /\ [][Next]_vars

\* The event loop, Redis and the scheduler keep running; users, faults and cache
\* evictions are never forced.
Fairness ==
  /\ \A q \in Queries : WF_vars(Handler(q)) /\ WF_vars(LeaseExpires(q) /\ qpc[q] = "crashed")
  /\ \A x \in Readers : WF_vars(Reading(x))
  /\ \A e \in Events : WF_vars(HandleMetrics(e))
  /\ \A c \in Cancels : WF_vars(Canceller(c))
  /\ \A t \in Queries : WF_vars(ReapSelect(t)) /\ WF_vars(ReapCommit(t))

FairSpec == Spec /\ Fairness

-----------------------------------------------------------------------------
(* Properties.                                                             *)

\* The session lock and the look-up under it keep two runs of a session from being
\* in the table as running (UserQueryHandler.handle: "Check for running task").
AtMostOneRunning == Cardinality(Running) <= 1

\* The cache never tells of an end that the table does not hold yet: every status
\* update evicts the entry before its commit and never stores the new status.
CacheNeverAhead ==
  \A t \in Queries : cache[t] \in Ended => row[t].status \in Ended

\* A usage event is only ever dropped, uncharged, when its run has ended: although the
\* handlers of events read without a lock, through a cache that three writers evict
\* before they commit, none is told of an end that is not committed
\* (agent_run_service.py:76-137, subscriber.py:26-40).
DropOnlyAfterEnd ==
  \A e \in Events : metrics[e] = "dropped" => row[e[1]].status \in Ended

\* "Task status was updated. Please try again." and CANCELLED are both sent only
\* when the run has really left the running state.
AnswerToCancelIsTrue ==
  \A c \in Cancels :
    cpc[c] \in {"conflict", "evict", "done"} => row[target[c]].status \in Ended

\* A transaction only replaces the version of the row it has read (version_id_col):
\* no committed verdict is lost between a writer's select and its commit.
NoBlindWrite ==
  [][\A t \in Queries :
       row[t].status # "none" /\ row'[t] # row[t] =>
         /\ rowLock[t] # NoOne
         /\ seen[rowLock[t]] = row[t].version
         /\ row'[t].version = row[t].version + 1]_row

\* The run is aborted, and no later is_interrupted() can be told otherwise.
Pending(t, s) == \E x \in Readers : RunOf(x) = t /\ rd[x].pc = "set" /\ rd[x].val = s
AbortVisible(t) ==
  /\ row[t].status = "aborted"
  /\ cache[t] # "running"
  /\ ~Pending(t, "running")

\* A visible cancellation stays visible until the run's own handler writes its
\* verdict, and a check of the agent that finds it visible reports it.
CancelIsHonoured ==
  [][\A q \in Queries :
       AbortVisible(q) =>
         /\ AbortVisible(q)' \/ qpc[q] = "final_commit"
         /\ rd[q].pc \in {"get", "db"} /\ rd'[q].pc \in {"set", "got"}
               => rd'[q].val = "aborted"]_vars

\* The session lock is with a handler in the part it protects, where no step waits for a lock, or with a dead
\* one, whose lease runs out.
LockHeld == lock # NoOne => qpc[lock] \in {"check", "insert", "sandbox", "unlock", "leave", "raise", "crashed"}

\* Nobody is waited for who waits himself: a row is with a writer whose next step is its commit
\* (lock.py:15-37, agent_run_service.py:121-137, cron/tasks.py:20-102).
NobodyWaitsInACircle ==
  /\ LockHeld
  /\ \A t \in Queries :
       LET w == rowLock[t] IN
       \/ w = NoOne
       \/ w \in Queries /\ w = t /\ qpc[w] = "final_commit"
       \/ w \in Cancels /\ target[w] = t /\ cpc[w] = "commit"
       \/ w = Reaper /\ reaping = t

\* How far a place of a query handler, of a status check and of a cancel is from its end.
StepsLeft(place) ==
  [start |-> 17, wait |-> 16, check |-> 15, insert |-> 14, sandbox |-> 13, unlock |-> 12, leave |-> 12, raise |-> 12,
   init |-> 11, toolcheck |-> 10, tools |-> 9, turn |-> 8, step |-> 7, fake |-> 6, save |-> 5,
   final_read |-> 4, final_flush |-> 3, final_same |-> 3, final_commit |-> 2,
   returned |-> 0, done |-> 0, error |-> 0, crashed |-> 0][place]
ReadsLeft(place)   == [get |-> 4, db |-> 3, set |-> 2, got |-> 1, idle |-> 0][place]
CancelLeft(place)  == [idle |-> 4, flush |-> 3, commit |-> 2, evict |-> 1,
                       done |-> 0, notfound |-> 0, conflict |-> 0, error |-> 0][place]

\* A turn is used up, or the handler comes closer to its end.
Advances(q) == turn'[q] > turn[q] \/ (turn'[q] = turn[q] /\ StepsLeft(qpc'[q]) < StepsLeft(qpc[q]))

\* No handler, status check or cancel goes round in a circle, whatever the others do and whatever fails: each of
\* their steps uses up a turn or brings them closer to their end, nobody else takes them back, and a status is
\* looked up once for each event and each check (query_handler.py:236-313, agent_controller.py:127-365).
HandlersCountDown ==
  [][/\ \A q \in Queries :
          /\ Handler(q) => Advances(q)
          /\ \/ Advances(q)
             \/ /\ turn'[q] = turn[q] /\ qpc'[q] = qpc[q]
                /\ ReadsLeft(rd'[q].pc) <= ReadsLeft(rd[q].pc)
     /\ \A x \in Readers : Reading(x) => ReadsLeft(rd'[x].pc) < ReadsLeft(rd[x].pc)
     /\ \A e \in Events :
          /\ HandleMetrics(e) => ReadsLeft(rd'[e].pc) < ReadsLeft(rd[e].pc)
          /\ \/ ReadsLeft(rd'[e].pc) <= ReadsLeft(rd[e].pc)
             \/ turn[e[1]] < e[2] /\ turn'[e[1]] = e[2]
     /\ \A c \in Cancels :
          /\ Canceller(c) => cpc'[c] # cpc[c]
          /\ cpc'[c] = cpc[c] \/ CancelLeft(cpc'[c]) < CancelLeft(cpc[c])]_vars

\* Whatever fails (sandbox, agent, lease, worker), a running row ends: the handler,
\* a cancel or the clean-up job writes a verdict, so the session is usable again.
EveryRunEnds ==
  \A q \in Queries : row[q].status = "running" ~> row[q].status \in Ended

\* Every query command gets an end: no handler waits for the session lock for ever.
EveryQueryEnds == \A q \in Queries : <>(qpc[q] \in Stopped)

\* The table implements a slot that one run occupies.
Slot == INSTANCE RunSlot WITH Runs <- Queries, status <- [q \in Queries |-> row[q].status]
SlotSpec == Slot!Spec

-----------------------------------------------------------------------------
(* The inductive invariants the proofs rest on.                            *)

\* The lease of the session lock outlives the look-up and the insert it protects.
LeaseCoversLookup == SharedLock /\ ExpireAt \intersect {"check", "insert"} = {}

\* Between look-up and insert the handler owns the lock, so the look-up stays true.
SlotInv ==
  /\ \A q \in Queries : qpc[q] \in {"check", "insert"} => lock = q
  /\ \A q \in Queries : qpc[q] = "insert" => Running = {}
  /\ \A a, b \in Running : a = b

\* A row exists from the insert on; only its handler writes completed or failed, and ends.
RowInv ==
  /\ \A q \in Queries : qpc[q] \in BeforeRow => row[q].status = "none"
  /\ \A q \in Queries : qpc[q] \in WithRow => row[q].status # "none"
  /\ \A q \in Queries : row[q].status \in {"completed", "failed"} => qpc[q] = "done"

\* Somebody, or the cache, has been told that the run has ended that way.
Known(q, s) == cache[q] = s \/ \E x \in Readers : RunOf(x) = q /\ rd[x].val = s

\* An end that is known is in the table, unless the run's handler has overruled it.
ReadInv ==
  /\ \A x \in Readers : rd[x].pc # "idle" => row[RunOf(x)].status # "none"
  /\ \A x \in Readers : rd[x].pc \in {"set", "got"} => rd[x].val # "none"
  /\ \A q \in Queries, s \in Ended :
       Known(q, s) => row[q].status \in {s, "completed", "failed"}
  /\ DropOnlyAfterEnd

\* An agent stopped by an abort finds "aborted" in its row when it ends.
AbortInv ==
  /\ \A q \in Queries :
       outcome[q] = "aborted" => row[q].status \in {"aborted", "completed", "failed"}
  /\ \A q \in Queries : qpc[q] = "fake" => outcome[q] = "aborted"
  /\ \A q \in Queries :
       qpc[q] \in {"save", "final_read"} => outcome[q] \in {"completed", "failed", "aborted"}
  /\ \A q \in Queries :
       qpc[q] \in {"final_flush", "final_commit"} => outcome[q] \in {"completed", "failed"}

\* Who holds a row is about to commit the version it has read.
HolderInv ==
  \A t \in Queries :
    LET w == rowLock[t] IN
    /\ w \in Queries => w = t /\ qpc[t] = "final_commit"
    /\ w \in Cancels => cpc[w] = "commit" /\ target[w] = t /\ row[t].status = "running"
    /\ w = Reaper => reaping = t /\ row[t].status = "running"
    /\ w # NoOne => seen[w] = row[t].version

\* A cancel's run is still running at the version the cancel has read, or has ended.
CancelInv ==
  \A c \in Cancels :
    LET t == target[c] IN
    cpc[c] \in {"flush", "commit", "evict", "done", "conflict"} =>
      /\ t \in Queries
      /\ row[t].status # "none"
      /\ cpc[c] = "flush" =>
           \/ seen[c] = row[t].version /\ row[t].status = "running"
           \/ seen[c] < row[t].version /\ row[t].status \in Ended
      /\ cpc[c] \in {"evict", "done", "conflict"} => row[t].status \in Ended

RunInv == RowInv /\ ReadInv /\ AbortInv /\ HolderInv /\ CancelInv
=============================================================================
