# ii-agent: TLA+ models, model checking and proofs

ii-agent is an agent platform: a FastAPI / Socket.IO server (`src/ii_agent`) that runs LLM agents
on behalf of user sessions, a sandbox server (`src/ii_sandbox_server`) that creates and expires the
containers the agents work in, the tools that run inside a sandbox (`src/ii_tool`), and a web client
(`frontend`).  This directory holds TLA+ models of the parts of it where order, failure and
concurrency decide correctness, the TLC configurations that check them, and machine-checked proofs.
Paths below are relative to the repository root.

## 1. Inventory

| Component | State | Operations | What is hard |
|---|---|---|---|
| **Agent runs** `server/socket/command/{query,cancel}_handler.py`, `server/services/agent_run_service.py`, `db/agent.py`, `core/lock.py`, `core/cache.py`, `cron/tasks.py`, `controller/agent_controller.py`, `server/socket/chat_session.py` | `agent_run_tasks` rows (status, version), entity cache, session lock, stored history | query, cancel, clean-up, status checks of the agent and of event handlers | two commands of one session, lease of the lock, cache filled with an old status, three writers of one row, worker crash, agent that outlives its run |
| **Agent turn and history** `controller/{agent_controller,state,tool_manager}.py` | message list of the dialogue | user prompt, assistant turn, tool batch, interruption repair, truncation | every tool call needs exactly one result, also after interruption or an unknown tool |
| **Event stream** `core/event_stream.py`, `core/event_hooks.py`, `core/pubsub.py`, `subscribers/*` | subscribers, hooks, one task per delivery | publish, subscribe, hooks that transform or emit | delivery order, events of a run that has ended, usage metering |
| **Socket sessions** `server/socket/socketio.py`, `session_store.py` | sid per session, rooms, session contexts | connect, join, leave, disconnect, expiry | membership kept in two stores that change in separate awaits |
| **Chat service** `server/chat/*` | chat runs and messages, provider files | stream, stop, tool loop | client disconnect, stop racing completion |
| **Credits and billing** `server/credits/service.py`, `server/services/billing_service.py`, `scripts/refresh_*` | credits and bonus credits, session metrics, subscription | deduct, webhook, periodic refresh | replayed webhooks, partial failure between metering and deduction |
| **Port pool** `ii_sandbox_server/sandboxes/{port_manager,docker}.py` | allocated ports, allocation per container, containers | create, connect, resume, pause, delete, clean-up, restart scan | bookkeeping in memory, truth in Docker, both change independently |
| **Sandbox life cycle** `ii_sandbox_server/lifecycle/*`, `main.py` | sandbox rows, time-out queue (zset + hash), containers | create, connect, pause, resume, delete, schedule, expire, orphan removal | message raced by a reschedule, swallowed errors, restart |
| **LLM context managers** `llm/context_manager/*` | none | truncate, summarise | bounds and pairing after truncation |
| **Sandbox tools** `src/ii_tool` | terminal sessions, files | run, write, kill, patch, ... | terminal busy state, patch application |
| REST API, auth, settings, storage, wishlist, prompts, LLM clients, web client, deployment | rows or nothing | request-scoped | no protocol across requests: left out |

How they interact.  A socket command is handled by a task of its own; a query handler keeps the
session's Redis (or asyncio) lock only while it looks for a running row, inserts its own and gets the
sandbox, then runs the agent unlocked.  The agent publishes events on the session's stream; each
subscriber handles each event in a task of its own and asks `AgentRunService` for the run's status
first.  A cancel command, the clean-up job and the handler's last step update the same row.  The agent
reaches its tools through the sandbox server, which keeps containers, ports and time-outs.

What makes each part correct:

* *Agent runs*: one running row per session; every row ends; a verdict is never lost, and what cache, agent
  and user are told of it is true; a query that resumes keeps the stored history.
* *Agent turn*: in the history every tool call has exactly one result, in the next user turn, at every point
  where it is saved or sent to the LLM, also after interruption, denial, an unknown tool or truncation.
* *Event stream*: an event of a running run is in the history unless its own handler fails, nothing precedes the message
  it answers, and a status reaches the user though its run is over.
* *Socket sessions*: rooms and store agree once nobody is connecting; a session with a client is not expired.
* *Chat service*: a stream that is told to stop ends promptly; what the LLM is sent is answered; an answer that was
  paid for stays in the history.
* *Credits*: however often Stripe delivers an event, the balance stays between zero and what the plan grants, the
  yearly refresh comes once a month, and the row ends at the plan of the subscription or of its checkout.
* *Port pool*: no port is offered that is bound; every allocated port has an owner or is reclaimed.
* *Sandbox life cycle*: a running sandbox will be paused when idle, a paused one is resumed when used, a deleted
  one is gone; the row tells which.
* *Context managers, patches*: bounds on the size of the result, no orphaned results, hunks applied once each.

The hazards, each at its line and with the properties that cover it, are listed in `PROJECT.json`.

## 2. Plan

1. **AgentRun** (with the abstract **RunSlot**): life of the runs of a session. *Done, proved.*
2. **PortPool** (with the abstract **PortLease**): ports of the local sandbox server against
   containers and restarts. *Done, proved.*
3. **SandboxLifecycle**: one sandbox of the remote provider, its row and its time-out messages.
   *Done, proved.*
4. **AgentTurn**: the loop of an agent and its dialogue history over several runs, with the LLM context manager
   and the sub-agents. *Done, proved.*
5. **ChatRun**: the streams of the chat mode, stop, disconnect, deletion. *Done, proved.*
6. **Billing**: Stripe's events, the refresh jobs and deductions of one user. *Done, proved.*
7. **EventStream**: publication, hooks and subscribers of one run's events. *Done, proved.*
8. Socket sessions, terminal sessions, file patches: left out, see section 12.

Of each, the safety properties are proved and the liveness properties model-checked (sections 10 and 11).  AgentTurn and
ChatRun share **Subsequences**, whose `Pick` keeps the elements of a list at given positions: what a list
comprehension with a condition does.  For the rest each module stands for itself: what one takes from another (the status of a run from AgentRun in EventStream and
ChatRun, the history that AgentTurn saves and AgentRun stores) is a step of it, named in its section.

| Run | Module | States | What it shows |
|---|---|---|---|
| `run_slot` | AgentRun | 175,118 | two queries: the table implements `RunSlot`, every running row ends, every query ends |
| `run_cancel` | AgentRun | 96,449 | a run of two turns, two cancels: true answers, no usage dropped before the end, honoured cancellations |
| `run_locallock` | AgentRun | violation | without Redis the session lock excludes nobody |
| `ports_steady` | PortPool | 4,256 | no restart: bound ports are not offered, paused sandboxes keep theirs, `PortLease` |
| `ports_restart` | PortPool | 306,015 | two restarts with everything but a create that breaks: no allocation is stuck |
| `life_apart` | SandboxLifecycle | 22,804 | requests overlap one another: time-outs, row and sandbox agree |
| `life_overlap` | SandboxLifecycle | 20,271 | requests, consumer, faults, restarts: queue and hash agree, messages are handled |
| `turn_session` | AgentTurn | 256,437 | for its turns the LLM sees well-formed histories that tell what was asked |
| `chat_run` | ChatRun | 404,927 | two streams: answered calls, prompt stops, paid answers |
| `billing` | Billing | 283,975 | two batches of events: bounds, one refresh a month, the plan of subscription or checkout |
| `events` | EventStream | 823,952 | one run's events: losses, order after the question, uploads, statuses |
| `events_hooks` | EventStream | violation | a hook of another session's query handles this session's attachment |

Every property of a passing run has a mutant in `PROJECT.json`: a plausible bug of the mapped code under which the
same run finds the property violated.  The mutants stand in the modules beside what they replace.

## 3. AgentRun

One session stands for all: rows, lock key and cache key of two sessions are disjoint.

| Variable | Code |
|---|---|
| `row` | `agent_run_tasks.status`, `.version` as committed (`db/agent.py:20-41`) |
| `rowLock`, `seen` | PostgreSQL's lock of a row changed by an open transaction; version loaded by the transaction, which SQLAlchemy's `version_id_col` compares |
| `cache` | entity cache entry `agent_task:<id>` |
| `lock` | the Redis lock `lock:session:session_<id>` |
| `qpc`, `outcome`, `turn` | position of a query handler with its agent loop, status it will write, LLM calls made |
| `rd` | a `get_task_by_id` in progress: cache read, row read, cache fill are three awaits |
| `metrics` | fate of the usage event of each turn |
| `base`, `saved` | runs contained in the history an agent restored, and in the stored one |
| `cpc`, `target`, `reaping` | position of a cancel handler, run it found; row selected by the clean-up job |

A step is what the code does between two awaits another actor can observe.  `Acquire` .. `Release` are
the locked part of `UserQueryHandler.handle`; `StartAgent` .. `SaveHistory` are `_process_query` with
`arun` and `run_impl`; `FinalRead` .. `FinalCommit` are the last update; `CancelFind` .. `CancelEvict`
the cancel handler; `ReapSelect`, `ReapCommit` the clean-up job; `CacheGet`, `DbGet`, `CacheSet` a status
check, of an agent or of an event handler; `HandleMetrics` the metrics subscriber.  Faults are the
sandbox that cannot be had, errors before, in and after the agent, evictions, time-out of a run, a
lease that runs out, and the death of the worker.

Details that matter and are kept: `scalar_one_or_none` raises when two rows are running; releasing an
expired Redis lock raises after the row was inserted; an agent's exception counts as *completed*
(`arun` turns it into an error result); writing the status the row already has is no UPDATE and so
checks no version; the final write and the clean-up evict only before, or never; a query without
`resume` starts with an empty history.

Abstractions, each named: an LLM call has one usage event (the code publishes it when metrics are
present); tools, texts and streaming events are left out; flush and the evict after it are one step,
because nobody reads a row that is flushed and not committed; PostgreSQL reads are READ COMMITTED;
a cache entry's age is the choice of `CacheDrop`.

### Bounds

Two queries (`run_slot`, one turn), or one query and two cancels (`run_cancel`, two turns): a third handler adds no new pair of
conflicting writers, since the second cancel already meets a row that ended, and the third query a
busy lock.  `Turns` is 1 or 2: a check before a turn, before a tool batch, and after a completed turn
all occur with 2.  The clean-up takes one row per batch; rows of a session are at most one.  `ExpireAt`
names the positions where the lease may run out: it excludes `check` and `insert`, which take
milliseconds of a 60 s lease; with them included mutual exclusion is lost, which is why the theorem
assumes `LeaseCoversLookup`.

### Runs

`run_slot` and `run_cancel` pass; the liveness properties are checked in `run_slot`; `DropOnlyAfterEnd` and
`CancelIsHonoured`, which need cancels, in `run_cancel`.  `run_locallock` shows a disagreement between the code and what
it says of itself: without Redis every `get_lock` call returns a new `asyncio.Lock`, so nothing is excluded and
`AtMostOneRunning` fails.

Known limits of the code that the model contains and no property contradicts:

* an agent whose run the clean-up has marked `system_interrupted` goes on, because only `aborted` stops it
  (`agent_controller.py:85`);
* the usage event of a run's last turn may be handled after the final commit and is then dropped
  (`subscriber.py:36`);
* after a cancel, the agent that is still stopping and the next query overwrite each other's history: the later
  save wins (`chat_session.py:163`);
* a reader that has read the row before a cancel's commit may fill the cache after the cancel's last evict, and the
  agent goes on until the entry expires (`agent_run_service.py:102`): the evict of the cancel is no promise that the
  cache stays right, and `CancelIsHonoured` speaks of a cancel that has become visible;
* with two running rows every query and cancel fails, as `scalar_one_or_none` raises (`db/agent.py:95`).

### Fairness

Weak fairness of each handler, reader, event handler and of the clean-up job: they are tasks of a
running event loop, waiting for LLM, database or sandbox calls that have time-outs; the scheduler
repeats the clean-up.  The lease of a dead worker's lock expires.  User commands, faults, evictions and
the lease of a live handler are not forced.

## 4. PortPool

`PortPoolManager` keeps in memory which host ports are taken and by whom; Docker knows which are bound.
The model keeps both sides and everything that changes one of them.

| Variable | Code |
|---|---|
| `allocated` | `_allocated_ports` |
| `byId` | `_sandbox_ports[<id>]`: entry made by `allocate_ports` or `_register_existing_ports` |
| `byName` | `_sandbox_ports[<first 12 characters>]`: entry made by `scan_existing_containers` |
| `pc` | position of a create request: it waits for the health check in between |
| `container`, `bind` | Docker: status of the sandbox's container and the host ports it was created with |
| `row` | the `sandboxes` table |
| `up`, `restarts` | the server process |

The server is one event loop and calls Docker synchronously, so a handler is one step up to its next
`await`: `CreateStarted`, `CreateRefused`, `CreateBroken` and `CreateExhausted` are the outcomes of
`DockerSandbox.create` up to the health check, `Ready` and `NotReady` its end; `Connect`, `Resume`,
`Pause`, `Delete` are the controller's operations with the provider call and the row they write; `ResumeBroken` and
`DeleteBroken` end by an exception other than `APIError` between these steps: the container is started or removed
and the ports are not registered or released.  The orphan loop swallows it and deletes the row
(`sandbox_controller.py:447-460`), a request keeps it;
`Cleanup` is `POST /ports/cleanup`; `Boot` the scan in `lifespan`.  `Exit` and `Vanish` are Docker's, and
Docker refuses to start a container one of whose ports is bound.

Abstractions: a Docker call and the row update that follows it are one step; the 12-character prefixes
of two ids differ; the ports of a sandbox are allocated together (no `await` in between), and are the
`PortsPer` lowest free ones.  `allocate_additional_port` has no caller.

**Bounds.** Three sandboxes, five ports, two each: two sandboxes fit, the third finds one port left, so
exhaustion, reuse of freed ports and a conflict with a third party all occur.  `MaxRestarts` is 0 or 2;
a second restart meets what the first has forgotten.

**Runs.** `ports_steady` has every event but restarts.  `ports_restart` has two restarts and every event but
`break`: a create that ends by an exception other than `APIError` leaves an entry without container id that no
clean-up removes, which is the one way a port gets lost.  The ports of a delete that breaks off stay taken until a
clean-up finds their entry without container.

Known limits, which the model contains: a container met by the scan at start-up is in the books under its short
name, so deleting it frees nothing until the next clean-up (`docker.py:600`), and the clean-up may then free ports
that a connect's second entry has freed before and a new sandbox has taken.  The scan skips stopped containers, so
after a restart a paused sandbox's ports may go to a new one.  This is why `BoundIsAllocated` and `PausedCanResume`
are promised without a restart, or, for the first, with restarts but without stops and clean-ups
(`RestartInvariant`).

The server may stop for good only as the bounds say (no sandbox left to create, no restart left), so
deadlock is not checked.

## 5. SandboxLifecycle

One sandbox of the E2B provider: the requests of the sandbox server, the queue consumer, Redis, the
provider and the row.  Every call of the provider, of Redis or of the database is an await and a step of
its own.

| Variable | Code |
|---|---|
| `prov` | the sandbox at the provider |
| `row` | `sandboxes.status` |
| `delayed`, `current` | Redis: sorted set `<queue>:delayed`, entry of the hash `<queue>:messages` |
| `due` | messages whose score has passed |
| `pc`, `op`, `old` | position of a request or of the consumer, what it does, message that its `cancel_message` read |
| `batch`, `cur` | messages the consumer has fetched, the one it handles |
| `crashes` | restarts so far |

The two reads of the row by a connect are one.  A request schedules at most one message, which has the request's name.  `StartCreate`, `Start` and `ReadRow`
are `SandboxController`'s entry points; `Launch`, `Check`, `Extend`, `Resume`, `Halt`, `Kill` the provider calls of
`E2BSandbox`; `HGet`, `ZRem`, `HDel` are `cancel_message`, followed by `ZAdd`, `HSet` of `schedule_message` where a
time-out is set; `Write` the row.  The consumer runs `Fetch`, `NextMessage`, the same pause as a request, and
`AckDelayed`, `AckHash`.  `Fail` is what an exception does: an error answer for a request, and a handled
message for the consumer, whose handler swallows it.

Abstractions: `set_timeout` is part of the `connect` before it; a connection to a paused sandbox fails, and a
kill of one may; Redis answers (its calls are retried; the retry branch for a failed handler is never
reached); the order within a batch is free; time-outs (two hours by default) last longer than requests and
the handling of a message, so `BecomesDue` waits until all rest; the provider's own time-out, ten minutes
later, is no action, which is why `RunningHasTimeout` speaks of a message, and not of what follows without
one.  The caller of `schedule_timeout` with a one-second time-out is outside of this.

**Bounds.** One create and one or two more requests: two requests that overlap one another, the consumer, or
both.  `CurrentIsDelayed` and `DeletedStaysDeleted` are proved for any number of requests.  `Overlap` FALSE keeps
requests and the handling of a message apart (they may still overlap one another): this is where
`RunningHasTimeout` and `RowTellsState` hold.

**Runs.** `life_apart` and `life_overlap` pass.  What `life_apart` excludes are known limits of the code, which
`life_overlap` reaches: the consumer deletes the hash entry of a newer message (`queue.py:266`), which can then not be
cancelled, its delivery races a resume, and a paused sandbox is left whose row says running, so that no connect
resumes it; a pause that fails is removed from the queue as handled, and nothing pauses the sandbox any more
(`sandbox_controller.py:347`).  Also, after such a deletion or two connects at once more than one message may be
delayed, so a sandbox in use may be paused early.

**Fairness.** Weak fairness of each request in progress, of the consumer and of time: tasks of one event loop
whose calls have time-outs.  Requests are not forced to be sent, nor faults and restarts to happen.  The
system stops when all requests are done, so deadlock is not checked.

## 6. AgentTurn

One `AgentController` over several invocations, with the history it keeps, repairs, compacts, saves and restores.

| Variable | Code |
|---|---|
| `hist` | `State.message_lists`: a sequence of turns, a turn being a set of blocks (texts, prompts, calls, results) |
| `saved` | the history in the file store (`State.save_to_session`, `restore_from_session`) |
| `pc`, `run`, `left` | place in `run_impl`, number of the invocation, turns that are left of `max_turns` |
| `aborted` | what `is_interrupted` would answer |
| `pending`, `results` | calls of the turn still to be answered, results of the batch |
| `shown`, `said` | history variables: calls announced to the user and not answered, prompts the run must know of |

`Start` is `run_agent_async` with the restore before it; `Truncate` and `Summarise` the context manager with the repair
(`EnsureIntegrity` is `_ensure_tool_call_integrity`, `Compact` is `LLMCompact`); `CheckTurn` and `CheckTools` the two
interruption checks with the fake turn and the fake results; `Respond` and `Retry` the LLM's answer; `RunTool` and `Answer`
the batch, in which a tool alone that raises ends the run while among others its exception becomes a string; `End` the
save, or what a sub-agent's tool does instead.  `LlmFails` and `Crash` are faults; `Abort` is a cancel.

The repair works on a history turn by turn: `EnsureIntegrity` takes the blocks without partner out of every turn and `Pick`s
the turns that are not empty.  `AddResults` appends the results of an interrupted batch, one turn each.

Abstractions: texts, thinking and images are one block; a batch runs its tools in order, although some run in
parallel, since the results are put in order before any is used; the order of blocks within a turn is left out, as
nothing here depends on it.

**Bounds.** Two runs, two LLM turns each, two recorded calls: an interruption at both checks, a batch of two of which the
first, the second or both fail, a history that ends with an unanswered call and is then resumed, and a compaction
before and after each.

**Run.** `turn_session` (256,437 states) with `Caller = "session"`.  The other callers differ in three places (`Base`,
`Start`, `End`).  Known limits: a sub-agent's controller keeps its dialogue between invocations although
`task_agent_tool.py:29` calls each one stateless (`task_agent_tool.py:173`), and its interruption outlives the
invocation; an unknown tool's call has no result, and only the repair before the next turn removes it, with the
user never told.  A compaction calls the LLM before this repair (`llm_compact.py:145-151`): it sends such calls as they
are, which `LlmSeesWellFormed` says of the place `compact`; if the LLM refuses it, the run ends, the history is saved
with them, and each resumption that has to compact again may fail in the same way.

**Fairness.** Weak fairness of the agent's steps: it is one task whose LLM and tool calls have time-outs.

## 7. ChatRun

The streams of the chat mode (`server/chat`): rows in `agent_run_tasks` as in AgentRun, but no lock, no cache, and a
cancellation key.

| Variable | Code |
|---|---|
| `msgs` | `chat_messages` of the session in the order of `created_at`, with `is_finished` |
| `task`, `read` | each run's row with its version; version a stream has loaded |
| `key` | the key of `cancel.py`: absent, running, or told to stop |
| `pc`, `reply`, `hist` | place of each stream, the LLM's reply, its list of messages |
| `charged` | the usage was deducted and committed |
| `stop` | the stop request under way: look-up, key, refresh, write |
| `late`, `torn`, `peers`, `upsets` | history variables: steps after a stop, runs broken off, runs that streamed beside, events the bound counts |

`Load` .. `Cleanup` are `stream_chat_response` in its order, `Catch` and `Mark` its handler of exceptions,
`StopFind` .. `StopWrite` are `stop_conversation`, `Clear` is `clear_messages`, `Disconnect` the client that closes the
stream (which no `except` of the generator catches), `Expire` the key's hour, `Reap` the clean-up job.
A reply is a set of calls with the reason TOOL_USE (`call`), one without calls (`answer`), or one that ended for another
reason with calls in it (`cut`: out of tokens, paused): the code looks at the reason only, so the calls of a `cut` are
saved and never run.  `Misread` is an error of Redis that reads as not cancelled.  A list is read up to `ListLimit` rows,
the oldest first.  `Charge` may leave a run uncharged: user models are free, and a refused deduction is not looked at.  A failed write
of a row whose version has moved leaves the database session unusable, so the handler of exceptions fails too: this is
why a stream may end as `lost`.

Abstractions: tokens are one per reply, and a history is reduced by `Reduce` from two on; a message's content is its
kind and run; tool rounds beyond `MaxCalls` are made and not recorded.

**Bounds.** Two streams, in turn or beside each other, one recorded tool round, and two of the upsets that the bound
counts (stop, deletion, disconnection, expiry, failure, clean-up, a stream beside another, a reply cut short, an error of
Redis, an answer not charged); `ListLimit` is 2, so that the second stream's list leaves out a result of the first.
Each pair of upsets occurs at every pair of places.  A third makes the state space too large for a run; the theorems have no bound.

**Run.** `chat_run` (404,927 states).  Known limits: a client that leaves, or an exception before the `try`, leaves the row
RUNNING until the clean-up job; such a call stays in the history without result, as the calls of a
reply cut short do, and as a result is left out that lies beyond the 1000th row of a session: these are the exceptions in
`SentIsAnswered`, and from the 1000th row on the LLM is not told of the newest rows but the question; a run may
complete uncharged; each check that Redis fails lets a stopped stream do one step more; the key that a failed
clean-up leaves expires and is nobody's;
a stop finds nothing to stop where two streams run (`scalar_one_or_none`) and is undone by an expired key.

**Fairness.** Weak fairness of each stream's steps.  The errors of Redis are bounded.  `StoppedRunEnds`
needs no help of the client: the LLM, the tools and the database answer.

## 8. Billing

One user: Stripe, the webhook, two scheduled jobs, and deductions.

| Variable | Code |
|---|---|
| `user` | the columns of `users` that billing writes |
| `sub`, `events`, `pending` | external: Stripe's subscription, the events it sends in batches, those not acknowledged |
| `ledger` | `billing_transactions` by event |
| `hooks`, `job` | the webhooks and the job under way, with the row they have loaded and the row they make of it |
| `month`, `faults` | time, and the bound of faults |
| `raced`, `granted` | history variables: two had the row loaded at once; yearly refreshes of each month |

`Handled` is what the four handlers of `billing_service.py` make of a row; `Deliver`, `Apply`, `Record` and `Acknowledge` the
webhook with its two commits; `StartFree`, `StartAnnual` and `JobCommit` the scripts; `Deduct` is `deduct_user_credits`, one SQL
statement.  `Commit` writes only the columns that differ from what was loaded, as the ORM does: this is how a job and a
webhook can mix their columns, and why `CreditsFitPlan` excepts rows that two had loaded at once (`users` has no version).
Faults are a subscription that cannot be retrieved, a lost acknowledgement, a crash of the handler: Stripe sends again.

Abstractions: batches are delivered in their order, the events of a batch in any order and together; a new subscription
begins when nothing of the old one is under way; periods' ends are not compared.

**Bounds.** Two plans, one yearly and one monthly price, two batches, two months, one fault, one cost that is neither
covered by the bonus alone nor equal to an allowance: bonus and credits are both used, and a renewal meets a
cancellation, a change, or a refresh.

**Run.** `billing` (283,975 states).  The system stops when Stripe has nothing more to send and the months are over, so
deadlock is not checked.  **Fairness:** weak fairness of the webhook's steps, as Stripe repeats an event until it is
acknowledged.  Known limits: a checkout whose subscription cannot be retrieved raises and is acknowledged only by a later
delivery; a redelivery grants the allowance again, and what was spent since is given back (`billing_service.py:157`); a
renewal's invoice takes the plan of the checkout although the portal has changed it since (`billing_service.py:429`), so
`PlanFollowsStripe` accepts both; two that overlap may leave the credits of one with the plan of the other.

## 9. EventStream

The events of one run on the one stream of the server process.

| Variable | Code |
|---|---|
| `hooks` | `UserMessageHook`s on the stream: those of this session's queries, and others |
| `row`, `cache`, `holder` | status of the run and who is about to write it (AgentRun has the detail) |
| `pc`, `said`, `outcome`, `hook` | the query handler with its agent, and a message on its way through the hooks |
| `sent`, `tasks` | events published, handler tasks in flight |
| `stored`, `shown` | `events` rows of the session, events emitted to its room |
| `raised` | history variable: handler tasks that ended by an exception |

`Ask` and `StartRun` are the transaction of message and run with the events published around its commit; `SetUp` and
`OtherSetUp` register hooks; `SayMessage`, `HookStep` and `HooksDone` one `publish` that awaits every hook; `Interrupt`,
`Finish`, `OutOfTurns` and `Raise` the ends of a run; `CancelFlush` and `CancelCommit` a cancel, `CancelRefused` one that
finds no running run or comes too late (StaleDataError), which answers with an error event of no run; `Check`,
`Emit` and `Save` the tasks `publish` starts, which nothing orders.

Each of the tasks may raise (`Fails`): the look-up of the status, the copy of a file, the insert of the row, or `emit`, whose
exception the subscriber logs.  Nobody awaits the task, so what it was to do is not done.

Abstractions: one reply stands for each kind of event; a look-up of a status is one step; the metrics subscriber is
AgentRun's; the slide hook treats slides as the message hook treats attachments, and the project hook changes no state.

**Bounds.** One event of the agent besides start and end, one hook before the run's own, one handler task in
flight when an event is published (three after it, five after the last word), one fault or one cancel in vain: two
events of one subscriber and both subscribers of one event overtake each other.

**Runs.** `events` (823,952 states) passes.  `events_hooks` shows a disagreement: hooks are never taken off the stream and look
at neither session nor run, so the oldest one fetches every session's attachments from its own sandbox.  Known limits: the
last events of a run that completes may be missing from the history, because their handlers find the run ended
(`subscriber.py:36`), and so is an event whose handler raises (`database_subscriber.py:48,72`): the exceptions in
`LostOnlyAfterEnd`, which says that nothing else loses an event; a run out of turns publishes COMPLETE and no status
(`agent_controller.py:356`), so `EndIsTold` excepts it; a message that a hook has rebuilt has no run id
(`user_message_hook.py:52`), so after a cancel it is stored and shown like one before; a status is not shown when `emit` fails
(`socketio_subscriber.py:54`).

**Fairness.** Weak fairness of the agent, of a cancel that has flushed, and of the handler tasks.

## 10. What is proved

Eight modules hold theorems; each is about its component for every value of the constants under the assumptions the
component names.

`AgentRun_proofs`:

* `TypeCorrect`: `TypeOK` is invariant.
* `OneRunPerSession`: `AtMostOneRunning`, assuming `LeaseCoversLookup`.  The invariant alone is not
  inductive; `SlotInv` adds that the handler between look-up and insert owns the lock and that the
  look-up's answer is still true.
* `RunInvariant`: `RunInv`, the conjunction of `RowInv` (which rows exist, who may have written their
  verdict), `ReadInv` (what cache and readers claim is in the table), `AbortInv`, `HolderInv` (who holds
  a row lock is about to replace the version it read) and `CancelInv` (what a cancel handler knows).
  From it follow `CacheIsNeverAhead`, `OnlyEndedRunsDrop`, `CancelAnswersTrue`, and the action
  properties `VersionedWrites` and `VisibleCancelIsHonoured`.
* `ImplementsSlot`: under `LeaseCoversLookup`, AgentRun implements `RunSlot`.
* `WaitsAreShort`: `NobodyWaitsInACircle`.  The writer a row waits for has its commit as its next step (from `HolderInv`), and
  the holder of the session lock is in the part of the handler that waits for no lock (`LockHeld`), or dead, and then
  its lease runs out.
* `HandlersEnd`: `HandlersCountDown`.  A handler's step uses up a turn or lowers `StepsLeft`, a reader's lowers `ReadsLeft`, a
  cancel's `CancelLeft`; nobody else raises them, and an event's look-up begins once for its turn.

`PortPool_proofs`, for every finite range of ports, set of sandboxes and set of events:

* `TypeCorrect`: `TypeOK`, restarts and all failures included.
* `SteadyInvariant`, for a server that does not restart: the allocated ports are those of the entries,
  entries are disjoint, and a started container has exactly the ports of its entry.  From it follow
  `BoundPortsAllocated`, `PausedSandboxesResume`, and
  `ImplementsLease`: the bindings of started containers implement `PortLease`.
* `RestartInvariant` and `BoundPortsAllocatedAcrossRestarts`, for any number of restarts while nothing stops
  a container and no clean-up is run.  `BoundIsAllocated` is not inductive: the invariant adds that an
  entry never has ports another running container has bound, since releasing it would free them.
* `PortsAreNeverLost`: `NoPortLost`, for any number of restarts and every event but a broken create.  `EntryInv` says
  that an allocated port is in an entry that knows its container, and that such an entry has no ports
  the container does not have; so the port is the container's, or the clean-up finds the entry.

They rest on `LowestFree`: the ports a create takes are free ones.

`SandboxLifecycle_proofs`, for any number of requests:

* `TypeCorrect`, with `PcInv`: what a request may be doing at each position.
* `DeleteIsFinal`: `DeletedStaysDeleted`, with overlap, faults and restarts.  `CreatedFirst` and `DeleteInv` add that
  the create has ended before anybody knows the sandbox, and that past its kill a delete finds it gone.
* `CurrentMessageExists`: `CurrentIsDelayed`, under the same conditions.  `MessageInv` says that nobody knows a
  message before the hash has it, `HashInv` that who takes the current message out of the set deletes the hash
  entry next.
* `RunningSandboxExpires` and `RowIsTrue`: `RunningHasTimeout` and `RowTellsState`, assuming `Orderly`: requests and
  the consumer take turns, nothing fails, and only time-outs pause.  `OrderInv` adds that a running sandbox without
  a message has a request on its way to one, and that a row that differs from the sandbox is about to be written.
  The known limits of section 5 show that the assumption is needed.
* `HandlingEnds`: `HandlingCountsDown`.  `StepsLeft` numbers the places of a request and of the consumer; whatever
  overlaps, fails or restarts, every step lowers the number, an answer is final, and a batch only shrinks.  A request
  answers within twelve steps of its own.

`EventStream_proofs`, for any number of events, hooks, tasks and faults:

* `TypeCorrect`, and `StreamInvariant`: `PhaseInv` (what is out before the row is committed, whose turn an update of the row
  is), `HookInv` (the hook in turn, and whether its attachment is still a path) and `TaskInv` (the cache knows of no
  end before the table).
* From it follow `LostEventsHaveEnded` (the `TaskInv` part makes a handler's negative answer mean an end in the
  table), `QuestionComesFirst` and `OneUpload`.
* `EndsAreTold`: `EndIsTold`.  `ToldInv` says that no check drops a status on its way, since none is checked, and that a run
  publishes one before it writes its end, unless its turns are used up.  `FailsLosesItsOwn` is the lemma that a
  handler that raises loses no event but its own.  A cancel's commit and publication are one step here; the clean-up job tells nobody
  and is not in this module.

`Billing_proofs`, for every set of plans, prices and costs, any number of batches, months and faults:

* `TypeCorrect`: no balance is negative, whatever is deducted while rows are loaded.  `LoadInv`: what is loaded, and what it
  becomes, is a row.
* `RefreshesOnce`: `OneRefreshPerMonth`.  `RefreshInv` adds that the mark of the month is on the row as soon as the refresh is
  counted, and that webhooks carry the mark they have loaded.
* `CreditsAreBounded`: `CreditsFitPlan`, which excepts rows that two had loaded at once.  `FitInv` adds that a row, unless two overlapped, has since it was loaded only lost
  credits.
* `PlanIsStripes`: `PlanFollowsStripe`, the plan of the subscription or of its checkout, for batches that come one after the
  other.  `BatchInv` says that batches are numbered, handled in their order, and that the newest
  tells of the subscription as it is; `PlanInv` that the row fits as soon as a handler of the newest batch has written it,
  column by column, and that the jobs do not touch these columns.
* `BooksComplete`: `BooksAreComplete`.  `BookInv` says that nobody takes the customer from a row, over whatever he has loaded,
  and that he comes with the first checkout.  The exception is a limit of the code: an invoice that overtakes the
  checkout and whose subscription cannot be retrieved finds no user, and is acknowledged without a record.
* `EventsEnd`: `EventsCountDown`.  An event has at most four steps of its handler to go, only a lost handler adds to them,
  and an acknowledged event does not come back.

`ChatRun_proofs`, for any number of streams, tool rounds and upsets:

* `ChatInvariant`: `LateInv` (a stream that is late has a check ahead and its key keeps saying stop), `ChargeInv` (a run is
  charged at one place, if at all, and completes behind it), `KeptInv` (the reply is saved before the charge and outlives
  it), with the types they need.
* From it follow `StopsArePrompt` and `PaidAnswersAreKept`.
* `ListsInvariant` adds `VersionInv` (a row leaves RUNNING once, and only the end of its stream writes it again), `PosedInv`
  (the stream's own question is the last question of its list, so `Reduce` keeps it), `CallsInv` and `TableInv` (a call
  without result, in a list or in the table, is owed by a stream that is about to run its tools or to mark its rows, or is
  of a reply cut short, of a run beside or broken off, or has its result beyond the limit) and `UnaskedInv`.  They need each other: a list is loaded from the table, and a
  row is marked by the place of the stream that wrote it.
* From it follow `TypeCorrect` and `CallsAreAnswered`, which is `SentIsAnswered`.
* `StoppedStreamsRunDown`: `StopCountsDown`.  A stop is not taken back before its stream is over, and as long as Redis answers such a
  stream has at most six steps left.

`Subsequences_proofs`, for lists of any length:

* `PickElements`: `Pick` returns the elements at the chosen positions, each once, in their order, and nothing else.  The
  recursive function of its definition exists and is what it says: each by the least position at which it would
  not be, since an induction theorem with an operator as its parameter is beyond the provers.

`AgentTurn_proofs`, for every caller, any number of runs, turns and recorded calls:

* `TurnInvariant`: `TurnInv`.  `HistInv` says that a history is ordered (a result comes right after the calls or the results of
  its turn, never before its call) and, where the LLM is called, closed as well; `FreshInv` that
  the ids of the next turn's calls are not in it yet; `PendingInv` that the calls to be answered are those of the last thing
  said and have no result; `ShownInv` that what is announced is among them.  `LlmSeesWellFormed` is not inductive: it
  speaks of one place, and the history at that place comes from every other one, over the saved history too.
* From it follow `TypeCorrect`, `LlmAcceptsHistory`, `AnnouncedCallsAreAnswered` and `InstructionsAreKept`.  The lemmas they
  rest on say what the repair, the compaction and the fake results do to an ordered history.
* `RunsCountDown`: every step of the agent lowers the triple of the turns left, the place in the turn and what is left of the
  batch, and no other step raises it.

The countdowns `HandlersEnd`, `RunsCountDown`, `StoppedStreamsRunDown`, `HandlingEnds` and `EventsEnd` are the part of the liveness
properties `EveryQueryEnds`, `EveryRunEnds` (of AgentTurn), `StoppedRunEnds`, `MessagesAreHandled` and `EveryEventIsAcked` that
is about the code and not about its scheduler: who is scheduled comes to an end.  `WaitsAreShort` adds that he is not
blocked for good, and `EndsAreTold` is what is safety in `StatusIsShown`.  These properties and their
invariants were checked by TLC on the constants of the runs of their modules before they were proved; they are not among the runs'
properties, because the runs' liveness properties imply what a reader wants of them there.  For `BooksAreComplete`, which no
liveness property implies, TLC found no counterexample on the constants of `billing`.

## 11. Only model-checked

* Liveness under fairness (`EveryRunEnds`, `EveryQueryEnds`, `IdleIsPaused`, `MessagesAreHandled`, `StoppedRunEnds`, `EveryEventIsAcked`,
  `StatusIsShown`), which is out of the prover's reach: it needs `ENABLED` of the fair steps.  For most of them the
  theorems named at the end of section 10 prove that the steps, once taken, come to an end; that they are taken, and that
  what another actor does (the clean-up job, a delivery) follows, stays with TLC.  Nothing of `IdleIsPaused` and of
  AgentRun's `EveryRunEnds`, which wait for a timer, is proved but the safety theorems of their modules.

## 12. Not modelled

* **Socket sessions.**  Joining enters a room, notes the session of the connection, and adds the connection to a Redis set, in
  three awaits; leaving undoes them in another order.  Orders to know of: a disconnect during a join removes
  the connection before it is added, and it stays in the set for the hour of its key; the set of a session whose
  clients stay longer than that hour without a join is dropped, so the next one to leave finds the session empty;
  `scard` and `delete` are two calls, and a join between them loses its entry; a second join of one connection
  leaves it in both rooms.  What follows from the set is only a new time-out of the sandbox, of two hours or more.  A join
  also tells the whole room that the agent runs if it finds a running row, although the status that ends the run
  may be out before its row is committed.  No run, message or credit depends on any of this.
* **Terminal sessions.**  Whether a terminal is busy is read from the prompt in its output, so a model would be about the
  output of programs.  Two commands of one parallel batch may both find the terminal idle.
* **File patches.**  One pure call over whole texts, whose data is the text itself.
* **Other sandbox tools, LLM clients, prompts.**  One call in, one result out; translations of messages to the
  vendors' formats; texts.
* **REST API, authentication, settings, storage, wishlist, slides pages.**  Reads and writes of single rows within
  one request.
* **Web client and deployment.**  No state the server's behaviour depends on, except the `resume` it sends.
* Within the modelled components: what the notes in `PROJECT.json` name, each an operation without a caller or one that
  changes no state the properties speak of.
