--------------------------- MODULE SandboxLifecycle ---------------------------
(***************************************************************************)
(* The life of ONE sandbox of the E2B provider under the sandbox server    *)
(* (SandboxController, E2BSandbox) and its time-out queue in Redis         *)
(* (SandboxQueueScheduler): a sorted set of delayed messages and a hash    *)
(* that tells the current message of each sandbox.                         *)
(*                                                                         *)
(* Every request that uses the sandbox postpones its time-out: it cancels  *)
(* the current message and schedules a new one.  A consumer pauses the     *)
(* sandbox when a message is due.  Provider, Redis and the sandboxes table *)
(* are reached by separate awaits, each of them one step, and requests     *)
(* and the consumer interleave between them.  Keys, rows and messages of   *)
(* two sandboxes are disjoint, so one stands for all.                      *)
(***************************************************************************)
EXTENDS Naturals, FiniteSets

CONSTANTS
  Requests,    \* requests to the server; the message a request schedules has its name
  Consumer,    \* the queue consumer
  NoMsg,       \* no message
  Ops,         \* requests that are sent: subset of {"connect", "timeout", "pause", "delete"}
  Overlap,     \* TRUE: requests and the handling of a message may overlap in time
  Faults,      \* what may go wrong: subset of FaultKinds
  MaxCrashes   \* bound: restarts of the server

FaultKinds == {"provider",   \* a call of the E2B API raises
               "db"}         \* a write of the row raises

ASSUME ActorsDistinct == Consumer \notin Requests /\ NoMsg \notin Requests
ASSUME LifeConstants ==
  /\ Ops \subseteq {"connect", "timeout", "pause", "delete"}
  /\ Overlap \in BOOLEAN
  /\ Faults \subseteq FaultKinds
  /\ MaxCrashes \in Nat

VARIABLES
  prov,      \* the sandbox at the provider
  row,       \* its status in the sandboxes table, "none" without a row
  delayed,   \* messages in the sorted set "<queue>:delayed"
  due,       \* messages whose delivery time has come
  current,   \* entry of the hash "<queue>:messages"
  pc, op,    \* position of each request and of the consumer, and what it does
  old,       \* message a cancel_message has read from the hash
  batch,     \* messages the consumer has fetched and not yet handled
  cur,       \* message the consumer handles
  crashes    \* restarts so far

queue == <<delayed, current>>
local == <<old, batch, cur>>
vars  == <<prov, row, queue, due, pc, op, local, crashes>>

Actors   == Requests \union {Consumer}
Messages == Requests

RequestPc  == {"new", "launch", "row", "resume", "check", "extend", "halt", "kill", "hget",
               "zrem", "hdel", "zadd", "hset", "write", "done", "failed"}
ConsumerPc == {"idle", "next", "row", "check", "halt", "hget", "zrem", "hdel", "write",
               "ack", "ack_hash"}

TypeOK ==
  /\ prov \in {"none", "running", "paused", "gone"}
  /\ row \in {"none", "running", "paused"}
  /\ delayed \in SUBSET Messages
  /\ due \in SUBSET Messages
  /\ current \in Messages \union {NoMsg}
  /\ pc \in [Actors -> RequestPc \union ConsumerPc]
  /\ \A r \in Requests : pc[r] \in RequestPc
  /\ pc[Consumer] \in ConsumerPc
  /\ op \in [Actors -> {"none", "create", "connect", "resume", "timeout", "pause", "delete"}]
  /\ op[Consumer] = "pause"
  /\ old \in [Actors -> Messages \union {NoMsg}]
  /\ batch \in SUBSET Messages
  /\ cur \in Messages \union {NoMsg}
  /\ crashes \in 0 .. MaxCrashes

Init ==
  /\ prov = "none"
  /\ row = "none"
  /\ delayed = {}
  /\ due = {}
  /\ current = NoMsg
  /\ pc = [a \in Actors |-> IF a = Consumer THEN "idle" ELSE "new"]
  /\ op = [a \in Actors |-> IF a = Consumer THEN "pause" ELSE "none"]
  /\ old = [a \in Actors |-> NoMsg]
  /\ batch = {}
  /\ cur = NoMsg
  /\ crashes = 0

Resting(a)   == pc[a] \in {"new", "done", "failed", "idle"}
AtRest       == \A a \in Actors : Resting(a)
Schedules(o) == o \in {"create", "connect", "resume", "timeout"}
Goto(a, p)   == pc' = [pc EXCEPT ![a] = p]

\* Mutant: a message whose handling failed stays in the queue.
FailKeepsMessage(a) == Goto(a, IF a = Consumer THEN "next" ELSE "failed")

\* A request that raises is answered with an error; the consumer's message handler logs
\* the error and returns, so that the message counts as handled.
Fail(a) == Goto(a, IF a = Consumer THEN "ack" ELSE "failed")

-----------------------------------------------------------------------------
(* Requests: the sandbox is created once, the others know its id then.     *)

StartCreate(r) ==
  /\ \A a \in Requests : op[a] = "none" /\ pc[a] = "new"
  /\ op' = [op EXCEPT ![r] = "create"]
  /\ Goto(r, "launch")
  /\ UNCHANGED <<prov, row, queue, due, local, crashes>>

Start(r) ==
  /\ pc[r] = "new"
  /\ Overlap \/ pc[Consumer] = "idle"
  /\ \E a \in Requests : op[a] = "create" /\ pc[a] = "done"
  /\ \E o \in Ops : op' = [op EXCEPT ![r] = o]
  /\ Goto(r, "row")
  /\ UNCHANGED <<prov, row, queue, due, local, crashes>>

\* get_sandbox_by_id; a connect to a paused sandbox becomes a resume, which reads the row
\* again: one read, since only what the first one says decides.
ReadRow(a) ==
  /\ pc[a] = "row"
  /\ IF row = "none"
     THEN Fail(a) /\ UNCHANGED op
     ELSE IF op[a] = "connect"
     THEN /\ Goto(a, IF row = "paused" THEN "resume" ELSE "extend")
          /\ op' = [op EXCEPT ![a] = IF row = "paused" THEN "resume" ELSE "connect"]
     ELSE Goto(a, "check") /\ UNCHANGED op
  /\ UNCHANGED <<prov, row, queue, due, local, crashes>>

-----------------------------------------------------------------------------
(* Calls of the provider.                                                  *)

\* AsyncSandbox.create
Launch(r) ==
  /\ pc[r] = "launch"
  /\ prov' = "running"
  /\ Goto(r, "extend")
  /\ UNCHANGED <<row, queue, due, op, local, crashes>>

\* is_paused: a paused sandbox is resumed to be deleted.
Check(a) ==
  /\ pc[a] = "check"
  /\ Goto(a, CASE op[a] = "timeout" -> IF prov = "paused" THEN "done"  ELSE "extend"
               [] op[a] = "pause"   -> IF prov = "paused" THEN "write" ELSE "halt"
               [] op[a] = "delete"  -> IF prov = "paused" THEN "resume" ELSE "kill")
  /\ UNCHANGED <<prov, row, queue, due, op, local, crashes>>

\* AsyncSandbox.connect and set_timeout: only of a running sandbox.
Extend(r) ==
  /\ pc[r] = "extend"
  /\ IF prov = "running" THEN Goto(r, "hget") ELSE Fail(r)
  /\ UNCHANGED <<prov, row, queue, due, op, local, crashes>>

\* Mutant: no time-out after a resume.
ResumeNoTimeout(r) ==
  /\ pc[r] = "resume"
  /\ IF prov \in {"running", "paused"}
     THEN prov' = "running" /\ Goto(r, IF op[r] = "delete" THEN "kill" ELSE "write")
     ELSE Fail(r) /\ UNCHANGED prov
  /\ UNCHANGED <<row, queue, due, op, local, crashes>>

\* AsyncSandbox.resume
Resume(r) ==
  /\ pc[r] = "resume"
  /\ IF prov \in {"running", "paused"}
     THEN prov' = "running" /\ Goto(r, IF op[r] = "delete" THEN "kill" ELSE "extend")
     ELSE Fail(r) /\ UNCHANGED prov
  /\ UNCHANGED <<row, queue, due, op, local, crashes>>

\* AsyncSandbox.connect and pause
Halt(a) ==
  /\ pc[a] = "halt"
  /\ IF prov = "running"
     THEN prov' = "paused" /\ Goto(a, "hget")
     ELSE Fail(a) /\ UNCHANGED prov
  /\ UNCHANGED <<row, queue, due, op, local, crashes>>

\* AsyncSandbox.connect, if it was not resumed, and kill; a paused one may refuse it.
Kill(r) ==
  /\ pc[r] = "kill"
  /\ \/ prov \in {"running", "paused"} /\ prov' = "gone" /\ Goto(r, "hget")
     \/ prov # "running" /\ Fail(r) /\ UNCHANGED prov
  /\ UNCHANGED <<row, queue, due, op, local, crashes>>

ProviderFails(a) ==
  /\ "provider" \in Faults
  /\ pc[a] \in {"launch", "resume", "check", "extend", "halt", "kill"}
  /\ Fail(a)
  /\ UNCHANGED <<prov, row, queue, due, op, local, crashes>>

-----------------------------------------------------------------------------
(* SandboxQueueScheduler: cancel_message, and schedule_message after it.   *)

\* Mutant: every cancel_message is followed by a new message.
AfterCancelAlways(a) == Goto(a, "zadd")

AfterCancel(a) == Goto(a, IF Schedules(op[a]) THEN "zadd" ELSE "write")

HGet(a) ==
  /\ pc[a] = "hget"
  /\ old' = [old EXCEPT ![a] = current]
  /\ IF current = NoMsg THEN AfterCancel(a) ELSE Goto(a, "zrem")
  /\ UNCHANGED <<prov, row, queue, due, op, batch, cur, crashes>>

ZRem(a) ==
  /\ pc[a] = "zrem"
  /\ delayed' = delayed \ {old[a]}
  /\ Goto(a, "hdel")
  /\ UNCHANGED <<prov, row, current, due, op, local, crashes>>

HDel(a) ==
  /\ pc[a] = "hdel"
  /\ current' = NoMsg
  /\ AfterCancel(a)
  /\ UNCHANGED <<prov, row, delayed, due, op, local, crashes>>

ZAdd(r) ==
  /\ pc[r] = "zadd"
  /\ delayed' = delayed \union {r}
  /\ Goto(r, "hset")
  /\ UNCHANGED <<prov, row, current, due, op, local, crashes>>

HSet(r) ==
  /\ pc[r] = "hset"
  /\ current' = r
  /\ Goto(r, IF op[r] = "timeout" THEN "done" ELSE "write")
  /\ UNCHANGED <<prov, row, delayed, due, op, local, crashes>>

-----------------------------------------------------------------------------
(* The sandboxes table; a connect only writes the time of the activity.    *)

\* Mutants: a resume leaves the status alone; the status of a missing row is inserted.
WriteNoResume(a) ==
  /\ pc[a] = "write"
  /\ row' = CASE op[a] = "create"                  -> "running"
              [] op[a] = "pause" /\ row # "none" -> "paused"
              [] op[a] = "delete"                  -> "none"
              [] OTHER                             -> row
  /\ Goto(a, IF a = Consumer THEN "ack" ELSE "done")
  /\ UNCHANGED <<prov, queue, due, op, local, crashes>>

WriteUpsert(a) ==
  /\ pc[a] = "write"
  /\ row' = CASE op[a] \in {"create", "resume"} -> "running"
              [] op[a] = "pause"               -> "paused"
              [] op[a] = "delete"              -> "none"
              [] OTHER                         -> row
  /\ Goto(a, IF a = Consumer THEN "ack" ELSE "done")
  /\ UNCHANGED <<prov, queue, due, op, local, crashes>>

Write(a) ==
  /\ pc[a] = "write"
  /\ row' = CASE op[a] = "create"                   -> "running"
              [] op[a] = "resume" /\ row # "none" -> "running"
              [] op[a] = "pause"  /\ row # "none" -> "paused"
              [] op[a] = "delete"                   -> "none"
              [] OTHER                              -> row
  /\ Goto(a, IF a = Consumer THEN "ack" ELSE "done")
  /\ UNCHANGED <<prov, queue, due, op, local, crashes>>

WriteFails(a) ==
  /\ "db" \in Faults
  /\ pc[a] = "write"
  /\ Fail(a)
  /\ UNCHANGED <<prov, row, queue, due, op, local, crashes>>

-----------------------------------------------------------------------------
(* Time, the consumer, and restarts.                                       *)

\* Time-outs (two hours) are longer than any request and than the consumer's handling of
\* a message: none that was scheduled meanwhile is due before they have ended.
BecomesDue(m) ==
  /\ m \in delayed \ due
  /\ AtRest
  /\ due' = due \union {m}
  /\ UNCHANGED <<prov, row, queue, pc, op, local, crashes>>

\* zrangebyscore
Fetch ==
  /\ pc[Consumer] = "idle"
  /\ Overlap \/ AtRest
  /\ delayed \intersect due # {}
  /\ batch' = delayed \intersect due
  /\ Goto(Consumer, "next")
  /\ UNCHANGED <<prov, row, queue, due, op, old, cur, crashes>>

\* _process_message, and pause_sandbox in it.
NextMessage ==
  /\ pc[Consumer] = "next"
  /\ \/ \E m \in batch :
          /\ cur' = m
          /\ batch' = batch \ {m}
          /\ Goto(Consumer, "row")
     \/ /\ batch = {}
        /\ Goto(Consumer, "idle")
        /\ UNCHANGED <<cur, batch>>
  /\ UNCHANGED <<prov, row, queue, due, op, old, crashes>>

\* "Message processed successfully, remove from queues"
AckDelayed ==
  /\ pc[Consumer] = "ack"
  /\ delayed' = delayed \ {cur}
  /\ Goto(Consumer, "ack_hash")
  /\ UNCHANGED <<prov, row, current, due, op, local, crashes>>

\* Mutant: the hash keeps its entry.
AckHashKept ==
  /\ pc[Consumer] = "ack_hash"
  /\ Goto(Consumer, "next")
  /\ UNCHANGED <<prov, row, queue, due, op, local, crashes>>

AckHash ==
  /\ pc[Consumer] = "ack_hash"
  /\ current' = NoMsg
  /\ Goto(Consumer, "next")
  /\ UNCHANGED <<prov, row, delayed, due, op, local, crashes>>

\* The server dies and starts again.
Crash ==
  /\ crashes < MaxCrashes
  /\ crashes' = crashes + 1
  /\ pc' = [a \in Actors |-> IF a = Consumer THEN "idle"
                             ELSE IF pc[a] \in {"new", "done", "failed"} THEN pc[a] ELSE "failed"]
  /\ batch' = {}
  /\ cur' = NoMsg
  /\ UNCHANGED <<prov, row, queue, due, op, old>>

Consuming == Fetch \/ NextMessage \/ AckDelayed \/ AckHash

Step(a) ==
  \/ ReadRow(a) \/ Check(a) \/ Halt(a) \/ HGet(a) \/ ZRem(a) \/ HDel(a) \/ Write(a)
  \/ Launch(a) \/ Extend(a) \/ Resume(a) \/ Kill(a) \/ ZAdd(a) \/ HSet(a)

Next ==
  \/ \E r \in Requests : StartCreate(r) \/ Start(r) \/ BecomesDue(r)
  \/ \E a \in Actors : Step(a) \/ ProviderFails(a) \/ WriteFails(a)
  \/ Consuming \/ Crash

Spec == Init /\ [][Next]_vars

\* Handlers and the consumer are tasks of the event loop, their calls have time-outs, and
\* time passes.  Requests are never forced.
Fairness ==
  /\ \A a \in Actors : WF_vars(Step(a))
  /\ WF_vars(Consuming)
  /\ \A m \in Messages : WF_vars(BecomesDue(m))

FairSpec == Spec /\ Fairness

-----------------------------------------------------------------------------
(* Properties.                                                             *)

\* A running sandbox that the server knows has a message that is going to pause it
\* (E2BSandbox._set_timeout).  Without one, the provider removes it, with the user's
\* files, when its own time-out has passed.
RunningHasTimeout == AtRest /\ prov = "running" /\ row # "none" => delayed # {}

\* Between requests the row tells the state of the sandbox: connect looks at the row
\* only to decide whether to resume (SandboxController.connect).
RowTellsState == AtRest /\ prov \in {"running", "paused"} /\ row # "none" => row = prov

\* Once a delete has been answered the sandbox is gone for good: the status that a
\* resume or the consumer writes late brings no row back.
DeletedStaysDeleted ==
  \A r \in Requests : op[r] = "delete" /\ pc[r] = "done" => prov = "gone" /\ row = "none"

\* Between requests the hash points to a message that exists, so that cancelling it
\* cancels a time-out; unless the server has died between its two Redis calls.
CurrentIsDelayed == crashes = 0 /\ AtRest /\ current # NoMsg => current \in delayed

\* How many steps a request has left at most until it is answered, and the consumer until it has handled its message.
StepsLeft(place) ==
  [row |-> 12, check |-> 11, resume |-> 10, launch |-> 10, extend |-> 9, halt |-> 9, kill |-> 9, hget |-> 8, zrem |-> 7,
   hdel |-> 6, zadd |-> 5, hset |-> 4, write |-> 3, ack |-> 2, ack_hash |-> 1,
   next |-> 0, idle |-> 0, new |-> 0, done |-> 0, failed |-> 0][place]

\* Whatever overlaps, fails or restarts, every step of a request or of the consumer brings it closer to its answer
\* or to the end of its message, an answer is final, and a batch grows no more once it is fetched.
HandlingCountsDown ==
  [][/\ \A a \in Actors :
          /\ Step(a) => pc'[a] # pc[a]
          /\ pc[a] \notin {"new", "idle", "next"} /\ pc'[a] # pc[a] => StepsLeft(pc'[a]) < StepsLeft(pc[a])
     /\ pc[Consumer] # "idle" => batch' \subseteq batch
     /\ pc[Consumer] = "next" /\ pc'[Consumer] \notin {"next", "idle"} => batch' # batch]_vars

\* An idle sandbox is paused in the end.
IdleIsPaused == prov = "running" ~> prov # "running"

\* No message is left behind, whatever request or crash meets its delivery.
MessagesAreHandled == \A m \in Messages : m \in delayed ~> m \notin delayed

-----------------------------------------------------------------------------
(* The inductive invariants the proofs rest on.                            *)

\* What a request does at each position.
PcInv ==
  \A r \in Requests :
    /\ pc[r] = "new" <=> op[r] = "none"
    /\ pc[r] = "launch" => op[r] = "create"
    /\ pc[r] = "resume" => op[r] \in {"resume", "delete"}
    /\ pc[r] = "check" => op[r] \in {"timeout", "pause", "delete"}
    /\ pc[r] = "halt" => op[r] = "pause"
    /\ pc[r] = "kill" => op[r] = "delete"
    /\ pc[r] = "row" => op[r] \in Ops
    /\ pc[r] \in {"extend", "zadd", "hset"} => Schedules(op[r])
    /\ op[r] = "pause" => "pause" \in Ops

\* The sandbox is created before anybody else knows its id.
CreatedFirst ==
  \A a, r \in Requests : op[a] = "create" /\ r # a /\ op[r] # "none" => pc[a] = "done"

\* After its kill a delete leaves nothing that could bring sandbox or row back.
Killed(r) == op[r] = "delete" /\ pc[r] \in {"hget", "zrem", "hdel", "write", "done"}
DeleteInv ==
  /\ \A r \in Requests : Killed(r) => prov = "gone"
  /\ DeletedStaysDeleted

\* Nobody has heard of a message before the hash has it, and it is not due before.
Unknown(r) ==
  /\ r # current /\ r # cur /\ r \notin batch \union due
  /\ \A a \in Actors : old[a] # r
MessageInv ==
  \A r \in Requests :
    /\ pc[r] \in RequestPc \ {"hset", "write", "done", "failed"} => Unknown(r) /\ r \notin delayed
    /\ pc[r] = "hset" => Unknown(r) /\ r \in delayed

\* A message that has left the sorted set leaves the hash next.
HashInv ==
  crashes = 0 /\ current # NoMsg /\ current \notin delayed =>
    pc[Consumer] = "ack_hash" \/ \E a \in Actors : pc[a] = "hdel"

\* Requests and the consumer take turns, nothing fails, and only time-outs pause.
Orderly == ~Overlap /\ "pause" \notin Ops /\ Faults = {} /\ MaxCrashes = 0

\* Nothing is there before the create, and while the consumer is busy no request is; past its pause the sandbox does not run.
Pausing == pc[Consumer] \in {"hget", "zrem", "hdel", "write", "ack", "ack_hash"}
TurnInv ==
  /\ (\A r \in Requests : op[r] = "none") => prov = "none" /\ row = "none" /\ pc[Consumer] = "idle"
  /\ pc[Consumer] # "idle" => \A r \in Requests : Resting(r)
  /\ Pausing => prov # "running"

\* Requests on their way to a new message or a kill, and those that will write "running".
Setting(r) ==
  \/ Schedules(op[r]) /\ pc[r] \in {"extend", "hget", "zrem", "hdel", "zadd"}
  \/ pc[r] = "kill"
Starting(r, o) ==
  op[r] = o /\ pc[r] \in {"extend", "hget", "zrem", "hdel", "zadd", "hset", "write"}

TimeoutInv == prov = "running" => delayed # {} \/ \E r \in Requests : Setting(r)

StateInv ==
  /\ prov \in {"running", "paused"} /\ row = "none" => \E r \in Requests : Starting(r, "create")
  /\ prov = "running" /\ row = "paused" =>
       \E r \in Requests : Starting(r, "resume") \/ pc[r] = "kill"
  /\ prov = "paused" /\ row = "running" => pc[Consumer] \in {"hget", "zrem", "hdel", "write"}
  /\ \A r \in Requests : Starting(r, "create") => row = "none" /\ prov = "running"
  /\ \A r \in Requests : Starting(r, "resume") => prov # "paused"
  /\ \A r \in Requests : op[r] = "create" /\ pc[r] = "launch" => row = "none" /\ prov = "none"

OrderInv == TurnInv /\ TimeoutInv /\ StateInv
=============================================================================
