----------------------------- MODULE EventStream -----------------------------
(***************************************************************************)
(* The events of ONE run of one session on the stream that ALL sessions of *)
(* a server process share.  Earlier queries of the session, and those of   *)
(* other sessions, appear as the hooks they have left there.               *)
(*                                                                         *)
(* publish() sends an event through every hook in turn, then starts one    *)
(* task per subscriber and returns; nothing orders these tasks.  A task    *)
(* first asks whether the run of its event still runs, then writes the     *)
(* event to the history (DatabaseSubscriber) or to the room of the session *)
(* (SocketIOSubscriber).  Every query adds its hooks to the stream, and    *)
(* nothing takes them out again.                                           *)
(*                                                                         *)
(* The interleavings of row and cache of a run's status are AgentRun's;    *)
(* here a look-up is one step, an update is a flush and a commit.          *)
(***************************************************************************)
EXTENDS Naturals, Sequences, FiniteSets

CONSTANTS
  MaxSay,     \* bound: events of the run between its start and its end
  MaxHooks,   \* bound: hooks on the stream
  MaxLag,     \* bound: handler tasks in flight when an event is published
  MaxFaults   \* bound: failing commits, set-ups, downloads, uploads and handlers, cancels in vain

ASSUME BoundsOK == MaxSay \in Nat /\ MaxHooks \in Nat \ {0} /\ MaxLag \in Nat /\ MaxFaults \in Nat

\* message: the result of the message_user tool, the only one a UserMessageHook touches.
Statuses == {"ready", "interrupted", "cancelled", "failed"}   \* STATUS_UPDATE, ..., ERROR
\* exhausted: COMPLETE of a run out of turns; refused: ERROR, the answer to a cancel in vain.
Kinds == {"question", "processing", "reply", "message", "complete", "exhausted", "refused"} \union Statuses
Files == {"none", "path", "own", "other"}   \* what a message's attachment has become
Subscribers == {"db", "io"}

VARIABLES
  hooks,     \* whose sandbox each UserMessageHook of the stream reads
  row,       \* status of the run's row; "none": not committed
  cache,     \* the status the entity cache holds for it, "none" if it has none
  holder,    \* who has flushed an update of the row and not yet committed it
  pc,        \* position of the query handler (its agent included)
  said,      \* events its agent has published since the set-up
  outcome,   \* status the handler is going to write
  hook,      \* the publication in progress of a message: next hook, its attachment, uploads
  sent,      \* events published: whether with the run id, kind, number, attachment
  tasks,     \* handler tasks in flight: subscriber, event, position
  stored,    \* events in the history
  shown,     \* events emitted to the room
  raised,    \* handler tasks that ended by an exception
  faults     \* faults and refused cancels so far

runVars  == <<row, cache, holder>>
pcVars   == <<pc, said, outcome, hook>>
sentVars == <<sent, tasks>>
outVars  == <<stored, shown, raised>>
vars     == <<hooks, runVars, pcVars, sentVars, outVars, faults>>

Ended  == {"completed", "failed", "aborted"}
Status == {"none", "running"} \union Ended
NoHook == [next |-> 0, att |-> "none", uploads |-> 0]
Event  == [run : BOOLEAN, kind : Kinds, n : 0 .. MaxSay, file : Files]
Task   == [sub : Subscribers, e : Event, pc : {"check", "write"}]

TypeOK ==
  /\ hooks \in Seq({"own", "other"})
  /\ row \in Status /\ cache \in Status
  /\ holder \in {"none", "agent", "cancel"}
  /\ pc \in {"idle", "insert", "setup", "talk", "hook", "final", "commit", "done", "error"}
  /\ said \in 0 .. MaxSay
  /\ outcome \in {"none"} \union Ended
  /\ hook \in [next : Nat, att : Files, uploads : Nat]
  /\ sent \subseteq Event /\ tasks \subseteq Task
  /\ stored \subseteq sent /\ shown \subseteq sent
  /\ raised \subseteq Task
  /\ \A t \in tasks \union raised : t.e \in sent
  /\ faults \in 0 .. MaxFaults

Init ==
  /\ hooks \in {<< >>, <<"own">>, <<"other">>}
  /\ row = "none" /\ cache = "none" /\ holder = "none"
  /\ pc = "idle" /\ said = 0 /\ outcome = "none" /\ hook = NoHook
  /\ sent = {} /\ tasks = {} /\ stored = {} /\ shown = {} /\ raised = {}
  /\ faults = 0

-----------------------------------------------------------------------------
(* AsyncEventStream.publish, once the hooks are through.                   *)

\* Mutant: a status is checked like any other event.
UncheckedNoStatus(e) == ~e.run

\* Subscriber.should_handle asks nothing about an event without a run, or of a kind
\* that is_allowed_when_aborted.
Unchecked(e) == ~e.run \/ e.kind \in Statuses

Publish(events) ==
  /\ Cardinality(tasks) <= MaxLag
  /\ sent' = sent \union events
  /\ tasks' = tasks \union
       {[sub |-> s, e |-> e, pc |-> IF Unchecked(e) THEN "write" ELSE "check"] :
          s \in Subscribers, e \in events}

Ev(kind)    == [run |-> TRUE, kind |-> kind, n |-> 0, file |-> "none"]
Anon(kind)  == [Ev(kind) EXCEPT !.run = FALSE]      \* run_id is None
Fault       == faults < MaxFaults /\ faults' = faults + 1
Conclude(s) == outcome' = s /\ pc' = "final"

-----------------------------------------------------------------------------
(* UserQueryHandler.handle, under the session lock: no other run of the    *)
(* session is running.                                                     *)

Question == [run |-> FALSE, kind |-> "question", n |-> 0, file |-> "none"]

\* The user's message is added to the transaction, published, and only then committed.
Ask ==
  /\ pc = "idle"
  /\ Publish({Anon("question")})
  /\ pc' = "insert"
  /\ UNCHANGED <<hooks, runVars, said, outcome, hook, outVars, faults>>

\* Mutant: "processing" goes out before the commit that may fail.
StartRunEarly ==
  /\ pc = "insert"
  /\ Publish({Anon("processing")})
  /\ \/ /\ row' = "running"
        /\ stored' = stored \union {Question}
        /\ pc' = "setup"
        /\ UNCHANGED faults
     \/ /\ Fault
        /\ pc' = "error"
        /\ UNCHANGED <<row, stored>>
  /\ UNCHANGED <<hooks, cache, holder, said, outcome, hook, shown, raised>>

\* The commit of message and run, and the PROCESSING event that follows it.
StartRun ==
  /\ pc = "insert"
  /\ \/ /\ row' = "running"
        /\ stored' = stored \union {Question}
        /\ Publish({Ev("processing")})
        /\ pc' = "setup"
        /\ UNCHANGED faults
     \/ /\ Fault
        /\ pc' = "error"
        /\ UNCHANGED <<row, stored, sentVars>>
  /\ UNCHANGED <<hooks, cache, holder, said, outcome, hook, shown, raised>>

\* _init_chat_session: ChatSessionContext registers its hooks on the shared stream.
SetUp ==
  /\ pc = "setup"
  /\ \/ /\ hooks' = Append(hooks, "own")
        /\ pc' = "talk"
        /\ UNCHANGED <<outcome, sentVars, faults>>
     \/ /\ Fault
        /\ Publish({Anon("failed")})
        /\ Conclude("failed")
        /\ UNCHANGED hooks
  /\ UNCHANGED <<runVars, said, hook, outVars>>

\* A query of another session sets up its own context on the same stream.
OtherSetUp ==
  /\ Len(hooks) < MaxHooks
  /\ hooks' = Append(hooks, "other")
  /\ UNCHANGED <<runVars, pcVars, sentVars, outVars, faults>>

-----------------------------------------------------------------------------
(* The agent speaks.                                                       *)

\* An event no UserMessageHook touches: a thought, a tool call, a tool result.
Say ==
  /\ pc = "talk" /\ said < MaxSay
  /\ said' = said + 1
  /\ Publish({[Ev("reply") EXCEPT !.n = said]})
  /\ UNCHANGED <<hooks, runVars, pc, outcome, hook, outVars, faults>>

\* A message to the user with an attachment: every hook of the stream awaits its turn.
SayMessage ==
  /\ pc = "talk" /\ said < MaxSay
  /\ said' = said + 1
  /\ hook' = [next |-> 1, att |-> "path", uploads |-> 0]
  /\ pc' = "hook"
  /\ UNCHANGED <<hooks, runVars, outcome, sentVars, outVars, faults>>

\* Mutant: an attachment that has its URL is fetched and uploaded again.
HookStepAgain ==
  LET h == hook IN
  /\ pc = "hook" /\ h.next <= Len(hooks)
  /\ hook' = [next |-> h.next + 1, att |-> hooks[h.next], uploads |-> h.uploads + 1]
  /\ UNCHANGED <<hooks, runVars, pc, said, outcome, sentVars, outVars, faults>>

\* UserMessageHook.process_event.  A path is fetched from the HOOK's sandbox and uploaded
\* once; what cannot be fetched is dropped; a URL is handed on.
HookStep ==
  LET h == hook IN
  /\ pc = "hook" /\ h.next <= Len(hooks)
  /\ \/ /\ h.att = "path"
        /\ hook' = [next |-> h.next + 1, att |-> hooks[h.next], uploads |-> h.uploads + 1]
        /\ UNCHANGED faults
     \/ /\ h.att = "path"
        /\ IF hooks[h.next] = "other" THEN UNCHANGED faults ELSE Fault
        /\ hook' = [next |-> h.next + 1, att |-> "none", uploads |-> h.uploads]
     \/ /\ h.att # "path"
        /\ hook' = [hook EXCEPT !.next = @ + 1]
        /\ UNCHANGED faults
  /\ UNCHANGED <<hooks, runVars, pc, said, outcome, sentVars, outVars>>

\* The hooks are through.  They have rebuilt the event, without its run id.
HooksDone ==
  /\ pc = "hook" /\ hook.next > Len(hooks)
  /\ Publish({[Anon("message") EXCEPT !.n = said, !.file = hook.att]})
  /\ hook' = NoHook
  /\ pc' = "talk"
  /\ UNCHANGED <<hooks, runVars, said, outcome, outVars, faults>>

\* AgentRunService.get_task_by_id: the cache, or else the row, which fills the cache.
Told   == IF cache # "none" THEN cache ELSE row
LookUp == cache' = Told

\* Mutant: the run takes the name of the event for its status.
InterruptMisnamed ==
  /\ pc = "talk" /\ Told = "aborted"
  /\ LookUp
  /\ Publish({Ev("interrupted")})
  /\ Conclude("interrupted")
  /\ UNCHANGED <<hooks, row, holder, said, hook, outVars, faults>>

\* is_interrupted() has said so: an interrupted response, and the run ends.
Interrupt ==
  /\ pc = "talk" /\ Told = "aborted"
  /\ LookUp
  /\ Publish({Ev("interrupted")})
  /\ Conclude("aborted")
  /\ UNCHANGED <<hooks, row, holder, said, hook, outVars, faults>>

\* The last word: COMPLETE and the READY status, published without a pause.
Finish ==
  /\ pc = "talk"
  /\ Publish({Ev("complete"), Ev("ready")})
  /\ Conclude("completed")
  /\ UNCHANGED <<hooks, runVars, said, hook, outVars, faults>>

\* The turns are used up: COMPLETE, and no status follows.
OutOfTurns ==
  /\ pc = "talk"
  /\ Publish({Ev("exhausted")})
  /\ Conclude("completed")
  /\ UNCHANGED <<hooks, runVars, said, hook, outVars, faults>>

\* ChatSessionContext.arun: an exception of the agent becomes an error event, and the run
\* counts as completed.
Raise ==
  /\ pc \in {"talk", "hook"}
  /\ Fault
  /\ Publish({Anon("failed")})
  /\ hook' = NoHook
  /\ Conclude("completed")
  /\ UNCHANGED <<hooks, runVars, said, outVars>>

-----------------------------------------------------------------------------
(* update_task_status, of the query handler and of a cancel command.       *)

FinalFlush ==
  /\ pc = "final" /\ holder = "none"
  /\ cache' = "none"
  /\ IF row = outcome
     THEN pc' = "done" /\ UNCHANGED holder
     ELSE pc' = "commit" /\ holder' = "agent"
  /\ UNCHANGED <<hooks, row, said, outcome, hook, sentVars, outVars, faults>>

FinalCommit ==
  /\ pc = "commit"
  /\ row' = outcome
  /\ holder' = "none"
  /\ pc' = "done"
  /\ UNCHANGED <<hooks, cache, said, outcome, hook, sentVars, outVars, faults>>

CancelFlush ==
  /\ row = "running" /\ holder = "none"
  /\ cache' = "none"
  /\ holder' = "cancel"
  /\ UNCHANGED <<hooks, row, pcVars, sentVars, outVars, faults>>

\* The commit, the second evict and the CANCELLED status.
CancelCommit ==
  /\ holder = "cancel"
  /\ row' = "aborted"
  /\ cache' = "none"
  /\ holder' = "none"
  /\ Publish({Ev("cancelled")})
  /\ UNCHANGED <<hooks, pcVars, outVars, faults>>

\* CancelHandler: no run of the session is running, or another update of it was faster
\* (StaleDataError).  Bounds: told once, counted as a fault.
Refusal == [run |-> FALSE, kind |-> "refused", n |-> 0, file |-> "none"]

CancelRefused ==
  /\ row # "running" /\ Refusal \notin sent
  /\ Fault
  /\ Publish({Refusal})
  /\ UNCHANGED <<hooks, runVars, pcVars, outVars>>

-----------------------------------------------------------------------------
(* The handler tasks.                                                      *)

\* Mutant: a status that is not in the cache is no "running".
CheckCacheOnly(t) ==
  /\ t \in tasks /\ t.pc = "check"
  /\ tasks' = (tasks \ {t}) \union (IF cache = "running" THEN {[t EXCEPT !.pc = "write"]} ELSE {})
  /\ cache' = Told
  /\ UNCHANGED <<hooks, row, holder, pcVars, sent, outVars, faults>>

\* The task ends by an exception: nobody awaits it, and what it was to do is not done.
Fails(t) == Fault /\ tasks' = tasks \ {t} /\ raised' = raised \union {t}

\* should_handle: only events of a run that is running go on.  The look-up may raise.
Check(t) ==
  /\ t \in tasks /\ t.pc = "check"
  /\ \/ /\ tasks' = (tasks \ {t}) \union (IF Told = "running" THEN {[t EXCEPT !.pc = "write"]} ELSE {})
        /\ LookUp
        /\ UNCHANGED <<raised, faults>>
     \/ Fails(t) /\ UNCHANGED cache
  /\ UNCHANGED <<hooks, row, holder, pcVars, sent, stored, shown>>

\* SocketIOSubscriber.handle_event logs an emit that raises, and goes on.
Emit(t) ==
  /\ t \in tasks /\ t.sub = "io" /\ t.pc = "write"
  /\ \/ /\ shown' = shown \union {t.e}
        /\ tasks' = tasks \ {t}
        /\ UNCHANGED <<raised, faults>>
     \/ Fails(t) /\ UNCHANGED shown
  /\ UNCHANGED <<hooks, runVars, pcVars, sent, stored>>

\* DatabaseSubscriber.handle_event: the user's message is in the history already; of any
\* other event the copy of its file or the insert of its row may raise.
Save(t) ==
  /\ t \in tasks /\ t.sub = "db" /\ t.pc = "write"
  /\ \/ /\ stored' = IF t.e.kind = "question" THEN stored ELSE stored \union {t.e}
        /\ tasks' = tasks \ {t}
        /\ UNCHANGED <<raised, faults>>
     \/ t.e.kind # "question" /\ Fails(t) /\ UNCHANGED stored
  /\ UNCHANGED <<hooks, runVars, pcVars, sent, shown>>

Agent ==
  \/ StartRun \/ SetUp \/ Say \/ SayMessage \/ HookStep \/ HooksDone
  \/ Interrupt \/ Finish \/ OutOfTurns \/ Raise \/ FinalFlush \/ FinalCommit

Handle(t) == Check(t) \/ Emit(t) \/ Save(t)

Next ==
  \/ Ask \/ Agent \/ CancelFlush \/ CancelCommit \/ CancelRefused
  \/ OtherSetUp
  \/ \E t \in tasks : Handle(t)

Spec == Init /\ [][Next]_vars

\* The event loop runs every task; a user is never forced to ask or to cancel.
Fairness ==
  /\ WF_vars(Agent) /\ WF_vars(CancelCommit)
  /\ WF_vars(\E t \in tasks : Handle(t))

FairSpec == Spec /\ Fairness

-----------------------------------------------------------------------------
(* Properties.                                                             *)

Missed(e) == e \notin stored /\ \A t \in tasks : t.sub = "db" => t.e # e

\* An event gets lost on the way to the history only if its run has ended before its handler
\* looked, or if its own handler raised (DatabaseSubscriber.handle_event): the overtaking of
\* other tasks, a cancel and the failure of another event's handler lose none.
LostOnlyAfterEnd ==
  \A e \in sent :
    e.kind # "question" /\ Missed(e) =>
      \/ ~Unchecked(e) /\ row \in Ended
      \/ \E t \in raised : t.sub = "db" /\ t.e = e

\* Nothing that follows a user's message is shown or stored unless the message itself is in
\* the history, whichever of the transaction and the handler tasks is faster.  The refusal of
\* a cancel follows no message.
AnswersFollowQuestion ==
  \A e \in stored \union shown : e.kind \notin {"question", "refused"} => Question \in stored

\* However many queries have left their hook on the stream, an attachment is fetched and
\* registered among the session's files at most once (UserMessageHook._process_attachment).
UploadedOnce == hook.uploads <= 1

\* The event has reached the room, or a task that asks nothing more is about to emit it, or
\* socket.io has refused it.
OnItsWay(e) ==
  e \in shown \/ \E t \in tasks \union raised : t.sub = "io" /\ t.pc = "write" /\ t.e = e

\* A run that ends by its agent, an error or a cancel has told its user so, and no check drops
\* on the way what was told, although the run is over by then (Subscriber.should_handle,
\* query_handler.py:206-231, cancel_handler.py:59-80).  A run out of turns tells no status.
EndIsTold ==
  row \in Ended \/ pc \in {"final", "commit", "done"} =>
    \E e \in sent : e.kind = "exhausted" \/ (e.kind \in Statuses /\ OnItsWay(e))

\* A user who is to be told that the agent is ready, interrupted, cancelled or in error is really
\* told: the status reaches the room although the run is over when its handler looks, unless
\* socket.io itself fails (SocketIOSubscriber.handle_event, its except branch).
StatusIsShown ==
  LET told == {e \in sent : e.kind \in Statuses}
      refused == {t.e : t \in {u \in raised : u.sub = "io"}}
  IN  told \ (shown \union refused) # {} ~> told \subseteq shown \union refused

-----------------------------------------------------------------------------
(* What the code's documentation says and the code does not do.            *)

\* ChatSessionContext: "a single standalone chat session with its own agent, workspace, and
\* message handling": what is attached to a session's message is a file of its own sandbox.
OwnMessageHandling == \A e \in sent : e.file # "other"

-----------------------------------------------------------------------------
(* The inductive invariants the proofs rest on.                            *)

BeforeRow == {"idle", "insert", "error"}

\* Until the transaction of message and run has committed nothing but the question is out;
\* from then on the row exists, and its holder is the one who is about to write it.
PhaseInv ==
  /\ pc = "idle" => sent \subseteq {Refusal}
  /\ pc \in {"insert", "error"} => sent \ {Refusal} = {Question}
  /\ pc \in {"idle", "insert"} => said = 0
  /\ pc \in BeforeRow <=> row = "none"
  /\ pc \notin BeforeRow => Question \in stored
  /\ pc \in {"final", "commit"} => outcome \in Ended
  /\ holder = "agent" <=> pc = "commit"
  /\ holder = "cancel" => row = "running"

\* No status is dropped, and the one of the end is published before the end is written.
ToldInv ==
  /\ \A e \in sent : e.kind \in Statuses => OnItsWay(e)
  /\ row \in Ended \/ pc \in {"final", "commit", "done"} =>
       \E e \in sent : e.kind \in Statuses \union {"exhausted"}

\* The hook in turn reads its own entry, and a path has not been uploaded.
HookInv ==
  /\ pc = "hook" => hook.next >= 1
  /\ hook.uploads <= 1
  /\ hook.att = "path" => hook.uploads = 0

\* The cache knows of no end before the table; what needs no check is not checked.
TaskInv ==
  /\ cache \in Ended => row \in Ended
  /\ \A t \in tasks : t.pc = "check" => ~Unchecked(t.e)
  /\ LostOnlyAfterEnd

StreamInv == PhaseInv /\ HookInv /\ TaskInv
=============================================================================
