------------------------------ MODULE ChatRun ------------------------------
(* The chat mode of one session: the streams of stream_chat_response, each *)
(* with its row in agent_run_tasks and its cancellation key, the message   *)
(* table they share, stop_conversation, the deletion of the history, and   *)
(* clients that disconnect.  Rows of runs are guarded by a version column: *)
(* a write of a row that has changed since it was read raises.             *)
EXTENDS Integers, Sequences, SequencesExt, FiniteSets, Subsequences

CONSTANTS NRuns,     \* the streams that may be opened, numbered in the order of their opening
          MaxCalls,  \* bound: tool rounds of a stream that are recorded
          MaxUpsets, \* bound: stops, deletions, disconnections, expiries, failures (Redis's included),
                     \* clean-ups, replies cut short, replies that cost nothing and streams opened
                     \* beside another, together
          Threshold, \* tokens from which a history is reduced
          ListLimit  \* rows a listing reads, of the oldest: 1000 in the code

ASSUME BoundAssumption ==
  /\ NRuns \in Nat \ {0} /\ MaxCalls \in Nat /\ MaxUpsets \in Nat
  /\ Threshold \in Nat \ {0} /\ ListLimit \in Nat \ {0}

VARIABLES msgs,    \* chat_messages of the session in the order of created_at
          task,    \* status and version of each run's row
          key,     \* cancellation key of each run
          pc, reply, hist,  \* of each stream: its place, the LLM's reply, its list of messages
          read,    \* version of the row a stream has read
          charged, \* credits were deducted for the run
          stop,    \* the stop request under way
          upsets,  \* history variable: how often the bound's events have happened
          late,    \* history variable: LLM calls and saves of a run after its key said stop, and after
                  \* the last check that Redis failed
          torn,    \* history variable: runs broken off: the client left, the messages were deleted
                   \* under way, or an exception left the stream before its messages were marked
          peers    \* history variable: runs that streamed when a run read its history, or whose results
                  \* were beyond the limit of the listing

vars == <<msgs, task, key, pc, reply, hist, read, charged, stop, upsets, late, torn, peers>>
rows == <<task, key>>
ghosts == <<late, torn, peers>>

Runs   == 1 .. NRuns
Over   == {"idle", "done", "lost"}
Live   == {r \in Runs : pc[r] \notin Over}
Places == Over \union {"open", "register", "setup", "top", "call", "llm", "check", "save", "tools",
                       "charge", "refresh", "complete", "cleanup", "catch", "abort", "mark"}
\* Where a check leads that finds no cancellation.
Passed(r) == IF pc[r] = "top" THEN "call" ELSE "save"
NoStop == [at |-> "idle", run |-> 1, version |-> 0]

User(r) == [run |-> r, kind |-> "user", tokens |-> 0]
Said(r, kind, t) == [run |-> r, kind |-> kind, tokens |-> t]
\* What ends a turn: calls to run, a text, or calls cut short (by max tokens, or for an unknown reason).
Replies == {"call", "answer", "cut"}
Kinds   == Replies \union {"user", "result"}
Message == [run : Runs, kind : Kinds, tokens : 0 .. 2]
Row(m)  == [msg |-> m, finished |-> TRUE]

----------------------------------------------------------------------------
\* Mutant: the rows are returned as they are.
RowsBySession == Pick(msgs, {i \in DOMAIN msgs : msgs[i].finished})
\* list_by_session: the finished messages among the oldest rows, in order.
ListBySession ==
  LET kept == Pick(msgs, {i \in DOMAIN msgs : i <= ListLimit /\ msgs[i].finished})
  IN  [i \in DOMAIN kept |-> kept[i].msg]

\* One more of the events the bound is for.
Upset == upsets < MaxUpsets /\ upsets' = upsets + 1

\* create_message
Create(m) == msgs' = Append(msgs, Row(m))

\* Mutant: of the children only the answers are marked.
MarkAnswers(r) ==
  msgs' = [i \in DOMAIN msgs |-> IF msgs[i].msg.run = r /\ msgs[i].msg.kind = "answer"
                                   THEN [msgs[i] EXCEPT !.finished = FALSE] ELSE msgs[i]]
\* mark_messages_incomplete: the children of the run's user message, not the message itself.
MarkIncomplete(r) ==
  msgs' = [i \in DOMAIN msgs |-> IF msgs[i].msg.run = r /\ msgs[i].msg.kind # "user"
                                   THEN [msgs[i] EXCEPT !.finished = FALSE] ELSE msgs[i]]

Tokens(h) == FoldLeft(LAMBDA sum, m : sum + m.tokens, 0, h)

\* reduce_message_tokens: from the first user message after which the tokens are below the threshold.
Reduce(h) ==
  LET cuts == {i \in DOMAIN h : h[i].kind = "user" /\ Tokens(SubSeq(h, i + 1, Len(h))) < Threshold}
  IN  IF Tokens(h) < Threshold \/ cuts = {} THEN h
      ELSE SubSeq(h, CHOOSE i \in cuts : \A j \in cuts : i <= j, Len(h))

\* The status of a row is written; a status that does not change is no write.
Write(r, status) ==
  task' = IF task[r].status = status THEN task
          ELSE [task EXCEPT ![r] = [status |-> status, version |-> @.version + 1]]

\* Mutant: the key's value is compared with a value of another type.
NeverCancelled(r) == FALSE
\* is_cancelled, where Redis answers.
Cancelled(r) == key[r] = "stop"
\* An error of Redis is read as not cancelled.
Misread(r) == Cancelled(r) /\ Upset /\ late' = [late EXCEPT ![r] = 0]
Late(r) == late' = IF Cancelled(r) THEN [late EXCEPT ![r] = @ + 1] ELSE late
Goto(r, place) == pc' = [pc EXCEPT ![r] = place]
Locals == <<reply, hist, read, late, peers>>
\* The stream is over and its locals are gone.
Finish(r, place) ==
  /\ Goto(r, place)
  /\ reply' = [reply EXCEPT ![r] = "none"] /\ hist' = [hist EXCEPT ![r] = <<>>] /\ read' = [read EXCEPT ![r] = 0]
  /\ late' = [late EXCEPT ![r] = 0] /\ peers' = [peers EXCEPT ![r] = {}]

----------------------------------------------------------------------------
Init ==
  /\ msgs = <<>>
  /\ task = [r \in Runs |-> [status |-> "NONE", version |-> 0]]
  /\ key = [r \in Runs |-> "none"]
  /\ pc = [r \in Runs |-> "idle"]
  /\ reply = [r \in Runs |-> "none"]
  /\ hist = [r \in Runs |-> <<>>]
  /\ read = [r \in Runs |-> 0]
  /\ charged = [r \in Runs |-> 0]
  /\ stop = NoStop /\ upsets = 0
  /\ late = [r \in Runs |-> 0]
  /\ torn = {}
  /\ peers = [r \in Runs |-> {}]

----------------------------------------------------------------------------
(* A stream. *)

\* The runs with results the listing does not reach.
Beyond ==
  {q \in Runs : \E i \in DOMAIN msgs : i > ListLimit /\ msgs[i].msg.run = q /\ msgs[i].msg.kind = "result"}

\* The history is read, before the user's message is in the table.
Load(r) ==
  /\ pc[r] = "idle" /\ \A q \in 1 .. r - 1 : pc[q] # "idle"
  /\ hist' = [hist EXCEPT ![r] = ListBySession]
  /\ peers' = [peers EXCEPT ![r] = Live \union Beyond]
  /\ Goto(r, "open")
  /\ IF Live = {} THEN UNCHANGED upsets ELSE Upset
  /\ UNCHANGED <<msgs, rows, reply, read, charged, stop, late, torn>>

\* The user's message and the row of the run are committed.
Open(r) ==
  /\ pc[r] = "open"
  /\ Create(User(r))
  /\ hist' = [hist EXCEPT ![r] = Append(@, User(r))]
  /\ task' = [task EXCEPT ![r] = [status |-> "RUNNING", version |-> 1]]
  /\ Goto(r, "register")
  /\ UNCHANGED <<key, reply, read, charged, stop, upsets, ghosts>>

\* A key that Redis refuses is like one that expires at once (Expire).
Register(r) ==
  /\ pc[r] = "register"
  /\ key' = [key EXCEPT ![r] = "run"]
  /\ Goto(r, "setup")
  /\ UNCHANGED <<msgs, task, reply, hist, read, charged, stop, upsets, ghosts>>

\* The vector store, the provider and the tools are prepared before the try: an exception leaves all as it is.
Setup(r, ok) ==
  /\ pc[r] = "setup"
  /\ IF ok THEN Goto(r, "top") /\ UNCHANGED <<Locals, torn, upsets>>
           ELSE Finish(r, "lost") /\ Upset /\ torn' = torn \union {r}
  /\ UNCHANGED <<msgs, rows, charged, stop>>

\* Mutant: the check before a reply is saved is left out.
TopOnly(r) ==
  /\ pc[r] \in {"top", "check"}
  /\ IF Cancelled(r) /\ pc[r] = "top"
       THEN Goto(r, "catch") /\ reply' = [reply EXCEPT ![r] = "canceled"]
       ELSE Goto(r, Passed(r)) /\ UNCHANGED reply
  /\ UNCHANGED <<msgs, rows, hist, read, charged, stop, upsets, ghosts>>

\* raise_if_cancelled before a turn and before its message is saved.
CheckCancelled(r) ==
  /\ pc[r] \in {"top", "check"}
  /\ \/ /\ Cancelled(r) /\ UNCHANGED <<upsets, late>>
        /\ Goto(r, "catch") /\ reply' = [reply EXCEPT ![r] = "canceled"]
     \/ /\ Misread(r) \/ (~ Cancelled(r) /\ UNCHANGED <<upsets, late>>)
        /\ Goto(r, Passed(r)) /\ UNCHANGED reply
  /\ UNCHANGED <<msgs, rows, hist, read, charged, stop, torn, peers>>

CallLlm(r) ==
  /\ pc[r] = "call"
  /\ hist' = [hist EXCEPT ![r] = Reduce(@)]
  /\ Late(r)
  /\ Goto(r, "llm")
  /\ UNCHANGED <<msgs, rows, reply, read, charged, stop, upsets, torn, peers>>

\* The provider's stream ends with a reply, or with an exception or no complete event; it is the reason for
\* the end that says whether there are tools to run, not the calls a reply holds.
Respond(r, kind) ==
  /\ pc[r] = "llm"
  /\ reply' = [reply EXCEPT ![r] = kind]
  /\ Goto(r, IF kind = "error" THEN "catch" ELSE "check")
  /\ IF kind \in {"error", "cut"} THEN Upset ELSE UNCHANGED upsets
  /\ UNCHANGED <<msgs, rows, hist, read, charged, stop, ghosts>>

\* Calls beyond the bound are made but not recorded.
Recorded(r) ==
  reply[r] # "call" \/ Cardinality({i \in DOMAIN hist[r] : hist[r][i].run = r /\ hist[r][i].kind = "call"}) < MaxCalls

\* The reply is saved; raise_if_cancelled follows before anything else is done.
Save(r) ==
  /\ pc[r] = "save"
  /\ IF Recorded(r)
       THEN LET m == Said(r, reply[r], 1) IN Create(m) /\ hist' = [hist EXCEPT ![r] = Append(@, m)]
       ELSE UNCHANGED <<msgs, hist>>
  /\ \/ /\ Cancelled(r) /\ Late(r) /\ UNCHANGED upsets
        /\ Goto(r, "catch") /\ reply' = [reply EXCEPT ![r] = "canceled"]
     \/ /\ Misread(r) \/ (~ Cancelled(r) /\ UNCHANGED <<upsets, late>>)
        /\ Goto(r, IF reply[r] = "call" THEN "tools" ELSE "charge") /\ UNCHANGED reply
  /\ UNCHANGED <<rows, read, charged, stop, torn, peers>>

\* Every call gets a result, an error one if the tool is unknown or raises; they are saved as one message.
RunTools(r) ==
  /\ pc[r] = "tools"
  /\ IF Last(hist[r]) = Said(r, "call", 1)
       THEN LET m == Said(r, "result", 0) IN Create(m) /\ hist' = [hist EXCEPT ![r] = Append(@, m)]
       ELSE UNCHANGED <<msgs, hist>>
  /\ Late(r)
  /\ Goto(r, "top")
  /\ UNCHANGED <<rows, reply, read, charged, stop, upsets, torn, peers>>

\* The usage of the last turn is deducted and committed; a model that is gone from the settings raises.
\* The user's own models are free, and a deduction that is refused is not looked at.
Charge(r, ok) ==
  /\ pc[r] = "charge"
  /\ IF ok THEN /\ Goto(r, "refresh") /\ UNCHANGED reply
                /\ \/ charged' = [charged EXCEPT ![r] = @ + 1] /\ UNCHANGED upsets
                   \/ UNCHANGED charged /\ Upset
           ELSE Goto(r, "catch") /\ reply' = [reply EXCEPT ![r] = "error"] /\ Upset /\ UNCHANGED charged
  /\ UNCHANGED <<msgs, rows, hist, read, stop, ghosts>>

\* The row is read again before its status is written, at the end and in the handler of exceptions.
Refresh(r) ==
  /\ pc[r] \in {"refresh", "catch"}
  /\ read' = [read EXCEPT ![r] = task[r].version]
  /\ Goto(r, IF pc[r] = "refresh" THEN "complete" ELSE "abort")
  /\ UNCHANGED <<msgs, rows, reply, hist, charged, stop, upsets, ghosts>>

\* Mutant: the handler goes on after a failed write.
CompleteAnyway(r) ==
  /\ pc[r] = "complete"
  /\ IF task[r].version = read[r] THEN Write(r, "COMPLETED") ELSE UNCHANGED task
  /\ Goto(r, IF task[r].version = read[r] THEN "cleanup" ELSE "mark")
  /\ UNCHANGED <<msgs, key, Locals, charged, stop, upsets, torn>>

\* A failed write leaves the database session unusable, so that the handler's own refresh raises too.
Complete(r) ==
  /\ pc[r] = "complete"
  /\ IF task[r].version = read[r]
       THEN Write(r, "COMPLETED") /\ Goto(r, "cleanup") /\ UNCHANGED Locals
       ELSE Finish(r, "lost") /\ UNCHANGED task
  /\ UNCHANGED <<msgs, key, charged, stop, upsets, torn>>

\* The handler of exceptions: ABORTED or FAILED, then the messages of the run and its key.
Catch(r) ==
  /\ pc[r] = "abort"
  /\ IF task[r].version = read[r]
       THEN /\ Write(r, IF reply[r] = "canceled" THEN "ABORTED" ELSE "FAILED")
            /\ Goto(r, "mark") /\ UNCHANGED <<Locals, torn>>
       ELSE Finish(r, "lost") /\ torn' = torn \union {r} /\ UNCHANGED task
  /\ UNCHANGED <<msgs, key, charged, stop, upsets>>

Mark(r) ==
  /\ pc[r] = "mark"
  /\ MarkIncomplete(r)
  /\ key' = [key EXCEPT ![r] = "none"]
  /\ Finish(r, "done")
  /\ UNCHANGED <<task, charged, stop, upsets, torn>>

Cleanup(r) ==
  /\ pc[r] = "cleanup"
  /\ key' = [key EXCEPT ![r] = "none"]
  /\ Finish(r, "done")
  /\ UNCHANGED <<msgs, task, charged, stop, upsets, torn>>

\* The client is gone: neither GeneratorExit nor CancelledError is caught.
Disconnect(r) ==
  /\ r \in Live
  /\ Finish(r, "lost") /\ Upset
  /\ torn' = torn \union {r}
  /\ UNCHANGED <<msgs, rows, charged, stop>>

\* The key's hour is over; a key that says stop is read within it.
Expire(r) ==
  /\ key[r] = "run"
  /\ key' = [key EXCEPT ![r] = "none"] /\ Upset
  /\ UNCHANGED <<msgs, task, pc, reply, hist, read, charged, stop, ghosts>>

\* The clean-up job.
Reap(r) ==
  /\ task[r].status = "RUNNING"
  /\ Write(r, "SYSTEM_INTERRUPTED") /\ Upset
  /\ UNCHANGED <<msgs, key, pc, reply, hist, read, charged, stop, ghosts>>

----------------------------------------------------------------------------
(* Requests that change the session beside the streams. *)

Running == {r \in Runs : task[r].status = "RUNNING"}

\* The one running row is looked up: scalar_one_or_none raises if there are more.
StopFind ==
  /\ stop.at = "idle" /\ Upset
  /\ \/ Cardinality(Running) > 1 /\ stop' = [stop EXCEPT !.at = "failed"]
     \/ \E r \in Running : Running = {r} /\ stop' = [stop EXCEPT !.at = "cancel", !.run = r]
  /\ UNCHANGED <<msgs, rows, pc, reply, hist, read, charged, ghosts>>

\* cancel_run: without a key, or with an error of Redis, the run is left alone.
StopCancel ==
  /\ stop.at = "cancel"
  /\ \/ /\ key[stop.run] # "none" /\ UNCHANGED upsets
        /\ stop' = [stop EXCEPT !.at = "refresh"] /\ key' = [key EXCEPT ![stop.run] = "stop"]
     \/ /\ Upset \/ (key[stop.run] = "none" /\ UNCHANGED upsets)
        /\ stop' = NoStop /\ UNCHANGED key
  /\ UNCHANGED <<msgs, task, pc, reply, hist, read, charged, ghosts>>

StopRefresh ==
  /\ stop.at = "refresh"
  /\ stop' = IF task[stop.run].status = "RUNNING"
                 THEN [stop EXCEPT !.at = "write", !.version = task[stop.run].version] ELSE NoStop
  /\ UNCHANGED <<msgs, rows, pc, reply, hist, read, charged, upsets, ghosts>>

StopWrite ==
  /\ stop.at = "write"
  /\ IF task[stop.run].version = stop.version
       THEN Write(stop.run, "ABORTED") /\ stop' = NoStop
       ELSE stop' = [stop EXCEPT !.at = "failed"] /\ UNCHANGED task
  /\ UNCHANGED <<msgs, key, pc, reply, hist, read, charged, upsets, ghosts>>

\* The request is answered with an error.
StopFailed ==
  /\ stop.at = "failed"
  /\ stop' = NoStop
  /\ UNCHANGED <<msgs, rows, pc, reply, hist, read, charged, upsets, ghosts>>

\* clear_messages
Clear ==
  /\ msgs # <<>>
  /\ msgs' = <<>> /\ Upset
  /\ torn' = torn \union Live
  /\ UNCHANGED <<rows, pc, reply, hist, read, charged, stop, late, peers>>

----------------------------------------------------------------------------
Stream(r) ==
  \/ Open(r) \/ Register(r) \/ Setup(r, TRUE) \/ CheckCancelled(r) \/ CallLlm(r)
  \/ \E kind \in Replies : Respond(r, kind)
  \/ Save(r) \/ RunTools(r) \/ Charge(r, TRUE) \/ Refresh(r)
  \/ Complete(r) \/ Catch(r) \/ Mark(r) \/ Cleanup(r)

StopStep == StopFind \/ StopCancel \/ StopRefresh \/ StopWrite \/ StopFailed

Next ==
  \/ \E r \in Runs : Load(r) \/ Stream(r) \/ Setup(r, FALSE) \/ Respond(r, "error") \/ Charge(r, FALSE)
                   \/ Disconnect(r) \/ Expire(r) \/ Reap(r)
  \/ StopStep \/ Clear

Spec == Init /\ [][Next]_vars

\* The LLM, the tools and the database answer a stream that is connected.
FairSpec == Spec /\ \A r \in Runs : WF_vars(Stream(r))

----------------------------------------------------------------------------
TypeOK ==
  /\ msgs \in Seq([msg : Message, finished : BOOLEAN])
  /\ task \in [Runs -> [status : {"NONE", "RUNNING", "COMPLETED", "FAILED", "ABORTED", "SYSTEM_INTERRUPTED"},
                        version : 0 .. 3]]
  /\ key \in [Runs -> {"none", "run", "stop"}]
  /\ pc \in [Runs -> Places]
  /\ reply \in [Runs -> Replies \union {"none", "error", "canceled"}]
  /\ hist \in [Runs -> Seq(Message)]
  /\ read \in [Runs -> 0 .. 2]
  /\ charged \in [Runs -> 0 .. 1]
  /\ stop \in [at : {"idle", "cancel", "refresh", "write", "failed"}, run : Runs, version : 0 .. 1]
  /\ upsets \in 0 .. MaxUpsets
  /\ late \in [Runs -> Nat]
  /\ torn \subseteq Runs
  /\ peers \in [Runs -> SUBSET Runs]

\* What a stream sends to the LLM holds the user's message it answers, and no tool call without its result,
\* unless the call is of another run: of a reply that was cut short, whose calls nobody runs, or of a run
\* that was streaming when the history was read, that was broken off, or whose result the listing's limit
\* leaves out.
SentIsAnswered ==
  \A r \in Runs : pc[r] = "llm" =>
    /\ Contains(hist[r], User(r))
    /\ \A i \in DOMAIN hist[r] : LET m == hist[r][i] IN
         m.kind \in {"call", "cut"} =>
           \/ \E j \in i + 1 .. Len(hist[r]) : hist[r][j].run = m.run /\ hist[r][j].kind = "result"
           \/ m.run # r /\ (m.kind = "cut" \/ m.run \in peers[r] \/ m.run \in torn)

\* After a stop has reached a stream's key the stream begins at most one step more that is seen outside, a
\* call of the LLM or a message that is saved; and at most one more after every check that Redis fails.
StopIsPrompt == \A r \in Runs : late[r] <= 1

\* The last reply of a run is in the table, finished.
HasReply(r) == \E i \in DOMAIN msgs, kind \in {"answer", "cut"} : msgs[i] = Row(Said(r, kind, 1))

\* What is charged for, and what completes, is a reply that stays in the history beside the user's message,
\* unless the run was broken off or the history deleted.
PaidAnswerKept ==
  \A r \in Runs :
    /\ charged[r] = 1 \/ task[r].status = "COMPLETED"
    /\ r \notin torn
    /\ \E i \in DOMAIN msgs : msgs[i].msg = User(r)
    => HasReply(r)

\* How many steps a stream has left at most once its key says stop.
StepsLeft(place) ==
  CASE place \in Over -> 0
    [] place \in {"cleanup", "mark"} -> 1
    [] place \in {"complete", "abort"} -> 2
    [] place \in {"refresh", "catch"} -> 3
    [] place \in {"top", "check", "save", "charge"} -> 4
    [] place \in {"setup", "tools", "llm"} -> 5
    [] OTHER -> 6

\* A stop is not taken back before the stream is over, and every step of the stream brings it closer to that,
\* but for the checks that Redis fails.
StopCountsDown ==
  [][\A r \in Runs : key[r] = "stop" =>
       /\ key'[r] = "stop" \/ pc'[r] \in Over
       /\ Stream(r) \/ pc'[r] # pc[r] =>
            \/ StepsLeft(pc'[r]) < StepsLeft(pc[r])
            \/ Misread(r) /\ pc[r] \in {"top", "check", "save"}]_vars

\* A stream whose key says stop ends, however many tools the LLM asks for, once Redis answers (MaxUpsets
\* bounds its failures).
StoppedRunEnds == \A r \in Runs : (key[r] = "stop" /\ r \in Live) ~> (r \notin Live)

----------------------------------------------------------------------------
(* The inductive invariant the proofs rest on. *)

\* The types of what it speaks of, without the bounds of versions.
ControlOK ==
  /\ msgs \in Seq([msg : Message, finished : BOOLEAN])
  /\ task \in [Runs -> [status : {"NONE", "RUNNING", "COMPLETED", "FAILED", "ABORTED", "SYSTEM_INTERRUPTED"},
                        version : Nat]]
  /\ key \in [Runs -> {"none", "run", "stop"}]
  /\ pc \in [Runs -> Places]
  /\ reply \in [Runs -> Replies \union {"none", "error", "canceled"}]
  /\ charged \in [Runs -> 0 .. 1]
  /\ late \in [Runs -> Nat]
  /\ torn \subseteq Runs

\* A stream that is late has one step behind it and a check before it, and its key cannot lose the stop.
LateInv ==
  \A r \in Runs : late[r] # 0 =>
    late[r] = 1 /\ key[r] = "stop" /\ pc[r] \in {"llm", "check", "top", "catch", "abort", "mark"}

\* A run is charged at one place of its stream, if at all, and completes behind it.
ChargeInv ==
  \A r \in Runs :
    /\ charged[r] = 1 => pc[r] \in {"refresh", "complete", "cleanup", "done", "lost"}
    /\ task[r].status = "COMPLETED" => pc[r] \in {"cleanup", "done", "lost"}
    /\ pc[r] \in {"check", "save"} => reply[r] \in Replies

\* The reply is saved before the charge and outlives it, as long as the user's message is there.
KeptInv ==
  \A r \in Runs :
    /\ \/ pc[r] \in {"charge", "refresh", "complete", "cleanup"}
       \/ charged[r] = 1 \/ task[r].status = "COMPLETED"
    /\ r \notin torn
    /\ \E i \in DOMAIN msgs : msgs[i].msg = User(r)
    => HasReply(r)

\* There is no key before it is registered.
KeyInv == \A r \in Runs : pc[r] \in {"idle", "open", "register"} => key[r] = "none"

ChatInv == ControlOK /\ LateInv /\ ChargeInv /\ KeptInv

\* A row is RUNNING at version 1 and leaves it once, by whatever writes first; only a stream that ends
\* writes a row again, and no stop does.
VersionInv ==
  /\ \A r \in Runs :
       /\ task[r].status = "RUNNING" <=> task[r].version = 1
       /\ pc[r] \in {"idle", "open"} => task[r].version = 0
       /\ pc[r] \notin {"idle", "open", "lost"} => task[r].version # 0
       /\ pc[r] \notin {"cleanup", "mark", "done", "lost"} => task[r].version <= 2
  /\ stop.at = "write" => stop.version = 1

\* Where a stream has its list of messages, and where its question is in it.
Listed == {"open", "register", "setup", "top", "call", "llm", "check", "save", "tools"}
Posed  == Listed \ {"open"}

\* The stream's own question is the last question of its list, so that no reduction cuts it off.
PosedInv ==
  \A r \in Runs : pc[r] \in Posed =>
    \E u \in DOMAIN hist[r] : /\ hist[r][u] = User(r)
                             /\ \A i \in DOMAIN hist[r] : hist[r][i].kind = "user" => i <= u

\* The call at position i of a list has its result behind it.
Closed(h, i) == \E j \in DOMAIN h : i < j /\ h[j].run = h[i].run /\ h[j].kind = "result"
\* The last message of r is a call whose tools run.
Owes(r) == pc[r] = "tools" /\ Last(hist[r]) = Said(r, "call", 1)

\* A call in a list without a result is the stream's own last message, or of another run and excused.
CallsInv ==
  \A r \in Runs : pc[r] \in Listed =>
    \A i \in DOMAIN hist[r] : hist[r][i].kind \in {"call", "cut"} =>
      \/ Closed(hist[r], i)
      \/ /\ hist[r][i].run # r
         /\ hist[r][i].kind = "cut" \/ hist[r][i].run \in peers[r] \/ hist[r][i].run \in torn
      \/ Owes(r) /\ i = Len(hist[r])

\* The finished calls in the table have finished results, but for those of a stream that owes one,
\* whose handler has not marked them yet, or that was broken off.
TableInv ==
  \A r \in Runs : r \in torn \/ Owes(r) \/ pc[r] \in {"catch", "abort", "mark"} \/
    \A i \in DOMAIN msgs : msgs[i].finished /\ msgs[i].msg.run = r /\ msgs[i].msg.kind = "call" =>
      \E j \in DOMAIN msgs : /\ i < j /\ msgs[j].finished
                            /\ msgs[j].msg.run = r /\ msgs[j].msg.kind = "result"

\* A stream that has not asked has no message in the table.
UnaskedInv ==
  \A r \in Runs : pc[r] \in {"idle", "open"} => \A i \in DOMAIN msgs : msgs[i].msg.run # r

SentInv == PosedInv /\ CallsInv /\ TableInv /\ UnaskedInv

=============================================================================
