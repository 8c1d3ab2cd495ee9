----------------------------- MODULE AgentTurn -----------------------------
(* One AgentController and its dialogue history over several runs: the     *)
(* loop of run_impl (truncate, check for an interruption, call the LLM,    *)
(* run the tools, add their results), and the repair that removes calls    *)
(* without result and results without call.  A turn is a set of blocks:    *)
(* texts, prompts and tool calls are what the properties tell apart.       *)
EXTENDS Integers, Sequences, SequencesExt, FiniteSets, Subsequences

CONSTANTS Caller,    \* who runs the agent: "session", or the tool of a sub-agent
          Runs,      \* bound: invocations of the agent
          MaxTurns,  \* max_turns
          MaxCalls   \* bound: tool calls in a history

ASSUME CallerAssumption == Caller \in {"session", "task", "research"}
ASSUME BoundAssumption == Runs \in Nat /\ MaxTurns \in Nat \ {0} /\ MaxCalls \in Nat \ {0}

VARIABLES hist,     \* State.message_lists of the controller
          saved,    \* the history in the file store
          pc, run, left,
          aborted,  \* status of the run's row is ABORTED
          pending,  \* tool calls of the turn that are still to be run or answered
          results,  \* results of the batch
          shown,    \* calls announced by TOOL_CALL and not yet by TOOL_RESULT
          said      \* history variable: prompts this run must know of

vars == <<hist, saved, pc, run, left, aborted, pending, results, shown, said>>

\* What a tool does: unknown to the manager, returns, raises, or is the user message that ends the task.
Tools == {"unknown", "ok", "raise", "final"}

CallIds == (1 .. Runs) \X (0 .. MaxTurns) \X (1 .. MaxCalls)
Text       == [kind |-> "text"]   \* any content of an assistant that is not a call
Prompt(n)  == [kind |-> "prompt", of |-> {n}]
Summary(S) == [kind |-> "prompt", of |-> S]
Call(c)    == [kind |-> "call", id |-> c]
Result(c)  == [kind |-> "result", id |-> c]

Block == {Text} \union [kind : {"prompt"}, of : SUBSET (1 .. Runs)]
           \union [kind : {"call", "result"}, id : CallIds]

Of(kind, turn) == {b \in turn : b.kind = kind}
Ids(kind, h)   == {b.id : b \in UNION {Of(kind, h[i]) : i \in DOMAIN h}}
\* The runs whose instruction a history still tells of, itself or by a summary.
Prompts(h)     == UNION {b.of : b \in UNION {Of("prompt", h[i]) : i \in DOMAIN h}}

----------------------------------------------------------------------------
\* One turn of a history after the repair, given the ids with both call and result.
Cleaned(turn, valid) ==
  IF Of("call", turn) # {}
    THEN {b \in turn : b.kind # "call" \/ b.id \in valid}
  ELSE IF Of("result", turn) # {}
    THEN {b \in turn : b.kind = "result" /\ b.id \in valid}
  ELSE turn

\* Mutant: calls are kept whether they have a result or not.
KeepsCalls(h) ==
  LET clean == [i \in DOMAIN h |-> Cleaned(h[i], Ids("call", h))]
  IN  Pick(clean, {i \in DOMAIN clean : clean[i] # {}})

\* State._ensure_tool_call_integrity
EnsureIntegrity(h) ==
  LET valid == Ids("call", h) \intersect Ids("result", h)
      clean == [i \in DOMAIN h |-> Cleaned(h[i], valid)]
  IN  Pick(clean, {i \in DOMAIN clean : clean[i] # {}})

\* LLMCompact: the whole history becomes one user message with a summary of it.
Compact(h) == <<{Summary(Prompts(h))}>>

\* add_tool_call_result: a turn of the user with one result.
AddResult(h, c) == Append(h, {Result(c)})
\* The same for every call of a batch, one after the other.
AddResults(h, calls) == h \o [i \in DOMAIN calls |-> {Result(calls[i].id)}]

\* add_fake_assistant_turn
AddFakeTurn(h) == Append(h, {Text})

----------------------------------------------------------------------------
Init ==
  /\ hist = <<>> /\ saved = <<>> /\ pc = "idle" /\ run = 0 /\ left = 0
  /\ aborted = FALSE /\ pending = <<>> /\ results = <<>> /\ shown = {} /\ said = {}

\* The history a run begins with: restored from the file store and cleared unless the query resumes;
\* a sub-agent's controller keeps its own.
Base(resume) ==
  IF Caller # "session" THEN hist ELSE IF resume THEN saved ELSE <<>>

\* run_agent_async or the tool's execute, up to the loop; `fetched` tells whether the images could be loaded.
Start(resume, fetched) ==
  /\ pc = "idle" /\ run < Runs
  /\ Caller # "session" => resume /\ fetched
  /\ run' = run + 1
  /\ left' = MaxTurns
  /\ aborted' = (Caller # "session" /\ aborted)
  /\ hist' = IF fetched THEN Append(Base(resume), {Prompt(run + 1)}) ELSE Base(resume)
  /\ said' = Prompts(hist')
  /\ pc' = IF fetched THEN "top" ELSE "ending"
  /\ UNCHANGED <<saved, pending, results, shown>>

\* Mutant: the bound is not tested.
TruncateUnbounded(over) ==
  /\ pc = "top"
  /\ IF over THEN pc' = "compact" /\ UNCHANGED <<hist, left>>
             ELSE pc' = "check" /\ hist' = EnsureIntegrity(hist) /\ left' = left - 1
  /\ UNCHANGED <<saved, run, aborted, pending, results, shown, said>>

\* truncate_history: below the budget the history is only repaired; above it the LLM is first called
\* for a summary, with the history as it is.
Truncate(over) ==
  /\ pc = "top" /\ left > 0
  /\ IF over THEN pc' = "compact" /\ UNCHANGED <<hist, left>>
             ELSE pc' = "check" /\ hist' = EnsureIntegrity(hist) /\ left' = left - 1
  /\ UNCHANGED <<saved, run, aborted, pending, results, shown, said>>

\* Mutant: a turn with a compaction is not counted.
SummariseFree ==
  /\ pc = "compact"
  /\ hist' = EnsureIntegrity(Compact(hist))
  /\ pc' = "check"
  /\ UNCHANGED <<saved, run, left, aborted, pending, results, shown, said>>

\* The summary takes the place of the history.
Summarise ==
  /\ pc = "compact"
  /\ left' = left - 1
  /\ hist' = EnsureIntegrity(Compact(hist))
  /\ pc' = "check"
  /\ UNCHANGED <<saved, run, aborted, pending, results, shown, said>>

\* The call of the LLM, for a summary or for the turn, raises.
LlmFails ==
  /\ pc \in {"compact", "llm"}
  /\ pc' = "ending"
  /\ UNCHANGED <<hist, saved, run, left, aborted, pending, results, shown, said>>

MaxTurnsReached ==
  /\ pc = "top" /\ left = 0
  /\ pc' = "ending"
  /\ UNCHANGED <<hist, saved, run, left, aborted, pending, results, shown, said>>

\* The check before a turn; without an interruption the LLM is called with the history as it is.
CheckTurn ==
  /\ pc = "check"
  /\ IF aborted
       THEN hist' = AddFakeTurn(hist) /\ pc' = "ending"
       ELSE pc' = "llm" /\ UNCHANGED hist
  /\ UNCHANGED <<saved, run, left, aborted, pending, results, shown, said>>

\* The LLM's answer becomes a turn, an empty one a text; without tool calls it is the end.
Respond(text, tools) ==
  /\ pc = "llm"
  /\ Cardinality(Ids("call", hist)) + Len(tools) <= MaxCalls
  /\ LET calls == [i \in DOMAIN tools |-> [id |-> <<run, left, i>>, tool |-> tools[i]]]
         turn  == (IF text \/ tools = <<>> THEN {Text} ELSE {}) \union {Call(calls[i].id) : i \in DOMAIN calls}
     IN  /\ pending' = calls
         /\ hist' = Append(hist, turn)
         /\ pc' = IF tools = <<>> THEN "ending" ELSE "precheck"
  /\ UNCHANGED <<saved, run, left, aborted, results, shown, said>>

\* Mutant: the last turn is removed though none was added.
RetryDropsPrompt ==
  /\ pc = "llm"
  /\ hist' = Front(hist)
  /\ pc' = "top"
  /\ UNCHANGED <<saved, run, left, aborted, pending, results, shown, said>>

\* An answer without calls that asks for another try is taken off the history again.
Retry ==
  /\ pc = "llm"
  /\ hist' = Front(Append(hist, {Text}))
  /\ pc' = "top"
  /\ UNCHANGED <<saved, run, left, aborted, pending, results, shown, said>>

\* The check before the tools: an interruption answers every call and adds a turn of the assistant; otherwise
\* the calls whose tool exists are announced.
CheckTools ==
  /\ pc = "precheck"
  /\ LET known == Pick(pending, {i \in DOMAIN pending : pending[i].tool # "unknown"})
     IN  IF aborted
           THEN /\ hist' = AddFakeTurn(AddResults(hist, pending))
                /\ pc' = "ending"
                /\ pending' = <<>>
                /\ UNCHANGED shown
           ELSE /\ pending' = known
                /\ shown' = shown \union {known[i].id : i \in DOMAIN known}
                /\ pc' = IF known = <<>> THEN "top" ELSE "batch"
                /\ UNCHANGED hist
  /\ UNCHANGED <<saved, run, left, aborted, results, said>>

\* run_tools_batch runs the next tool.  Alone, a tool that raises ends the run; among others its
\* exception becomes a string in the list of results.
RunTool ==
  /\ pc = "batch"
  /\ LET c == pending[Len(results) + 1]
     IN  IF c.tool = "raise" /\ Len(pending) = 1
           THEN pc' = "ending" /\ UNCHANGED results
           ELSE /\ results' = Append(results, IF c.tool = "raise" THEN "string" ELSE "result")
                /\ pc' = IF Len(results') = Len(pending) THEN "answer" ELSE "batch"
  /\ UNCHANGED <<hist, saved, run, left, aborted, pending, shown, said>>

\* Mutant: a result that is a string is left out, and the batch goes on.
AnswerSkips ==
  /\ pc = "answer"
  /\ hist' = IF Head(results) = "string" THEN hist ELSE AddResult(hist, Head(pending).id)
  /\ shown' = IF Head(results) = "string" THEN shown ELSE shown \ {Head(pending).id}
  /\ pending' = Tail(pending) /\ results' = Tail(results)
  /\ pc' = IF Len(pending) = 1 THEN "top" ELSE "answer"
  /\ UNCHANGED <<saved, run, left, aborted, said>>

\* The next result of the batch is added: a string has no llm_content and raises; the result of a final message
\* ends the run, whatever is left of the batch.
Answer ==
  /\ pc = "answer"
  /\ IF Head(results) = "string"
       THEN pc' = "ending" /\ UNCHANGED <<hist, shown, pending, results>>
       ELSE /\ hist' = AddResult(hist, Head(pending).id)
            /\ shown' = shown \ {Head(pending).id}
            /\ pending' = Tail(pending)
            /\ results' = Tail(results)
            /\ pc' = IF Head(pending).tool = "final" THEN "ending"
                     ELSE IF Len(pending) = 1 THEN "top" ELSE "answer"
  /\ UNCHANGED <<saved, run, left, aborted, said>>

\* The run is over: a session saves the history, the research tool clears it.
End ==
  /\ pc = "ending"
  /\ pc' = "idle"
  /\ saved' = IF Caller = "session" THEN hist ELSE saved
  /\ hist' = IF Caller = "research" THEN <<>> ELSE hist
  /\ pending' = <<>> /\ results' = <<>> /\ shown' = {} /\ said' = {}
  /\ UNCHANGED <<run, left, aborted>>

\* The row of the run becomes ABORTED.
Abort ==
  /\ pc # "idle" /\ ~aborted
  /\ aborted' = TRUE
  /\ UNCHANGED <<hist, saved, pc, run, left, pending, results, shown, said>>

\* The worker dies: what was not saved is lost.
Crash ==
  /\ pc # "idle" /\ Caller = "session"
  /\ pc' = "idle" /\ hist' = <<>>
  /\ pending' = <<>> /\ results' = <<>> /\ shown' = {} /\ said' = {}
  /\ UNCHANGED <<saved, run, left, aborted>>

Step ==
  \/ \E over \in BOOLEAN : Truncate(over)
  \/ Summarise
  \/ LlmFails
  \/ MaxTurnsReached
  \/ CheckTurn
  \/ \E text \in BOOLEAN, tools \in BoundedSeq(Tools, MaxCalls) : Respond(text, tools)
  \/ Retry
  \/ CheckTools
  \/ RunTool
  \/ Answer
  \/ End

Next == Step \/ (\E resume, fetched \in BOOLEAN : Start(resume, fetched)) \/ Abort \/ Crash

Spec == Init /\ [][Next]_vars
\* An agent's own steps are a task of a running event loop that waits for calls with time-outs.
FairSpec == Spec /\ WF_vars(Step)

----------------------------------------------------------------------------
TypeOK ==
  /\ hist \in Seq(SUBSET Block) /\ saved \in Seq(SUBSET Block)
  /\ pc \in {"idle", "top", "compact", "check", "llm", "precheck", "batch", "answer", "ending"}
  /\ run \in 0 .. Runs /\ left \in 0 .. MaxTurns
  /\ aborted \in BOOLEAN
  /\ pending \in Seq([id : CallIds, tool : Tools])
  /\ results \in Seq({"result", "string"})
  /\ shown \subseteq CallIds /\ said \subseteq 1 .. Runs

\* A history a provider accepts: it begins with the user, and every call is answered exactly once, by the turns
\* that follow its own, before anything else is said; no result is without its call.
WellFormed(h) ==
  /\ h # <<>> /\ Of("prompt", h[1]) # {}
  /\ \A i \in DOMAIN h : \A c \in Of("call", h[i]) :
       \E j \in i + 1 .. Len(h) :
         /\ Result(c.id) \in h[j]
         /\ \A k \in i + 1 .. j : Of("result", h[k]) = h[k]
         /\ \A k \in DOMAIN h \ {j} : Result(c.id) \notin h[k]
  /\ Ids("result", h) \subseteq Ids("call", h)

\* The same, but that calls may be without a result: it begins with the user, and every result is the only one
\* of its call and follows it, with nothing but results between.
OpenAtMost(h) ==
  /\ h # <<>> /\ Of("prompt", h[1]) # {}
  /\ \A j \in DOMAIN h : \A r \in Of("result", h[j]) :
       /\ \E i \in 1 .. j - 1 : Call(r.id) \in h[i] /\ \A k \in i + 1 .. j : Of("result", h[k]) = h[k]
       /\ \A k \in DOMAIN h \ {j} : r \notin h[k]

\* Whatever interrupted, failing or unfinished turns came before, in this run or in a restored history, what
\* run_impl sends to the LLM for a turn is well formed.  What a compaction sends is not repaired before
\* (llm_compact.py:134-151): it may hold calls without a result, of an unknown tool or of a batch that broke
\* off, but nothing else that a provider refuses (agent_controller.py:131-149, 533-559, state.py:27-101).
LlmSeesWellFormed ==
  /\ pc = "llm" => WellFormed(hist)
  /\ pc = "compact" => OpenAtMost(hist)

\* A call the user was shown as started is shown as ended before the agent goes on to another turn
\* (agent_controller.py:276-345).
ShownIsAnswered == pc \in {"compact", "check", "llm"} => shown = {}

\* Neither a repair nor a compaction, a dropped answer or an interruption loses what the user asked for, in this
\* run or in the ones it resumes (agent_controller.py:130-215, llm_compact.py:96-132).
InstructionKept == pc # "idle" => said \subseteq Prompts(hist)

\* How far a turn is from its end, and what the batch of its tools has left: to be run once and answered once.
PlaceRank ==
  [idle |-> 0, ending |-> 1, compact |-> 2, top |-> 3, answer |-> 4, batch |-> 5, precheck |-> 6, llm |-> 7,
   check |-> 8][pc]
BatchLeft == 2 * Len(pending) - Len(results)

LessToDo ==
  \/ left' < left
  \/ left' = left /\ PlaceRank' < PlaceRank
  \/ left' = left /\ PlaceRank' = PlaceRank /\ BatchLeft' < BatchLeft /\ BatchLeft' >= 0

\* Every step of the agent uses up a turn, or brings the turn closer to its end, or the batch; nothing else that
\* happens gives a run more to do (agent_controller.py:132-365).
RunCountsDown ==
  [][/\ Step => LessToDo
     /\ pc # "idle" /\ ~ Step => pc' = "idle" \/ UNCHANGED <<left, pc, pending, results>>]_vars

\* Every run ends: the loop is bounded, and each way out of it is reached (agent_controller.py:132-365).
EveryRunEnds == pc # "idle" ~> pc = "idle"

----------------------------------------------------------------------------
(* The inductive invariant the proofs rest on. *)

\* A turn is a prompt, one result, or what an assistant says with its calls.
IsPrompt(t) == \E S \in SUBSET (1 .. Runs) : t = {Summary(S)}
IsResult(t) == \E c \in CallIds : t = {Result(c)}
IsSpoken(t) == t # {} /\ \A b \in t : b = Text \/ \E c \in CallIds : b = Call(c)

\* A history that begins with the user, in which a call or a result occurs once, and a result comes after its
\* call, with nothing but results between.
Ordered(h) ==
  /\ \A i \in DOMAIN h : IsPrompt(h[i]) \/ IsResult(h[i]) \/ IsSpoken(h[i])
  /\ h # <<>> => IsPrompt(h[1])
  /\ \A c \in CallIds, i, j \in DOMAIN h :
       /\ Call(c) \in h[i] /\ Call(c) \in h[j] => i = j
       /\ Result(c) \in h[i] /\ Result(c) \in h[j] => i = j
  /\ \A c \in CallIds, j \in DOMAIN h : Result(c) \in h[j] =>
       \E i \in 1 .. j - 1 : Call(c) \in h[i] /\ \A k \in i + 1 .. j : IsResult(h[k])

\* Every call has its result.
Closed(h) == \A c \in CallIds, i \in DOMAIN h : Call(c) \in h[i] => \E j \in DOMAIN h : Result(c) \in h[j]

\* The calls of a history are of this run or an earlier one, and of a turn before the one to come.
Fresh(h, r, l) == \A c \in CallIds, i \in DOMAIN h : Call(c) \in h[i] => c[1] <= r /\ (c[1] = r => c[2] >= l)

\* What is saved or kept between the runs is ordered; what the LLM is called with is closed besides.
HistInv ==
  /\ Ordered(hist) /\ Ordered(saved)
  /\ pc \in {"check", "llm"} => Closed(hist)
  /\ pc \notin {"idle", "ending"} => hist # <<>>

\* The next turn's calls will be new.
FreshInv ==
  /\ Fresh(saved, run, 0) /\ Fresh(hist, run, 0)
  /\ pc \in {"top", "compact", "precheck", "batch", "answer"} => Fresh(hist, run, left)
  /\ pc \in {"check", "llm"} => Fresh(hist, run, left + 1)

\* The calls still to be answered are those of the last thing said, and have no result yet.
PendingInv ==
  /\ pc \in {"precheck", "batch", "answer"} =>
       \E i \in DOMAIN hist :
         /\ \A k \in i + 1 .. Len(hist) : IsResult(hist[k])
         /\ \A n \in DOMAIN pending : Call(pending[n].id) \in hist[i]
         /\ \A n \in DOMAIN pending, j \in DOMAIN hist : Result(pending[n].id) \notin hist[j]
  /\ \A m, n \in DOMAIN pending : pending[m].id = pending[n].id => m = n
  /\ pc \in {"idle", "top", "compact", "check", "llm"} => pending = <<>>
  /\ pc = "batch" => Len(results) < Len(pending)
  /\ pc = "answer" => Len(results) = Len(pending) /\ pending # <<>>
  /\ pc \notin {"batch", "answer", "ending"} => results = <<>>

\* Announced and not answered is at most what is pending.
ShownInv ==
  /\ pc \in {"batch", "answer"} => shown \subseteq {pending[n].id : n \in DOMAIN pending}
  /\ pc \notin {"batch", "answer", "ending"} => shown = {}

\* A run that has begun is counted, and a compaction belongs to a turn that is left.
RunInv ==
  /\ pc # "idle" => run > 0
  /\ pc = "compact" => left > 0

TurnInv == TypeOK /\ HistInv /\ FreshInv /\ PendingInv /\ ShownInv /\ RunInv /\ InstructionKept

=============================================================================
