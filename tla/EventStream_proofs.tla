------------------------- MODULE EventStream_proofs -------------------------
(***************************************************************************)
(* Proofs about EventStream: types, and the safety properties of the       *)
(* stream, for every number of hooks, events, tasks in flight and faults.  *)
(***************************************************************************)
EXTENDS EventStream, TLAPS

\* What may happen in one step.
LEMMA NextCases ==
  ASSUME [Next]_vars
  PROVE  \/ Ask \/ StartRun \/ SetUp \/ OtherSetUp \/ Say \/ SayMessage \/ HookStep \/ HooksDone
         \/ Interrupt \/ Finish \/ OutOfTurns \/ Raise \/ FinalFlush \/ FinalCommit
         \/ CancelFlush \/ CancelCommit \/ CancelRefused
         \/ \E t \in tasks : Check(t) \/ Emit(t) \/ Save(t)
         \/ UNCHANGED vars
PROOF BY DEF Next, Agent, Handle

-----------------------------------------------------------------------------
\* The initial state is well typed and satisfies the inductive invariant.
LEMMA InitInv ==
  Init => TypeOK /\ StreamInv
PROOF
<1> SUFFICES ASSUME Init PROVE TypeOK /\ StreamInv
  OBVIOUS
<1>1. hooks \in Seq({"own", "other"})
  <2>1. CASE hooks = << >>
    BY <2>1
  <2>2. CASE hooks = <<"own">>
    BY <2>2
  <2>3. CASE hooks = <<"other">>
    BY <2>3
  <2> QED
    BY <2>1, <2>2, <2>3 DEF Init
<1>2. hook \in [next : Nat, att : Files, uploads : Nat]
  BY DEF Init, NoHook, Files
<1>3. TypeOK
  BY <1>1, <1>2, BoundsOK DEF Init, TypeOK, Status, Ended
<1>4. StreamInv
  BY DEF Init, StreamInv, PhaseInv, HookInv, TaskInv, BeforeRow, Ended, NoHook, LostOnlyAfterEnd
<1> QED
  BY <1>3, <1>4

\* Publishing well-typed events keeps events and tasks well typed.
LEMMA PublishType ==
  ASSUME TypeOK, NEW events \in SUBSET Event, Publish(events)
  PROVE  /\ sent' \subseteq Event /\ tasks' \subseteq Task
         /\ sent \subseteq sent'
         /\ \A t \in tasks' : t.e \in sent'
PROOF BY DEF TypeOK, Publish, Task, Subscribers

\* The events of the code are well typed.
LEMMA EventType ==
  ASSUME TypeOK
  PROVE  /\ \A kind \in Kinds : Ev(kind) \in Event /\ Anon(kind) \in Event
         /\ [Ev("reply") EXCEPT !.n = said] \in Event
         /\ \A f \in Files : [Anon("message") EXCEPT !.n = said, !.file = f] \in Event
         /\ Question \in Event /\ Refusal \in Event
PROOF
<1>1. 0 \in 0 .. MaxSay /\ said \in 0 .. MaxSay
  BY BoundsOK DEF TypeOK
<1> QED
  BY <1>1 DEF Ev, Anon, Event, Files, Kinds, Question, Refusal

\* Every step keeps the types.
LEMMA TypeStep ==
  ASSUME TypeOK, HookInv, PhaseInv, [Next]_vars
  PROVE  TypeOK'
PROOF
<1> USE PublishType, EventType, BoundsOK
<1> USE DEF TypeOK, HookInv, PhaseInv, runVars, pcVars, sentVars, outVars, Status, Ended, Kinds, Statuses, NoHook, Files
<1>1. CASE Ask
  BY <1>1 DEF Ask
<1>2. CASE StartRun
  <2>1. Ev("processing") \in Event /\ {Ev("processing")} \in SUBSET Event
    OBVIOUS
  <2>2. CASE /\ Publish({Ev("processing")}) /\ pc' = "setup" /\ UNCHANGED faults
            /\ row' = "running" /\ stored' = stored \union {Question}
    <3>1. pc = "insert" /\ Question \in sent
      BY <1>2 DEF StartRun
    <3>2. sent \subseteq sent' /\ sent' \subseteq Event /\ tasks' \subseteq Task /\ \A t \in tasks' : t.e \in sent'
      BY <2>1, <2>2
    <3>3. stored' \subseteq sent' /\ shown' \subseteq sent'
      BY <1>2, <2>2, <3>1, <3>2 DEF StartRun
    <3> QED
      BY <1>2, <2>2, <3>2, <3>3 DEF StartRun
  <2>3. CASE Fault /\ pc' = "error" /\ UNCHANGED <<row, stored, sentVars>>
    BY <1>2, <2>3 DEF StartRun, Fault
  <2> QED
    BY <1>2, <2>2, <2>3 DEF StartRun
<1>3. CASE SetUp
  <2>1. CASE hooks' = Append(hooks, "own") /\ pc' = "talk" /\ UNCHANGED <<outcome, sentVars, faults>>
    BY <1>3, <2>1 DEF SetUp
  <2>2. CASE Fault /\ Publish({Anon("failed")}) /\ Conclude("failed") /\ UNCHANGED hooks
    BY <1>3, <2>2 DEF SetUp, Fault, Conclude
  <2> QED
    BY <1>3, <2>1, <2>2 DEF SetUp
<1>4. CASE OtherSetUp
  BY <1>4 DEF OtherSetUp
<1>5. CASE Say
  <2>1. Publish({[Ev("reply") EXCEPT !.n = said]}) /\ {[Ev("reply") EXCEPT !.n = said]} \in SUBSET Event
    BY <1>5 DEF Say
  <2>2. sent \subseteq sent' /\ sent' \subseteq Event /\ tasks' \subseteq Task /\ \A t \in tasks' : t.e \in sent'
    BY <2>1
  <2> QED
    BY <1>5, <2>2 DEF Say
<1>6. CASE SayMessage
  BY <1>6 DEF SayMessage
<1>7. CASE HookStep
  <2>1. hook.next \in Nat /\ hook.next >= 1 /\ hook.next <= Len(hooks) /\ hooks[hook.next] \in Files
    BY <1>7 DEF HookStep
  <2>2. hook' \in [next : Nat, att : Files, uploads : Nat]
    BY <1>7, <2>1 DEF HookStep
  <2>3. faults' \in 0 .. MaxFaults
    BY <1>7 DEF HookStep, Fault
  <2> QED
    BY <1>7, <2>2, <2>3 DEF HookStep
<1>8. CASE HooksDone
  <2> DEFINE e == [Anon("message") EXCEPT !.n = said, !.file = hook.att]
  <2>1. Publish({e}) /\ {e} \in SUBSET Event
    BY <1>8 DEF HooksDone
  <2>2. sent \subseteq sent' /\ sent' \subseteq Event /\ tasks' \subseteq Task /\ \A t \in tasks' : t.e \in sent'
    BY <2>1
  <2> QED
    BY <1>8, <2>2 DEF HooksDone
<1>9. CASE Interrupt
  BY <1>9 DEF Interrupt, Conclude, LookUp, Told
<1>10. CASE Finish
  BY <1>10 DEF Finish, Conclude
<1>11. CASE Raise
  <2>1. Publish({Anon("failed")}) /\ {Anon("failed")} \in SUBSET Event
    BY <1>11 DEF Raise
  <2>2. sent \subseteq sent' /\ sent' \subseteq Event /\ tasks' \subseteq Task /\ \A t \in tasks' : t.e \in sent'
    BY <2>1
  <2> QED
    BY <1>11, <2>2 DEF Raise, Fault, Conclude
<1>12. CASE FinalFlush
  BY <1>12 DEF FinalFlush
<1>13. CASE FinalCommit
  BY <1>13 DEF FinalCommit
<1>14. CASE CancelFlush
  BY <1>14 DEF CancelFlush
<1>15. CASE CancelCommit
  BY <1>15 DEF CancelCommit
<1>16. ASSUME NEW t \in tasks, Check(t) PROVE TypeOK'
  <2>1. [t EXCEPT !.pc = "write"] \in Task /\ [t EXCEPT !.pc = "write"].e = t.e
    BY DEF Task
  <2>2. tasks' \subseteq tasks \union {[t EXCEPT !.pc = "write"]}
    BY <1>16 DEF Check, Fails
  <2>3. tasks' \subseteq Task /\ \A u \in tasks' : u.e \in sent
    BY <2>1, <2>2
  <2>4. cache' \in Status
    BY <1>16 DEF Check, Fails, Fault, LookUp, Told
  <2> QED
    BY <1>16, <2>3, <2>4 DEF Check, Fails, Fault
<1>17. ASSUME NEW t \in tasks, Emit(t) PROVE TypeOK'
  BY <1>17 DEF Emit, Fails, Fault
<1>18. ASSUME NEW t \in tasks, Save(t) PROVE TypeOK'
  BY <1>18 DEF Save, Fails, Fault
<1>19. CASE UNCHANGED vars
  BY <1>19 DEF vars, runVars, pcVars, sentVars, outVars
<1>20. CASE OutOfTurns
  BY <1>20 DEF OutOfTurns, Conclude
<1>21. CASE CancelRefused
  <2>1. Publish({Refusal}) /\ {Refusal} \in SUBSET Event
    BY <1>21 DEF CancelRefused
  <2>2. sent \subseteq sent' /\ sent' \subseteq Event /\ tasks' \subseteq Task /\ \A t \in tasks' : t.e \in sent'
    BY <2>1
  <2> QED
    BY <1>21, <2>2 DEF CancelRefused, Fault
<1> QED
  BY <1>1, <1>2, <1>3, <1>4, <1>5, <1>6, <1>7, <1>8, <1>9, <1>10,
     <1>11, <1>12, <1>13, <1>14, <1>15, <1>16, <1>17, <1>18, <1>19, <1>20, <1>21, NextCases

\* Every step keeps the phases of the run.
LEMMA PhaseStep ==
  ASSUME TypeOK, PhaseInv, [Next]_vars
  PROVE  PhaseInv'
PROOF
<1> USE DEF TypeOK, PhaseInv, BeforeRow, Status, Ended, runVars, pcVars, sentVars, outVars
<1>1. CASE Ask
  BY <1>1 DEF Ask, Publish, Anon, Ev, Question, Refusal
<1>2. CASE StartRun
  BY <1>2 DEF StartRun, Fault
<1>3. CASE SetUp
  BY <1>3 DEF SetUp, Fault, Conclude
<1>4. CASE OtherSetUp
  BY <1>4 DEF OtherSetUp
<1>5. CASE Say
  BY <1>5 DEF Say
<1>6. CASE SayMessage
  BY <1>6 DEF SayMessage
<1>7. CASE HookStep
  BY <1>7 DEF HookStep, Fault
<1>8. CASE HooksDone
  BY <1>8 DEF HooksDone
<1>9. CASE Interrupt
  BY <1>9 DEF Interrupt, Conclude, LookUp, Told
<1>10. CASE Finish
  BY <1>10 DEF Finish, Conclude
<1>11. CASE Raise
  BY <1>11 DEF Raise, Fault, Conclude
<1>12. CASE FinalFlush
  BY <1>12 DEF FinalFlush
<1>13. CASE FinalCommit
  BY <1>13 DEF FinalCommit
<1>14. CASE CancelFlush
  BY <1>14 DEF CancelFlush
<1>15. CASE CancelCommit
  BY <1>15 DEF CancelCommit
<1>16. ASSUME NEW t \in tasks, Check(t) PROVE PhaseInv'
  BY <1>16 DEF Check, Fails, Fault, LookUp, Told
<1>17. ASSUME NEW t \in tasks, Emit(t) PROVE PhaseInv'
  BY <1>17 DEF Emit, Fails, Fault
<1>18. ASSUME NEW t \in tasks, Save(t) PROVE PhaseInv'
  BY <1>18 DEF Save, Fails, Fault
<1>19. CASE UNCHANGED vars
  BY <1>19 DEF vars, runVars, pcVars, sentVars, outVars
<1>20. CASE OutOfTurns
  BY <1>20 DEF OutOfTurns, Conclude
<1>21. CASE CancelRefused
  <2>1. sent' = sent \union {Refusal} /\ UNCHANGED <<runVars, pcVars, stored>>
    BY <1>21 DEF CancelRefused, Publish, outVars
  <2> QED
    BY <2>1 DEF Refusal, Question
<1> QED
  BY <1>1, <1>2, <1>3, <1>4, <1>5, <1>6, <1>7, <1>8, <1>9, <1>10,
     <1>11, <1>12, <1>13, <1>14, <1>15, <1>16, <1>17, <1>18, <1>19, <1>20, <1>21, NextCases

\* Every step keeps what is true of the hook in turn.
LEMMA HookStepInv ==
  ASSUME TypeOK, HookInv, [Next]_vars
  PROVE  HookInv'
PROOF
<1> USE DEF TypeOK, HookInv, NoHook, Files, runVars, pcVars, sentVars, outVars
<1>1. CASE Ask
  BY <1>1 DEF Ask
<1>2. CASE StartRun
  BY <1>2 DEF StartRun, Fault
<1>3. CASE SetUp
  BY <1>3 DEF SetUp, Fault, Conclude
<1>4. CASE OtherSetUp
  BY <1>4 DEF OtherSetUp
<1>5. CASE Say
  BY <1>5 DEF Say
<1>6. CASE SayMessage
  BY <1>6 DEF SayMessage
<1>7. CASE HookStep
  BY <1>7 DEF HookStep, Fault
<1>8. CASE HooksDone
  BY <1>8 DEF HooksDone
<1>9. CASE Interrupt
  BY <1>9 DEF Interrupt, Conclude, LookUp, Told
<1>10. CASE Finish
  BY <1>10 DEF Finish, Conclude
<1>11. CASE Raise
  BY <1>11 DEF Raise, Fault, Conclude
<1>12. CASE FinalFlush
  BY <1>12 DEF FinalFlush
<1>13. CASE FinalCommit
  BY <1>13 DEF FinalCommit
<1>14. CASE CancelFlush
  BY <1>14 DEF CancelFlush
<1>15. CASE CancelCommit
  BY <1>15 DEF CancelCommit
<1>16. ASSUME NEW t \in tasks, Check(t) PROVE HookInv'
  BY <1>16 DEF Check, Fails, Fault, LookUp, Told
<1>17. ASSUME NEW t \in tasks, Emit(t) PROVE HookInv'
  BY <1>17 DEF Emit, Fails, Fault
<1>18. ASSUME NEW t \in tasks, Save(t) PROVE HookInv'
  BY <1>18 DEF Save, Fails, Fault
<1>19. CASE UNCHANGED vars
  BY <1>19 DEF vars, runVars, pcVars, sentVars, outVars
<1>20. CASE OutOfTurns
  BY <1>20 DEF OutOfTurns, Conclude
<1>21. CASE CancelRefused
  BY <1>21 DEF CancelRefused, Fault
<1> QED
  BY <1>1, <1>2, <1>3, <1>4, <1>5, <1>6, <1>7, <1>8, <1>9, <1>10,
     <1>11, <1>12, <1>13, <1>14, <1>15, <1>16, <1>17, <1>18, <1>19, <1>20, <1>21, NextCases

\* An event that has been published waits for its handlers; the earlier ones are as they were.
LEMMA PublishKeeps ==
  ASSUME TypeOK, TaskInv, NEW events, Publish(events),
         stored \subseteq stored', raised \subseteq raised', row \in Ended => row' \in Ended, cache' \in Ended => row' \in Ended
  PROVE  TaskInv'
PROOF
<1> USE DEF TypeOK, Publish, Subscribers
<1>1. \A t \in tasks' : t.pc = "check" => ~Unchecked(t.e)
  BY DEF TaskInv, Unchecked
<1>2. ASSUME NEW e \in sent', Missed(e)' PROVE e \in sent /\ Missed(e)
  <2>1. tasks \subseteq tasks'
    OBVIOUS
  <2>2. ASSUME e \in events PROVE \E t \in tasks' : t.sub = "db" /\ t.e = e
    <3> DEFINE task(u, x) == [sub |-> u, e |-> x, pc |-> IF Unchecked(x) THEN "write" ELSE "check"]
    <3>1. tasks' = tasks \union {task(u, x) : u \in Subscribers, x \in events}
      OBVIOUS
    <3>2. task("db", e).sub = "db" /\ task("db", e).e = e /\ "db" \in Subscribers
      OBVIOUS
    <3> HIDE DEF task
    <3>3. task("db", e) \in tasks'
      BY <2>2, <3>1, <3>2
    <3> QED
      BY <3>2, <3>3
  <2> QED
    BY <1>2, <2>1, <2>2 DEF Missed
<1>3. LostOnlyAfterEnd'
  BY <1>2 DEF TaskInv, LostOnlyAfterEnd, Unchecked
<1> QED
  BY <1>1, <1>3 DEF TaskInv, Unchecked

\* A step that publishes nothing and ends no task changes nothing for the events.
LEMMA QuietKeeps ==
  ASSUME TypeOK, TaskInv, UNCHANGED <<sentVars, stored>>, raised \subseteq raised',
         row \in Ended => row' \in Ended, cache' \in Ended => row' \in Ended
  PROVE  TaskInv'
PROOF
<1>1. \A e \in sent' : Missed(e)' => e \in sent /\ Missed(e)
  BY DEF Missed, sentVars
<1>2. LostOnlyAfterEnd'
  BY <1>1 DEF TaskInv, TypeOK, LostOnlyAfterEnd, Unchecked, sentVars
<1> QED
  BY <1>2 DEF TaskInv, Unchecked, sentVars

\* An end is for ever, the cache learns of it from the table, what has raised stays so.
LEMMA Monotone ==
  ASSUME TypeOK, PhaseInv, TaskInv, [Next]_vars
  PROVE  /\ row \in Ended => row' \in Ended
         /\ cache' \in Ended => row' \in Ended
         /\ raised \subseteq raised'
PROOF
<1> DEFINE Goal == /\ row \in Ended => row' \in Ended
                   /\ cache' \in Ended => row' \in Ended
                   /\ raised \subseteq raised'
<1> USE DEF TypeOK, PhaseInv, TaskInv, BeforeRow, Status, Ended, runVars, pcVars, sentVars, outVars
<1>1. CASE Ask
  BY <1>1 DEF Ask
<1>2. CASE StartRun
  BY <1>2 DEF StartRun, Fault
<1>3. CASE SetUp
  BY <1>3 DEF SetUp, Fault, Conclude
<1>4. CASE OtherSetUp
  BY <1>4 DEF OtherSetUp
<1>5. CASE Say
  BY <1>5 DEF Say
<1>6. CASE SayMessage
  BY <1>6 DEF SayMessage
<1>7. CASE HookStep
  BY <1>7 DEF HookStep, Fault
<1>8. CASE HooksDone
  BY <1>8 DEF HooksDone
<1>9. CASE Interrupt
  BY <1>9 DEF Interrupt, Conclude, LookUp, Told
<1>10. CASE Finish
  BY <1>10 DEF Finish, Conclude
<1>11. CASE Raise
  BY <1>11 DEF Raise, Fault, Conclude
<1>12. CASE FinalFlush
  BY <1>12 DEF FinalFlush
<1>13. CASE FinalCommit
  BY <1>13 DEF FinalCommit
<1>14. CASE CancelFlush
  BY <1>14 DEF CancelFlush
<1>15. CASE CancelCommit
  BY <1>15 DEF CancelCommit
<1>16. ASSUME NEW t \in tasks, Check(t) PROVE Goal
  BY <1>16 DEF Check, Fails, Fault, LookUp, Told
<1>17. ASSUME NEW t \in tasks, Emit(t) PROVE Goal
  BY <1>17 DEF Emit, Fails, Fault
<1>18. ASSUME NEW t \in tasks, Save(t) PROVE Goal
  BY <1>18 DEF Save, Fails, Fault
<1>19. CASE UNCHANGED vars
  BY <1>19 DEF vars, runVars, pcVars, sentVars, outVars
<1>20. CASE OutOfTurns
  BY <1>20 DEF OutOfTurns, Conclude
<1>21. CASE CancelRefused
  BY <1>21 DEF CancelRefused, Fault
<1> QED
  BY <1>1, <1>2, <1>3, <1>4, <1>5, <1>6, <1>7, <1>8, <1>9, <1>10,
     <1>11, <1>12, <1>13, <1>14, <1>15, <1>16, <1>17, <1>18, <1>19, <1>20, <1>21, NextCases

\* Of all steps, those that publish leave the history as it is or add the question, and only
\* the handlers end a task.
LEMMA PublishOrNot ==
  ASSUME TypeOK, [Next]_vars
  PROVE  \/ (\E events : Publish(events)) /\ stored \subseteq stored'
         \/ UNCHANGED <<sentVars, stored>>
         \/ \E t \in tasks : Check(t) \/ Emit(t) \/ Save(t)
PROOF
<1> DEFINE Goal == \/ (\E events : Publish(events)) /\ stored \subseteq stored'
                   \/ UNCHANGED <<sentVars, stored>>
                   \/ \E t \in tasks : Check(t) \/ Emit(t) \/ Save(t)
<1> USE DEF outVars
<1>1. CASE Ask
  BY <1>1 DEF Ask
<1>2. CASE StartRun
  BY <1>2 DEF StartRun, Fault
<1>3. CASE SetUp
  BY <1>3 DEF SetUp, Fault, Conclude
<1>4. CASE OtherSetUp
  BY <1>4 DEF OtherSetUp
<1>5. CASE Say
  BY <1>5 DEF Say
<1>6. CASE SayMessage
  BY <1>6 DEF SayMessage
<1>7. CASE HookStep
  BY <1>7 DEF HookStep, Fault
<1>8. CASE HooksDone
  BY <1>8 DEF HooksDone
<1>9. CASE Interrupt
  BY <1>9 DEF Interrupt, Conclude, LookUp, Told
<1>10. CASE Finish
  BY <1>10 DEF Finish, Conclude
<1>11. CASE Raise
  BY <1>11 DEF Raise, Fault, Conclude
<1>12. CASE FinalFlush
  BY <1>12 DEF FinalFlush
<1>13. CASE FinalCommit
  BY <1>13 DEF FinalCommit
<1>14. CASE CancelFlush
  BY <1>14 DEF CancelFlush
<1>15. CASE CancelCommit
  BY <1>15 DEF CancelCommit
<1>16. ASSUME NEW t \in tasks, Check(t) PROVE Goal
  BY <1>16 DEF Check, Fails, Fault, LookUp, Told
<1>17. ASSUME NEW t \in tasks, Emit(t) PROVE Goal
  BY <1>17 DEF Emit, Fails, Fault
<1>18. ASSUME NEW t \in tasks, Save(t) PROVE Goal
  BY <1>18 DEF Save, Fails, Fault
<1>19. CASE UNCHANGED vars
  BY <1>19 DEF vars, runVars, pcVars, sentVars, outVars
<1>20. CASE OutOfTurns
  BY <1>20 DEF OutOfTurns, Conclude
<1>21. CASE CancelRefused
  BY <1>21 DEF CancelRefused, Fault
<1> QED
  BY <1>1, <1>2, <1>3, <1>4, <1>5, <1>6, <1>7, <1>8, <1>9, <1>10,
     <1>11, <1>12, <1>13, <1>14, <1>15, <1>16, <1>17, <1>18, <1>19, <1>20, <1>21, NextCases

\* A handler that raises takes its own event with it and no other.
LEMMA FailsLosesItsOwn ==
  ASSUME TypeOK, TaskInv, NEW t \in tasks, Fails(t), UNCHANGED <<sent, stored, row, cache>>
  PROVE  TaskInv'
PROOF
<1>1. ASSUME NEW e \in sent', Missed(e)', ~Missed(e) PROVE t \in raised' /\ t.sub = "db" /\ t.e = e
  <2>1. PICK u \in tasks : u.sub = "db" /\ u.e = e
    BY <1>1 DEF Missed
  <2>2. u = t
    BY <1>1, <2>1 DEF Missed, Fails
  <2> QED
    BY <2>1, <2>2 DEF Fails
<1>2. raised \subseteq raised' /\ tasks' \subseteq tasks
  BY DEF Fails
<1>3. LostOnlyAfterEnd'
  BY <1>1, <1>2 DEF TaskInv, LostOnlyAfterEnd, Unchecked
<1> QED
  BY <1>2, <1>3 DEF TaskInv, Unchecked

\* Every step keeps that a lost event has ended or failed.
LEMMA TaskStep ==
  ASSUME TypeOK, PhaseInv, TaskInv, [Next]_vars
  PROVE  TaskInv'
PROOF
<1>0. /\ row \in Ended => row' \in Ended
      /\ cache' \in Ended => row' \in Ended
      /\ raised \subseteq raised'
  BY Monotone
<1>1. ASSUME NEW events, Publish(events), stored \subseteq stored' PROVE TaskInv'
  BY <1>0, <1>1, PublishKeeps
<1>2. CASE UNCHANGED <<sentVars, stored>>
  BY <1>0, <1>2, QuietKeeps
<1>3. ASSUME NEW t \in tasks, Check(t) PROVE TaskInv'
  <2>1. CASE Fails(t) /\ UNCHANGED cache
    BY <1>3, <2>1, FailsLosesItsOwn DEF Check
  <2> DEFINE on == [t EXCEPT !.pc = "write"]
  <2>2. CASE tasks' = (tasks \ {t}) \union (IF Told = "running" THEN {on} ELSE {}) /\ UNCHANGED raised
    <3>1. ~Unchecked(t.e) /\ t.pc = "check"
      BY <1>3 DEF Check, TaskInv
    <3>2. t.e \notin {Question, Refusal} /\ t.e \in sent
      BY <3>1 DEF Unchecked, Question, Refusal, TypeOK
    <3>3. row # "none"
      BY <3>2 DEF PhaseInv, BeforeRow
    <3>4. Told # "running" => row \in Ended
      BY <3>3 DEF TaskInv, TypeOK, Told, Status, Ended
    <3>5. sent' = sent /\ stored' = stored /\ row' = row
      BY <1>3 DEF Check
    <3>6. on.sub = t.sub /\ on.e = t.e /\ on.pc = "write"
      BY DEF TypeOK, Task
    <3> HIDE DEF on
    <3>7. ASSUME NEW e \in sent', Missed(e)', ~Missed(e) PROVE Told # "running" /\ e = t.e
      <4>1. PICK u \in tasks : u.sub = "db" /\ u.e = e
        BY <3>5, <3>7 DEF Missed
      <4>2. u = t
        BY <2>2, <3>7, <4>1 DEF Missed
      <4>3. on \notin tasks'
        BY <3>6, <3>7, <4>1, <4>2 DEF Missed
      <4> QED
        BY <2>2, <4>1, <4>2, <4>3
    <3>8. LostOnlyAfterEnd'
      BY <2>2, <3>1, <3>4, <3>5, <3>7 DEF TaskInv, LostOnlyAfterEnd, Unchecked
    <3>9. \A u \in tasks' : u.pc = "check" => ~Unchecked(u.e)
      BY <2>2, <3>6 DEF TaskInv
    <3> QED
      BY <1>0, <3>8, <3>9 DEF TaskInv, Unchecked
  <2> QED
    BY <1>3, <2>1, <2>2 DEF Check
<1>4. ASSUME NEW t \in tasks, Emit(t) PROVE TaskInv'
  <2>1. t.sub = "io" /\ tasks' = tasks \ {t} /\ UNCHANGED <<sent, stored, row, cache>>
    BY <1>4 DEF Emit, Fails, runVars
  <2>2. \A e \in sent' : Missed(e)' => e \in sent /\ Missed(e)
    BY <2>1 DEF Missed
  <2>3. LostOnlyAfterEnd'
    BY <1>0, <2>1, <2>2 DEF TaskInv, LostOnlyAfterEnd, Unchecked
  <2> QED
    BY <2>1, <2>3 DEF TaskInv, Unchecked
<1>5. ASSUME NEW t \in tasks, Save(t) PROVE TaskInv'
  <2>0. UNCHANGED <<sent, row, cache>> /\ t.sub = "db"
    BY <1>5 DEF Save, runVars
  <2>1. CASE Fails(t) /\ UNCHANGED stored
    BY <2>0, <2>1, FailsLosesItsOwn
  <2>2. CASE /\ stored' = IF t.e.kind = "question" THEN stored ELSE stored \union {t.e}
            /\ tasks' = tasks \ {t} /\ UNCHANGED raised
    <3>1. ASSUME NEW e \in sent', Missed(e)', ~Missed(e) PROVE e.kind = "question"
      <4>1. PICK u \in tasks : u.sub = "db" /\ u.e = e
        BY <2>2, <3>1 DEF Missed
      <4>2. u = t
        BY <2>2, <3>1, <4>1 DEF Missed
      <4> QED
        BY <2>2, <3>1, <4>1, <4>2 DEF Missed
    <3>2. LostOnlyAfterEnd'
      BY <2>0, <2>2, <3>1 DEF TaskInv, LostOnlyAfterEnd, Unchecked
    <3> QED
      BY <2>0, <2>2, <3>2 DEF TaskInv, Unchecked
  <2> QED
    BY <1>5, <2>1, <2>2 DEF Save
<1> QED
  BY <1>1, <1>2, <1>3, <1>4, <1>5, PublishOrNot

-----------------------------------------------------------------------------
(* The theorems.                                                           *)

\* Types and the inductive invariant hold in every reachable state.
LEMMA InvCorrect == Spec => [](TypeOK /\ StreamInv)
PROOF
<1>1. TypeOK /\ StreamInv /\ [Next]_vars => TypeOK' /\ StreamInv'
  BY TypeStep, PhaseStep, HookStepInv, TaskStep DEF StreamInv
<1> QED
  BY <1>1, InitInv, PTL DEF Spec

\* TypeOK: every reachable state is well typed, for every value of the bounds.
THEOREM TypeCorrect == Spec => []TypeOK
PROOF BY InvCorrect, PTL

\* StreamInv: the phases of the run, the hook in turn and the tasks fit together.
THEOREM StreamInvariant == Spec => []StreamInv
PROOF BY InvCorrect, PTL

\* LostOnlyAfterEnd: whatever the tasks overtake, an event that is missing from the history
\* had an ended run, or its own handler raised.
THEOREM LostEventsHaveEnded == Spec => []LostOnlyAfterEnd
PROOF
<1>1. StreamInv => LostOnlyAfterEnd
  BY DEF StreamInv, TaskInv
<1> QED
  BY <1>1, InvCorrect, PTL

\* AnswersFollowQuestion: nothing is shown or stored before the user's message is committed.
THEOREM QuestionComesFirst == Spec => []AnswersFollowQuestion
PROOF
<1>1. TypeOK /\ StreamInv => AnswersFollowQuestion
  BY DEF TypeOK, StreamInv, PhaseInv, BeforeRow, AnswersFollowQuestion, Question, Refusal
<1> QED
  BY <1>1, InvCorrect, PTL

\* UploadedOnce: however many hooks the stream has collected, one of them uploads.
THEOREM OneUpload == Spec => []UploadedOnce
PROOF
<1>1. StreamInv => UploadedOnce
  BY DEF StreamInv, HookInv, UploadedOnce
<1> QED
  BY <1>1, InvCorrect, PTL

-----------------------------------------------------------------------------
(* What the user is told of the end. *)

\* The one who publishes an event gives it to both subscribers; a status goes out unchecked.
LEMMA PublishTells ==
  ASSUME NEW events, Publish(events), UNCHANGED <<shown, raised>>, \A e \in sent : e.kind \in Statuses => OnItsWay(e)
  PROVE  \A e \in sent' : e.kind \in Statuses => OnItsWay(e)'
PROOF
<1>1. sent' = sent \union events /\ tasks \subseteq tasks'
  BY DEF Publish
<1>2. ASSUME NEW e \in events, e.kind \in Statuses
      PROVE  \E t \in tasks' : t.sub = "io" /\ t.pc = "write" /\ t.e = e
  <2> DEFINE t == [sub |-> "io", e |-> e, pc |-> "write"]
             new(s, f) == [sub |-> s, e |-> f, pc |-> IF Unchecked(f) THEN "write" ELSE "check"]
  <2>1. t \in tasks'
    <3>1. t = new("io", e)
      BY <1>2 DEF Unchecked
    <3>2. tasks' = tasks \union {new(s, f) : s \in Subscribers, f \in events}
      BY DEF Publish
    <3>3. "io" \in Subscribers
      BY DEF Subscribers
    <3> HIDE DEF new, t
    <3> QED
      BY <3>1, <3>2, <3>3
  <2>2. t.sub = "io" /\ t.pc = "write" /\ t.e = e
    OBVIOUS
  <2> HIDE DEF t
  <2> QED
    BY <2>1, <2>2
<1> QED
  BY <1>1, <1>2 DEF OnItsWay

\* Every step keeps a status in a task's hands until it is shown.
LEMMA WayStep ==
  ASSUME TypeOK, ToldInv, [Next]_vars
  PROVE  \A e \in sent' : e.kind \in Statuses => OnItsWay(e)'
PROOF
<1> DEFINE Goal == \A e \in sent' : e.kind \in Statuses => OnItsWay(e)'
<1> SUFFICES Goal
  OBVIOUS
<1>0. \A e \in sent : e.kind \in Statuses => OnItsWay(e)
  BY DEF ToldInv
<1>1. ASSUME NEW events, Publish(events), UNCHANGED <<shown, raised>> PROVE Goal
  BY <1>0, <1>1, PublishTells
<1>2. ASSUME UNCHANGED <<sentVars, shown, raised>> PROVE Goal
  BY <1>0, <1>2 DEF OnItsWay, sentVars
<1>3. CASE Ask \/ StartRun \/ SetUp \/ OtherSetUp \/ Say \/ SayMessage \/ HookStep \/ HooksDone
  <2>1. UNCHANGED <<shown, raised>>
    BY <1>3 DEF Ask, StartRun, SetUp, OtherSetUp, Say, SayMessage, HookStep, HooksDone, outVars
  <2>2. (\E events : Publish(events)) \/ UNCHANGED sentVars
    BY <1>3 DEF Ask, StartRun, SetUp, OtherSetUp, Say, SayMessage, HookStep, HooksDone
  <2> QED
    BY <1>1, <1>2, <2>1, <2>2
<1>4. CASE Interrupt \/ Finish \/ OutOfTurns \/ Raise \/ FinalFlush \/ FinalCommit \/ CancelFlush \/ CancelCommit \/ CancelRefused
  <2>1. UNCHANGED <<shown, raised>>
    BY <1>4 DEF Interrupt, Finish, OutOfTurns, Raise, FinalFlush, FinalCommit, CancelFlush, CancelCommit, CancelRefused, outVars
  <2>2. (\E events : Publish(events)) \/ UNCHANGED sentVars
    BY <1>4 DEF Interrupt, Finish, OutOfTurns, Raise, FinalFlush, FinalCommit, CancelFlush, CancelCommit, CancelRefused
  <2> QED
    BY <1>1, <1>2, <2>1, <2>2
<1>5. ASSUME NEW t \in tasks, Check(t) \/ Save(t) PROVE Goal
  <2>1. /\ sent' = sent /\ shown' = shown /\ tasks \ {t} \subseteq tasks' /\ raised \subseteq raised'
        /\ ~ (t.sub = "io" /\ t.pc = "write")
    BY <1>5 DEF Check, Save, Fails
  <2> QED
    BY <1>0, <2>1 DEF OnItsWay
<1>6. ASSUME NEW t \in tasks, Emit(t) PROVE Goal
  <2>1. /\ sent' = sent /\ tasks' = tasks \ {t} /\ shown \subseteq shown' /\ raised \subseteq raised'
        /\ t.e \in shown' \/ t \in raised'
    BY <1>6 DEF Emit, Fails
  <2> QED
    BY <1>0, <2>1 DEF OnItsWay
<1>7. CASE UNCHANGED vars
  BY <1>2, <1>7 DEF vars, outVars
<1> HIDE DEF Goal
<1> QED
  BY <1>3, <1>4, <1>5, <1>6, <1>7, NextCases

\* Every step that ends a run, or is about to, has a status out, unless the turns were used up.
LEMMA EndStep ==
  ASSUME TypeOK, PhaseInv, ToldInv, [Next]_vars, row' \in Ended \/ pc' \in {"final", "commit", "done"}
  PROVE  \E e \in sent' : e.kind \in Statuses \union {"exhausted"}
PROOF
<1>1. sent \subseteq sent'
  BY NextCases DEF Ask, StartRun, SetUp, OtherSetUp, Say, SayMessage, HookStep, HooksDone, Interrupt, Finish, OutOfTurns, Raise,
     FinalFlush, FinalCommit, CancelFlush, CancelCommit, CancelRefused, Check, Emit, Save, Publish, vars, sentVars
<1>2. ASSUME row \in Ended \/ pc \in {"final", "commit", "done"} PROVE \E e \in sent' : e.kind \in Statuses \union {"exhausted"}
  BY <1>1, <1>2 DEF ToldInv
<1>3. SUFFICES ASSUME row \notin Ended, pc \notin {"final", "commit", "done"}
               PROVE  \E e \in sent' : e.kind \in Statuses \union {"exhausted"}
  BY <1>2
<1>4. \/ (SetUp /\ Publish({Anon("failed")})) \/ Interrupt \/ Finish \/ OutOfTurns \/ Raise \/ CancelCommit
  BY <1>3, NextCases DEF Ask, StartRun, SetUp, OtherSetUp, Say, SayMessage, HookStep, HooksDone,
     FinalFlush, FinalCommit, CancelFlush, CancelRefused, Check, Emit, Save, Fails, vars, runVars, pcVars, Ended
<1>5. \E e : e \in sent' /\ e \in {Anon("failed"), Ev("interrupted"), Ev("ready"), Ev("exhausted"), Ev("cancelled")}
  BY <1>4 DEF Interrupt, Finish, OutOfTurns, Raise, CancelCommit, Publish
<1>6. \A e \in {Anon("failed"), Ev("interrupted"), Ev("ready"), Ev("exhausted"), Ev("cancelled")} : e.kind \in Statuses \union {"exhausted"}
  BY DEF Anon, Ev, Statuses
<1> QED
  BY <1>5, <1>6

\* EndIsTold: a run that ends by its agent, an error or a cancel has told its user so, and no check drops it, for any
\* number of events, hooks, tasks in flight and faults; only a run out of turns tells no status.
THEOREM EndsAreTold == Spec => []EndIsTold
PROOF
<1>1. Init => ToldInv
  BY DEF Init, ToldInv, Ended
<1>2. TypeOK /\ StreamInv /\ ToldInv /\ [Next]_vars => ToldInv'
  BY WayStep, EndStep DEF ToldInv, StreamInv
<1>3. ToldInv => EndIsTold
  BY DEF ToldInv, EndIsTold
<1> QED
  BY <1>1, <1>2, <1>3, InvCorrect, PTL DEF Spec
=============================================================================
