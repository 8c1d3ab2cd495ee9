--------------------------- MODULE ChatRun_proofs ---------------------------
(***************************************************************************)
(* Proofs about ChatRun: what a stop, a charge, a row, a list and the table*)
(* hold for every number of streams, tool rounds, upsets and thresholds.   *)
(***************************************************************************)
EXTENDS ChatRun, Subsequences_proofs, TLAPS

USE DEF Replies

\* The steps of one stream and what happens to it.
StreamStep(r) ==
  \/ Load(r) \/ Open(r) \/ Register(r) \/ Setup(r, TRUE) \/ Setup(r, FALSE) \/ CheckCancelled(r)
  \/ CallLlm(r) \/ (\E kind \in Replies \union {"error"} : Respond(r, kind))
  \/ Save(r) \/ RunTools(r) \/ Charge(r, TRUE) \/ Charge(r, FALSE) \/ Refresh(r)
  \/ Complete(r) \/ Catch(r) \/ Mark(r) \/ Cleanup(r) \/ Disconnect(r) \/ Expire(r) \/ Reap(r)

\* What may happen in one step.
LEMMA NextCases ==
  ASSUME [Next]_vars
  PROVE  \/ \E r \in Runs : StreamStep(r)
         \/ StopFind \/ StopCancel \/ StopRefresh \/ StopWrite \/ StopFailed \/ Clear
         \/ UNCHANGED vars
PROOF BY DEF Next, Stream, StopStep, StreamStep

-----------------------------------------------------------------------------
\* The initial state satisfies the inductive invariant.
LEMMA InitInv ==
  Init => ChatInv
PROOF
<1> SUFFICES ASSUME Init PROVE ChatInv
  OBVIOUS
<1>1. ControlOK
  BY DEF Init, ControlOK, Places, Over
<1>2. LateInv /\ ChargeInv
  BY DEF Init, LateInv, ChargeInv
<1>3. KeptInv
  BY DEF Init, KeptInv
<1> QED
  BY <1>1, <1>2, <1>3 DEF ChatInv

\* What the table of messages may become: one more message, marks, or nothing at all.
LEMMA MessageOps ==
  ASSUME ControlOK, NEW r \in Runs
  PROVE  /\ \A m \in Message : Create(m) =>
              /\ msgs' \in Seq([msg : Message, finished : BOOLEAN])
              /\ DOMAIN msgs' = DOMAIN msgs \union {Len(msgs) + 1}
              /\ \A i \in DOMAIN msgs : msgs'[i] = msgs[i]
              /\ msgs'[Len(msgs) + 1] = Row(m)
         /\ MarkIncomplete(r) =>
              /\ msgs' \in Seq([msg : Message, finished : BOOLEAN])
              /\ DOMAIN msgs' = DOMAIN msgs
              /\ \A i \in DOMAIN msgs : /\ msgs'[i].msg = msgs[i].msg
                                        /\ msgs[i].msg.run # r => msgs'[i] = msgs[i]
PROOF
<1> DEFINE Rows == [msg : Message, finished : BOOLEAN]
<1>0. msgs \in Seq(Rows)
  BY DEF ControlOK
<1>1. ASSUME NEW m \in Message, Create(m)
      PROVE  /\ msgs' \in Seq(Rows)
             /\ DOMAIN msgs' = DOMAIN msgs \union {Len(msgs) + 1}
             /\ \A i \in DOMAIN msgs : msgs'[i] = msgs[i]
             /\ msgs'[Len(msgs) + 1] = Row(m)
  <2>1. msgs' = Append(msgs, Row(m)) /\ Row(m) \in Rows
    BY <1>1 DEF Create, Row
  <2> HIDE DEF Rows
  <2> QED
    BY <1>0, <2>1
<1>2. ASSUME MarkIncomplete(r)
      PROVE  /\ msgs' \in Seq(Rows)
             /\ DOMAIN msgs' = DOMAIN msgs
             /\ \A i \in DOMAIN msgs : /\ msgs'[i].msg = msgs[i].msg
                                       /\ msgs[i].msg.run # r => msgs'[i] = msgs[i]
  <2>1. \A i \in DOMAIN msgs : msgs[i] \in Rows
    <3> HIDE DEF Rows
    <3> QED
      BY <1>0
  <2>2. \A i \in DOMAIN msgs : [msgs[i] EXCEPT !.finished = FALSE] \in Rows
                               /\ [msgs[i] EXCEPT !.finished = FALSE].msg = msgs[i].msg
    BY <2>1
  <2>3. DOMAIN msgs' = DOMAIN msgs /\ \A i \in DOMAIN msgs : msgs'[i] \in Rows
    BY <1>2, <2>1, <2>2 DEF MarkIncomplete
  <2>4. msgs' \in Seq(Rows)
    <3>1. PICK n \in Nat : DOMAIN msgs = 1 .. n
      BY <1>0
    <3>2. msgs' \in [1 .. n -> Rows]
      BY <1>2, <2>3, <3>1 DEF MarkIncomplete
    <3> HIDE DEF Rows
    <3> QED
      BY <3>1, <3>2
  <2>5. \A i \in DOMAIN msgs : /\ msgs'[i].msg = msgs[i].msg
                               /\ msgs[i].msg.run # r => msgs'[i] = msgs[i]
    BY <1>2, <2>2 DEF MarkIncomplete
  <2> QED
    BY <2>3, <2>4, <2>5
<1> QED
  BY <1>1, <1>2

\* What a stream does to the messages: nothing, one more, or the marks of its own.
LEMMA MessageStep ==
  ASSUME ControlOK, ChargeInv, NEW r \in Runs, StreamStep(r)
  PROVE  \/ UNCHANGED msgs
         \/ pc[r] = "open" /\ charged' = charged /\ Create(User(r))
         \/ /\ pc[r] = "save" /\ reply[r] \in Replies /\ Create(Said(r, reply[r], 1))
         \/ pc[r] = "tools" /\ Create(Said(r, "result", 0))
         \/ pc[r] = "mark" /\ MarkIncomplete(r)
PROOF
<1>1. CASE Save(r)
  BY <1>1 DEF Save, ChargeInv
<1>2. CASE Load(r) \/ Open(r) \/ Register(r) \/ Setup(r, TRUE) \/ Setup(r, FALSE) \/ CheckCancelled(r) \/ CallLlm(r)
  BY <1>2 DEF Load, Open, Register, Setup, CheckCancelled, CallLlm
<1>3. CASE \/ \E kind \in Replies \union {"error"} : Respond(r, kind)
           \/ RunTools(r) \/ Charge(r, TRUE) \/ Charge(r, FALSE) \/ Refresh(r)
  BY <1>3 DEF Respond, RunTools, Charge, Refresh
<1>4. CASE \/ Complete(r) \/ Catch(r) \/ Mark(r) \/ Cleanup(r) \/ Disconnect(r) \/ Expire(r) \/ Reap(r)
  BY <1>4 DEF Complete, Catch, Mark, Cleanup, Disconnect, Expire, Reap
<1> QED
  BY <1>1, <1>2, <1>3, <1>4 DEF StreamStep

\* The messages of the code are well typed.
LEMMA MessageType ==
  ASSUME NEW r \in Runs
  PROVE  /\ User(r) \in Message
         /\ \A kind \in Replies \union {"result"}, t \in 0 .. 2 : Said(r, kind, t) \in Message
PROOF BY DEF User, Said, Message, Kinds

\* Writing the status of a row keeps the types of the rows.
LEMMA WriteType ==
  ASSUME ControlOK, NEW r, NEW status \in {"COMPLETED", "FAILED", "ABORTED", "SYSTEM_INTERRUPTED"}, Write(r, status)
  PROVE  /\ task' \in [Runs -> [status : {"NONE", "RUNNING", "COMPLETED", "FAILED", "ABORTED", "SYSTEM_INTERRUPTED"},
                                version : Nat]]
         /\ \A q \in Runs : task'[q].status \in {task[q].status, status} /\ (q # r => task'[q] = task[q])
PROOF
<1> DEFINE Rec == [status : {"NONE", "RUNNING", "COMPLETED", "FAILED", "ABORTED", "SYSTEM_INTERRUPTED"}, version : Nat]
<1>0. task \in [Runs -> Rec]
  BY DEF ControlOK
<1>1. CASE task[r].status = status
  BY <1>0, <1>1 DEF Write
<1>2. CASE task[r].status # status
  <2> DEFINE new == [status |-> status, version |-> task[r].version + 1]
  <2>1. task' = [task EXCEPT ![r] = new]
    BY <1>2 DEF Write
  <2>2. r \in Runs => new \in Rec
    BY <1>0
  <2>3. new.status = status
    OBVIOUS
  <2> HIDE DEF new, Rec
  <2>4. task' \in [Runs -> Rec]
    BY <1>0, <2>1, <2>2
  <2>5. \A q \in Runs : task'[q] = IF q = r THEN new ELSE task[q]
    BY <1>0, <2>1
  <2> QED
    BY <2>3, <2>4, <2>5 DEF Rec
<1> QED
  BY <1>1, <1>2

\* Every step keeps the types.
LEMMA ControlStep ==
  ASSUME ChatInv, [Next]_vars
  PROVE  ControlOK'
PROOF
<1> DEFINE Rows == Seq([msg : Message, finished : BOOLEAN])
<1> USE DEF ChatInv
<1>1. ASSUME NEW r \in Runs, StreamStep(r) PROVE ControlOK'
  <2>1. msgs' \in Rows
    <3>1. CASE UNCHANGED msgs
      BY <3>1 DEF ControlOK
    <3>2. CASE \E m \in Message : Create(m)
      BY <3>2, MessageOps
    <3>3. CASE MarkIncomplete(r)
      BY <3>3, MessageOps
    <3>4. 0 \in 0 .. 2 /\ 1 \in 0 .. 2
      OBVIOUS
    <3> QED
      BY <1>1, <3>1, <3>2, <3>3, <3>4, MessageStep, MessageType
  <2>2. key' \in [Runs -> {"none", "run", "stop"}]
    BY <1>1 DEF StreamStep, ControlOK, Load, Open, Register, Setup, CheckCancelled, CallLlm, Respond, Save, RunTools,
         Charge, Refresh, Complete, Catch, Mark, Cleanup, Disconnect, Expire, Reap, rows
  <2>3. pc' \in [Runs -> Places]
    <3>1. pc' = pc \/ \E place \in Places : pc' = [pc EXCEPT ![r] = place]
      <4>1. CASE Load(r) \/ Open(r) \/ Register(r) \/ Setup(r, TRUE) \/ Setup(r, FALSE) \/ CheckCancelled(r) \/ CallLlm(r)
        BY <4>1 DEF Load, Open, Register, Setup, CheckCancelled, CallLlm, Goto, Finish, Passed, Places, Over
      <4>2. CASE \/ \E kind \in Replies \union {"error"} : Respond(r, kind)
                 \/ Save(r) \/ RunTools(r) \/ Charge(r, TRUE) \/ Charge(r, FALSE) \/ Refresh(r)
        BY <4>2 DEF Respond, Save, RunTools, Charge, Refresh, Goto, Places
      <4>3. CASE \/ Complete(r) \/ Catch(r) \/ Mark(r) \/ Cleanup(r) \/ Disconnect(r) \/ Expire(r) \/ Reap(r)
        BY <4>3 DEF Complete, Catch, Mark, Cleanup, Disconnect, Expire, Reap, Goto, Finish, Places, Over
      <4> QED
        BY <1>1, <4>1, <4>2, <4>3 DEF StreamStep
    <3> QED
      BY <3>1 DEF ControlOK
  <2>4. reply' \in [Runs -> Replies \union {"none", "error", "canceled"}]
    BY <1>1 DEF StreamStep, ControlOK, Load, Open, Register, Setup, CheckCancelled, CallLlm, Respond, Save, RunTools,
         Charge, Refresh, Complete, Catch, Mark, Cleanup, Disconnect, Expire, Reap, Finish, Locals
  <2>5. charged' \in [Runs -> 0 .. 1]
    <3>1. charged' = charged \/ (pc[r] = "charge" /\ charged' = [charged EXCEPT ![r] = @ + 1])
      BY <1>1 DEF StreamStep, Load, Open, Register, Setup, CheckCancelled, CallLlm, Respond, Save, RunTools,
           Charge, Refresh, Complete, Catch, Mark, Cleanup, Disconnect, Expire, Reap
    <3>2. charged \in [Runs -> {0, 1}]
      BY DEF ControlOK
    <3>3. pc[r] = "charge" => charged[r] # 1
      BY DEF ChargeInv
    <3>4. \/ charged' = charged \/ charged' = [charged EXCEPT ![r] = 1]
      BY <3>1, <3>2, <3>3
    <3>5. charged' \in [Runs -> {0, 1}]
      BY <3>2, <3>4
    <3> QED
      BY <3>5
  <2>6. late' \in [Runs -> Nat]
    <3>1. \/ late' = late \/ late' = [late EXCEPT ![r] = late[r] + 1] \/ late' = [late EXCEPT ![r] = 0]
      BY <1>1 DEF StreamStep, Load, Open, Register, Setup, CheckCancelled, CallLlm, Respond, Save, RunTools,
           Charge, Refresh, Complete, Catch, Mark, Cleanup, Disconnect, Expire, Reap, Finish, Late, Misread, ghosts, Locals
    <3>2. late \in [Runs -> Nat]
      BY DEF ControlOK
    <3> QED
      BY <3>1, <3>2
  <2>7. torn' \subseteq Runs
    BY <1>1 DEF StreamStep, ControlOK, Load, Open, Register, Setup, CheckCancelled, CallLlm, Respond, Save, RunTools,
         Charge, Refresh, Complete, Catch, Mark, Cleanup, Disconnect, Expire, Reap, ghosts
  <2>8. task' \in [Runs -> [status : {"NONE", "RUNNING", "COMPLETED", "FAILED", "ABORTED", "SYSTEM_INTERRUPTED"},
                            version : Nat]]
    <3>1. \/ UNCHANGED task \/ task' = [task EXCEPT ![r] = [status |-> "RUNNING", version |-> 1]]
          \/ \E status \in {"COMPLETED", "FAILED", "ABORTED", "SYSTEM_INTERRUPTED"} : Write(r, status)
      BY <1>1 DEF StreamStep, Load, Open, Register, Setup, CheckCancelled, CallLlm, Respond, Save, RunTools,
           Charge, Refresh, Complete, Catch, Mark, Cleanup, Disconnect, Expire, Reap, rows
    <3>2. CASE \E status \in {"COMPLETED", "FAILED", "ABORTED", "SYSTEM_INTERRUPTED"} : Write(r, status)
      BY <3>2, WriteType
    <3>3. CASE task' = [task EXCEPT ![r] = [status |-> "RUNNING", version |-> 1]]
      BY <3>3 DEF ControlOK
    <3>4. CASE UNCHANGED task
      BY <3>4 DEF ControlOK
    <3> QED
      BY <3>1, <3>2, <3>3, <3>4
  <2> QED
    BY <2>1, <2>2, <2>3, <2>4, <2>5, <2>6, <2>7, <2>8 DEF ControlOK
<1>2. CASE StopFind \/ StopRefresh \/ StopFailed \/ UNCHANGED vars
  BY <1>2 DEF StopFind, StopRefresh, StopFailed, vars, rows, ghosts, ControlOK
<1>3. CASE StopCancel
  BY <1>3 DEF StopCancel, ghosts, ControlOK
<1>4. CASE StopWrite
  <2>1. UNCHANGED task \/ Write(stop.run, "ABORTED")
    BY <1>4 DEF StopWrite
  <2>2. task' \in [Runs -> [status : {"NONE", "RUNNING", "COMPLETED", "FAILED", "ABORTED", "SYSTEM_INTERRUPTED"},
                            version : Nat]]
    BY <2>1, WriteType DEF ControlOK
  <2> QED
    BY <1>4, <2>2 DEF StopWrite, ghosts, ControlOK
<1>5. CASE Clear
  BY <1>5 DEF Clear, rows, Live, ControlOK
<1> QED
  BY <1>1, <1>2, <1>3, <1>4, <1>5, NextCases

\* A step of a run that is not late behind it disturbs the bound of no other.
LEMMA LateFrame ==
  ASSUME ControlOK, LateInv, NEW r \in Runs, NEW place, Goto(r, place),
         key' = key \/ key' = [key EXCEPT ![r] = "none"],
         late' = [late EXCEPT ![r] = 0]
  PROVE  LateInv'
PROOF BY SMTT(30) DEF ControlOK, LateInv, Goto

\* Every step keeps the bound on late steps.
LEMMA LateStep ==
  ASSUME ChatInv, [Next]_vars
  PROVE  LateInv'
PROOF
<1> USE DEF ChatInv
<1>1. ASSUME NEW r \in Runs, StreamStep(r) PROVE LateInv'
  <2>1. CASE Load(r) \/ Open(r) \/ Register(r) \/ Setup(r, TRUE) \/ Setup(r, FALSE)
    <3>1. late[r] = 0
      BY <2>1 DEF Load, Open, Register, Setup, LateInv
    <3>2. late = [late EXCEPT ![r] = 0]
      BY <3>1 DEF ControlOK
    <3>3. late' = [late EXCEPT ![r] = 0]
      BY <2>1, <3>2 DEF Load, Open, Register, Setup, Finish, Locals, ghosts
    <3>4. CASE Register(r)
      BY <3>3, <3>4, SMTT(30) DEF Register, Goto, rows, LateInv, ControlOK
    <3>5. CASE ~Register(r)
      <4>1. key' = key /\ \E place : Goto(r, place)
        BY <2>1, <3>5 DEF Load, Open, Setup, Finish, rows
      <4> QED
        BY <3>3, <4>1, LateFrame
    <3> QED
      BY <3>4, <3>5
  <2>2. CASE CheckCancelled(r)
    BY <2>2 DEF CheckCancelled, Misread, Cancelled, Goto, Passed, rows, LateInv, ControlOK
  <2>3. CASE CallLlm(r)
    BY <2>3 DEF CallLlm, Late, Cancelled, Goto, rows, LateInv, ControlOK
  <2>4. CASE \E kind \in Replies \union {"error"} : Respond(r, kind)
    <3>1. PICK kind \in Replies \union {"error"} : Respond(r, kind)
      BY <2>4
    <3> QED
      BY <3>1, ZenonT(40) DEF Respond, Goto, rows, ghosts, LateInv, ControlOK
  <2>5. CASE Save(r)
    <3>1. pc[r] = "save" /\ late[r] = 0
      BY <2>5 DEF Save, LateInv
    <3>2. late \in [Runs -> Nat] /\ pc \in [Runs -> Places]
      BY DEF ControlOK
    <3>3. CASE Cancelled(r) /\ Late(r) /\ Goto(r, "catch")
      BY <2>5, <3>1, <3>2, <3>3 DEF Save, Late, Cancelled, Goto, rows, LateInv
    <3>4. CASE late' = late \/ late' = [late EXCEPT ![r] = 0]
      BY <2>5, <3>1, <3>2, <3>4 DEF Save, Goto, rows, LateInv
    <3> QED
      BY <2>5, <3>3, <3>4 DEF Save, Misread
  <2>6. CASE RunTools(r)
    BY <2>6 DEF RunTools, Late, Cancelled, Goto, rows, LateInv, ControlOK
  <2>7. CASE Charge(r, TRUE) \/ Charge(r, FALSE) \/ Refresh(r)
    BY <2>7 DEF Charge, Refresh, Goto, rows, ghosts, LateInv, ControlOK
  <2>8. CASE Complete(r) \/ Catch(r)
    <3>1. CASE Complete(r)
      BY <3>1, ZenonT(40) DEF Complete, Goto, Finish, Locals, LateInv, ControlOK
    <3>2. CASE Catch(r)
      BY <3>2, ZenonT(40) DEF Catch, Goto, Finish, Locals, LateInv, ControlOK
    <3> QED
      BY <2>8, <3>1, <3>2
  <2>9. CASE Mark(r) \/ Cleanup(r)
    <3>1. late' = [late EXCEPT ![r] = 0] /\ key' = [key EXCEPT ![r] = "none"] /\ Goto(r, "done")
      BY <2>9 DEF Mark, Cleanup, Finish
    <3> QED
      BY <3>1, LateFrame
  <2>10. CASE Disconnect(r) \/ Expire(r) \/ Reap(r)
    BY <2>10 DEF Disconnect, Expire, Reap, Goto, Finish, rows, ghosts, LateInv, ControlOK
  <2> QED
    BY <1>1, <2>1, <2>2, <2>3, <2>4, <2>5, <2>6, <2>7, <2>8, <2>9, <2>10 DEF StreamStep
<1>2. CASE StopFind \/ StopRefresh \/ StopWrite \/ StopFailed \/ Clear \/ UNCHANGED vars
  BY <1>2 DEF StopFind, StopRefresh, StopWrite, StopFailed, Clear, vars, rows, ghosts, LateInv
<1>3. CASE StopCancel
  BY <1>3 DEF StopCancel, ghosts, LateInv, ControlOK
<1> QED
  BY <1>1, <1>2, <1>3, NextCases

\* Every step keeps a run charged only behind its charge, and completed only at its end.
LEMMA ChargeStep ==
  ASSUME ChatInv, [Next]_vars
  PROVE  ChargeInv'
PROOF
<1> USE DEF ChatInv
<1>0. /\ charged \in [Runs -> {0, 1}] /\ pc \in [Runs -> Places]
      /\ reply \in [Runs -> Replies \union {"none", "error", "canceled"}]
  BY DEF ControlOK
<1>1. ASSUME NEW r \in Runs, StreamStep(r) PROVE ChargeInv'
  <2>1. CASE Load(r) \/ Register(r) \/ Setup(r, TRUE) \/ Setup(r, FALSE)
    BY <1>0, <2>1 DEF Load, Register, Setup, Goto, Finish, Locals, rows, ChargeInv
  <2>2. CASE Open(r)
    <3>1. \A q \in Runs : task'[q].status = "COMPLETED" => task[q].status = "COMPLETED"
      BY <2>2 DEF Open, ControlOK
    <3> QED
      BY <1>0, <2>2, <3>1 DEF Open, Goto, ChargeInv
  <2>3. CASE CheckCancelled(r)
    BY <1>0, <2>3 DEF CheckCancelled, Goto, Passed, rows, ChargeInv
  <2>4. CASE CallLlm(r) \/ RunTools(r)
    BY <1>0, <2>4 DEF CallLlm, RunTools, Goto, rows, ChargeInv
  <2>5. CASE \E kind \in Replies \union {"error"} : Respond(r, kind)
    BY <1>0, <2>5 DEF Respond, Goto, rows, ChargeInv
  <2>6. CASE Save(r)
    BY <1>0, <2>6 DEF Save, Goto, rows, ChargeInv
  <2>7. CASE Charge(r, TRUE) \/ Charge(r, FALSE)
    <3>1. charged[r] = 0
      BY <1>0, <2>7 DEF Charge, ChargeInv
    <3> QED
      BY <1>0, <2>7, <3>1 DEF Charge, Goto, rows, ChargeInv
  <2>8. CASE Refresh(r)
    BY <1>0, <2>8 DEF Refresh, Goto, rows, ChargeInv
  <2>9. CASE Complete(r)
    <3>1. UNCHANGED task \/ Write(r, "COMPLETED")
      BY <2>9 DEF Complete
    <3>2. \A q \in Runs : task'[q].status = "COMPLETED" => q = r \/ task[q].status = "COMPLETED"
      BY <3>1, WriteType
    <3>3. \/ pc' = [pc EXCEPT ![r] = "cleanup"] /\ reply' = reply
          \/ pc' = [pc EXCEPT ![r] = "lost"] /\ reply' = [reply EXCEPT ![r] = "none"]
      BY <2>9 DEF Complete, Goto, Finish, Locals
    <3> QED
      BY <1>0, <2>9, <3>2, <3>3 DEF Complete, ChargeInv
  <2>10. CASE Catch(r)
    <3>1. UNCHANGED task \/ \E status \in {"ABORTED", "FAILED"} : Write(r, status)
      BY <2>10 DEF Catch
    <3>2. \A q \in Runs : task'[q].status = "COMPLETED" => task[q].status = "COMPLETED"
      BY <3>1, WriteType
    <3> QED
      BY <1>0, <2>10, <3>2 DEF Catch, Goto, Finish, Locals, ChargeInv
  <2>11. CASE Mark(r) \/ Cleanup(r)
    BY <1>0, <2>11 DEF Mark, Cleanup, Goto, Finish, ChargeInv
  <2>12. CASE Disconnect(r) \/ Expire(r)
    BY <1>0, <2>12 DEF Disconnect, Expire, Live, Over, Goto, Finish, rows, ChargeInv
  <2>13. CASE Reap(r)
    <3>1. Write(r, "SYSTEM_INTERRUPTED")
      BY <2>13 DEF Reap
    <3>2. \A q \in Runs : task'[q].status = "COMPLETED" => task[q].status = "COMPLETED"
      BY <3>1, WriteType
    <3> QED
      BY <2>13, <3>2 DEF Reap, ChargeInv
  <2> QED
    BY <1>1, <2>1, <2>2, <2>3, <2>4, <2>5, <2>6, <2>7, <2>8, <2>9, <2>10, <2>11, <2>12, <2>13 DEF StreamStep
<1>2. CASE StopFind \/ StopCancel \/ StopRefresh \/ StopFailed \/ Clear \/ UNCHANGED vars
  BY <1>2 DEF StopFind, StopCancel, StopRefresh, StopFailed, Clear, vars, rows, ChargeInv
<1>3. CASE StopWrite
  <2>1. UNCHANGED task \/ Write(stop.run, "ABORTED")
    BY <1>3 DEF StopWrite
  <2>2. \A q \in Runs : task'[q].status = "COMPLETED" => task[q].status = "COMPLETED"
    BY <2>1, WriteType
  <2> QED
    BY <1>3, <2>2 DEF StopWrite, ChargeInv
<1> QED
  BY <1>1, <1>2, <1>3, NextCases

-----------------------------------------------------------------------------
Asked(q) == \E i \in DOMAIN msgs : msgs[i].msg = User(q)

\* A stream asks no other run's question, and takes no other run's answer away; its own it takes
\* away only where its messages are marked.
LEMMA AskedAnswered ==
  ASSUME ControlOK, ChargeInv, NEW r \in Runs, StreamStep(r), NEW q \in Runs
  PROVE  /\ Asked(q)' => Asked(q) \/ (q = r /\ pc[r] = "open" /\ charged' = charged)
         /\ HasReply(q) => HasReply(q)' \/ (q = r /\ pc[r] = "mark")
PROOF
<1>1. CASE UNCHANGED msgs
  BY <1>1 DEF Asked, HasReply, User, Row, Said
<1>2. ASSUME NEW m \in Message, Create(m), m = User(q) => q = r /\ pc[r] = "open" /\ charged' = charged
      PROVE  /\ Asked(q)' => Asked(q) \/ (q = r /\ pc[r] = "open" /\ charged' = charged)
             /\ HasReply(q) => HasReply(q)'
  <2>1. /\ DOMAIN msgs' = DOMAIN msgs \union {Len(msgs) + 1}
        /\ \A i \in DOMAIN msgs : msgs'[i] = msgs[i]
        /\ msgs'[Len(msgs) + 1] = Row(m)
    BY <1>2, MessageOps
  <2>2. Row(m).msg = m
    BY DEF Row
  <2>3. HasReply(q) => HasReply(q)'
    BY <2>1 DEF HasReply, Row, Said
  <2>4. Asked(q)' => Asked(q) \/ m = User(q)
    BY <2>1, <2>2 DEF Asked, User
  <2> QED
    BY <1>2, <2>3, <2>4
<1>3. CASE pc[r] = "mark" /\ MarkIncomplete(r)
  <2>1. /\ DOMAIN msgs' = DOMAIN msgs
        /\ \A i \in DOMAIN msgs : /\ msgs'[i].msg = msgs[i].msg
                                  /\ msgs[i].msg.run # r => msgs'[i] = msgs[i]
    BY <1>3, MessageOps
  <2>2. Asked(q)' => Asked(q)
    BY <2>1 DEF Asked, User
  <2>3. \A i \in DOMAIN msgs, kind \in {"answer", "cut"} : msgs[i] = Row(Said(q, kind, 1)) => msgs[i].msg.run = q
    BY DEF Row, Said
  <2>4. q # r /\ HasReply(q) => HasReply(q)'
    BY <2>1, <2>3 DEF HasReply, Row, Said
  <2> QED
    BY <1>3, <2>2, <2>4
<1>4. CASE pc[r] = "open" /\ charged' = charged /\ Create(User(r))
  <2>1. User(r) = User(q) => q = r
    BY DEF User
  <2> QED
    BY <1>2, <1>4, <2>1, MessageType
<1>5. ASSUME NEW kind \in Replies \union {"result"}, NEW t \in 0 .. 2, Create(Said(r, kind, t))
      PROVE  (Asked(q)' => Asked(q)) /\ (HasReply(q) => HasReply(q)')
  <2>1. Said(r, kind, t) # User(q)
    BY DEF Said, User
  <2>2. /\ DOMAIN msgs' = DOMAIN msgs \union {Len(msgs) + 1}
        /\ \A i \in DOMAIN msgs : msgs'[i] = msgs[i]
        /\ msgs'[Len(msgs) + 1] = Row(Said(r, kind, t))
    BY <1>5, MessageOps, MessageType
  <2>3. Row(Said(r, kind, t)).msg = Said(r, kind, t)
    BY DEF Row
  <2>4. HasReply(q) => HasReply(q)'
    BY <2>2 DEF HasReply, Row, Said
  <2>5. ASSUME NEW i \in DOMAIN msgs', msgs'[i].msg = User(q) PROVE i \in DOMAIN msgs /\ msgs[i].msg = User(q)
    BY <2>1, <2>2, <2>3, <2>5
  <2>6. User(q)' = User(q)
    BY DEF User
  <2>7. Asked(q)' => Asked(q)
    BY <2>5, <2>6 DEF Asked
  <2> QED
    BY <2>4, <2>7
<1>6. 0 \in 0 .. 2 /\ 1 \in 0 .. 2
  OBVIOUS
<1> QED
  BY <1>1, <1>3, <1>4, <1>5, <1>6, MessageStep

Spent(q) == pc[q] \in {"charge", "refresh", "complete", "cleanup"} \/ charged[q] = 1 \/ task[q].status = "COMPLETED"

\* A reply is charged for, or completes its run, only where it was saved.
LEMMA SpentStep ==
  ASSUME ChatInv, NEW r \in Runs, StreamStep(r), NEW q \in Runs, Spent(q)'
  PROVE  Spent(q) \/ (q = r /\ Save(r) /\ reply[r] # "call")
PROOF
<1>0. charged \in [Runs -> {0, 1}] /\ pc \in [Runs -> Places] /\ ControlOK
  BY DEF ChatInv, ControlOK
<1>1. CASE \/ Load(r) \/ Register(r) \/ Setup(r, TRUE) \/ Setup(r, FALSE) \/ CheckCancelled(r)
           \/ CallLlm(r) \/ (\E kind \in Replies \union {"error"} : Respond(r, kind)) \/ RunTools(r)
  BY <1>0, <1>1 DEF Load, Register, Setup, CheckCancelled, CallLlm, Respond, RunTools, Goto, Finish, Passed, rows, Spent
<1>2. CASE Open(r)
  <2>1. task'[q].status = "COMPLETED" => task[q].status = "COMPLETED"
    BY <1>0, <1>2 DEF Open, ControlOK
  <2> QED
    BY <1>0, <1>2, <2>1 DEF Open, Goto, Spent
<1>3. CASE Save(r)
  BY <1>0, <1>3 DEF Save, Goto, rows, Spent
<1>4. CASE Charge(r, TRUE) \/ Charge(r, FALSE) \/ Refresh(r)
  <2>1. q # r => charged'[q] = charged[q]
    BY <1>0, <1>4 DEF Charge, Refresh
  <2> QED
    BY <1>0, <1>4, <2>1 DEF Charge, Refresh, Goto, rows, Spent
<1>5. CASE Complete(r) \/ Catch(r) \/ Reap(r)
  <2>1. UNCHANGED task \/ \E status \in {"COMPLETED", "FAILED", "ABORTED", "SYSTEM_INTERRUPTED"} : Write(r, status)
    BY <1>5 DEF Complete, Catch, Reap
  <2>2. q # r => task'[q].status = task[q].status
    BY <1>0, <2>1, WriteType
  <2>3. Complete(r) => pc[r] = "complete"
    BY DEF Complete
  <2>4. Catch(r) \/ Reap(r) => task'[q].status \in {task[q].status, "FAILED", "ABORTED", "SYSTEM_INTERRUPTED"}
    <3>1. Catch(r) \/ Reap(r) =>
            UNCHANGED task \/ \E status \in {"FAILED", "ABORTED", "SYSTEM_INTERRUPTED"} : Write(r, status)
      BY DEF Catch, Reap
    <3> QED
      BY <1>0, <3>1, WriteType
  <2>5. charged' = charged /\ (q # r => pc'[q] = pc[q]) /\ (Catch(r) \/ Reap(r) => pc'[q] \in {pc[q], "mark", "lost"})
    BY <1>0, <1>5 DEF Complete, Catch, Reap, Goto, Finish, Locals
  <2> QED
    BY <1>5, <2>2, <2>3, <2>4, <2>5 DEF Spent
<1>6. CASE Mark(r) \/ Cleanup(r) \/ Disconnect(r) \/ Expire(r)
  BY <1>0, <1>6 DEF Mark, Cleanup, Disconnect, Expire, Goto, Finish, rows, Spent
<1> QED
  BY <1>1, <1>2, <1>3, <1>4, <1>5, <1>6 DEF StreamStep

\* Every step keeps what was charged for, and what completed a run.
LEMMA KeptStep ==
  ASSUME ChatInv, [Next]_vars
  PROVE  KeptInv'
PROOF
<1> USE DEF ChatInv
<1>0. charged \in [Runs -> {0, 1}] /\ pc \in [Runs -> Places]
  BY DEF ControlOK
<1>a. \A q \in Runs : Spent(q) /\ q \notin torn /\ Asked(q) => HasReply(q)
  BY DEF KeptInv, Spent, Asked
<1>b. \A q \in Runs : Spent(q) => pc[q] # "open" /\ pc[q] # "mark"
  BY DEF ChargeInv, Spent
<1>1. ASSUME NEW r \in Runs, StreamStep(r), NEW q \in Runs, Spent(q)', q \notin torn', Asked(q)'
      PROVE  HasReply(q)'
  <2>1. torn \subseteq torn'
    <3>1. CASE Load(r) \/ Open(r) \/ Register(r) \/ Setup(r, TRUE) \/ Setup(r, FALSE) \/ CheckCancelled(r) \/ CallLlm(r)
      BY <3>1 DEF Load, Open, Register, Setup, CheckCancelled, CallLlm, Finish, ghosts
    <3>2. CASE \/ \E kind \in Replies \union {"error"} : Respond(r, kind)
               \/ Save(r) \/ RunTools(r) \/ Charge(r, TRUE) \/ Charge(r, FALSE) \/ Refresh(r)
      BY <3>2 DEF Respond, Save, RunTools, Charge, Refresh, ghosts
    <3>3. CASE \/ Complete(r) \/ Catch(r) \/ Mark(r) \/ Cleanup(r) \/ Disconnect(r) \/ Expire(r) \/ Reap(r)
      BY <3>3 DEF Complete, Catch, Mark, Cleanup, Disconnect, Expire, Reap, Finish, ghosts
    <3> QED
      BY <1>1, <3>1, <3>2, <3>3 DEF StreamStep
  <2>2. CASE Spent(q)
    BY <1>a, <1>b, <1>1, <2>1, <2>2, AskedAnswered
  <2>3. CASE q = r /\ Save(r) /\ reply[r] # "call"
    <3>1. reply[r] \in {"answer", "cut"} /\ Create(Said(r, reply[r], 1))
      BY <2>3 DEF Save, Recorded, ChargeInv
    <3>2. 1 \in 0 .. 2 /\ Said(r, reply[r], 1) \in Message
      BY <3>1, MessageType
    <3>3. /\ DOMAIN msgs' = DOMAIN msgs \union {Len(msgs) + 1}
          /\ msgs'[Len(msgs) + 1] = Row(Said(r, reply[r], 1))
      BY <3>1, <3>2, MessageOps
    <3> QED
      BY <2>3, <3>1, <3>3 DEF HasReply, Row, Said
  <2> QED
    BY <1>1, <2>2, <2>3, SpentStep
<1>2. (\E r \in Runs : StreamStep(r)) => KeptInv'
  <2>1. (\E r \in Runs : StreamStep(r)) => \A q \in Runs : Spent(q)' /\ q \notin torn' /\ Asked(q)' => HasReply(q)'
    BY <1>1
  <2> QED
    BY <2>1 DEF KeptInv, Spent, Asked
<1>3. CASE StopFind \/ StopCancel \/ StopRefresh \/ StopWrite \/ StopFailed \/ UNCHANGED vars
  <2>1. UNCHANGED <<msgs, pc, charged, torn>>
    BY <1>3 DEF StopFind, StopCancel, StopRefresh, StopWrite, StopFailed, vars, ghosts
  <2>2. UNCHANGED task \/ Write(stop.run, "ABORTED")
    BY <1>3 DEF StopFind, StopCancel, StopRefresh, StopWrite, StopFailed, vars, rows
  <2>3. \A q \in Runs : task'[q].status = "COMPLETED" => task[q].status = "COMPLETED"
    BY <2>2, WriteType
  <2>4. \A q \in Runs : /\ Asked(q)' <=> Asked(q)
                        /\ HasReply(q)' <=> HasReply(q)
    BY <2>1 DEF Asked, HasReply, User, Row, Said
  <2>5. \A q \in Runs : Spent(q)' => Spent(q)
    BY <2>1, <2>3 DEF Spent
  <2>6. \A q \in Runs : Spent(q)' /\ q \notin torn' /\ Asked(q)' => HasReply(q)'
    BY <1>a, <2>1, <2>4, <2>5
  <2> QED
    BY <2>6 DEF KeptInv, Spent, Asked
<1>4. CASE Clear
  BY <1>4 DEF Clear, KeptInv
<1> QED
  BY <1>2, <1>3, <1>4, NextCases

-----------------------------------------------------------------------------
\* Whatever streams, stops, deletions and clean-ups do, the inductive invariant of the chat mode holds.
THEOREM ChatInvariant == Spec => []ChatInv
PROOF
<1>1. ChatInv /\ [Next]_vars => ChatInv'
  BY ControlStep, LateStep, ChargeStep, KeptStep DEF ChatInv
<1> QED
  BY <1>1, InitInv, PTL DEF Spec

\* After a stop has reached its key a stream calls the LLM or saves at most once more.
THEOREM StopsArePrompt == Spec => []StopIsPrompt
PROOF
<1>1. ASSUME ChatInv PROVE StopIsPrompt
  <2>1. \A r \in Runs : late[r] \in Nat
    BY <1>1 DEF ChatInv, ControlOK
  <2> QED
    BY <1>1, <2>1 DEF ChatInv, LateInv, StopIsPrompt
<1> QED
  BY <1>1, ChatInvariant, PTL

\* What was charged for, and what completed a run, is a reply that stays in the history.
THEOREM PaidAnswersAreKept == Spec => []PaidAnswerKept
PROOF
<1>1. ChatInv => PaidAnswerKept
  BY DEF ChatInv, ChargeInv, KeptInv, PaidAnswerKept
<1> QED
  BY <1>1, ChatInvariant, PTL

-----------------------------------------------------------------------------
(* What the steps of a stream do to its list and to the table. *)

\* Where the calls in the table need not have results.
Exempt(r) == r \in torn \/ Owes(r) \/ pc[r] \in {"catch", "abort", "mark"}

Loads(r) ==
  /\ pc[r] = "idle" /\ pc'[r] = "open"
  /\ hist'[r] = ListBySession /\ peers'[r] = Live \union Beyond /\ torn' = torn /\ msgs' = msgs
Asks(r) ==
  /\ pc[r] = "open" /\ pc'[r] = "register"
  /\ hist'[r] = Append(hist[r], User(r)) /\ peers'[r] = peers[r] /\ Create(User(r))
Cuts(r) ==
  /\ pc[r] = "call" /\ pc'[r] = "llm"
  /\ hist'[r] = Reduce(hist[r]) /\ peers'[r] = peers[r] /\ msgs' = msgs
Speaks(r, kind) ==
  /\ pc[r] = "save" /\ pc'[r] \in {"catch", IF kind = "call" THEN "tools" ELSE "charge"}
  /\ hist'[r] = Append(hist[r], Said(r, kind, 1)) /\ peers'[r] = peers[r] /\ Create(Said(r, kind, 1))
Reports(r) ==
  /\ pc[r] = "tools" /\ Owes(r) /\ pc'[r] = "top"
  /\ hist'[r] = Append(hist[r], Said(r, "result", 0)) /\ peers'[r] = peers[r] /\ Create(Said(r, "result", 0))
Marks(r) == pc[r] = "mark" /\ pc'[r] = "done" /\ MarkIncomplete(r)
Moves(r) ==
  /\ pc'[r] \in Posed /\ pc[r] \in Posed /\ ~ Owes(r)
  /\ hist'[r] = hist[r] /\ peers'[r] = peers[r] /\ msgs' = msgs
Leaves(r) ==
  /\ pc'[r] \notin Listed \union {"idle"} /\ msgs' = msgs
  /\ Exempt(r) => r \in torn' \/ pc'[r] \in {"catch", "abort", "mark"}
Still == UNCHANGED <<msgs, pc, hist, peers, torn>>

\* Every step of a stream is one of these, and leaves the other streams alone.
LEMMA StreamKinds ==
  ASSUME ChatInv, TypeOK, NEW r \in Runs, StreamStep(r)
  PROVE  /\ \/ Loads(r) \/ Asks(r) \/ Cuts(r) \/ Reports(r) \/ Marks(r) \/ Moves(r) \/ Leaves(r) \/ Still
            \/ \E kind \in Replies : Speaks(r, kind)
         /\ \A q \in Runs : q # r => pc'[q] = pc[q] /\ hist'[q] = hist[q] /\ peers'[q] = peers[q]
         /\ torn \subseteq torn'
PROOF
<1>0. /\ pc \in [Runs -> Places] /\ hist \in [Runs -> Seq(Message)] /\ peers \in [Runs -> SUBSET Runs]
      /\ \A q \in Runs : pc[q] \in {"check", "save"} => reply[q] \in Replies
  BY DEF ChatInv, ChargeInv, TypeOK
<1>1. CASE Load(r)
  BY <1>0, <1>1 DEF Load, Goto, ghosts, Loads
<1>2. CASE Open(r)
  BY <1>0, <1>2 DEF Open, Goto, ghosts, Asks
<1>3. CASE Register(r) \/ Setup(r, TRUE) \/ CheckCancelled(r)
  <2>1. Moves(r) \/ Leaves(r)
    BY <1>0, <1>3 DEF Register, Setup, CheckCancelled, Goto, Passed, Locals, ghosts, Moves, Leaves, Exempt, Owes, Listed, Posed
  <2> QED
    BY <1>0, <1>3, <2>1 DEF Register, Setup, CheckCancelled, Goto, Passed, Locals, ghosts
<1>4. CASE Setup(r, FALSE) \/ Disconnect(r)
  BY <1>0, <1>4 DEF Setup, Disconnect, Goto, Finish, Leaves, Listed, Live
<1>5. CASE CallLlm(r)
  BY <1>0, <1>5 DEF CallLlm, Goto, Cuts
<1>6. CASE \E kind \in Replies \union {"error"} : Respond(r, kind)
  <2>1. Moves(r) \/ Leaves(r)
    BY <1>0, <1>6 DEF Respond, Goto, ghosts, Moves, Leaves, Exempt, Owes, Listed, Posed
  <2> QED
    BY <1>0, <1>6, <2>1 DEF Respond, Goto, ghosts
<1>7. CASE Save(r)
  <2>0. /\ pc[r] = "save" /\ reply[r] \in Replies /\ torn' = torn /\ peers' = peers
        /\ pc'[r] \in {"catch", IF reply[r] = "call" THEN "tools" ELSE "charge"}
        /\ \A q \in Runs : q # r => pc'[q] = pc[q]
    BY <1>0, <1>7 DEF Save, Goto
  <2>1. CASE Recorded(r)
    <3>1. Create(Said(r, reply[r], 1)) /\ hist' = [hist EXCEPT ![r] = Append(@, Said(r, reply[r], 1))]
      BY <1>7, <2>1 DEF Save
    <3>2. Speaks(r, reply[r])
      BY <1>0, <2>0, <3>1 DEF Speaks
    <3> QED
      BY <1>0, <2>0, <3>1, <3>2
  <2>2. CASE ~ Recorded(r)
    <3>1. msgs' = msgs /\ hist' = hist
      BY <1>7, <2>2 DEF Save
    <3>2. Moves(r) \/ Leaves(r)
      BY <2>0, <3>1 DEF Moves, Leaves, Exempt, Owes, Listed, Posed
    <3> QED
      BY <2>0, <3>1, <3>2
  <2> QED
    BY <2>1, <2>2
<1>8. CASE RunTools(r)
  <2>0. /\ pc[r] = "tools" /\ torn' = torn /\ peers' = peers /\ pc'[r] = "top"
        /\ \A q \in Runs : q # r => pc'[q] = pc[q]
    BY <1>0, <1>8 DEF RunTools, Goto
  <2>1. CASE Owes(r)
    BY <1>0, <1>8, <2>0, <2>1 DEF RunTools, Owes, Reports
  <2>2. CASE ~ Owes(r)
    BY <1>8, <2>0, <2>2 DEF RunTools, Owes, Moves, Posed, Listed
  <2> QED
    BY <2>1, <2>2
<1>9. CASE Charge(r, TRUE) \/ Charge(r, FALSE) \/ Refresh(r)
  BY <1>0, <1>9 DEF Charge, Refresh, Goto, ghosts, Leaves, Exempt, Owes, Listed
<1>10. CASE Complete(r) \/ Catch(r) \/ Cleanup(r)
  BY <1>0, <1>10 DEF Complete, Catch, Cleanup, Goto, Finish, Locals, Leaves, Exempt, Owes, Listed
<1>11. CASE Mark(r)
  BY <1>0, <1>11 DEF Mark, Goto, Finish, Marks
<1>12. CASE Expire(r) \/ Reap(r)
  BY <1>12 DEF Expire, Reap, ghosts, Still
<1> QED
  BY <1>1, <1>2, <1>3, <1>4, <1>5, <1>6, <1>7, <1>8, <1>9, <1>10, <1>11, <1>12 DEF StreamStep

-----------------------------------------------------------------------------
(* Types, and the versions of the rows. *)

Ended == {"COMPLETED", "FAILED", "ABORTED", "SYSTEM_INTERRUPTED"}

\* What a stream does to its row, and to its place meanwhile.
LEMMA TaskStep ==
  ASSUME ChatInv, TypeOK, VersionInv, NEW r \in Runs, StreamStep(r)
  PROVE  /\ \/ task' = task /\ pc[r] # "open"
            \/ task' = task /\ pc'[r] \in {"open", "lost"}
            \/ pc'[r] = "register" /\ task' = [task EXCEPT ![r] = [status |-> "RUNNING", version |-> 1]]
            \/ \E status \in Ended : /\ task' = [task EXCEPT ![r] = [status |-> status, version |-> @.version + 1]]
                                     /\ \/ pc[r] \in {"complete", "abort"} /\ pc'[r] \in {"cleanup", "mark"}
                                        \/ pc' = pc /\ task[r].status = "RUNNING"
         /\ pc'[r] \in {"idle", "open"} => pc[r] \in {"idle", "open"}
         /\ pc[r] = "idle" => pc'[r] \in {"idle", "open"}
         /\ pc[r] \in Over /\ pc[r] # "idle" => pc'[r] = pc[r]
         /\ pc[r] \in {"cleanup", "mark"} => pc'[r] \in {"cleanup", "mark", "done", "lost"}
PROOF
<1>0. pc \in [Runs -> Places]
  BY DEF TypeOK
<1>1. CASE Load(r) \/ Register(r) \/ Setup(r, TRUE) \/ Setup(r, FALSE) \/ CheckCancelled(r) \/ CallLlm(r)
  BY <1>0, <1>1 DEF Load, Register, Setup, CheckCancelled, CallLlm, Goto, Finish, Passed, rows, Over
<1>2. CASE Open(r)
  BY <1>0, <1>2 DEF Open, Goto, Over
<1>3. CASE \/ \E kind \in Replies \union {"error"} : Respond(r, kind)
           \/ Save(r) \/ RunTools(r) \/ Charge(r, TRUE) \/ Charge(r, FALSE) \/ Refresh(r)
  BY <1>0, <1>3 DEF Respond, Save, RunTools, Charge, Refresh, Goto, rows, Over
<1>4. CASE Complete(r) \/ Catch(r)
  BY <1>0, <1>4 DEF Complete, Catch, Write, Goto, Finish, Over, Ended
<1>5. CASE Mark(r) \/ Cleanup(r) \/ Disconnect(r)
  BY <1>0, <1>5 DEF Mark, Cleanup, Disconnect, Live, Goto, Finish, Over, rows
<1>6. CASE Expire(r)
  BY <1>6 DEF Expire, Over
<1>7. CASE Reap(r)
  <2>1. task' = [task EXCEPT ![r] = [status |-> "SYSTEM_INTERRUPTED", version |-> @.version + 1]]
    BY <1>7 DEF Reap, Write
  <2> QED
    BY <1>7, <2>1 DEF Reap, Over, Ended
<1> QED
  BY <1>1, <1>2, <1>3, <1>4, <1>5, <1>6, <1>7 DEF StreamStep

Statuses == {"NONE", "RUNNING"} \union Ended

\* Every step keeps the versions of the rows.
LEMMA VersionStep ==
  ASSUME ChatInv, TypeOK, VersionInv, [Next]_vars
  PROVE  VersionInv' /\ task' \in [Runs -> [status : Statuses, version : 0 .. 3]]
PROOF
<1> DEFINE RowType == [status : Statuses, version : 0 .. 3]
           Sound(row, place) ==
             /\ row.status = "RUNNING" <=> row.version = 1
             /\ place \in {"idle", "open"} => row.version = 0
             /\ place \notin {"idle", "open", "lost"} => row.version # 0
             /\ place \notin {"cleanup", "mark", "done", "lost"} => row.version <= 2
<1>0. /\ task \in [Runs -> RowType] /\ pc \in [Runs -> Places]
      /\ \A q \in Runs : Sound(task[q], pc[q])
  BY DEF TypeOK, VersionInv, Statuses, Ended
<1>a. ASSUME NEW q \in Runs, NEW status \in Ended, NEW place,
             task[q].version \in 1 .. 2,
             place \notin {"idle", "open"}, task[q].version = 1 \/ place \in {"cleanup", "mark"}
      PROVE  LET new == [status |-> status, version |-> task[q].version + 1]
             IN  new \in RowType /\ Sound(new, place)
  <2> DEFINE new == [status |-> status, version |-> task[q].version + 1]
  <2>1. new \in RowType
    BY <1>a DEF Statuses
  <2>2. new.status # "RUNNING" /\ new.version = task[q].version + 1
    BY DEF Ended
  <2> QED
    BY <1>a, <2>1, <2>2
<1>1. ASSUME NEW r \in Runs, StreamStep(r)
      PROVE  task' \in [Runs -> RowType] /\ \A q \in Runs : Sound(task'[q], pc'[q])
  <2>0. \A q \in Runs : q # r => pc'[q] = pc[q]
    BY <1>1, StreamKinds
  <2>1. /\ pc'[r] \in {"idle", "open"} => pc[r] \in {"idle", "open"}
        /\ pc[r] = "idle" => pc'[r] \in {"idle", "open"}
        /\ pc[r] \in Over /\ pc[r] # "idle" => pc'[r] = pc[r]
        /\ pc[r] \in {"cleanup", "mark"} => pc'[r] \in {"cleanup", "mark", "done", "lost"}
    BY <1>1, TaskStep
  <2>2. CASE task' = task /\ (pc[r] # "open" \/ pc'[r] \in {"open", "lost"})
    <3>1. Sound(task[r], pc'[r])
      BY <1>0, <2>1, <2>2 DEF Over
    <3> HIDE DEF Sound, RowType
    <3> QED
      BY <1>0, <2>0, <2>2, <3>1
  <2>3. CASE pc'[r] = "register" /\ task' = [task EXCEPT ![r] = [status |-> "RUNNING", version |-> 1]]
    <3> DEFINE new == [status |-> "RUNNING", version |-> 1]
    <3>1. new \in RowType /\ Sound(new, "register")
      BY DEF Statuses
    <3> HIDE DEF Sound, RowType, new
    <3> QED
      BY <1>0, <2>0, <2>3, <3>1 DEF new
  <2>4. ASSUME NEW status \in Ended,
               task' = [task EXCEPT ![r] = [status |-> status, version |-> @.version + 1]],
               \/ pc[r] \in {"complete", "abort"} /\ pc'[r] \in {"cleanup", "mark"}
               \/ pc' = pc /\ task[r].status = "RUNNING"
        PROVE  task' \in [Runs -> RowType] /\ \A q \in Runs : Sound(task'[q], pc'[q])
    <3> DEFINE new == [status |-> status, version |-> task[r].version + 1]
    <3>1. /\ task[r].version \in 1 .. 2 /\ pc'[r] \notin {"idle", "open"}
          /\ task[r].version = 1 \/ pc'[r] \in {"cleanup", "mark"}
      BY <1>0, <2>4
    <3>2. new \in RowType /\ Sound(new, pc'[r])
      BY <1>a, <3>1
    <3>3. task' = [task EXCEPT ![r] = new]
      BY <2>4
    <3> HIDE DEF Sound, RowType, new
    <3> QED
      BY <1>0, <2>0, <3>2, <3>3
  <2> HIDE DEF Sound
  <2> QED
    BY <1>1, <2>2, <2>3, <2>4, TaskStep
<1>2. ASSUME StopWrite
      PROVE  task' \in [Runs -> RowType] /\ \A q \in Runs : Sound(task'[q], pc'[q])
  <2>0. pc' = pc
    BY <1>2 DEF StopWrite
  <2>1. CASE task' = task
    <3> HIDE DEF Sound, RowType
    <3> QED
      BY <1>0, <2>0, <2>1
  <2>2. CASE Write(stop.run, "ABORTED") /\ task' # task
    <3> DEFINE s == stop.run
               new == [status |-> "ABORTED", version |-> task[s].version + 1]
    <3>1. s \in Runs /\ task[s].version = 1
      BY <1>2, <2>2 DEF StopWrite, VersionInv, TypeOK
    <3>2. task' = [task EXCEPT ![s] = new] /\ pc' = pc
      BY <1>2, <2>2 DEF StopWrite, Write
    <3>3. "ABORTED" \in Ended /\ pc[s] \notin {"idle", "open"}
      BY <1>0, <3>1 DEF Ended
    <3>4. new \in RowType /\ Sound(new, pc[s])
      BY <1>a, <3>1, <3>3
    <3> HIDE DEF Sound, RowType, new, s
    <3>5. task' \in [Runs -> RowType]
      BY <1>0, <3>1, <3>2, <3>4
    <3>6. ASSUME NEW q \in Runs PROVE Sound(task'[q], pc'[q])
      <4>1. CASE q = s
        BY <1>0, <3>1, <3>2, <3>4, <4>1
      <4>2. CASE q # s
        BY <1>0, <3>2, <4>2
      <4> QED
        BY <4>1, <4>2
    <3> QED
      BY <3>5, <3>6
  <2> QED
    BY <1>2, <2>1, <2>2 DEF StopWrite
<1>3. ASSUME StopFind \/ StopCancel \/ StopRefresh \/ StopFailed \/ Clear \/ UNCHANGED vars
      PROVE  task' \in [Runs -> RowType] /\ \A q \in Runs : Sound(task'[q], pc'[q])
  <2>1. task' = task /\ pc' = pc
    BY <1>3 DEF StopFind, StopCancel, StopRefresh, StopFailed, Clear, vars, rows
  <2> HIDE DEF Sound, RowType
  <2> QED
    BY <1>0, <2>1
<1>4. task' \in [Runs -> RowType] /\ \A q \in Runs : Sound(task'[q], pc'[q])
  <2> HIDE DEF Sound, RowType
  <2> QED
    BY <1>1, <1>2, <1>3, NextCases
<1>5. stop'.at = "write" => stop'.version = 1
  <2>1. CASE \E r \in Runs : StreamStep(r)
    <3>1. stop' = stop
      BY <2>1 DEF StreamStep, Load, Open, Register, Setup, CheckCancelled, CallLlm, Respond, Save, RunTools,
         Charge, Refresh, Complete, Catch, Mark, Cleanup, Disconnect, Expire, Reap
    <3> QED
      BY <3>1 DEF VersionInv
  <2>2. CASE StopRefresh
    BY <2>2 DEF StopRefresh, NoStop, VersionInv, TypeOK
  <2>3. CASE StopFind \/ StopCancel \/ StopWrite \/ StopFailed
    <3>0. stop \in [at : {"idle", "cancel", "refresh", "write", "failed"}, run : Runs, version : 0 .. 1]
      BY DEF TypeOK
    <3>1. stop'.at # "write"
      <4>1. CASE StopFind
        BY <3>0, <4>1 DEF StopFind
      <4>2. CASE StopCancel
        BY <3>0, <4>2 DEF StopCancel, NoStop
      <4>3. CASE StopWrite \/ StopFailed
        BY <3>0, <4>3 DEF StopWrite, StopFailed, NoStop
      <4> QED
        BY <2>3, <4>1, <4>2, <4>3
    <3> QED
      BY <3>1
  <2>4. CASE Clear \/ UNCHANGED vars
    BY <2>4 DEF Clear, vars, VersionInv
  <2> QED
    BY <2>1, <2>2, <2>3, <2>4, NextCases
<1> QED
  BY <1>4, <1>5 DEF VersionInv

-----------------------------------------------------------------------------
(* What the operators on lists return. *)

\* A reduction cuts a list off before one of its questions, if it cuts it at all.
LEMMA Reduced ==
  ASSUME NEW h \in Seq(Message)
  PROVE  \/ Reduce(h) = h
         \/ \E c \in DOMAIN h : h[c].kind = "user" /\ Reduce(h) = SubSeq(h, c, Len(h))
PROOF
<1> DEFINE cuts == {i \in DOMAIN h : h[i].kind = "user" /\ Tokens(SubSeq(h, i + 1, Len(h))) < Threshold}
           first == CHOOSE i \in cuts : \A j \in cuts : i <= j
<1>1. CASE Tokens(h) < Threshold \/ cuts = {}
  BY <1>1 DEF Reduce
<1>2. CASE ~ (Tokens(h) < Threshold \/ cuts = {})
  <2>1. cuts \in SUBSET Nat /\ cuts # {}
    BY <1>2
  <2>2. \E i \in cuts : \A j \in cuts : i <= j
    <3> HIDE DEF cuts
    <3> QED
      BY <2>1, LeastElement
  <2>3. first \in cuts
    <3> HIDE DEF cuts
    <3> QED
      BY <2>2
  <2>4. Reduce(h) = SubSeq(h, first, Len(h))
    BY <1>2 DEF Reduce
  <2> HIDE DEF first
  <2> QED
    BY <2>3, <2>4
<1> QED
  BY <1>1, <1>2

\* The listing holds finished messages of the table, and behind each the finished ones that follow it there.
LEMMA Listing ==
  ASSUME TypeOK
  PROVE  /\ ListBySession \in Seq(Message)
         /\ \A k \in DOMAIN ListBySession : \E i \in DOMAIN msgs :
              /\ msgs[i].finished /\ msgs[i].msg = ListBySession[k]
              /\ \A j \in DOMAIN msgs : i < j /\ j <= ListLimit /\ msgs[j].finished =>
                   \E l \in DOMAIN ListBySession : k < l /\ ListBySession[l] = msgs[j].msg
PROOF
<1> DEFINE Rows == [msg : Message, finished : BOOLEAN]
           I == {i \in DOMAIN msgs : i <= ListLimit /\ msgs[i].finished}
           kept == Pick(msgs, I)
<1>0. msgs \in Seq(Rows) /\ DOMAIN msgs = 1 .. Len(msgs) /\ Len(msgs) \in Nat
  <2>1. msgs \in Seq(Rows)
    BY DEF TypeOK
  <2> HIDE DEF Rows
  <2> QED
    BY <2>1
<1>1. kept \in Seq(Rows) /\ \E e : Picked(msgs, I, Len(msgs), kept, e)
  <2> HIDE DEF Rows, I
  <2> QED
    BY <1>0, PickElements
<1>2. PICK e : Picked(msgs, I, Len(msgs), kept, e)
  BY <1>1
<1>3. ListBySession = [k \in DOMAIN kept |-> kept[k].msg]
  BY DEF ListBySession
<1>4. DOMAIN kept = 1 .. Len(kept) /\ Len(kept) \in Nat /\ \A k \in DOMAIN kept : kept[k] \in Rows
  <2> HIDE DEF Rows, kept
  <2> QED
    BY <1>1
<1>5. ListBySession \in Seq(Message)
  <2>1. \A k \in DOMAIN kept : kept[k].msg \in Message
    BY <1>4
  <2> HIDE DEF kept
  <2>2. ListBySession \in [1 .. Len(kept) -> Message]
    BY <1>3, <1>4, <2>1
  <2> QED
    BY <1>4, <2>2
<1>6. ASSUME NEW k \in DOMAIN ListBySession
      PROVE  \E i \in DOMAIN msgs :
              /\ msgs[i].finished /\ msgs[i].msg = ListBySession[k]
              /\ \A j \in DOMAIN msgs : i < j /\ j <= ListLimit /\ msgs[j].finished =>
                   \E l \in DOMAIN ListBySession : k < l /\ ListBySession[l] = msgs[j].msg
  <2>1. k \in 1 .. Len(kept) /\ DOMAIN ListBySession = 1 .. Len(kept)
    <3> HIDE DEF kept
    <3> QED
      BY <1>3, <1>4
  <2>2. /\ e[k] \in 1 .. Len(msgs) /\ e[k] \in I /\ kept[k] = msgs[e[k]]
    <3> HIDE DEF kept, I
    <3> QED
      BY <1>2, <2>1 DEF Picked
  <2>3. ListBySession[k] = msgs[e[k]].msg
    <3> HIDE DEF kept, I
    <3> QED
      BY <1>3, <1>4, <2>1, <2>2
  <2>4. ASSUME NEW j \in DOMAIN msgs, e[k] < j, j <= ListLimit, msgs[j].finished
        PROVE  \E l \in DOMAIN ListBySession : k < l /\ ListBySession[l] = msgs[j].msg
    <3>1. j \in I /\ j \in 1 .. Len(msgs)
      BY <1>0, <2>4
    <3> HIDE DEF kept, I
    <3>2. PICK l \in 1 .. Len(kept) : e[l] = j
      BY <1>2, <3>1 DEF Picked
    <3>3. kept[l] = msgs[j]
      BY <1>2, <3>2 DEF Picked
    <3>4. k < l
      <4>1. l < k => e[l] < e[k]
        BY <1>2, <2>1, <3>2 DEF Picked
      <4>2. e[k] \in Int /\ j \in Int /\ k \in Int /\ l \in Int
        BY <1>0, <2>1, <2>2, <3>1
      <4> QED
        BY <2>4, <3>2, <4>1, <4>2
    <3> QED
      BY <1>3, <1>4, <2>1, <3>2, <3>3, <3>4
  <2>5. e[k] \in DOMAIN msgs /\ msgs[e[k]].finished
    BY <1>0, <2>2
  <2> HIDE DEF kept, I
  <2> QED
    BY <2>3, <2>4, <2>5
<1> QED
  BY <1>5, <1>6

\* A message is appended behind the others.
LEMMA Appended ==
  ASSUME NEW h \in Seq(Message), NEW m \in Message
  PROVE  /\ Append(h, m) \in Seq(Message)
         /\ DOMAIN Append(h, m) = DOMAIN h \union {Len(h) + 1} /\ Len(Append(h, m)) = Len(h) + 1
         /\ \A i \in DOMAIN h : Append(h, m)[i] = h[i]
         /\ Append(h, m)[Len(h) + 1] = m
         /\ DOMAIN h = 1 .. Len(h) /\ Len(h) \in Nat
PROOF
<1>1. DOMAIN h = 1 .. Len(h) /\ Len(h) \in Nat
  OBVIOUS
<1> QED
  BY <1>1

\* A list cut off keeps what is behind the cut.
LEMMA CutOff ==
  ASSUME NEW h \in Seq(Message), NEW c \in DOMAIN h
  PROVE  LET g == SubSeq(h, c, Len(h)) IN
         /\ g \in Seq(Message) /\ DOMAIN g = 1 .. Len(h) - c + 1 /\ Len(g) = Len(h) - c + 1
         /\ \A i \in DOMAIN g : c + i - 1 \in DOMAIN h /\ g[i] = h[c + i - 1]
         /\ \A j \in DOMAIN h : c <= j => j - c + 1 \in DOMAIN g /\ g[j - c + 1] = h[j]
PROOF
<1>1. Len(h) \in Nat /\ DOMAIN h = 1 .. Len(h)
  OBVIOUS
<1> DEFINE g == SubSeq(h, c, Len(h))
<1>2. /\ g \in Seq(Message) /\ Len(g) = Len(h) - c + 1
      /\ \A i \in 1 .. Len(h) - c + 1 : g[i] = h[c + i - 1]
  BY <1>1
<1>3. DOMAIN g = 1 .. Len(h) - c + 1
  <2> HIDE DEF g
  <2> QED
    BY <1>2
<1> HIDE DEF g
<1>4. \A i \in DOMAIN g : c + i - 1 \in DOMAIN h /\ g[i] = h[c + i - 1]
  BY <1>1, <1>2, <1>3
<1>5. ASSUME NEW j \in DOMAIN h, c <= j PROVE j - c + 1 \in DOMAIN g /\ g[j - c + 1] = h[j]
  <2>1. j - c + 1 \in 1 .. Len(h) - c + 1 /\ c + (j - c + 1) - 1 = j
    BY <1>1, <1>5
  <2> QED
    BY <1>2, <1>3, <2>1
<1> QED
  BY <1>2, <1>3, <1>4, <1>5 DEF g

\* What a stream does to its list keeps it a list of messages.
LEMMA ListStep ==
  ASSUME TypeOK, ChatInv, NEW r \in Runs, StreamStep(r)
  PROVE  hist' \in [Runs -> Seq(Message)]
PROOF
<1>0. /\ hist \in [Runs -> Seq(Message)] /\ <<>> \in Seq(Message)
      /\ \A q \in Runs : pc[q] \in {"check", "save"} => reply[q] \in Replies
  BY DEF TypeOK, ChatInv, ChargeInv
<1>1. \/ hist' = hist
      \/ \E h \in Seq(Message) : hist' = [hist EXCEPT ![r] = h]
  <2>1. CASE Load(r)
    BY <2>1, Listing DEF Load
  <2>2. CASE Open(r)
    BY <1>0, <2>2, MessageType, Appended DEF Open
  <2>3. CASE CallLlm(r)
    <3>1. Reduce(hist[r]) \in Seq(Message)
      <4>1. hist[r] \in Seq(Message)
        BY <1>0
      <4>2. \A c \in DOMAIN hist[r] : SubSeq(hist[r], c, Len(hist[r])) \in Seq(Message)
        BY <4>1, CutOff
      <4> QED
        BY <4>1, <4>2, Reduced
    <3> QED
      BY <2>3, <3>1 DEF CallLlm
  <2>4. CASE Save(r)
    <3>1. Said(r, reply[r], 1) \in Message
      BY <1>0, <2>4, MessageType DEF Save
    <3> QED
      BY <1>0, <2>4, <3>1, Appended DEF Save
  <2>5. CASE RunTools(r)
    <3>1. 0 \in 0 .. 2 /\ Said(r, "result", 0) \in Message
      BY MessageType
    <3> QED
      BY <1>0, <2>5, <3>1, Appended DEF RunTools
  <2>6. CASE \/ Register(r) \/ Setup(r, TRUE) \/ Setup(r, FALSE) \/ CheckCancelled(r)
             \/ \E kind \in Replies \union {"error"} : Respond(r, kind)
    BY <1>0, <2>6 DEF Register, Setup, CheckCancelled, Respond, Finish, Locals
  <2>7. CASE Charge(r, TRUE) \/ Charge(r, FALSE) \/ Refresh(r) \/ Complete(r) \/ Catch(r)
    BY <1>0, <2>7 DEF Charge, Refresh, Complete, Catch, Finish, Locals
  <2>8. CASE Mark(r) \/ Cleanup(r) \/ Disconnect(r) \/ Expire(r) \/ Reap(r)
    BY <1>0, <2>8 DEF Mark, Cleanup, Disconnect, Expire, Reap, Finish
  <2> QED
    BY <2>1, <2>2, <2>3, <2>4, <2>5, <2>6, <2>7, <2>8 DEF StreamStep
<1> QED
  BY <1>0, <1>1

\* The initial state is well typed.
LEMMA InitType ==
  Init => TypeOK /\ VersionInv
PROOF
<1> SUFFICES ASSUME Init PROVE TypeOK /\ VersionInv
  OBVIOUS
<1>1. 1 \in Runs /\ 0 \in 0 .. MaxUpsets
  BY BoundAssumption DEF Runs
<1>2. ControlOK
  BY InitInv DEF ChatInv
<1>3. task \in [Runs -> [status : Statuses, version : 0 .. 3]]
  BY DEF Init, Statuses
<1>4. stop \in [at : {"idle", "cancel", "refresh", "write", "failed"}, run : Runs, version : 0 .. 1]
  BY <1>1 DEF Init, NoStop
<1>5. hist \in [Runs -> Seq(Message)] /\ read \in [Runs -> 0 .. 2] /\ peers \in [Runs -> SUBSET Runs]
  BY DEF Init
<1>6. TypeOK
  BY <1>1, <1>2, <1>3, <1>4, <1>5 DEF ControlOK, TypeOK, Init, Statuses, Ended
<1> QED
  BY <1>6 DEF Init, VersionInv, NoStop

\* Every step keeps the types.
LEMMA TypeStep ==
  ASSUME ChatInv, TypeOK, VersionInv, [Next]_vars
  PROVE  TypeOK'
PROOF
<1>1. task' \in [Runs -> [status : Statuses, version : 0 .. 3]]
  BY VersionStep
<1>2. ControlOK'
  BY ControlStep
<1>3. hist' \in [Runs -> Seq(Message)]
  <2>1. CASE StopFind \/ StopCancel \/ StopRefresh \/ StopWrite \/ StopFailed \/ Clear \/ UNCHANGED vars
    BY <2>1 DEF StopFind, StopCancel, StopRefresh, StopWrite, StopFailed, Clear, vars, TypeOK
  <2> QED
    BY <2>1, ListStep, NextCases
<1>4. read' \in [Runs -> 0 .. 2]
  <2>0. read \in [Runs -> 0 .. 2] /\ task \in [Runs -> [status : Statuses, version : 0 .. 3]]
    BY DEF TypeOK, Statuses, Ended
  <2>1. CASE StopFind \/ StopCancel \/ StopRefresh \/ StopWrite \/ StopFailed \/ Clear \/ UNCHANGED vars
    BY <2>0, <2>1 DEF StopFind, StopCancel, StopRefresh, StopWrite, StopFailed, Clear, vars
  <2>2. ASSUME NEW r \in Runs, StreamStep(r) PROVE read' \in [Runs -> 0 .. 2]
    <3>1. CASE Refresh(r)
      <4>1. task[r].version \in 0 .. 2
        BY <2>0, <3>1 DEF Refresh, VersionInv
      <4> QED
        BY <2>0, <3>1, <4>1 DEF Refresh
    <3>2. CASE ~ Refresh(r)
      BY <2>0, <2>2, <3>2 DEF StreamStep, Load, Open, Register, Setup, CheckCancelled, CallLlm, Respond, Save, RunTools,
         Charge, Complete, Catch, Mark, Cleanup, Disconnect, Expire, Reap, Finish, Locals
    <3> QED
      BY <3>1, <3>2
  <2> QED
    BY <2>1, <2>2, NextCases
<1>5. stop' \in [at : {"idle", "cancel", "refresh", "write", "failed"}, run : Runs, version : 0 .. 1]
  <2>0. /\ stop \in [at : {"idle", "cancel", "refresh", "write", "failed"}, run : Runs, version : 0 .. 1]
        /\ 1 \in Runs
    BY BoundAssumption DEF TypeOK, Runs
  <2>1. CASE \E r \in Runs : StreamStep(r)
    <3>1. stop' = stop
      BY <2>1 DEF StreamStep, Load, Open, Register, Setup, CheckCancelled, CallLlm, Respond, Save, RunTools,
         Charge, Refresh, Complete, Catch, Mark, Cleanup, Disconnect, Expire, Reap
    <3> QED
      BY <2>0, <3>1
  <2>2. CASE StopFind
    BY <2>0, <2>2 DEF StopFind, Running
  <2>3. CASE StopCancel
    BY <2>0, <2>3 DEF StopCancel, NoStop
  <2>4. CASE StopRefresh
    <3>1. CASE task[stop.run].status = "RUNNING"
      <4>1. task[stop.run].version = 1
        BY <2>0, <3>1 DEF VersionInv
      <4>2. stop' = [stop EXCEPT !.at = "write", !.version = 1]
        BY <2>4, <3>1, <4>1 DEF StopRefresh
      <4>3. stop' = [at |-> "write", run |-> stop.run, version |-> 1] /\ stop.run \in Runs
        BY <2>0, <4>2
      <4> QED
        BY <4>3
    <3>2. CASE task[stop.run].status # "RUNNING"
      <4>1. stop' = NoStop
        BY <2>4, <3>2 DEF StopRefresh
      <4> QED
        BY <2>0, <4>1 DEF NoStop
    <3> QED
      BY <3>1, <3>2
  <2>5. CASE StopWrite \/ StopFailed
    BY <2>0, <2>5 DEF StopWrite, StopFailed, NoStop
  <2>6. CASE Clear \/ UNCHANGED vars
    BY <2>0, <2>6 DEF Clear, vars
  <2> QED
    BY <2>1, <2>2, <2>3, <2>4, <2>5, <2>6, NextCases
<1>6. upsets' \in 0 .. MaxUpsets
  <2>1. upsets \in 0 .. MaxUpsets /\ MaxUpsets \in Nat
    BY BoundAssumption DEF TypeOK
  <2>2. upsets' = upsets \/ Upset
    <3>1. ASSUME NEW r \in Runs, StreamStep(r) PROVE upsets' = upsets \/ Upset
      BY <3>1 DEF StreamStep, Load, Open, Register, Setup, CheckCancelled, Misread, CallLlm, Respond, Save, RunTools,
         Charge, Refresh, Complete, Catch, Mark, Cleanup, Disconnect, Expire, Reap
    <3>2. CASE StopFind \/ StopCancel \/ StopRefresh \/ StopWrite \/ StopFailed \/ Clear \/ UNCHANGED vars
      BY <3>2 DEF StopFind, StopCancel, StopRefresh, StopWrite, StopFailed, Clear, vars
    <3> QED
      BY <3>1, <3>2, NextCases
  <2> QED
    BY <2>1, <2>2 DEF Upset
<1>7. peers' \in [Runs -> SUBSET Runs]
  <2>0. peers \in [Runs -> SUBSET Runs] /\ Live \union Beyond \in SUBSET Runs /\ {} \in SUBSET Runs
    BY DEF TypeOK, Live, Beyond
  <2>1. CASE StopFind \/ StopCancel \/ StopRefresh \/ StopWrite \/ StopFailed \/ Clear \/ UNCHANGED vars
    BY <2>0, <2>1 DEF StopFind, StopCancel, StopRefresh, StopWrite, StopFailed, Clear, vars, ghosts
  <2>2. ASSUME NEW r \in Runs, StreamStep(r) PROVE peers' \in [Runs -> SUBSET Runs]
    <3>1. peers' = peers \/ \E P \in SUBSET Runs : peers' = [peers EXCEPT ![r] = P]
      BY <2>0, <2>2 DEF StreamStep, Load, Open, Register, Setup, CheckCancelled, CallLlm, Respond, Save, RunTools,
         Charge, Refresh, Complete, Catch, Mark, Cleanup, Disconnect, Expire, Reap, Finish, Locals, ghosts
    <3> QED
      BY <2>0, <3>1
  <2> QED
    BY <2>1, <2>2, NextCases
<1> QED
  BY <1>1, <1>2, <1>3, <1>4, <1>5, <1>6, <1>7 DEF TypeOK, ControlOK, Statuses, Ended

-----------------------------------------------------------------------------
(* The question and the calls of a list. *)

\* The question of r is in h, and no other behind it.
PosedIn(h, r) ==
  \E u \in DOMAIN h : h[u] = User(r) /\ \A i \in DOMAIN h : h[i].kind = "user" => i <= u
\* A call without a result in h is of a run in P other than r, or the last message where one is owed.
CallsIn(h, r, P, owed) ==
  \A i \in DOMAIN h : h[i].kind \in {"call", "cut"} =>
    Closed(h, i) \/ (h[i].run # r /\ (h[i].kind = "cut" \/ h[i].run \in P)) \/ (owed /\ i = Len(h))

LEMMA PosedAppend ==
  ASSUME NEW h \in Seq(Message), NEW m \in Message, NEW r \in Runs, m = User(r) \/ (PosedIn(h, r) /\ m.kind # "user")
  PROVE  PosedIn(Append(h, m), r)
PROOF
<1> DEFINE g == Append(h, m)
<1>1. /\ DOMAIN g = DOMAIN h \union {Len(h) + 1} /\ \A i \in DOMAIN h : g[i] = h[i]
      /\ g[Len(h) + 1] = m /\ DOMAIN h = 1 .. Len(h) /\ Len(h) \in Nat
  BY Appended
<1> HIDE DEF g
<1>2. CASE m = User(r)
  <2>1. \A i \in DOMAIN g : i <= Len(h) + 1
    BY <1>1
  <2> QED
    BY <1>1, <1>2, <2>1 DEF PosedIn, g
<1>3. CASE PosedIn(h, r) /\ m.kind # "user"
  <2>1. PICK u \in DOMAIN h : h[u] = User(r) /\ \A i \in DOMAIN h : h[i].kind = "user" => i <= u
    BY <1>3 DEF PosedIn
  <2>2. u \in DOMAIN g /\ g[u] = User(r) /\ \A i \in DOMAIN g : g[i].kind = "user" => i <= u
    BY <1>1, <1>3, <2>1
  <2> QED
    BY <2>2 DEF PosedIn, g
<1> QED
  BY <1>2, <1>3

LEMMA PosedCut ==
  ASSUME NEW h \in Seq(Message), NEW c \in DOMAIN h, NEW r \in Runs, h[c].kind = "user", PosedIn(h, r)
  PROVE  PosedIn(SubSeq(h, c, Len(h)), r)
PROOF
<1> DEFINE g == SubSeq(h, c, Len(h))
<1>1. /\ DOMAIN g = 1 .. Len(h) - c + 1
      /\ \A i \in DOMAIN g : c + i - 1 \in DOMAIN h /\ g[i] = h[c + i - 1]
      /\ \A j \in DOMAIN h : c <= j => j - c + 1 \in DOMAIN g /\ g[j - c + 1] = h[j]
  BY CutOff
<1>2. DOMAIN h = 1 .. Len(h) /\ Len(h) \in Nat
  OBVIOUS
<1> HIDE DEF g
<1>3. PICK u \in DOMAIN h : h[u] = User(r) /\ \A i \in DOMAIN h : h[i].kind = "user" => i <= u
  BY DEF PosedIn
<1>4. u - c + 1 \in DOMAIN g /\ g[u - c + 1] = User(r)
  BY <1>1, <1>3
<1>5. \A i \in DOMAIN g : g[i].kind = "user" => i <= u - c + 1
  <2> TAKE i \in DOMAIN g
  <2> HAVE g[i].kind = "user"
  <2>1. c + i - 1 <= u
    BY <1>1, <1>3
  <2> QED
    BY <1>1, <1>2, <2>1
<1> QED
  BY <1>4, <1>5 DEF PosedIn, g

LEMMA CallsAppend ==
  ASSUME NEW h \in Seq(Message), NEW m \in Message, NEW r, NEW P, NEW Q, P \subseteq Q,
         NEW owed \in BOOLEAN, CallsIn(h, r, P, owed), m.kind # "cut", owed => m.kind = "result" /\ h[Len(h)].run = m.run
  PROVE  CallsIn(Append(h, m), r, Q, m.kind = "call")
PROOF
<1> DEFINE g == Append(h, m)
<1>1. /\ DOMAIN g = DOMAIN h \union {Len(h) + 1} /\ \A i \in DOMAIN h : g[i] = h[i]
      /\ g[Len(h) + 1] = m /\ DOMAIN h = 1 .. Len(h) /\ Len(h) \in Nat
  BY Appended
<1>a. Len(g) = Len(h) + 1
  BY Appended
<1> HIDE DEF g
<1>2. ASSUME NEW i \in DOMAIN g, g[i].kind \in {"call", "cut"}
      PROVE  Closed(g, i) \/ (g[i].run # r /\ (g[i].kind = "cut" \/ g[i].run \in Q)) \/ (m.kind = "call" /\ i = Len(g))
  <2>1. CASE i = Len(h) + 1
    BY <1>1, <1>a, <1>2, <2>1
  <2>2. CASE i \in DOMAIN h /\ Closed(h, i)
    <3>1. PICK j \in DOMAIN h : i < j /\ h[j].run = h[i].run /\ h[j].kind = "result"
      BY <2>2 DEF Closed
    <3> QED
      BY <1>1, <2>2, <3>1 DEF Closed
  <2>3. CASE i \in DOMAIN h /\ h[i].run # r /\ (h[i].kind = "cut" \/ h[i].run \in P)
    BY <1>1, <2>3
  <2>4. CASE i \in DOMAIN h /\ owed /\ i = Len(h)
    <3>0. m.kind = "result" /\ h[i].run = m.run
      BY <2>4
    <3>1. i \in DOMAIN h /\ i = Len(h)
      BY <2>4
    <3>2. Len(h) + 1 \in DOMAIN g /\ i < Len(h) + 1
      <4>1. Len(h) + 1 \in DOMAIN g
        BY <1>1
      <4>2. Len(h) \in Nat
        BY <1>1
      <4>3. Len(h) < Len(h) + 1
        BY <4>2
      <4> QED
        BY <3>1, <4>1, <4>3
    <3>3. g[i] = h[i] /\ g[Len(h) + 1] = m
      BY <1>1, <3>1
    <3> QED
      BY <3>0, <3>2, <3>3 DEF Closed
  <2>5. h[i].kind \in {"call", "cut"} \/ i = Len(h) + 1
    BY <1>1, <1>2
  <2> QED
    BY <1>1, <2>1, <2>2, <2>3, <2>4, <2>5 DEF CallsIn
<1> QED
  BY <1>2 DEF CallsIn, g

LEMMA CallsCut ==
  ASSUME NEW h \in Seq(Message), NEW c \in DOMAIN h, NEW r, NEW P, CallsIn(h, r, P, FALSE)
  PROVE  CallsIn(SubSeq(h, c, Len(h)), r, P, FALSE)
PROOF
<1> DEFINE g == SubSeq(h, c, Len(h))
<1>1. /\ DOMAIN g = 1 .. Len(h) - c + 1
      /\ \A i \in DOMAIN g : c + i - 1 \in DOMAIN h /\ g[i] = h[c + i - 1]
      /\ \A j \in DOMAIN h : c <= j => j - c + 1 \in DOMAIN g /\ g[j - c + 1] = h[j]
  BY CutOff
<1>2. DOMAIN h = 1 .. Len(h) /\ Len(h) \in Nat
  OBVIOUS
<1> HIDE DEF g
<1>3. ASSUME NEW i \in DOMAIN g, g[i].kind \in {"call", "cut"}
      PROVE  Closed(g, i) \/ (g[i].run # r /\ (g[i].kind = "cut" \/ g[i].run \in P))
  <2>1. c + i - 1 \in DOMAIN h /\ g[i] = h[c + i - 1]
    BY <1>1
  <2>2. Closed(h, c + i - 1) \/ (g[i].run # r /\ (g[i].kind = "cut" \/ g[i].run \in P))
    BY <1>3, <2>1 DEF CallsIn
  <2>3. CASE Closed(h, c + i - 1)
    <3>1. PICK j \in DOMAIN h : c + i - 1 < j /\ h[j].run = h[c + i - 1].run /\ h[j].kind = "result"
      BY <2>3 DEF Closed
    <3>2. c <= j /\ i < j - c + 1
      BY <1>1, <1>2, <3>1
    <3>3. j - c + 1 \in DOMAIN g /\ g[j - c + 1] = h[j]
      BY <1>1, <3>2
    <3> QED
      BY <2>1, <3>1, <3>2, <3>3 DEF Closed
  <2> QED
    BY <2>2, <2>3
<1> QED
  BY <1>3 DEF CallsIn, g

-----------------------------------------------------------------------------
(* The calls in the table. *)

\* The finished calls of q have finished results behind them.
TableOf(q) ==
  \A i \in DOMAIN msgs : msgs[i].finished /\ msgs[i].msg.run = q /\ msgs[i].msg.kind = "call" =>
    \E j \in DOMAIN msgs : i < j /\ msgs[j].finished /\ msgs[j].msg.run = q /\ msgs[j].msg.kind = "result"

LEMMA TableCreate ==
  ASSUME ControlOK, NEW q \in Runs, NEW m \in Message, Create(m),
         (TableOf(q) /\ (m.run # q \/ m.kind # "call")) \/ (m.run = q /\ m.kind = "result")
  PROVE  TableOf(q)'
PROOF
<1>1. /\ DOMAIN msgs' = DOMAIN msgs \union {Len(msgs) + 1}
      /\ \A i \in DOMAIN msgs : msgs'[i] = msgs[i]
      /\ msgs'[Len(msgs) + 1] = Row(m)
  BY MessageOps
<1>2. DOMAIN msgs = 1 .. Len(msgs) /\ Len(msgs) \in Nat
  BY DEF ControlOK
<1>3. Row(m).msg = m /\ Row(m).finished = TRUE
  BY DEF Row
<1>4. ASSUME NEW i \in DOMAIN msgs', msgs'[i].finished, msgs'[i].msg.run = q, msgs'[i].msg.kind = "call"
      PROVE  \E j \in DOMAIN msgs' : /\ i < j /\ msgs'[j].finished
                                     /\ msgs'[j].msg.run = q /\ msgs'[j].msg.kind = "result"
  <2>1. i \in DOMAIN msgs /\ i < Len(msgs) + 1
    BY <1>1, <1>2, <1>3, <1>4
  <2>2. CASE m.run = q /\ m.kind = "result"
    BY <1>1, <1>3, <2>1, <2>2
  <2>3. CASE TableOf(q)
    <3>1. PICK j \in DOMAIN msgs : i < j /\ msgs[j].finished /\ msgs[j].msg.run = q /\ msgs[j].msg.kind = "result"
      BY <1>1, <1>4, <2>1, <2>3 DEF TableOf
    <3> QED
      BY <1>1, <3>1
  <2> QED
    BY <2>2, <2>3
<1> QED
  BY <1>4 DEF TableOf

LEMMA TableMark ==
  ASSUME ControlOK, NEW q \in Runs, NEW r \in Runs, MarkIncomplete(r), TableOf(q) \/ q = r
  PROVE  TableOf(q)'
PROOF
<1>1. /\ DOMAIN msgs' = DOMAIN msgs
      /\ \A i \in DOMAIN msgs : /\ msgs'[i].msg = msgs[i].msg
                                /\ msgs[i].msg.run # r => msgs'[i] = msgs[i]
  BY MessageOps
<1>2. CASE q = r
  <2>1. \A i \in DOMAIN msgs : msgs[i] \in [msg : Message, finished : BOOLEAN]
    <3> DEFINE Rows == [msg : Message, finished : BOOLEAN]
    <3>1. msgs \in Seq(Rows)
      BY DEF ControlOK
    <3> HIDE DEF Rows
    <3>2. \A i \in DOMAIN msgs : msgs[i] \in Rows
      BY <3>1
    <3> QED
      BY <3>2 DEF Rows
  <2>2. \A i \in DOMAIN msgs : msgs[i].msg.run = r /\ msgs[i].msg.kind = "call" => msgs'[i].finished = FALSE
    BY <2>1 DEF MarkIncomplete
  <2> QED
    BY <1>1, <1>2, <2>2 DEF TableOf
<1>3. CASE q # r /\ TableOf(q)
  <2>1. ASSUME NEW i \in DOMAIN msgs', msgs'[i].finished, msgs'[i].msg.run = q, msgs'[i].msg.kind = "call"
        PROVE  \E j \in DOMAIN msgs' : /\ i < j /\ msgs'[j].finished
                                       /\ msgs'[j].msg.run = q /\ msgs'[j].msg.kind = "result"
    <3>1. i \in DOMAIN msgs /\ msgs'[i] = msgs[i]
      BY <1>1, <1>3, <2>1
    <3>2. PICK j \in DOMAIN msgs : i < j /\ msgs[j].finished /\ msgs[j].msg.run = q /\ msgs[j].msg.kind = "result"
      BY <1>3, <2>1, <3>1 DEF TableOf
    <3> QED
      BY <1>1, <1>3, <3>2
  <2> QED
    BY <2>1 DEF TableOf
<1> QED
  BY <1>2, <1>3

-----------------------------------------------------------------------------
(* What a stream sends. *)

\* The steps that are no step of a stream leave the streams where they are, and their lists.
LEMMA OtherKinds ==
  ASSUME [Next]_vars
  PROVE  \/ \E r \in Runs : StreamStep(r)
         \/ Still
         \/ msgs' = <<>> /\ UNCHANGED <<pc, hist, peers>> /\ torn' = torn \union Live
PROOF
<1>1. CASE StopFind \/ StopCancel \/ StopRefresh \/ StopWrite \/ StopFailed \/ UNCHANGED vars
  BY <1>1 DEF StopFind, StopCancel, StopRefresh, StopWrite, StopFailed, vars, ghosts, Still
<1>2. CASE Clear
  BY <1>2 DEF Clear
<1> QED
  BY <1>1, <1>2, NextCases

\* Every step keeps a stream's question the last of its list.
LEMMA PosedStep ==
  ASSUME ChatInv, TypeOK, PosedInv, [Next]_vars
  PROVE  PosedInv'
PROOF
<1>0. /\ \A q \in Runs : pc[q] \in Posed => PosedIn(hist[q], q)
      /\ \A q \in Runs : hist[q] \in Seq(Message)
  BY DEF PosedInv, PosedIn, TypeOK
<1>1. ASSUME NEW r \in Runs, StreamStep(r), NEW q \in Runs, pc'[q] \in Posed PROVE PosedIn(hist'[q], q)
  <2>1. CASE q # r \/ Still
    BY <1>0, <1>1, <2>1, StreamKinds DEF Still
  <2>2. CASE q = r /\ Asks(r)
    BY <1>0, <2>2, PosedAppend, MessageType DEF Asks
  <2>3. CASE q = r /\ Cuts(r)
    <3>1. PosedIn(hist[r], r) /\ hist'[r] = Reduce(hist[r])
      BY <1>0, <2>3 DEF Cuts, Posed, Listed
    <3>2. CASE Reduce(hist[r]) = hist[r]
      BY <2>3, <3>1, <3>2
    <3>3. CASE \E c \in DOMAIN hist[r] : hist[r][c].kind = "user" /\ Reduce(hist[r]) = SubSeq(hist[r], c, Len(hist[r]))
      BY <1>0, <2>3, <3>1, <3>3, PosedCut
    <3> QED
      BY <1>0, <3>2, <3>3, Reduced
  <2>4. ASSUME NEW kind \in Replies, q = r, Speaks(r, kind) PROVE PosedIn(hist'[q], q)
    <3>1. PosedIn(hist[r], r) /\ hist'[r] = Append(hist[r], Said(r, kind, 1))
      BY <1>0, <2>4 DEF Speaks, Posed, Listed
    <3>2. Said(r, kind, 1) \in Message /\ Said(r, kind, 1).kind # "user"
      <4>1. 1 \in 0 .. 2 /\ Said(r, kind, 1).kind = kind
        BY DEF Said
      <4> QED
        BY <4>1, MessageType
    <3> QED
      BY <1>0, <2>4, <3>1, <3>2, PosedAppend
  <2>5. CASE q = r /\ Reports(r)
    <3>1. PosedIn(hist[r], r) /\ hist'[r] = Append(hist[r], Said(r, "result", 0))
      BY <1>0, <2>5 DEF Reports, Posed, Listed
    <3>2. Said(r, "result", 0) \in Message /\ Said(r, "result", 0).kind # "user"
      <4>1. 0 \in 0 .. 2 /\ Said(r, "result", 0).kind = "result"
        BY DEF Said
      <4> QED
        BY <4>1, MessageType
    <3> QED
      BY <1>0, <2>5, <3>1, <3>2, PosedAppend
  <2>6. CASE q = r /\ Moves(r)
    BY <1>0, <2>6 DEF Moves
  <2>7. CASE q = r /\ (Loads(r) \/ Marks(r) \/ Leaves(r))
    BY <1>1, <2>7 DEF Loads, Marks, Leaves, Posed, Listed
  <2> QED
    BY <1>1, <2>1, <2>2, <2>3, <2>4, <2>5, <2>6, <2>7, StreamKinds
<1>2. CASE UNCHANGED <<pc, hist>>
  BY <1>2 DEF PosedInv, User
<1>3. (\E r \in Runs : StreamStep(r)) => PosedInv'
  BY <1>1 DEF PosedInv, PosedIn, User
<1> QED
  BY <1>2, <1>3, OtherKinds DEF Still

\* Before it asks a stream has no message in the table.
LEMMA UnaskedStep ==
  ASSUME ChatInv, TypeOK, UnaskedInv, [Next]_vars
  PROVE  UnaskedInv'
PROOF
<1>1. ASSUME NEW r \in Runs, StreamStep(r), NEW q \in Runs, pc'[q] \in {"idle", "open"}, NEW i \in DOMAIN msgs'
      PROVE  msgs'[i].msg.run # q
  <2>0. pc[q] \in {"idle", "open"} /\ ControlOK
    <3>1. q = r => Loads(r) \/ Still
      BY <1>1, StreamKinds DEF Asks, Cuts, Speaks, Reports, Marks, Moves, Leaves, Posed, Listed
    <3> QED
      BY <1>1, <3>1, StreamKinds DEF Loads, Still, ChatInv
  <2>1. \A j \in DOMAIN msgs : msgs[j].msg.run # q
    BY <2>0 DEF UnaskedInv
  <2>2. CASE msgs' = msgs
    BY <1>1, <2>1, <2>2
  <2>3. CASE MarkIncomplete(r)
    BY <1>1, <2>0, <2>1, <2>3, MessageOps
  <2>4. ASSUME NEW m \in Message, Create(m), m.run = r, q # r PROVE msgs'[i].msg.run # q
    <3>1. /\ DOMAIN msgs' = DOMAIN msgs \union {Len(msgs) + 1}
          /\ \A j \in DOMAIN msgs : msgs'[j] = msgs[j]
          /\ msgs'[Len(msgs) + 1] = Row(m)
      BY <2>0, <2>4, MessageOps
    <3>2. Row(m).msg.run = r
      BY <2>4 DEF Row
    <3> QED
      BY <1>1, <2>1, <2>4, <3>1, <3>2
  <2>5. CASE Asks(r) \/ Reports(r) \/ \E kind \in Replies : Speaks(r, kind)
    <3>1. q # r
      <4>1. q = r => pc'[q] \notin {"idle", "open"}
        BY <2>5 DEF Asks, Reports, Speaks
      <4> QED
        BY <1>1, <4>1
    <3>2. \E m \in Message : Create(m) /\ m.run = r
      <4>1. 0 \in 0 .. 2 /\ 1 \in 0 .. 2
        OBVIOUS
      <4>2. CASE Asks(r)
        BY <4>2, MessageType DEF Asks, User
      <4>3. CASE Reports(r)
        <5>1. Said(r, "result", 0) \in Message /\ Said(r, "result", 0).run = r
          BY <4>1, MessageType DEF Said
        <5> QED
          BY <4>3, <5>1 DEF Reports
      <4>4. CASE \E kind \in Replies : Speaks(r, kind)
        <5>1. \A kind \in Replies : Said(r, kind, 1) \in Message /\ Said(r, kind, 1).run = r
          BY <4>1, MessageType DEF Said
        <5> QED
          BY <4>4, <5>1 DEF Speaks
      <4> QED
        BY <2>5, <4>2, <4>3, <4>4
    <3> QED
      BY <2>4, <3>1, <3>2
  <2>6. msgs' = msgs \/ MarkIncomplete(r) \/ Asks(r) \/ Reports(r) \/ \E kind \in Replies : Speaks(r, kind)
    BY <1>1, StreamKinds DEF Loads, Cuts, Marks, Moves, Leaves, Still
  <2> QED
    BY <2>2, <2>3, <2>5, <2>6
<1>2. CASE Still
  BY <1>2 DEF Still, UnaskedInv
<1>3. CASE msgs' = <<>>
  BY <1>3 DEF UnaskedInv
<1> QED
  BY <1>1, <1>2, <1>3, OtherKinds DEF UnaskedInv

\* Every step keeps the finished calls of the table answered.
LEMMA TableStep ==
  ASSUME ChatInv, TypeOK, TableInv, [Next]_vars
  PROVE  TableInv'
PROOF
<1>0. ControlOK /\ \A q \in Runs : Exempt(q) \/ TableOf(q)
  BY DEF ChatInv, TableInv, Exempt, TableOf
<1>1. ASSUME NEW r \in Runs, StreamStep(r), NEW q \in Runs PROVE Exempt(q)' \/ TableOf(q)'
  <2>0. q # r /\ Exempt(q) => Exempt(q)'
    BY <1>1, StreamKinds DEF Exempt, Owes, Said
  <2>a. 0 \in 0 .. 2 /\ 1 \in 0 .. 2
    OBVIOUS
  <2>1. CASE Still
    BY <1>0, <2>1 DEF Still, Exempt, Owes, Said, TableOf
  <2>2. CASE q # r /\ msgs' = msgs
    BY <1>0, <2>0, <2>2 DEF TableOf
  <2>3. ASSUME NEW m \in Message, Create(m), m.run = r, q # r PROVE Exempt(q)' \/ TableOf(q)'
    BY <1>0, <2>0, <2>3, TableCreate
  <2>4. CASE Loads(r) /\ q = r
    BY <1>0, <2>4 DEF Loads, Exempt, Owes, Said, TableOf
  <2>5. CASE Asks(r)
    <3>1. User(r) \in Message /\ User(r).run = r /\ User(r).kind # "call" /\ Create(User(r))
      BY <2>5, MessageType DEF Asks, User
    <3>2. q = r /\ ~ TableOf(q) => Exempt(q)'
      BY <1>0, <1>1, <2>5, StreamKinds DEF Asks, Exempt, Owes
    <3> QED
      BY <1>0, <2>3, <3>1, <3>2, TableCreate
  <2>6. CASE Cuts(r) /\ q = r
    BY <1>0, <1>1, <2>6, StreamKinds DEF Cuts, Exempt, Owes, TableOf
  <2>7. ASSUME NEW kind \in Replies, Speaks(r, kind) PROVE Exempt(q)' \/ TableOf(q)'
    <3>1. /\ Said(r, kind, 1) \in Message /\ Said(r, kind, 1).run = r /\ Said(r, kind, 1).kind = kind
          /\ Create(Said(r, kind, 1))
      BY <2>7, <2>a, MessageType DEF Speaks, Said
    <3>2. CASE q # r
      BY <2>3, <3>1, <3>2
    <3>3. CASE q = r /\ kind = "call"
      <4>1. CASE pc'[r] = "tools"
        <5>1. hist'[r] = Append(hist[r], Said(r, "call", 1)) /\ hist[r] \in Seq(Message)
          BY <2>7, <3>3 DEF Speaks, TypeOK
        <5>2. Last(hist'[r]) = Said(r, "call", 1)
          BY <3>1, <3>3, <5>1, Appended DEF Last
        <5> QED
          BY <3>3, <4>1, <5>2 DEF Exempt, Owes, Said
      <4>2. CASE pc'[r] = "catch"
        BY <3>3, <4>2 DEF Exempt
      <4> QED
        BY <2>7, <3>3, <4>1, <4>2 DEF Speaks
    <3>4. CASE q = r /\ kind # "call"
      <4>1. ~ TableOf(q) => Exempt(q)'
        BY <1>0, <1>1, <2>7, <3>4, StreamKinds DEF Speaks, Exempt, Owes
      <4> QED
        BY <1>0, <3>1, <3>4, <4>1, TableCreate
    <3> QED
      BY <3>2, <3>3, <3>4
  <2>8. CASE Reports(r)
    <3>1. /\ Said(r, "result", 0) \in Message /\ Said(r, "result", 0).run = r /\ Said(r, "result", 0).kind = "result"
          /\ Create(Said(r, "result", 0))
      BY <2>8, <2>a, MessageType DEF Reports, Said
    <3>2. CASE q = r
      BY <1>0, <3>1, <3>2, TableCreate
    <3> QED
      BY <2>3, <3>1, <3>2
  <2>9. CASE Marks(r)
    <3>1. MarkIncomplete(r)
      BY <2>9 DEF Marks
    <3>2. TableOf(q) \/ q = r => TableOf(q)'
      BY <1>0, <3>1, TableMark
    <3> QED
      BY <1>0, <2>0, <3>2
  <2>10. CASE Moves(r) /\ q = r
    <3>1. Exempt(r) => Exempt(r)'
      BY <1>1, <2>10, StreamKinds DEF Moves, Posed, Listed, Exempt
    <3>2. TableOf(r) => TableOf(r)'
      BY <2>10 DEF Moves, TableOf
    <3> QED
      BY <1>0, <2>10, <3>1, <3>2
  <2>11. CASE Leaves(r) /\ q = r
    BY <1>0, <2>11 DEF Leaves, Exempt, TableOf
  <2> QED
    BY <1>1, <2>1, <2>2, <2>4, <2>5, <2>6, <2>7, <2>8, <2>9, <2>10, <2>11, StreamKinds DEF Loads, Cuts, Moves, Leaves
<1>2. ASSUME Still, NEW q \in Runs PROVE Exempt(q)' \/ TableOf(q)'
  BY <1>0, <1>2 DEF Still, Exempt, Owes, Said, TableOf
<1>3. CASE msgs' = <<>>
  BY <1>3 DEF TableInv
<1> QED
  BY <1>1, <1>2, <1>3, OtherKinds DEF TableInv, Exempt, TableOf

\* Every step keeps the calls of the lists answered, or excused.
LEMMA CallsStep ==
  ASSUME ChatInv, TypeOK, CallsInv, TableInv, UnaskedInv, [Next]_vars
  PROVE  CallsInv'
PROOF
<1>0. /\ \A q \in Runs : pc[q] \in Listed => CallsIn(hist[q], q, peers[q] \union torn, Owes(q))
      /\ \A q \in Runs : hist[q] \in Seq(Message)
  BY DEF CallsInv, CallsIn, TypeOK
<1>1. ASSUME NEW r \in Runs, StreamStep(r), NEW q \in Runs, pc'[q] \in Listed
      PROVE  CallsIn(hist'[q], q, peers'[q] \union torn', Owes(q)')
  <2>0. /\ torn \subseteq torn' /\ peers[q] \union torn \subseteq peers[q] \union torn'
    BY <1>1, StreamKinds
  <2>a. 0 \in 0 .. 2 /\ 1 \in 0 .. 2
    OBVIOUS
  <2>1. CASE q # r \/ Still
    <3>1. pc'[q] = pc[q] /\ hist'[q] = hist[q] /\ peers'[q] = peers[q]
      BY <1>1, <2>1, StreamKinds DEF Still
    <3>2. Owes(q)' = Owes(q)
      BY <3>1 DEF Owes, Said
    <3> QED
      BY <1>0, <1>1, <2>0, <3>1, <3>2 DEF CallsIn
  <2>2. CASE q = r /\ Loads(r)
    <3> DEFINE L == ListBySession
    <3>1. ASSUME NEW k \in DOMAIN L, L[k].kind \in {"call", "cut"}
          PROVE  \/ Closed(L, k)
                 \/ L[k].run # r /\ (L[k].kind = "cut" \/ L[k].run \in Live \union Beyond \union torn)
      <4>1. PICK i \in DOMAIN msgs :
              /\ msgs[i].finished /\ msgs[i].msg = L[k]
              /\ \A j \in DOMAIN msgs : i < j /\ j <= ListLimit /\ msgs[j].finished =>
                   \E l \in DOMAIN L : k < l /\ L[l] = msgs[j].msg
        BY Listing
      <4> DEFINE p == L[k].run
      <4>2. p \in Runs /\ p # r
        <5>1. L[k] \in Message
          BY Listing
        <5> QED
          BY <2>2, <4>1, <5>1 DEF Loads, UnaskedInv, Message
      <4>3. CASE p \notin Live \union Beyond \union torn /\ L[k].kind = "call"
        <5>1. ~ Exempt(p)
          BY <4>2, <4>3 DEF Live, Over, Exempt, Owes
        <5>2. TableOf(p)
          BY <4>2, <5>1 DEF TableInv, TableOf, Exempt
        <5>3. PICK j \in DOMAIN msgs : i < j /\ msgs[j].finished /\ msgs[j].msg.run = p /\ msgs[j].msg.kind = "result"
          BY <4>1, <4>3, <5>2 DEF TableOf
        <5>4. PICK l \in DOMAIN L : k < l /\ L[l] = msgs[j].msg
          <6>1. ~ (j > ListLimit)
            BY <4>2, <4>3, <5>3 DEF Beyond
          <6>2. j \in Nat /\ ListLimit \in Nat
            BY BoundAssumption DEF TypeOK
          <6> QED
            BY <4>1, <5>3, <6>1, <6>2
        <5> HIDE DEF L
        <5> QED
          BY <5>3, <5>4 DEF Closed
      <4> QED
        BY <3>1, <4>2, <4>3
    <3> HIDE DEF L
    <3>2. hist'[r] = L /\ peers'[r] = Live \union Beyond /\ torn' = torn
      BY <2>2 DEF Loads, L
    <3> QED
      BY <2>2, <3>1, <3>2 DEF CallsIn
  <2>3. ASSUME q = r, pc[r] \in Listed, ~ Owes(r) PROVE CallsIn(hist[r], r, peers[r] \union torn, FALSE)
    BY <1>0, <2>3 DEF CallsIn
  <2>4. ASSUME NEW h, NEW P, CallsIn(h, r, P, FALSE) PROVE CallsIn(h, r, P, Owes(r)')
    BY <2>4 DEF CallsIn
  <2>5. CASE q = r /\ Asks(r)
    <3>1. User(r) \in Message /\ (User(r).kind = "call") = FALSE /\ User(r).kind # "cut"
      BY MessageType DEF User
    <3>2. CallsIn(hist[r], r, peers[r] \union torn, FALSE)
      BY <2>3, <2>5 DEF Asks, Owes, Listed
    <3>3. CallsIn(Append(hist[r], User(r)), r, peers[r] \union torn', FALSE)
      BY <1>0, <2>0, <2>5, <3>1, <3>2, CallsAppend
    <3> QED
      BY <2>4, <2>5, <3>3 DEF Asks
  <2>6. CASE q = r /\ Cuts(r)
    <3>1. CallsIn(hist[r], r, peers[r] \union torn, FALSE)
      BY <2>3, <2>6 DEF Cuts, Owes, Listed
    <3>2. CallsIn(Reduce(hist[r]), r, peers[r] \union torn, FALSE)
      <4>1. ASSUME NEW c \in DOMAIN hist[r] PROVE CallsIn(SubSeq(hist[r], c, Len(hist[r])), r, peers[r] \union torn, FALSE)
        BY <1>0, <3>1, CallsCut
      <4>2. hist[r] \in Seq(Message)
        BY <1>0
      <4> QED
        BY <3>1, <4>1, <4>2, Reduced
    <3>3. CallsIn(Reduce(hist[r]), r, peers[r] \union torn', FALSE)
      BY <2>0, <2>6, <3>2 DEF CallsIn
    <3> QED
      BY <2>4, <2>6, <3>3 DEF Cuts
  <2>7. ASSUME NEW kind \in Replies, q = r, Speaks(r, kind)
        PROVE  CallsIn(hist'[q], q, peers'[q] \union torn', Owes(q)')
    <3> DEFINE m == Said(r, kind, 1)
    <3>1. m \in Message /\ m.kind = kind
      BY <2>a, MessageType DEF Said
    <3>2. CallsIn(hist[r], r, peers[r] \union torn, FALSE)
      BY <2>3, <2>7 DEF Speaks, Owes, Listed
    <3>3. hist'[r] = Append(hist[r], m) /\ peers'[r] = peers[r] /\ hist[r] \in Seq(Message)
      BY <1>0, <2>7 DEF Speaks
    <3>0. kind # "cut"
      BY <1>1, <2>7 DEF Speaks, Listed
    <3>4. kind = "call" => Owes(r)'
      <4>1. Last(hist'[r]) = m
        BY <3>1, <3>3, Appended DEF Last
      <4>2. kind = "call" => pc'[r] = "tools"
        BY <1>1, <2>7 DEF Speaks, Listed
      <4> QED
        BY <4>1, <4>2 DEF Owes, Said
    <3> HIDE DEF m
    <3>5. CallsIn(Append(hist[r], m), r, peers[r] \union torn', m.kind = "call")
      BY <2>0, <2>7, <3>0, <3>1, <3>2, <3>3, CallsAppend
    <3> QED
      BY <2>7, <3>1, <3>3, <3>4, <3>5 DEF CallsIn
  <2>8. CASE q = r /\ Reports(r)
    <3> DEFINE m == Said(r, "result", 0)
    <3>1. m \in Message /\ m.kind = "result" /\ m.run = r
      BY <2>a, MessageType DEF Said
    <3>2. CallsIn(hist[r], r, peers[r] \union torn, TRUE) /\ Last(hist[r]).run = r
      BY <1>0, <2>8 DEF Reports, Owes, Said, Listed, CallsIn
    <3>3. hist'[r] = Append(hist[r], m) /\ peers'[r] = peers[r] /\ hist[r] \in Seq(Message)
      BY <1>0, <2>8 DEF Reports
    <3>4. hist[r][Len(hist[r])].run = r
      BY <3>2 DEF Last
    <3> HIDE DEF m
    <3>5. CallsIn(Append(hist[r], m), r, peers[r] \union torn', m.kind = "call")
      BY <2>0, <2>8, <3>1, <3>2, <3>3, <3>4, CallsAppend
    <3> QED
      BY <2>8, <3>1, <3>3, <3>5 DEF CallsIn
  <2>9. CASE q = r /\ Moves(r)
    <3>1. CallsIn(hist[r], r, peers[r] \union torn, FALSE)
      BY <2>3, <2>9 DEF Moves, Posed
    <3>2. CallsIn(hist[r], r, peers[r] \union torn', FALSE)
      BY <2>0, <2>9, <3>1 DEF CallsIn
    <3> QED
      BY <2>4, <2>9, <3>2 DEF Moves
  <2>10. CASE q = r /\ (Marks(r) \/ Leaves(r))
    BY <1>1, <2>10 DEF Marks, Leaves, Listed
  <2> QED
    BY <1>1, <2>1, <2>2, <2>5, <2>6, <2>7, <2>8, <2>9, <2>10, StreamKinds
<1>2. CASE UNCHANGED <<pc, hist, peers>> /\ torn \subseteq torn'
  <2>1. \A q \in Runs : Owes(q)' = Owes(q)
    BY <1>2 DEF Owes, Said
  <2> QED
    BY <1>2, <2>1 DEF CallsInv, Closed
<1>3. (\E r \in Runs : StreamStep(r)) => CallsInv'
  BY <1>1 DEF CallsInv, CallsIn, Closed
<1> QED
  BY <1>2, <1>3, OtherKinds DEF Still

-----------------------------------------------------------------------------
\* The types, the versions of the rows, and what the lists and the table hold of calls and questions.
ListsInv == ChatInv /\ TypeOK /\ VersionInv /\ SentInv

\* Whatever streams, stops, deletions and clean-ups do, the lists of the streams stay sound.
THEOREM ListsInvariant == Spec => []ListsInv
PROOF
<1>1. Init => ListsInv
  <2> SUFFICES ASSUME Init PROVE ListsInv
    OBVIOUS
  <2>1. PosedInv /\ CallsInv
    BY DEF Init, PosedInv, CallsInv, Posed, Listed
  <2>2. TableInv /\ UnaskedInv
    BY DEF Init, TableInv, UnaskedInv
  <2> QED
    BY <2>1, <2>2, InitInv, InitType DEF ListsInv, SentInv
<1>2. ListsInv /\ [Next]_vars => ListsInv'
  <2> SUFFICES ASSUME ListsInv, [Next]_vars PROVE ListsInv'
    OBVIOUS
  <2>1. ChatInv'
    BY ControlStep, LateStep, ChargeStep, KeptStep DEF ListsInv, ChatInv
  <2> QED
    BY <2>1, TypeStep, VersionStep, PosedStep, CallsStep, TableStep, UnaskedStep DEF ListsInv, SentInv
<1> QED
  BY <1>1, <1>2, PTL DEF Spec

\* Every reachable state of the chat mode is well typed; no row is written more than three times.
THEOREM TypeCorrect == Spec => []TypeOK
PROOF
<1>1. ListsInv => TypeOK
  BY DEF ListsInv
<1> QED
  BY <1>1, ListsInvariant, PTL

\* The LLM sees the question it is to answer, and no call without a result that is not excused.
THEOREM CallsAreAnswered == Spec => []SentIsAnswered
PROOF
<1>1. ASSUME ListsInv, NEW r \in Runs, pc[r] = "llm"
      PROVE  /\ Contains(hist[r], User(r))
             /\ \A i \in DOMAIN hist[r] : LET m == hist[r][i] IN
                  m.kind \in {"call", "cut"} =>
                    \/ \E j \in i + 1 .. Len(hist[r]) : hist[r][j].run = m.run /\ hist[r][j].kind = "result"
                    \/ m.run # r /\ (m.kind = "cut" \/ m.run \in peers[r] \/ m.run \in torn)
  <2>1. DOMAIN hist[r] = 1 .. Len(hist[r]) /\ Len(hist[r]) \in Nat
    BY <1>1 DEF ListsInv, TypeOK
  <2>2. Contains(hist[r], User(r))
    BY <1>1, <2>1 DEF ListsInv, SentInv, PosedInv, Posed, Listed, Contains
  <2>3. ASSUME NEW i \in DOMAIN hist[r], hist[r][i].kind \in {"call", "cut"}
        PROVE  \/ \E j \in i + 1 .. Len(hist[r]) : hist[r][j].run = hist[r][i].run /\ hist[r][j].kind = "result"
               \/ /\ hist[r][i].run # r
                  /\ hist[r][i].kind = "cut" \/ hist[r][i].run \in peers[r] \/ hist[r][i].run \in torn
    <3>1. \/ Closed(hist[r], i)
          \/ /\ hist[r][i].run # r
             /\ hist[r][i].kind = "cut" \/ hist[r][i].run \in peers[r] \/ hist[r][i].run \in torn
      BY <1>1, <2>3 DEF ListsInv, SentInv, CallsInv, Listed, Owes
    <3>2. Closed(hist[r], i) =>
            \E j \in i + 1 .. Len(hist[r]) : hist[r][j].run = hist[r][i].run /\ hist[r][j].kind = "result"
      BY <2>1 DEF Closed
    <3> QED
      BY <3>1, <3>2
  <2> QED
    BY <2>2, <2>3
<1>2. ListsInv => SentIsAnswered
  BY <1>1 DEF SentIsAnswered
<1> QED
  BY <1>2, ListsInvariant, PTL

-----------------------------------------------------------------------------
\* Every step keeps the keys of the streams that have not registered one away.
LEMMA KeyStep ==
  ASSUME ChatInv, KeyInv, [Next]_vars
  PROVE  KeyInv'
PROOF
<1>0. pc \in [Runs -> Places] /\ key \in [Runs -> {"none", "run", "stop"}]
  BY DEF ChatInv, ControlOK
<1>1. ASSUME NEW r \in Runs, StreamStep(r) PROVE KeyInv'
  <2>1. CASE \/ Load(r) \/ Open(r) \/ Setup(r, TRUE) \/ Setup(r, FALSE) \/ CheckCancelled(r) \/ CallLlm(r)
             \/ \E kind \in Replies \union {"error"} : Respond(r, kind)
    BY <1>0, <2>1 DEF Load, Open, Setup, CheckCancelled, CallLlm, Respond, Goto, Finish, Passed, rows, KeyInv
  <2>2. CASE Register(r)
    BY <1>0, <2>2 DEF Register, Goto, KeyInv
  <2>3. CASE Save(r) \/ RunTools(r) \/ Charge(r, TRUE) \/ Charge(r, FALSE) \/ Refresh(r)
    BY <1>0, <2>3 DEF Save, RunTools, Charge, Refresh, Goto, rows, KeyInv
  <2>4. CASE Complete(r) \/ Catch(r) \/ Mark(r) \/ Cleanup(r) \/ Disconnect(r) \/ Expire(r) \/ Reap(r)
    BY <1>0, <2>4 DEF Complete, Catch, Mark, Cleanup, Disconnect, Expire, Reap, Goto, Finish, rows, KeyInv
  <2> QED
    BY <1>1, <2>1, <2>2, <2>3, <2>4 DEF StreamStep
<1>2. CASE StopFind \/ StopRefresh \/ StopWrite \/ StopFailed \/ Clear \/ UNCHANGED vars
  BY <1>2 DEF StopFind, StopRefresh, StopWrite, StopFailed, Clear, vars, rows, KeyInv
<1>3. CASE StopCancel
  BY <1>0, <1>3 DEF StopCancel, KeyInv
<1> QED
  BY <1>1, <1>2, <1>3, NextCases

\* How many steps are left at which place.
LEMMA StepsLeftAt ==
  /\ \A place \in Over : StepsLeft(place) = 0
  /\ StepsLeft("cleanup") = 1 /\ StepsLeft("mark") = 1
  /\ StepsLeft("complete") = 2 /\ StepsLeft("abort") = 2
  /\ StepsLeft("refresh") = 3 /\ StepsLeft("catch") = 3
  /\ StepsLeft("top") = 4 /\ StepsLeft("check") = 4 /\ StepsLeft("save") = 4 /\ StepsLeft("charge") = 4
  /\ StepsLeft("setup") = 5 /\ StepsLeft("tools") = 5 /\ StepsLeft("llm") = 5
  /\ StepsLeft("call") = 6
  /\ \A place \in Places \ Over : StepsLeft(place) > 0
PROOF BY DEF StepsLeft, Over, Places

\* A step of a stream that is told to stop brings it closer to its end, unless Redis fails its check.
LEMMA StopDescends ==
  ASSUME ChatInv, KeyInv, NEW r \in Runs, key[r] = "stop", StreamStep(r)
  PROVE  /\ key'[r] = "stop" \/ pc'[r] \in Over
         /\ \/ StepsLeft(pc'[r]) < StepsLeft(pc[r])
            \/ pc'[r] = pc[r] /\ (Expire(r) \/ Reap(r))
            \/ Misread(r) /\ pc[r] \in {"top", "check", "save"}
PROOF
<1>0. /\ pc \in [Runs -> Places] /\ key \in [Runs -> {"none", "run", "stop"}]
      /\ pc[r] \notin {"idle", "open", "register"} /\ Cancelled(r)
  BY DEF ChatInv, ControlOK, KeyInv, Cancelled
<1>1. CASE Setup(r, TRUE) \/ Setup(r, FALSE) \/ CheckCancelled(r) \/ CallLlm(r)
  BY <1>0, <1>1, StepsLeftAt DEF Setup, CheckCancelled, CallLlm, Goto, Finish, rows, Over
<1>2. CASE (\E kind \in Replies \union {"error"} : Respond(r, kind)) \/ Save(r) \/ RunTools(r)
  BY <1>0, <1>2, StepsLeftAt DEF Respond, Save, RunTools, Goto, rows
<1>3. CASE Charge(r, TRUE) \/ Charge(r, FALSE) \/ Refresh(r)
  BY <1>0, <1>3, StepsLeftAt DEF Charge, Refresh, Goto, rows
<1>4. CASE Complete(r) \/ Catch(r) \/ Mark(r) \/ Cleanup(r)
  BY <1>0, <1>4, StepsLeftAt DEF Complete, Catch, Mark, Cleanup, Goto, Finish, Over
<1>5. CASE Disconnect(r)
  <2>1. pc'[r] = "lost" /\ "lost" \in Over /\ pc[r] \in Places \ Over
    BY <1>0, <1>5 DEF Disconnect, Live, Goto, Finish, Over
  <2> QED
    BY <2>1, StepsLeftAt
<1>6. CASE Expire(r) \/ Reap(r)
  BY <1>6 DEF Expire, Reap
<1>7. CASE Load(r) \/ Open(r) \/ Register(r)
  BY <1>0, <1>7 DEF Load, Open, Register
<1> QED
  BY <1>1, <1>2, <1>3, <1>4, <1>5, <1>6, <1>7 DEF StreamStep

\* A stop is final, and a stream that is told to stop has six steps left at most, as long as Redis answers.
THEOREM StoppedStreamsRunDown == Spec => StopCountsDown
PROOF
<1>1. Spec => [](ChatInv /\ KeyInv)
  <2>1. Init => KeyInv
    BY DEF Init, KeyInv
  <2>2. ChatInv /\ KeyInv /\ [Next]_vars => KeyInv'
    BY KeyStep
  <2> QED
    BY <2>1, <2>2, ChatInvariant, PTL DEF Spec
<1>2. ASSUME ChatInv, KeyInv, [Next]_vars, NEW r \in Runs, key[r] = "stop"
      PROVE  /\ key'[r] = "stop" \/ pc'[r] \in Over
             /\ Stream(r) \/ pc'[r] # pc[r] =>
                  \/ StepsLeft(pc'[r]) < StepsLeft(pc[r])
                  \/ Misread(r) /\ pc[r] \in {"top", "check", "save"}
  <2>0. pc \in [Runs -> Places] /\ key \in [Runs -> {"none", "run", "stop"}]
    BY <1>2 DEF ChatInv, ControlOK
  <2>1. ASSUME Stream(r)
        PROVE  \/ StepsLeft(pc'[r]) < StepsLeft(pc[r])
               \/ Misread(r) /\ pc[r] \in {"top", "check", "save"}
    <3>1. StreamStep(r)
      BY <2>1 DEF Stream, StreamStep
    <3>2. pc'[r] # pc[r]
      BY <2>0, <2>1 DEF Stream, Open, Register, Setup, CheckCancelled, CallLlm, Respond, Save, RunTools, Charge,
         Refresh, Complete, Catch, Mark, Cleanup, Goto, Finish, Passed
    <3> QED
      BY <1>2, <3>1, <3>2, StopDescends
  <2>2. CASE StreamStep(r)
    BY <1>2, <2>1, <2>2, StopDescends
  <2>3. ASSUME NEW q \in Runs, StreamStep(q), q # r PROVE key'[r] = key[r] /\ pc'[r] = pc[r]
    <3>1. CASE Load(q) \/ Open(q) \/ Register(q) \/ Setup(q, TRUE) \/ Setup(q, FALSE) \/ CheckCancelled(q) \/ CallLlm(q)
      BY <2>0, <2>3, <3>1 DEF Load, Open, Register, Setup, CheckCancelled, CallLlm, Goto, Finish, rows
    <3>2. CASE \/ \E kind \in Replies \union {"error"} : Respond(q, kind)
               \/ Save(q) \/ RunTools(q) \/ Charge(q, TRUE) \/ Charge(q, FALSE) \/ Refresh(q)
      BY <2>0, <2>3, <3>2 DEF Respond, Save, RunTools, Charge, Refresh, Goto, rows
    <3>3. CASE \/ Complete(q) \/ Catch(q) \/ Mark(q) \/ Cleanup(q) \/ Disconnect(q) \/ Expire(q) \/ Reap(q)
      BY <2>0, <2>3, <3>3 DEF Complete, Catch, Mark, Cleanup, Disconnect, Expire, Reap, Goto, Finish, rows
    <3> QED
      BY <2>3, <3>1, <3>2, <3>3 DEF StreamStep
  <2>4. CASE StopFind \/ StopCancel \/ StopRefresh \/ StopWrite \/ StopFailed \/ Clear \/ UNCHANGED vars
    <3>1. pc'[r] = pc[r] /\ key'[r] = "stop"
      BY <1>2, <2>0, <2>4 DEF StopFind, StopCancel, StopRefresh, StopWrite, StopFailed, Clear, vars, rows
    <3> QED
      BY <2>1, <3>1
  <2> QED
    BY <1>2, <2>1, <2>2, <2>3, <2>4, NextCases
<1>3. ChatInv /\ KeyInv /\ [Next]_vars =>
        [\A r \in Runs : key[r] = "stop" =>
           /\ key'[r] = "stop" \/ pc'[r] \in Over
           /\ Stream(r) \/ pc'[r] # pc[r] =>
                \/ StepsLeft(pc'[r]) < StepsLeft(pc[r])
                \/ Misread(r) /\ pc[r] \in {"top", "check", "save"}]_vars
  BY <1>2
<1> QED
  BY <1>1, <1>3, PTL DEF Spec, StopCountsDown

=============================================================================
