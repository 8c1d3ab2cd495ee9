----------------------- MODULE SandboxLifecycle_proofs -----------------------
(***************************************************************************)
(* Proofs about SandboxLifecycle: type correctness, the queue and deletes  *)
(* for every set of requests, faults and crashes; that a running sandbox   *)
(* has a time-out and its row tells its state when requests and the        *)
(* consumer take turns; that nothing is handled for ever.                  *)
(***************************************************************************)
EXTENDS SandboxLifecycle, TLAPS

\* What the code may be doing with the sandbox, one disjunct per action.
LEMMA NextCases ==
  ASSUME Next
  PROVE  \/ \E r \in Requests : StartCreate(r) \/ Start(r) \/ BecomesDue(r)
         \/ \E a \in Actors :
              \/ ReadRow(a) \/ Check(a) \/ Halt(a) \/ HGet(a) \/ ZRem(a) \/ HDel(a) \/ Write(a)
              \/ Launch(a) \/ Extend(a) \/ Resume(a) \/ Kill(a) \/ ZAdd(a) \/ HSet(a)
              \/ ProviderFails(a) \/ WriteFails(a)
         \/ Fetch \/ NextMessage \/ AckDelayed \/ AckHash \/ Crash
PROOF BY DEF Next, Step, Consuming

-----------------------------------------------------------------------------
\* The initial state is well typed, and every request is new.
LEMMA TypeInit ==
  Init => TypeOK /\ PcInv
PROOF BY ActorsDistinct, LifeConstants
      DEF Init, TypeOK, PcInv, Actors, Messages, RequestPc, ConsumerPc, Schedules

\* Every step keeps the types, and what a request does fits its position.
LEMMA TypeStep ==
  ASSUME TypeOK, PcInv, [Next]_vars
  PROVE  TypeOK' /\ PcInv'
PROOF
<1> USE ActorsDistinct, LifeConstants
<1> USE DEF TypeOK, PcInv, Actors, Messages, RequestPc, ConsumerPc, Schedules, Goto, queue, local
<1>1. ASSUME NEW r \in Requests, StartCreate(r) PROVE TypeOK' /\ PcInv'
  BY <1>1 DEF StartCreate
<1>2. ASSUME NEW r \in Requests, Start(r) PROVE TypeOK' /\ PcInv'
  BY <1>2 DEF Start
<1>3. ASSUME NEW r \in Requests, BecomesDue(r) PROVE TypeOK' /\ PcInv'
  BY <1>3 DEF BecomesDue
<1>4. ASSUME NEW a \in Actors, ReadRow(a) PROVE TypeOK' /\ PcInv'
  BY <1>4 DEF ReadRow, Fail
<1>5. ASSUME NEW a \in Actors, Check(a) PROVE TypeOK' /\ PcInv'
  BY <1>5 DEF Check
<1>6. ASSUME NEW a \in Actors, Halt(a) PROVE TypeOK' /\ PcInv'
  BY <1>6 DEF Halt, Fail
<1>7. ASSUME NEW a \in Actors, HGet(a) PROVE TypeOK' /\ PcInv'
  BY <1>7 DEF HGet, AfterCancel
<1>8. ASSUME NEW a \in Actors, ZRem(a) PROVE TypeOK' /\ PcInv'
  BY <1>8 DEF ZRem
<1>9. ASSUME NEW a \in Actors, HDel(a) PROVE TypeOK' /\ PcInv'
  BY <1>9 DEF HDel, AfterCancel
<1>10. ASSUME NEW a \in Actors, Write(a) PROVE TypeOK' /\ PcInv'
  BY <1>10 DEF Write
<1>11. ASSUME NEW a \in Actors, Launch(a) PROVE TypeOK' /\ PcInv'
  BY <1>11 DEF Launch
<1>12. ASSUME NEW a \in Actors, Extend(a) PROVE TypeOK' /\ PcInv'
  BY <1>12 DEF Extend, Fail
<1>13. ASSUME NEW a \in Actors, Resume(a) PROVE TypeOK' /\ PcInv'
  BY <1>13 DEF Resume, Fail
<1>14. ASSUME NEW a \in Actors, Kill(a) PROVE TypeOK' /\ PcInv'
  BY <1>14 DEF Kill, Fail
<1>15. ASSUME NEW a \in Actors, ZAdd(a) PROVE TypeOK' /\ PcInv'
  BY <1>15 DEF ZAdd
<1>16. ASSUME NEW a \in Actors, HSet(a) PROVE TypeOK' /\ PcInv'
  BY <1>16 DEF HSet
<1>17. ASSUME NEW a \in Actors, ProviderFails(a) \/ WriteFails(a) PROVE TypeOK' /\ PcInv'
  BY <1>17 DEF ProviderFails, WriteFails, Fail
<1>18. CASE Fetch
  BY <1>18 DEF Fetch
<1>19. CASE NextMessage
  BY <1>19 DEF NextMessage
<1>20. CASE AckDelayed
  BY <1>20 DEF AckDelayed
<1>21. CASE AckHash
  BY <1>21 DEF AckHash
<1>22. CASE Crash
  BY <1>22 DEF Crash
<1>23. CASE UNCHANGED vars
  BY <1>23 DEF vars
<1> QED
  BY <1>1, <1>2, <1>3, <1>4, <1>5, <1>6, <1>7, <1>8, <1>9, <1>10, <1>11, <1>12, <1>13, <1>14, <1>15,
     <1>16, <1>17, <1>18, <1>19, <1>20, <1>21, <1>22, <1>23, NextCases DEF Actors

\* Types and positions are invariant.
LEMMA PcCorrect == Spec => [](TypeOK /\ PcInv)
PROOF
<1>1. TypeOK /\ PcInv /\ [Next]_vars => TypeOK' /\ PcInv'
  BY TypeStep
<1> QED
  BY <1>1, TypeInit, PTL DEF Spec

\* TypeOK: every reachable state is well typed, for every value of the constants.
THEOREM TypeCorrect == Spec => []TypeOK
PROOF BY PcCorrect, PTL

-----------------------------------------------------------------------------
(* A deleted sandbox stays deleted.                                        *)

\* Every step keeps that the create comes first, and that a delete has killed for good.
LEMMA DeleteStep ==
  ASSUME TypeOK, PcInv, CreatedFirst, DeleteInv, [Next]_vars
  PROVE  CreatedFirst' /\ DeleteInv'
PROOF
<1> USE ActorsDistinct, LifeConstants
<1> USE DEF TypeOK, PcInv, CreatedFirst, DeleteInv, Killed, DeletedStaysDeleted, Actors, RequestPc,
            ConsumerPc, Schedules, Goto, queue, local
<1>1. ASSUME NEW r \in Requests, StartCreate(r) PROVE CreatedFirst' /\ DeleteInv'
  BY <1>1 DEF StartCreate
<1>2. ASSUME NEW r \in Requests, Start(r) PROVE CreatedFirst' /\ DeleteInv'
  BY <1>2 DEF Start
<1>3. ASSUME NEW r \in Requests, BecomesDue(r) PROVE CreatedFirst' /\ DeleteInv'
  BY <1>3 DEF BecomesDue
<1>4. ASSUME NEW a \in Actors, ReadRow(a) PROVE CreatedFirst' /\ DeleteInv'
  BY <1>4 DEF ReadRow, Fail
<1>5. ASSUME NEW a \in Actors, Check(a) PROVE CreatedFirst' /\ DeleteInv'
  BY <1>5 DEF Check
<1>6. ASSUME NEW a \in Actors, Halt(a) PROVE CreatedFirst' /\ DeleteInv'
  BY <1>6 DEF Halt, Fail
<1>7. ASSUME NEW a \in Actors, HGet(a) PROVE CreatedFirst' /\ DeleteInv'
  BY <1>7 DEF HGet, AfterCancel
<1>8. ASSUME NEW a \in Actors, ZRem(a) PROVE CreatedFirst' /\ DeleteInv'
  BY <1>8 DEF ZRem
<1>9. ASSUME NEW a \in Actors, HDel(a) PROVE CreatedFirst' /\ DeleteInv'
  BY <1>9 DEF HDel, AfterCancel
<1>10. ASSUME NEW a \in Actors, Write(a) PROVE CreatedFirst' /\ DeleteInv'
  BY <1>10 DEF Write
<1>11. ASSUME NEW a \in Actors, Launch(a) PROVE CreatedFirst' /\ DeleteInv'
  BY <1>11 DEF Launch
<1>12. ASSUME NEW a \in Actors, Extend(a) PROVE CreatedFirst' /\ DeleteInv'
  BY <1>12 DEF Extend, Fail
<1>13. ASSUME NEW a \in Actors, Resume(a) PROVE CreatedFirst' /\ DeleteInv'
  BY <1>13 DEF Resume, Fail
<1>14. ASSUME NEW a \in Actors, Kill(a) PROVE CreatedFirst' /\ DeleteInv'
  BY <1>14 DEF Kill, Fail
<1>15. ASSUME NEW a \in Actors, ZAdd(a) PROVE CreatedFirst' /\ DeleteInv'
  BY <1>15 DEF ZAdd
<1>16. ASSUME NEW a \in Actors, HSet(a) PROVE CreatedFirst' /\ DeleteInv'
  BY <1>16 DEF HSet
<1>17. ASSUME NEW a \in Actors, ProviderFails(a) \/ WriteFails(a) PROVE CreatedFirst' /\ DeleteInv'
  BY <1>17 DEF ProviderFails, WriteFails, Fail
<1>18. CASE Fetch
  BY <1>18 DEF Fetch
<1>19. CASE NextMessage
  BY <1>19 DEF NextMessage
<1>20. CASE AckDelayed
  BY <1>20 DEF AckDelayed
<1>21. CASE AckHash
  BY <1>21 DEF AckHash
<1>22. CASE Crash
  BY <1>22 DEF Crash
<1>23. CASE UNCHANGED vars
  BY <1>23 DEF vars
<1> QED
  BY <1>1, <1>2, <1>3, <1>4, <1>5, <1>6, <1>7, <1>8, <1>9, <1>10, <1>11, <1>12, <1>13, <1>14, <1>15,
     <1>16, <1>17, <1>18, <1>19, <1>20, <1>21, <1>22, <1>23, NextCases

\* DeletedStaysDeleted: whatever fails or overlaps, after the answer to a delete neither
\* the sandbox nor its row comes back.
THEOREM DeleteIsFinal == Spec => []DeletedStaysDeleted
PROOF
<1>1. Init => CreatedFirst /\ DeleteInv
  BY ActorsDistinct DEF Init, CreatedFirst, DeleteInv, Killed, DeletedStaysDeleted, Actors
<1>2. TypeOK /\ PcInv /\ CreatedFirst /\ DeleteInv /\ [Next]_vars => CreatedFirst' /\ DeleteInv'
  BY DeleteStep
<1>3. DeleteInv => DeletedStaysDeleted
  BY DEF DeleteInv
<1> QED
  BY <1>1, <1>2, <1>3, PcCorrect, PTL DEF Spec

-----------------------------------------------------------------------------
(* The hash points to a message that exists.                               *)

\* Every step keeps that a message is known to nobody before it is in the hash.
LEMMA MessageStep ==
  ASSUME TypeOK, PcInv, MessageInv, [Next]_vars
  PROVE  MessageInv'
PROOF
<1> USE ActorsDistinct, LifeConstants
<1> USE DEF TypeOK, PcInv, MessageInv, Unknown, Actors, Messages, RequestPc, ConsumerPc, Schedules,
            Goto, queue, local
<1>1. ASSUME NEW r \in Requests, StartCreate(r) PROVE MessageInv'
  BY <1>1 DEF StartCreate
<1>2. ASSUME NEW r \in Requests, Start(r) PROVE MessageInv'
  BY <1>2 DEF Start
<1>3. ASSUME NEW r \in Requests, BecomesDue(r) PROVE MessageInv'
  BY <1>3 DEF BecomesDue, AtRest, Resting
<1>4. ASSUME NEW a \in Actors, ReadRow(a) PROVE MessageInv'
  BY <1>4 DEF ReadRow, Fail
<1>5. ASSUME NEW a \in Actors, Check(a) PROVE MessageInv'
  BY <1>5 DEF Check
<1>6. ASSUME NEW a \in Actors, Halt(a) PROVE MessageInv'
  BY <1>6 DEF Halt, Fail
<1>7. ASSUME NEW a \in Actors, HGet(a) PROVE MessageInv'
  BY <1>7 DEF HGet, AfterCancel
<1>8. ASSUME NEW a \in Actors, ZRem(a) PROVE MessageInv'
  BY <1>8 DEF ZRem
<1>9. ASSUME NEW a \in Actors, HDel(a) PROVE MessageInv'
  BY <1>9 DEF HDel, AfterCancel
<1>10. ASSUME NEW a \in Actors, Write(a) PROVE MessageInv'
  BY <1>10 DEF Write
<1>11. ASSUME NEW a \in Actors, Launch(a) PROVE MessageInv'
  BY <1>11 DEF Launch
<1>12. ASSUME NEW a \in Actors, Extend(a) PROVE MessageInv'
  BY <1>12 DEF Extend, Fail
<1>13. ASSUME NEW a \in Actors, Resume(a) PROVE MessageInv'
  BY <1>13 DEF Resume, Fail
<1>14. ASSUME NEW a \in Actors, Kill(a) PROVE MessageInv'
  BY <1>14 DEF Kill, Fail
<1>15. ASSUME NEW a \in Actors, ZAdd(a) PROVE MessageInv'
  BY <1>15 DEF ZAdd
<1>16. ASSUME NEW a \in Actors, HSet(a) PROVE MessageInv'
  BY <1>16 DEF HSet
<1>17. ASSUME NEW a \in Actors, ProviderFails(a) \/ WriteFails(a) PROVE MessageInv'
  BY <1>17 DEF ProviderFails, WriteFails, Fail
<1>18. CASE Fetch
  BY <1>18 DEF Fetch
<1>19. CASE NextMessage
  BY <1>19 DEF NextMessage
<1>20. CASE AckDelayed
  BY <1>20 DEF AckDelayed
<1>21. CASE AckHash
  BY <1>21 DEF AckHash
<1>22. CASE Crash
  BY <1>22 DEF Crash
<1>23. CASE UNCHANGED vars
  BY <1>23 DEF vars
<1> QED
  BY <1>1, <1>2, <1>3, <1>4, <1>5, <1>6, <1>7, <1>8, <1>9, <1>10, <1>11, <1>12, <1>13, <1>14, <1>15,
     <1>16, <1>17, <1>18, <1>19, <1>20, <1>21, <1>22, <1>23, NextCases

\* Every step keeps that who takes the current message out of the set deletes its entry next.
LEMMA HashStep ==
  ASSUME TypeOK, PcInv, MessageInv, HashInv, [Next]_vars
  PROVE  HashInv'
PROOF
<1> USE ActorsDistinct, LifeConstants
<1> USE DEF TypeOK, PcInv, MessageInv, HashInv, Actors, Messages, RequestPc, ConsumerPc, Schedules,
            Goto, queue, local
<1>1. ASSUME NEW r \in Requests, StartCreate(r) PROVE HashInv'
  BY <1>1 DEF StartCreate
<1>2. ASSUME NEW r \in Requests, Start(r) PROVE HashInv'
  BY <1>2 DEF Start
<1>3. ASSUME NEW r \in Requests, BecomesDue(r) PROVE HashInv'
  BY <1>3 DEF BecomesDue
<1>4. ASSUME NEW a \in Actors, ReadRow(a) PROVE HashInv'
  BY <1>4 DEF ReadRow, Fail
<1>5. ASSUME NEW a \in Actors, Check(a) PROVE HashInv'
  BY <1>5 DEF Check
<1>6. ASSUME NEW a \in Actors, Halt(a) PROVE HashInv'
  BY <1>6 DEF Halt, Fail
<1>7. ASSUME NEW a \in Actors, HGet(a) PROVE HashInv'
  BY <1>7 DEF HGet, AfterCancel
<1>8. ASSUME NEW a \in Actors, ZRem(a) PROVE HashInv'
  BY <1>8 DEF ZRem
<1>9. ASSUME NEW a \in Actors, HDel(a) PROVE HashInv'
  BY <1>9 DEF HDel, AfterCancel
<1>10. ASSUME NEW a \in Actors, Write(a) PROVE HashInv'
  BY <1>10 DEF Write
<1>11. ASSUME NEW a \in Actors, Launch(a) PROVE HashInv'
  BY <1>11 DEF Launch
<1>12. ASSUME NEW a \in Actors, Extend(a) PROVE HashInv'
  BY <1>12 DEF Extend, Fail
<1>13. ASSUME NEW a \in Actors, Resume(a) PROVE HashInv'
  BY <1>13 DEF Resume, Fail
<1>14. ASSUME NEW a \in Actors, Kill(a) PROVE HashInv'
  BY <1>14 DEF Kill, Fail
<1>15. ASSUME NEW a \in Actors, ZAdd(a) PROVE HashInv'
  BY <1>15 DEF ZAdd
<1>16. ASSUME NEW a \in Actors, HSet(a) PROVE HashInv'
  BY <1>16 DEF HSet
<1>17. ASSUME NEW a \in Actors, ProviderFails(a) \/ WriteFails(a) PROVE HashInv'
  BY <1>17 DEF ProviderFails, WriteFails, Fail
<1>18. CASE Fetch
  BY <1>18 DEF Fetch
<1>19. CASE NextMessage
  BY <1>19 DEF NextMessage
<1>20. CASE AckDelayed
  BY <1>20 DEF AckDelayed
<1>21. CASE AckHash
  BY <1>21 DEF AckHash
<1>22. CASE Crash
  BY <1>22 DEF Crash
<1>23. CASE UNCHANGED vars
  BY <1>23 DEF vars
<1> QED
  BY <1>1, <1>2, <1>3, <1>4, <1>5, <1>6, <1>7, <1>8, <1>9, <1>10, <1>11, <1>12, <1>13, <1>14, <1>15,
     <1>16, <1>17, <1>18, <1>19, <1>20, <1>21, <1>22, <1>23, NextCases

\* CurrentIsDelayed: between requests the hash points to a message in the sorted set,
\* unless the server has died in between.
THEOREM CurrentMessageExists == Spec => []CurrentIsDelayed
PROOF
<1>1. Init => MessageInv /\ HashInv
  BY ActorsDistinct DEF Init, MessageInv, HashInv, Unknown, Actors, RequestPc
<1>2. TypeOK /\ PcInv /\ MessageInv /\ HashInv /\ [Next]_vars => MessageInv' /\ HashInv'
  BY MessageStep, HashStep
<1>3. HashInv => CurrentIsDelayed
  BY DEF HashInv, CurrentIsDelayed, AtRest, Resting, Actors
<1> QED
  BY <1>1, <1>2, <1>3, PcCorrect, PTL DEF Spec

-----------------------------------------------------------------------------
(* Requests and the consumer take turns.                                   *)

\* Every orderly step keeps that the two take turns.
LEMMA TurnStep ==
  ASSUME Orderly, TypeOK, PcInv, CreatedFirst, DeleteInv, MessageInv, OrderInv, [Next]_vars
  PROVE  TurnInv'
PROOF
<1> USE ActorsDistinct, LifeConstants
<1> USE DEF Orderly, TypeOK, PcInv, TurnInv, Pausing, OrderInv, Actors, Messages, RequestPc,
            ConsumerPc, Schedules, Resting, Goto, queue, local
<1>1. ASSUME NEW r \in Requests, StartCreate(r) PROVE TurnInv'
  BY <1>1 DEF StartCreate
<1>2. ASSUME NEW r \in Requests, Start(r) PROVE TurnInv'
  BY <1>2 DEF Start
<1>3. ASSUME NEW r \in Requests, BecomesDue(r) PROVE TurnInv'
  BY <1>3 DEF BecomesDue
<1>4. ASSUME NEW a \in Actors, ReadRow(a) PROVE TurnInv'
  BY <1>4 DEF ReadRow, Fail, StateInv, Starting
<1>5. ASSUME NEW a \in Actors, Check(a) PROVE TurnInv'
  BY <1>5 DEF Check
<1>6. ASSUME NEW a \in Actors, Halt(a) PROVE TurnInv'
  BY <1>6 DEF Halt, Fail
<1>7. ASSUME NEW a \in Actors, HGet(a) PROVE TurnInv'
  BY <1>7 DEF HGet, AfterCancel
<1>8. ASSUME NEW a \in Actors, ZRem(a) PROVE TurnInv'
  BY <1>8 DEF ZRem
<1>9. ASSUME NEW a \in Actors, HDel(a) PROVE TurnInv'
  BY <1>9 DEF HDel, AfterCancel
<1>10. ASSUME NEW a \in Actors, Write(a) PROVE TurnInv'
  BY <1>10 DEF Write
<1>11. ASSUME NEW a \in Actors, Launch(a) PROVE TurnInv'
  BY <1>11 DEF Launch
<1>12. ASSUME NEW a \in Actors, Extend(a) PROVE TurnInv'
  BY <1>12 DEF Extend, Fail
<1>13. ASSUME NEW a \in Actors, Resume(a) PROVE TurnInv'
  BY <1>13 DEF Resume, Fail
<1>14. ASSUME NEW a \in Actors, Kill(a) PROVE TurnInv'
  BY <1>14 DEF Kill, Fail
<1>15. ASSUME NEW a \in Actors, ZAdd(a) PROVE TurnInv'
  BY <1>15 DEF ZAdd
<1>16. ASSUME NEW a \in Actors, HSet(a) PROVE TurnInv'
  BY <1>16 DEF HSet
<1>17. ASSUME NEW a \in Actors, ProviderFails(a) \/ WriteFails(a) PROVE TurnInv'
  BY <1>17 DEF ProviderFails, WriteFails, Fail
<1>18. CASE Fetch
  BY <1>18 DEF Fetch, AtRest, MessageInv
<1>19. CASE NextMessage
  BY <1>19 DEF NextMessage
<1>20. CASE AckDelayed
  BY <1>20 DEF AckDelayed
<1>21. CASE AckHash
  BY <1>21 DEF AckHash
<1>22. CASE Crash
  BY <1>22 DEF Crash
<1>23. CASE UNCHANGED vars
  BY <1>23 DEF vars
<1> QED
  BY <1>1, <1>2, <1>3, <1>4, <1>5, <1>6, <1>7, <1>8, <1>9, <1>10, <1>11, <1>12, <1>13, <1>14, <1>15,
     <1>16, <1>17, <1>18, <1>19, <1>20, <1>21, <1>22, <1>23, NextCases

\* Every orderly step keeps that a running sandbox has a message, or a request on its way to one.
LEMMA TimeoutStep ==
  ASSUME Orderly, TypeOK, PcInv, CreatedFirst, DeleteInv, MessageInv, OrderInv, [Next]_vars
  PROVE  TimeoutInv'
PROOF
<1> USE ActorsDistinct, LifeConstants
<1> USE DEF Orderly, TypeOK, PcInv, OrderInv, TurnInv, Pausing, TimeoutInv, Setting, DeleteInv, Killed,
            Actors, Messages, RequestPc, ConsumerPc, Schedules, Goto, queue, local
<1>1. ASSUME NEW r \in Requests, StartCreate(r) PROVE TimeoutInv'
  BY <1>1 DEF StartCreate
<1>2. ASSUME NEW r \in Requests, Start(r) PROVE TimeoutInv'
  BY <1>2 DEF Start
<1>3. ASSUME NEW r \in Requests, BecomesDue(r) PROVE TimeoutInv'
  BY <1>3 DEF BecomesDue
<1>4. ASSUME NEW a \in Actors, ReadRow(a) PROVE TimeoutInv'
  BY <1>4 DEF ReadRow, Fail
<1>5. ASSUME NEW a \in Actors, Check(a) PROVE TimeoutInv'
  BY <1>5 DEF Check
<1>6. ASSUME NEW a \in Actors, Halt(a) PROVE TimeoutInv'
  BY <1>6 DEF Halt, Fail
<1>7. ASSUME NEW a \in Actors, HGet(a) PROVE TimeoutInv'
  BY <1>7 DEF HGet, AfterCancel
<1>8. ASSUME NEW a \in Actors, ZRem(a) PROVE TimeoutInv'
  BY <1>8 DEF ZRem
<1>9. ASSUME NEW a \in Actors, HDel(a) PROVE TimeoutInv'
  BY <1>9 DEF HDel, AfterCancel
<1>10. ASSUME NEW a \in Actors, Write(a) PROVE TimeoutInv'
  BY <1>10 DEF Write
<1>11. ASSUME NEW a \in Actors, Launch(a) PROVE TimeoutInv'
  BY <1>11 DEF Launch
<1>12. ASSUME NEW a \in Actors, Extend(a) PROVE TimeoutInv'
  BY <1>12 DEF Extend, Fail
<1>13. ASSUME NEW a \in Actors, Resume(a) PROVE TimeoutInv'
  BY <1>13 DEF Resume, Fail
<1>14. ASSUME NEW a \in Actors, Kill(a) PROVE TimeoutInv'
  BY <1>14 DEF Kill, Fail
<1>15. ASSUME NEW a \in Actors, ZAdd(a) PROVE TimeoutInv'
  BY <1>15 DEF ZAdd
<1>16. ASSUME NEW a \in Actors, HSet(a) PROVE TimeoutInv'
  BY <1>16 DEF HSet
<1>17. ASSUME NEW a \in Actors, ProviderFails(a) \/ WriteFails(a) PROVE TimeoutInv'
  BY <1>17 DEF ProviderFails, WriteFails, Fail
<1>18. CASE Fetch
  BY <1>18 DEF Fetch
<1>19. CASE NextMessage
  BY <1>19 DEF NextMessage
<1>20. CASE AckDelayed
  BY <1>20 DEF AckDelayed
<1>21. CASE AckHash
  BY <1>21 DEF AckHash
<1>22. CASE Crash
  BY <1>22 DEF Crash
<1>23. CASE UNCHANGED vars
  BY <1>23 DEF vars
<1> QED
  BY <1>1, <1>2, <1>3, <1>4, <1>5, <1>6, <1>7, <1>8, <1>9, <1>10, <1>11, <1>12, <1>13, <1>14, <1>15,
     <1>16, <1>17, <1>18, <1>19, <1>20, <1>21, <1>22, <1>23, NextCases

\* Every orderly step keeps that a row that differs from the sandbox is about to be written.
LEMMA StateStep ==
  ASSUME Orderly, TypeOK, PcInv, CreatedFirst, DeleteInv, MessageInv, OrderInv, [Next]_vars
  PROVE  StateInv'
PROOF
<1> USE ActorsDistinct, LifeConstants
<1> USE DEF Orderly, TypeOK, PcInv, CreatedFirst, OrderInv, TurnInv, Pausing, StateInv, Starting, DeleteInv,
            Killed, Actors, Messages, RequestPc, ConsumerPc, Schedules, Resting, Goto, queue, local
<1>1. ASSUME NEW r \in Requests, StartCreate(r) PROVE StateInv'
  BY <1>1 DEF StartCreate
<1>2. ASSUME NEW r \in Requests, Start(r) PROVE StateInv'
  BY <1>2 DEF Start
<1>3. ASSUME NEW r \in Requests, BecomesDue(r) PROVE StateInv'
  BY <1>3 DEF BecomesDue
<1>4. ASSUME NEW a \in Actors, ReadRow(a) PROVE StateInv'
  BY <1>4 DEF ReadRow, Fail
<1>5. ASSUME NEW a \in Actors, Check(a) PROVE StateInv'
  BY <1>5 DEF Check
<1>6. ASSUME NEW a \in Actors, Halt(a) PROVE StateInv'
  BY <1>6 DEF Halt, Fail
<1>7. ASSUME NEW a \in Actors, HGet(a) PROVE StateInv'
  BY <1>7 DEF HGet, AfterCancel
<1>8. ASSUME NEW a \in Actors, ZRem(a) PROVE StateInv'
  BY <1>8 DEF ZRem
<1>9. ASSUME NEW a \in Actors, HDel(a) PROVE StateInv'
  BY <1>9 DEF HDel, AfterCancel
<1>10. ASSUME NEW a \in Actors, Write(a) PROVE StateInv'
  BY <1>10 DEF Write
<1>11. ASSUME NEW a \in Actors, Launch(a) PROVE StateInv'
  BY <1>11 DEF Launch
<1>12. ASSUME NEW a \in Actors, Extend(a) PROVE StateInv'
  BY <1>12 DEF Extend, Fail
<1>13. ASSUME NEW a \in Actors, Resume(a) PROVE StateInv'
  BY <1>13 DEF Resume, Fail
<1>14. ASSUME NEW a \in Actors, Kill(a) PROVE StateInv'
  BY <1>14 DEF Kill, Fail
<1>15. ASSUME NEW a \in Actors, ZAdd(a) PROVE StateInv'
  BY <1>15 DEF ZAdd
<1>16. ASSUME NEW a \in Actors, HSet(a) PROVE StateInv'
  BY <1>16 DEF HSet
<1>17. ASSUME NEW a \in Actors, ProviderFails(a) \/ WriteFails(a) PROVE StateInv'
  BY <1>17 DEF ProviderFails, WriteFails, Fail
<1>18. CASE Fetch
  BY <1>18 DEF Fetch
<1>19. CASE NextMessage
  BY <1>19 DEF NextMessage
<1>20. CASE AckDelayed
  BY <1>20 DEF AckDelayed
<1>21. CASE AckHash
  BY <1>21 DEF AckHash
<1>22. CASE Crash
  BY <1>22 DEF Crash
<1>23. CASE UNCHANGED vars
  BY <1>23 DEF vars
<1> QED
  BY <1>1, <1>2, <1>3, <1>4, <1>5, <1>6, <1>7, <1>8, <1>9, <1>10, <1>11, <1>12, <1>13, <1>14, <1>15,
     <1>16, <1>17, <1>18, <1>19, <1>20, <1>21, <1>22, <1>23, NextCases

\* The orderly invariant, from the initial state on.
LEMMA OrderCorrect == Orderly /\ Spec => []OrderInv
PROOF
<1>1. Init => CreatedFirst /\ DeleteInv /\ MessageInv /\ OrderInv
  BY ActorsDistinct
  DEF Init, CreatedFirst, DeleteInv, Killed, DeletedStaysDeleted, MessageInv, Unknown, OrderInv, TurnInv,
      Pausing, TimeoutInv, Setting, StateInv, Starting, Resting, Actors, RequestPc
<1>2. TypeOK /\ PcInv /\ CreatedFirst /\ DeleteInv /\ MessageInv /\ [Next]_vars
        => CreatedFirst' /\ DeleteInv' /\ MessageInv'
  BY DeleteStep, MessageStep
<1>3. Orderly /\ TypeOK /\ PcInv /\ CreatedFirst /\ DeleteInv /\ MessageInv /\ OrderInv /\ [Next]_vars
        => OrderInv'
  BY TurnStep, TimeoutStep, StateStep DEF OrderInv
<1>4. Orderly => []Orderly
  <2>1. Orderly => Orderly'
    BY DEF Orderly
  <2> QED
    BY <2>1, PTL
<1> QED
  BY <1>1, <1>2, <1>3, <1>4, PcCorrect, PTL DEF Spec

\* RunningHasTimeout: when requests and the consumer take turns and nothing fails, every
\* running sandbox has a message that is going to pause it.
THEOREM RunningSandboxExpires == Orderly /\ Spec => []RunningHasTimeout
PROOF
<1>1. PcInv /\ OrderInv => RunningHasTimeout
  BY DEF PcInv, OrderInv, TimeoutInv, Setting, RunningHasTimeout, AtRest, Resting, Actors
<1> QED
  BY <1>1, OrderCorrect, PcCorrect, PTL

\* RowTellsState: under the same assumption the row tells the state between requests.
THEOREM RowIsTrue == Orderly /\ Spec => []RowTellsState
PROOF
<1>1. TypeOK /\ OrderInv => RowTellsState
  BY DEF TypeOK, OrderInv, StateInv, Starting, RowTellsState, AtRest, Resting, Actors
<1> QED
  BY <1>1, OrderCorrect, PcCorrect, PTL

-----------------------------------------------------------------------------
(* Nothing is handled for ever. *)

\* How many steps are left from each place.
LEMMA StepsLeftAt ==
  /\ StepsLeft("row") = 12 /\ StepsLeft("check") = 11 /\ StepsLeft("resume") = 10 /\ StepsLeft("launch") = 10
  /\ StepsLeft("extend") = 9 /\ StepsLeft("halt") = 9 /\ StepsLeft("kill") = 9 /\ StepsLeft("hget") = 8
  /\ StepsLeft("zrem") = 7 /\ StepsLeft("hdel") = 6 /\ StepsLeft("zadd") = 5 /\ StepsLeft("hset") = 4
  /\ StepsLeft("write") = 3 /\ StepsLeft("ack") = 2 /\ StepsLeft("ack_hash") = 1
  /\ \A place \in {"next", "idle", "new", "done", "failed"} : StepsLeft(place) = 0
PROOF BY DEF StepsLeft

\* A step of a request, or of the consumer with its message, is a step towards the end.
LEMMA StepDescends ==
  ASSUME TypeOK, PcInv, NEW a \in Actors, Step(a) \/ ProviderFails(a) \/ WriteFails(a)
  PROVE  /\ StepsLeft(pc'[a]) < StepsLeft(pc[a])
         /\ \A b \in Actors : b # a => pc'[b] = pc[b]
         /\ batch' = batch
PROOF
<1>0. /\ pc \in [Actors -> RequestPc \union ConsumerPc] /\ Actors = Requests \union {Consumer}
      /\ a # Consumer => pc[a] \in RequestPc
      /\ a = Consumer => pc[a] \in ConsumerPc /\ op[a] = "pause"
  BY DEF TypeOK, Actors
<1>1. CASE ReadRow(a)
  BY <1>0, <1>1, StepsLeftAt DEF ReadRow, Fail, Goto, local
<1>2. CASE Check(a)
  <2>1. op[a] \in {"timeout", "pause", "delete"}
    BY <1>0, <1>2 DEF Check, PcInv
  <2> QED
    BY <1>0, <1>2, <2>1, StepsLeftAt DEF Check, Goto, local
<1>3. CASE Launch(a) \/ Extend(a) \/ Resume(a) \/ Halt(a) \/ Kill(a)
  BY <1>0, <1>3, StepsLeftAt DEF Launch, Extend, Resume, Halt, Kill, Fail, Goto, local
<1>4. CASE HGet(a) \/ ZRem(a) \/ HDel(a) \/ ZAdd(a) \/ HSet(a)
  BY <1>0, <1>4, StepsLeftAt DEF HGet, ZRem, HDel, ZAdd, HSet, AfterCancel, Goto, local
<1>5. CASE Write(a) \/ WriteFails(a)
  BY <1>0, <1>5, StepsLeftAt DEF Write, WriteFails, Fail, Goto, local
<1>6. CASE ProviderFails(a)
  BY <1>0, <1>6, StepsLeftAt DEF ProviderFails, Fail, Goto, local
<1> QED
  BY <1>1, <1>2, <1>3, <1>4, <1>5, <1>6 DEF Step

\* HandlingCountsDown: whoever the others are and whatever fails, a request answers and the
\* consumer is done with a message after a bounded number of steps of their own, and a batch
\* only gets smaller.
THEOREM HandlingEnds == Spec => HandlingCountsDown
PROOF
<1> DEFINE Down(a) == /\ Step(a) => pc'[a] # pc[a]
                      /\ pc[a] \notin {"new", "idle", "next"} /\ pc'[a] # pc[a] =>
                           StepsLeft(pc'[a]) < StepsLeft(pc[a])
           Shrinks == /\ pc[Consumer] # "idle" => batch' \subseteq batch
                      /\ pc[Consumer] = "next" /\ pc'[Consumer] \notin {"next", "idle"} => batch' # batch
<1>1. ASSUME TypeOK, PcInv, NEW a \in Actors, Step(a) PROVE StepsLeft(pc'[a]) < StepsLeft(pc[a]) /\ pc'[a] # pc[a]
  <2>1. StepsLeft(pc'[a]) < StepsLeft(pc[a])
    BY <1>1, StepDescends
  <2>2. StepsLeft(pc[a]) \in Nat
    BY <1>1, StepsLeftAt DEF TypeOK, RequestPc, ConsumerPc
  <2>3. pc'[a] # pc[a]
    BY <2>1, <2>2
  <2> QED
    BY <2>1, <2>3
<1>2. ASSUME TypeOK, PcInv, [Next]_vars PROVE (\A a \in Actors : Down(a)) /\ Shrinks
  <2>0. pc \in [Actors -> RequestPc \union ConsumerPc] /\ Consumer \in Actors
    BY <1>2 DEF TypeOK, Actors
  <2>1. ASSUME NEW a \in Actors, Step(a) \/ ProviderFails(a) \/ WriteFails(a)
        PROVE  (\A b \in Actors : Down(b)) /\ Shrinks
    <3>1. /\ StepsLeft(pc'[a]) < StepsLeft(pc[a])
          /\ \A b \in Actors : b # a => pc'[b] = pc[b]
          /\ batch' = batch
      BY <1>2, <2>1, StepDescends
    <3>2. \A b \in Actors : Down(b)
      BY <1>1, <1>2, <3>1
    <3>3. pc[Consumer] # "next" \/ pc'[Consumer] = "next"
      <4>1. a = Consumer => pc[a] # "next"
        BY <2>1 DEF Step, ReadRow, Check, Launch, Extend, Resume, Halt, Kill, HGet, ZRem, HDel, ZAdd, HSet, Write,
           WriteFails, ProviderFails
      <4> QED
        BY <2>0, <3>1, <4>1
    <3> QED
      BY <3>1, <3>2, <3>3
  <2>2. ASSUME NEW r \in Requests, StartCreate(r) \/ Start(r) \/ BecomesDue(r)
        PROVE  (\A b \in Actors : Down(b)) /\ Shrinks
    <3>1. /\ \A b \in Actors : pc'[b] = pc[b] \/ pc[b] = "new"
          /\ batch' = batch
      BY <2>0, <2>2 DEF StartCreate, Start, BecomesDue, Goto, local, Actors
    <3>2. pc'[Consumer] = pc[Consumer]
      BY <1>2, <2>0, <3>1 DEF TypeOK, ConsumerPc
    <3>3. \A b \in Actors : Down(b)
      BY <1>1, <1>2, <3>1
    <3> QED
      BY <3>1, <3>2, <3>3
  <2>3. CASE Fetch \/ NextMessage \/ AckDelayed \/ AckHash
    <3>1. \A b \in Actors : b # Consumer => pc'[b] = pc[b]
      BY <2>0, <2>3 DEF Fetch, NextMessage, AckDelayed, AckHash, Goto
    <3>2. Down(Consumer)
      <4>1. pc[Consumer] \notin {"new", "idle", "next"} => StepsLeft(pc'[Consumer]) < StepsLeft(pc[Consumer])
        BY <2>0, <2>3, StepsLeftAt DEF Fetch, NextMessage, AckDelayed, AckHash, Goto
      <4> QED
        BY <1>1, <1>2, <2>0, <4>1
    <3>3. \A b \in Actors : Down(b)
      BY <1>1, <1>2, <3>1, <3>2
    <3>4. Shrinks
      BY <2>0, <2>3 DEF Fetch, NextMessage, AckDelayed, AckHash, Goto, local
    <3> QED
      BY <3>3, <3>4
  <2>4. CASE Crash
    <3>1. \A b \in Actors : pc'[b] \in {"idle", "failed"} \/ pc'[b] = pc[b]
      BY <2>4 DEF Crash
    <3>2. \A b \in Actors : pc'[b] # pc[b] => pc[b] \notin {"done", "failed"}
      BY <1>2, <2>0, <2>4 DEF Crash, TypeOK, ConsumerPc
    <3>3. ASSUME NEW b \in Actors, pc[b] \notin {"new", "idle", "next", "done", "failed"} PROVE StepsLeft(pc[b]) > 0
      BY <2>0, <3>3, StepsLeftAt DEF RequestPc, ConsumerPc
    <3>4. \A b \in Actors : Down(b)
      BY <1>1, <1>2, <3>1, <3>2, <3>3, StepsLeftAt
    <3>5. Shrinks
      BY <2>0, <2>4 DEF Crash
    <3> QED
      BY <3>4, <3>5
  <2>5. CASE UNCHANGED vars
    <3>1. pc' = pc /\ batch' = batch
      BY <2>5 DEF vars, local
    <3> QED
      BY <1>1, <1>2, <3>1
  <2>6. Next \/ UNCHANGED vars
    BY <1>2
  <2> HIDE DEF Down, Shrinks
  <2> QED
    BY <2>1, <2>2, <2>3, <2>4, <2>5, <2>6 DEF Next, Consuming
<1>3. TypeOK /\ PcInv /\ [Next]_vars => [(\A a \in Actors : Down(a)) /\ Shrinks]_vars
  BY <1>2
<1>4. Spec => [][(\A a \in Actors : Down(a)) /\ Shrinks]_vars
  BY <1>3, PcCorrect, PTL DEF Spec
<1>5. [][(\A a \in Actors : Down(a)) /\ Shrinks]_vars => HandlingCountsDown
  <2>1. (\A a \in Actors : Down(a)) /\ Shrinks <=>
          /\ \A a \in Actors :
               /\ Step(a) => pc'[a] # pc[a]
               /\ pc[a] \notin {"new", "idle", "next"} /\ pc'[a] # pc[a] => StepsLeft(pc'[a]) < StepsLeft(pc[a])
          /\ pc[Consumer] # "idle" => batch' \subseteq batch
          /\ pc[Consumer] = "next" /\ pc'[Consumer] \notin {"next", "idle"} => batch' # batch
    OBVIOUS
  <2> QED
    BY <2>1, PTL DEF HandlingCountsDown
<1> QED
  BY <1>4, <1>5

=============================================================================
