--------------------------- MODULE Billing_proofs ---------------------------
(* Proofs about Billing: types, the yearly plans' refresh, the bound on     *)
(* credits, the plan, the ledger and the end of the handling of an event,   *)
(* for every set of plans, prices and costs and for any number of events,   *)
(* months and faults.                                                       *)
EXTENDS Billing, FiniteSetTheorems, TLAPS

\* What may happen in one step.
LEMMA NextCases ==
  ASSUME [Next]_vars
  PROVE  \/ Renew \/ Cancel \/ StartFree \/ StartAnnual \/ JobCommit \/ NextMonth
         \/ \E price \in Prices : Checkout(price[1], price[2]) \/ ChangePlan(price[1], price[2])
         \/ \E e \in pending, retrieved \in BOOLEAN : Deliver(e, retrieved)
         \/ \E h \in hooks : Apply(h) \/ Record(h) \/ Acknowledge(h) \/ HookLost(h)
         \/ \E cost \in Costs : Deduct(cost)
         \/ UNCHANGED vars
PROOF BY DEF Next, StripeStep, HookStep, JobStep

-----------------------------------------------------------------------------
(* Rows. *)

\* A grant makes of a row one that fits its plan and keeps the mark of the month.
LEMMA GrantedRow ==
  ASSUME NEW u \in User, NEW p \in Plans, NEW c \in Cycles, NEW status \in {"none", "active", "paid", "canceled"}
  PROVE  LET new == Granted(u, p, c, status) IN
         new \in User /\ new.refreshed = u.refreshed /\ new.credits <= Allowance[new.plan]
PROOF
<1>1. Allowance[p] \in Nat
  BY PlanAssumption
<1>2. Granted(u, p, c, status) \in User
  BY <1>1 DEF Granted, User
<1>3. Granted(u, p, c, status).refreshed = u.refreshed
  BY DEF Granted, User
<1>4. Granted(u, p, c, status).credits = Allowance[p] /\ Granted(u, p, c, status).plan = p
  BY DEF Granted, User
<1> QED
  BY <1>1, <1>2, <1>3, <1>4

\* So does every event.
LEMMA HandledRow ==
  ASSUME NEW e \in Event, NEW u \in User, NEW now \in Sub, NEW retrieved \in BOOLEAN
  PROVE  LET new == Handled(e, u, now, retrieved) IN
         new \in User /\ new.refreshed = u.refreshed /\ new.credits <= Allowance[new.plan]
PROOF
<1>1. /\ e.sub.plan \in Plans /\ e.sub.cycle \in Cycles /\ e.sub.meta[1] \in Plans /\ e.sub.meta[2] \in Cycles
      /\ e.sub.status \in {"none", "active", "paid", "canceled"}
  BY DEF Event, Sub
<1>2. now.meta[1] \in Plans /\ now.meta[2] \in Cycles /\ now.status \in {"none", "active", "paid", "canceled"}
  BY DEF Sub
<1>3. CASE e.kind = "checkout"
  <2>1. Handled(e, u, now, retrieved) = Granted(u, e.sub.meta[1], e.sub.meta[2], now.status)
    BY <1>3 DEF Handled
  <2>2. LET new == Granted(u, e.sub.meta[1], e.sub.meta[2], now.status) IN
        new \in User /\ new.refreshed = u.refreshed /\ new.credits <= Allowance[new.plan]
    BY <1>1, <1>2, GrantedRow, ZenonT(40)
  <2> QED
    BY <2>1, <2>2
<1>4. CASE e.kind = "invoice" /\ retrieved
  <2>1. Handled(e, u, now, retrieved) = Granted(u, now.meta[1], now.meta[2], now.status)
    BY <1>4 DEF Handled
  <2>2. LET new == Granted(u, now.meta[1], now.meta[2], now.status) IN
        new \in User /\ new.refreshed = u.refreshed /\ new.credits <= Allowance[new.plan]
    BY <1>2, GrantedRow
  <2> QED
    BY <2>1, <2>2
<1>5. CASE e.kind = "invoice" /\ ~retrieved
  <2>1. Handled(e, u, now, retrieved) = Granted(u, e.sub.plan, e.sub.cycle, "paid")
    BY <1>5 DEF Handled
  <2>2. LET new == Granted(u, e.sub.plan, e.sub.cycle, "paid") IN
        new \in User /\ new.refreshed = u.refreshed /\ new.credits <= Allowance[new.plan]
    BY <1>1, GrantedRow
  <2> QED
    BY <2>1, <2>2
<1>6. CASE e.kind = "updated"
  <2>1. Handled(e, u, now, retrieved) = Granted(u, e.sub.plan, e.sub.meta[2], e.sub.status)
    BY <1>6 DEF Handled
  <2>2. LET new == Granted(u, e.sub.plan, e.sub.meta[2], e.sub.status) IN
        new \in User /\ new.refreshed = u.refreshed /\ new.credits <= Allowance[new.plan]
    BY <1>1, GrantedRow
  <2> QED
    BY <2>1, <2>2
<1>7. CASE e.kind = "deleted"
  <2>1. Allowance["free"] \in Nat
    BY PlanAssumption
  <2>2. Handled(e, u, now, retrieved) =
          [u EXCEPT !.plan = "free", !.cycle = "none", !.status = "canceled", !.credits = Allowance["free"]]
    BY <1>7 DEF Handled
  <2>3. Handled(e, u, now, retrieved) \in User
    BY <2>1, <2>2 DEF User
  <2>4. Handled(e, u, now, retrieved).refreshed = u.refreshed
    BY <2>2 DEF User
  <2>5. Handled(e, u, now, retrieved).credits = Allowance["free"] /\ Handled(e, u, now, retrieved).plan = "free"
    BY <2>2 DEF User
  <2> QED
    BY <2>1, <2>3, <2>4, <2>5
<1> QED
  BY <1>3, <1>4, <1>5, <1>6, <1>7 DEF Event, Kinds

\* A commit writes what was changed and leaves the rest as it is now.
LEMMA CommitRow ==
  ASSUME user \in User, NEW old \in User, NEW new \in User, Commit(old, new)
  PROVE  /\ user' \in User
         /\ user'.plan = IF new.plan # old.plan THEN new.plan ELSE user.plan
         /\ user'.credits = IF new.credits # old.credits THEN new.credits ELSE user.credits
         /\ user'.refreshed = IF new.refreshed # old.refreshed THEN new.refreshed ELSE user.refreshed
PROOF BY DEF Commit, User

\* A deduction leaves everything but credits and bonus, and takes from both.
LEMMA DeductedRow ==
  ASSUME user \in User, NEW cost \in Costs
  PROVE  LET new == Deducted(user, cost) IN
         new \in User /\ new.plan = user.plan /\ new.refreshed = user.refreshed /\ new.credits <= user.credits
PROOF
<1> USE BoundAssumption DEF User
<1>1. cost \in Nat /\ user.credits \in Nat /\ user.bonus \in 0 .. Bonus
  OBVIOUS
<1>2. CASE user.credits + user.bonus < cost
  BY <1>2 DEF Deducted
<1>3. CASE user.credits + user.bonus >= cost /\ user.bonus >= cost
  BY <1>1, <1>3 DEF Deducted
<1>4. CASE user.credits + user.bonus >= cost /\ user.bonus < cost
  <2>1. user.credits - (cost - user.bonus) \in Nat /\ user.credits - (cost - user.bonus) <= user.credits
    BY <1>1, <1>4
  <2>2. ~(user.credits + user.bonus < cost) /\ ~(user.bonus >= cost)
    BY <1>1, <1>4
  <2>3. Deducted(user, cost) = [user EXCEPT !.bonus = 0, !.credits = user.credits - (cost - user.bonus)]
    BY <2>2 DEF Deducted
  <2>4. Deducted(user, cost) \in User
    <3>1. 0 \in 0 .. Bonus
      OBVIOUS
    <3>2. [user EXCEPT !.bonus = 0] \in User
      BY <3>1
    <3> HIDE BoundAssumption
    <3> QED
      BY <2>1, <2>3, <3>2
  <2>5. /\ Deducted(user, cost).plan = user.plan /\ Deducted(user, cost).refreshed = user.refreshed
        /\ Deducted(user, cost).credits = user.credits - (cost - user.bonus)
    BY <2>3
  <2> QED
    BY <2>1, <2>4, <2>5
<1> QED
  BY <1>1, <1>2, <1>3, <1>4

\* What the jobs make of a row is a row that fits its plan.
LEMMA RefreshedRow ==
  ASSUME NEW u \in User
  PROVE  /\ u.plan = "free" => Freed(u) \in User /\ Freed(u).credits <= Allowance[Freed(u).plan]
         /\ Freed(u).refreshed = u.refreshed /\ Freed(u).plan = u.plan
         /\ \A n \in 1 .. MaxMonth : Refreshed(u, n) \in User /\ Refreshed(u, n).refreshed = n
                                     /\ Refreshed(u, n).credits <= Allowance[Refreshed(u, n).plan]
PROOF
<1>1. Allowance[u.plan] \in Nat
  BY PlanAssumption DEF User
<1>2. u.plan = "free" => Freed(u) \in User /\ Freed(u).credits <= Allowance[Freed(u).plan]
  BY <1>1 DEF Freed, User
<1>3. Freed(u).refreshed = u.refreshed /\ Freed(u).plan = u.plan
  BY DEF Freed, User
<1>4. ASSUME NEW n \in 1 .. MaxMonth PROVE Refreshed(u, n) \in User /\ Refreshed(u, n).refreshed = n
                                          /\ Refreshed(u, n).credits <= Allowance[Refreshed(u, n).plan]
  <2>1. n \in 0 .. MaxMonth
    BY BoundAssumption
  <2>2. Refreshed(u, n) \in User
    BY <1>1, <2>1 DEF Refreshed, User
  <2>3. Refreshed(u, n).refreshed = n /\ Refreshed(u, n).credits <= Allowance[Refreshed(u, n).plan]
    BY <1>1, <2>1 DEF Refreshed, User
  <2> QED
    BY <2>2, <2>3
<1> QED
  BY <1>2, <1>3, <1>4

\* Sending a batch keeps the events well typed.
LEMMA SendType ==
  ASSUME TypeOK, NEW kinds \in SUBSET Kinds, NEW s \in Sub, Send(kinds, s)
  PROVE  sub' \in Sub /\ events' \subseteq Event /\ pending' \subseteq events' /\ pending \subseteq pending'
         /\ events \subseteq events'
PROOF
<1>1. {e.batch : e \in events} \subseteq 1 .. MaxEvents
  BY DEF TypeOK, Event
<1>2. IsFiniteSet({e.batch : e \in events})
  <2>1. IsFiniteSet(1 .. MaxEvents)
    BY FS_Interval, BoundAssumption
  <2> QED
    BY <1>1, <2>1, FS_Subset
<1>3. Batches + 1 \in 1 .. MaxEvents
  BY <1>2, FS_CardinalityType, BoundAssumption DEF Send, Batches
<1>4. \A k \in kinds : [kind |-> k, batch |-> Batches + 1, sub |-> s] \in Event
  BY <1>3 DEF Event
<1> QED
  BY <1>4 DEF Send, TypeOK

-----------------------------------------------------------------------------
(* Types. *)

\* The initial state is well typed and satisfies the inductive invariants.
LEMMA InitInv ==
  Init => TypeOK /\ LoadInv /\ RefreshInv /\ FitInv
PROOF
<1> SUFFICES ASSUME Init PROVE TypeOK /\ LoadInv /\ RefreshInv /\ FitInv
  OBVIOUS
<1> DEFINE p == (CHOOSE price \in Prices : price[2] = "annually")[1]
<1>1. p \in Plans
  BY PlanAssumption DEF Cycles
<1>2. Allowance["free"] \in Nat /\ Allowance[p] \in Nat
  BY <1>1, PlanAssumption
<1> HIDE DEF p
<1> DEFINE new == [plan |-> "free", status |-> "none", cycle |-> "none", credits |-> Allowance["free"],
                   bonus |-> Bonus, customer |-> FALSE, refreshed |-> 0]
           paid == [new EXCEPT !.plan = p, !.status = "active", !.cycle = "annually", !.credits = Allowance[p],
                               !.customer = TRUE]
<1>3. user \in User /\ user.credits = Allowance[user.plan]
  <2>1. user = new \/ user = paid
    BY DEF Init, p
  <2>2. new \in User /\ new.credits = Allowance[new.plan]
    BY <1>2, BoundAssumption DEF User
  <2> HIDE DEF new
  <2>3. paid \in User
    BY <1>1, <1>2, <2>2 DEF User, Cycles
  <2>4. paid.credits = Allowance[p] /\ paid.plan = p
    BY <2>2 DEF User
  <2> HIDE DEF paid
  <2> QED
    BY <2>1, <2>2, <2>3, <2>4
<1>4. sub \in Sub
  BY <1>1 DEF Init, Sub, Subscribed, Cycles, p
<1>5. TypeOK
  <2>1. month \in 1 .. MaxMonth /\ faults \in 0 .. MaxFaults
    BY BoundAssumption DEF Init
  <2>2. granted \in [1 .. MaxMonth -> Nat]
    BY DEF Init
  <2>3. job = Idle /\ hooks = {} /\ events = {} /\ pending = {} /\ ledger = {} /\ raced = FALSE
    BY DEF Init
  <2> QED
    BY <1>3, <1>4, <2>1, <2>2, <2>3 DEF TypeOK
<1>6. LoadInv /\ RefreshInv
  BY DEF Init, LoadInv, RefreshInv
<1>7. FitInv
  <2>1. Loads = {}
    BY DEF Init, Loads
  <2> QED
    BY <1>2, <1>3, <2>1, PlanAssumption DEF FitInv, CreditsFitPlan, User
<1> QED
  BY <1>5, <1>6, <1>7

\* So does the rest of it.
LEMMA SendKeeps ==
  ASSUME TypeOK, LoadInv, NEW kinds \in SUBSET Kinds, NEW s \in Sub, Send(kinds, s)
  PROVE  TypeOK' /\ LoadInv'
PROOF
<1>1. /\ sub' \in Sub /\ events' \subseteq Event /\ pending' \subseteq events' /\ pending \subseteq pending'
      /\ events \subseteq events'
  BY SendType
<1>2. UNCHANGED <<user, ledger, hooks, job, month, faults, raced, granted>>
  BY DEF Send
<1>3. ledger' \subseteq events' /\ \A h \in hooks' : h.at \in {"loaded", "applied", "recorded"} /\ h.event \in pending'
  BY <1>1, <1>2 DEF TypeOK
<1>4. LoadInv'
  BY <1>2 DEF LoadInv
<1> QED
  BY <1>1, <1>2, <1>3, <1>4 DEF TypeOK

\* Every step keeps the types.
LEMMA TypeStep ==
  ASSUME TypeOK, LoadInv, [Next]_vars
  PROVE  TypeOK' /\ LoadInv'
PROOF
<1> USE PlanAssumption, BoundAssumption
<1>1. CASE Renew
  <2>1. sub \in Sub /\ {"invoice", "updated"} \in SUBSET Kinds
    BY DEF TypeOK, Kinds
  <2>2. Send({"invoice", "updated"}, sub)
    BY <1>1 DEF Renew
  <2> QED
    BY <2>1, <2>2, SendKeeps
<1>2. CASE Cancel
  <2>1. [sub EXCEPT !.status = "canceled"] \in Sub /\ {"deleted"} \in SUBSET Kinds
    BY DEF TypeOK, Sub, Kinds
  <2>2. Send({"deleted"}, [sub EXCEPT !.status = "canceled"])
    BY <1>2 DEF Cancel
  <2> QED
    BY <2>1, <2>2, SendKeeps
<1>3. ASSUME NEW price \in Prices, Checkout(price[1], price[2]) PROVE TypeOK' /\ LoadInv'
  <2>1. Subscribed(price[1], price[2], "active") \in Sub /\ {"checkout", "invoice"} \in SUBSET Kinds
    BY DEF Sub, Subscribed, Kinds
  <2>2. Send({"checkout", "invoice"}, Subscribed(price[1], price[2], "active"))
    BY <1>3 DEF Checkout
  <2> QED
    BY <2>1, <2>2, SendKeeps
<1>4. ASSUME NEW price \in Prices, ChangePlan(price[1], price[2]) PROVE TypeOK' /\ LoadInv'
  <2>1. [sub EXCEPT !.plan = price[1], !.cycle = price[2]] \in Sub /\ {"updated"} \in SUBSET Kinds
    BY DEF TypeOK, Sub, Kinds
  <2>2. Send({"updated"}, [sub EXCEPT !.plan = price[1], !.cycle = price[2]])
    BY <1>4 DEF ChangePlan
  <2> QED
    BY <2>1, <2>2, SendKeeps
<1>5. ASSUME NEW e \in pending, NEW retrieved \in BOOLEAN, Deliver(e, retrieved) PROVE TypeOK' /\ LoadInv'
  <2>1. e \in Event /\ e \in pending /\ user \in User /\ sub \in Sub
    BY <1>5 DEF TypeOK
  <2>2. Handled(e, user, sub, retrieved) \in User
    BY <2>1, HandledRow
  <2>3. faults' \in 0 .. MaxFaults
    BY <1>5 DEF Deliver, Fault, TypeOK
  <2>4. CASE Unknown(e, retrieved)
    BY <1>5, <2>3, <2>4 DEF Deliver, TypeOK, LoadInv
  <2>5. CASE ~Unknown(e, retrieved)
    BY <1>5, <2>1, <2>2, <2>3, <2>5 DEF Deliver, TypeOK, LoadInv
  <2> QED
    BY <2>4, <2>5
<1>6. ASSUME NEW h \in hooks, Apply(h) PROVE TypeOK' /\ LoadInv'
  <2>1. user' \in User
    BY <1>6, CommitRow DEF Apply, TypeOK, LoadInv
  <2> QED
    BY <1>6, <2>1 DEF Apply, Overlaps, TypeOK, LoadInv
<1>7. ASSUME NEW h \in hooks, Record(h) PROVE TypeOK' /\ LoadInv'
  BY <1>7 DEF Record, TypeOK, LoadInv
<1>8. ASSUME NEW h \in hooks, Acknowledge(h) PROVE TypeOK' /\ LoadInv'
  BY <1>8 DEF Acknowledge, TypeOK, LoadInv
<1>9. ASSUME NEW h \in hooks, HookLost(h) PROVE TypeOK' /\ LoadInv'
  BY <1>9 DEF HookLost, Fault, TypeOK, LoadInv
<1>10. CASE StartFree
  <2>1. job' = [at |-> "loaded", job |-> "free", now |-> month, old |-> user, new |-> Freed(user)]
    BY <1>10 DEF StartFree
  <2>2. user \in User /\ Freed(user) \in User
    BY <1>10, RefreshedRow DEF StartFree, TypeOK
  <2> QED
    BY <1>10, <2>1, <2>2 DEF StartFree, TypeOK, LoadInv, Idle
<1>11. CASE StartAnnual
  <2>1. job' = [at |-> "loaded", job |-> "annual", now |-> month, old |-> user, new |-> Refreshed(user, month)]
    BY <1>11 DEF StartAnnual
  <2>2. user \in User /\ Refreshed(user, month) \in User
    BY <1>11, RefreshedRow DEF StartAnnual, TypeOK
  <2> QED
    BY <1>11, <2>1, <2>2 DEF StartAnnual, TypeOK, LoadInv, Idle
<1>12. CASE JobCommit
  <2>1. user' \in User
    BY <1>12, CommitRow DEF JobCommit, TypeOK
  <2>2. job.now \in 1 .. MaxMonth
    BY <1>12 DEF JobCommit, TypeOK, LoadInv
  <2>3. granted' \in [1 .. MaxMonth -> Nat]
    BY <1>12, <2>2, SMTT(30) DEF JobCommit, TypeOK
  <2> QED
    BY <1>12, <2>1, <2>3 DEF JobCommit, Overlaps, TypeOK, LoadInv
<1>13. CASE NextMonth
  BY <1>13 DEF NextMonth, TypeOK, LoadInv
<1>14. ASSUME NEW cost \in Costs, Deduct(cost) PROVE TypeOK' /\ LoadInv'
  <2>1. user' \in User
    BY <1>14, DeductedRow DEF Deduct, TypeOK
  <2> QED
    BY <1>14, <2>1 DEF Deduct, TypeOK, LoadInv
<1>15. CASE UNCHANGED vars
  BY <1>15 DEF vars, TypeOK, LoadInv
<1> QED
  BY <1>1, <1>2, <1>3, <1>4, <1>5, <1>6, <1>7, <1>8, <1>9, <1>10,
     <1>11, <1>12, <1>13, <1>14, <1>15, NextCases

-----------------------------------------------------------------------------
(* The refresh of the yearly plans. *)

\* Every step keeps the mark of the month and the count of refreshes together.
LEMMA RefreshStep ==
  ASSUME TypeOK, LoadInv, RefreshInv, [Next]_vars
  PROVE  RefreshInv'
PROOF
<1> USE PlanAssumption, BoundAssumption
<1>1. CASE Renew
  BY <1>1 DEF Renew, Send, RefreshInv
<1>2. CASE Cancel
  BY <1>2 DEF Cancel, Send, RefreshInv
<1>3. ASSUME NEW price \in Prices, Checkout(price[1], price[2]) PROVE RefreshInv'
  BY <1>3 DEF Checkout, Send, RefreshInv
<1>4. ASSUME NEW price \in Prices, ChangePlan(price[1], price[2]) PROVE RefreshInv'
  BY <1>4 DEF ChangePlan, Send, RefreshInv
<1>5. ASSUME NEW e \in pending, NEW retrieved \in BOOLEAN, Deliver(e, retrieved) PROVE RefreshInv'
  <2>1. Handled(e, user, sub, retrieved).refreshed = user.refreshed
    BY HandledRow DEF TypeOK
  <2> QED
    BY <1>5, <2>1 DEF Deliver, RefreshInv
<1>6. ASSUME NEW h \in hooks, Apply(h) PROVE RefreshInv'
  <2>1. user'.refreshed = user.refreshed
    BY <1>6, CommitRow DEF Apply, TypeOK, LoadInv, RefreshInv
  <2> QED
    BY <1>6, <2>1 DEF Apply, RefreshInv
<1>7. ASSUME NEW h \in hooks, Record(h) PROVE RefreshInv'
  BY <1>7 DEF Record, RefreshInv
<1>8. ASSUME NEW h \in hooks, Acknowledge(h) PROVE RefreshInv'
  BY <1>8 DEF Acknowledge, RefreshInv
<1>9. ASSUME NEW h \in hooks, HookLost(h) PROVE RefreshInv'
  BY <1>9 DEF HookLost, RefreshInv
<1>10. CASE StartFree
  <2>1. Freed(user).refreshed = user.refreshed
    BY RefreshedRow DEF TypeOK
  <2> QED
    BY <1>10, <2>1 DEF StartFree, RefreshInv, Idle
<1>11. CASE StartAnnual
  <2>1. Refreshed(user, month).refreshed = month /\ user.refreshed # month
    BY <1>11, RefreshedRow DEF StartAnnual, TypeOK
  <2>2. \A n \in month .. MaxMonth : granted[n] = 0
    BY <2>1 DEF TypeOK, RefreshInv
  <2> QED
    BY <1>11, <2>1, <2>2 DEF StartAnnual, RefreshInv, Idle
<1>12. CASE JobCommit
  <2>1. user'.refreshed = IF job.new.refreshed # job.old.refreshed THEN job.new.refreshed ELSE user.refreshed
    BY <1>12, CommitRow DEF JobCommit, TypeOK
  <2>2. job # Idle /\ job' = Idle /\ hooks' = hooks /\ month' = month
    BY <1>12 DEF JobCommit
  <2>3. CASE job.job = "annual"
    <3>1. granted[job.now] = 0 /\ user'.refreshed = job.now /\ job.now \in 1 .. MaxMonth /\ job.now <= month
      BY <2>1, <2>2, <2>3 DEF RefreshInv, LoadInv, TypeOK
    <3>2. \A n \in 1 .. MaxMonth : granted[n] > 0 => n < job.now
      BY <2>2, <2>3, <3>1 DEF RefreshInv, TypeOK
    <3>3. granted' = [granted EXCEPT ![job.now] = @ + 1]
      BY <1>12, <2>3 DEF JobCommit
    <3>4. \A n \in 1 .. MaxMonth :
            granted'[n] > 0 => granted'[n] = 1 /\ n <= month /\ (n = month => user'.refreshed = month)
      <4>1. \A n \in 1 .. MaxMonth : n # job.now => granted'[n] = granted[n]
        BY <3>1, <3>3 DEF TypeOK
      <4>2. granted'[job.now] = 1
        BY <3>1, <3>3 DEF TypeOK
      <4>3. \A n \in 1 .. MaxMonth : granted[n] > 0 => granted[n] = 1 /\ n # month /\ n <= month
        BY <3>1, <3>2 DEF RefreshInv, TypeOK
      <4> QED
        BY <3>1, <4>1, <4>2, <4>3
    <3> QED
      BY <2>2, <3>4 DEF RefreshInv
  <2>4. CASE job.job # "annual"
    BY <1>12, <2>1, <2>2, <2>4 DEF JobCommit, RefreshInv
  <2> QED
    BY <2>3, <2>4
<1>13. CASE NextMonth
  <2>1. month' = month + 1 /\ month \in 1 .. MaxMonth
    BY <1>13 DEF NextMonth, TypeOK
  <2>2. \A n \in 1 .. MaxMonth : granted[n] > 0 => granted[n] = 1 /\ n <= month' /\ n # month'
    BY <2>1 DEF RefreshInv
  <2> QED
    BY <1>13, <2>2 DEF NextMonth, RefreshInv
<1>14. ASSUME NEW cost \in Costs, Deduct(cost) PROVE RefreshInv'
  <2>1. user'.refreshed = user.refreshed
    BY <1>14, DeductedRow DEF Deduct, TypeOK
  <2> QED
    BY <1>14, <2>1 DEF Deduct, RefreshInv
<1>15. CASE UNCHANGED vars
  BY <1>15 DEF vars, RefreshInv
<1> QED
  BY <1>1, <1>2, <1>3, <1>4, <1>5, <1>6, <1>7, <1>8, <1>9, <1>10,
     <1>11, <1>12, <1>13, <1>14, <1>15, NextCases

-----------------------------------------------------------------------------
(* Credits and plan. *)

\* Who has loaded the row, while the job is idle and while it is not.
LEMMA LoadsAre ==
  ASSUME LoadInv
  PROVE  /\ \A h \in hooks : h.at = "loaded" => h \in Loads
         /\ job # Idle => job \in Loads /\ job.at = "loaded"
         /\ \A h \in Loads : (h \in hooks \/ (h = job /\ job # Idle)) /\ h.at = "loaded"
PROOF BY DEF Loads, LoadInv

\* A step that keeps user, raced and job and starts no handler keeps the fit.
LEMMA FitUnchanged ==
  ASSUME FitInv, UNCHANGED <<user, raced, job>>, hooks' \subseteq hooks
  PROVE  FitInv'
PROOF
<1>1. Loads' \subseteq Loads
  BY DEF Loads
<1> QED
  BY <1>1 DEF FitInv, CreditsFitPlan

\* A step that loads the row, or lets go of one loaded, keeps the fit.
LEMMA FitLoaded ==
  ASSUME TypeOK, FitInv, UNCHANGED <<user, raced>>,
         NEW load, Loads' \subseteq Loads \union {load},
         load \in Loads' => load.old = user /\ load.new.credits <= Allowance[load.new.plan]
  PROVE  FitInv'
PROOF
<1>1. raced \/ (user.plan = user.plan /\ user.credits <= user.credits /\ user.credits <= Allowance[user.plan])
  BY DEF FitInv, CreditsFitPlan, TypeOK, User
<1>2. ASSUME NEW h \in Loads'
      PROVE /\ h.new.credits <= Allowance[h.new.plan]
            /\ raced \/ (user.plan = h.old.plan /\ user.credits <= h.old.credits /\ h.old.credits <= Allowance[h.old.plan])
  <2>1. CASE h \in Loads
    BY <2>1 DEF FitInv
  <2>2. CASE h \notin Loads
    <3>1. h = load
      BY <2>2
    <3> QED
      BY <1>1, <3>1
  <2> QED
    BY <2>1, <2>2
<1> QED
  BY <1>2 DEF FitInv, CreditsFitPlan

\* A commit of a loaded row keeps the fit: it is the only one loaded, or the two have overlapped.
LEMMA FitCommitted ==
  ASSUME TypeOK, FitInv, NEW load \in Loads, load.old \in User, load.new \in User, Commit(load.old, load.new),
         Loads' \subseteq Loads, raced => raced', Loads' # {} => raced'
  PROVE  FitInv'
PROOF
<1>1. /\ user'.plan = IF load.new.plan # load.old.plan THEN load.new.plan ELSE user.plan
      /\ user'.credits = IF load.new.credits # load.old.credits THEN load.new.credits ELSE user.credits
  BY CommitRow DEF TypeOK
<1>2. user.credits \in Nat /\ load.old.credits \in Nat /\ load.new.credits \in Nat /\ Allowance[load.new.plan] \in Nat
  BY PlanAssumption DEF TypeOK, User
<1>3. load.new.credits <= Allowance[load.new.plan]
  BY DEF FitInv
<1>4. raced \/ (user.plan = load.old.plan /\ user.credits <= load.old.credits)
  BY DEF FitInv
<1>5. raced' \/ user'.credits <= Allowance[user'.plan]
  <2>1. CASE raced
    BY <2>1
  <2>2. CASE ~raced
    <3>1. user'.plan = load.new.plan
      BY <1>1, <1>4, <2>2
    <3>2. user'.credits <= load.new.credits
      BY <1>1, <1>2, <1>4, <2>2
    <3>3. user'.credits \in Nat
      BY <1>1, <1>2
    <3> QED
      BY <1>2, <1>3, <3>1, <3>2, <3>3
  <2> QED
    BY <2>1, <2>2
<1>6. \A h \in Loads' : raced' /\ h.new.credits <= Allowance[h.new.plan]
  BY DEF FitInv
<1> QED
  BY <1>5, <1>6 DEF FitInv, CreditsFitPlan

\* Every step keeps the fit.
LEMMA FitStep ==
  ASSUME TypeOK, LoadInv, FitInv, [Next]_vars
  PROVE  FitInv'
PROOF
<1> USE LoadsAre
<1>1. CASE Renew
  BY <1>1, FitUnchanged DEF Renew, Send
<1>2. CASE Cancel
  BY <1>2, FitUnchanged DEF Cancel, Send
<1>3. ASSUME NEW price \in Prices, Checkout(price[1], price[2]) PROVE FitInv'
  BY <1>3, FitUnchanged DEF Checkout, Send
<1>4. ASSUME NEW price \in Prices, ChangePlan(price[1], price[2]) PROVE FitInv'
  BY <1>4, FitUnchanged DEF ChangePlan, Send
<1>5. ASSUME NEW e \in pending, NEW retrieved \in BOOLEAN, Deliver(e, retrieved) PROVE FitInv'
  <2> DEFINE load == [at |-> "loaded", event |-> e, old |-> user, new |-> Handled(e, user, sub, retrieved)]
  <2>1. load.old = user /\ load.new.credits <= Allowance[load.new.plan]
    BY HandledRow DEF TypeOK
  <2>2. Loads' \subseteq Loads \union {load} /\ UNCHANGED <<user, raced>>
    BY <1>5 DEF Deliver, Loads
  <2> HIDE DEF load
  <2> QED
    BY <2>1, <2>2, FitLoaded
<1>6. ASSUME NEW h \in hooks, Apply(h) PROVE FitInv'
  <2>1. h \in Loads /\ h.old \in User /\ h.new \in User /\ Commit(h.old, h.new)
    BY <1>6 DEF Apply, LoadInv
  <2>2. Loads' \subseteq Loads
    BY <1>6 DEF Apply, Loads
  <2>3. raced => raced'
    BY <1>6 DEF Apply, Overlaps
  <2>4. ASSUME Loads' # {} PROVE raced'
    <3>1. PICK g \in (hooks \ {h}) \union {job} : g.at = "loaded"
      BY <1>6, <2>4 DEF Apply, Loads
    <3> QED
      BY <1>6, <3>1 DEF Apply, Overlaps
  <2> QED
    BY <2>1, <2>2, <2>3, <2>4, FitCommitted
<1>7. ASSUME NEW h \in hooks, Record(h) PROVE FitInv'
  <2>1. Loads' \subseteq Loads
    BY <1>7 DEF Record, Loads
  <2> QED
    BY <1>7, <2>1, FitLoaded DEF Record
<1>8. ASSUME NEW h \in hooks, Acknowledge(h) PROVE FitInv'
  <2>1. Loads' \subseteq Loads
    BY <1>8 DEF Acknowledge, Loads
  <2> QED
    BY <1>8, <2>1, FitLoaded DEF Acknowledge
<1>9. ASSUME NEW h \in hooks, HookLost(h) PROVE FitInv'
  BY <1>9, FitUnchanged DEF HookLost
<1>10. CASE StartFree
  <2>1. job'.old = user /\ job'.new.credits <= Allowance[job'.new.plan]
    BY <1>10, RefreshedRow DEF StartFree, TypeOK
  <2>2. Loads' \subseteq Loads \union {job'} /\ UNCHANGED <<user, raced>>
    BY <1>10 DEF StartFree, Loads
  <2> QED
    BY <2>1, <2>2, FitLoaded
<1>11. CASE StartAnnual
  <2>1. job'.old = user /\ job'.new.credits <= Allowance[job'.new.plan]
    BY <1>11, RefreshedRow DEF StartAnnual, TypeOK
  <2>2. Loads' \subseteq Loads \union {job'} /\ UNCHANGED <<user, raced>>
    BY <1>11 DEF StartAnnual, Loads
  <2> QED
    BY <2>1, <2>2, FitLoaded
<1>12. CASE JobCommit
  <2>1. job \in Loads /\ job.old \in User /\ job.new \in User /\ Commit(job.old, job.new)
    BY <1>12 DEF JobCommit, TypeOK
  <2>2. Loads' \subseteq Loads
    BY <1>12 DEF JobCommit, Loads
  <2>3. raced => raced'
    BY <1>12 DEF JobCommit, Overlaps
  <2>4. ASSUME Loads' # {} PROVE raced'
    <3>1. PICK g \in hooks : g.at = "loaded"
      BY <1>12, <2>4 DEF JobCommit, Loads
    <3> QED
      BY <1>12, <3>1 DEF JobCommit, Overlaps
  <2> QED
    BY <2>1, <2>2, <2>3, <2>4, FitCommitted
<1>13. CASE NextMonth
  BY <1>13, FitUnchanged DEF NextMonth
<1>14. ASSUME NEW cost \in Costs, Deduct(cost) PROVE FitInv'
  <2>1. user'.plan = user.plan /\ user'.credits <= user.credits /\ user'.credits \in Nat /\ user.credits \in Nat
    BY <1>14, DeductedRow DEF Deduct, TypeOK, User
  <2>2. Loads' = Loads /\ raced' = raced
    BY <1>14 DEF Deduct, Loads
  <2>3. Allowance[user.plan] \in Nat /\ \A h \in Loads : h.old.credits \in Nat
    BY PlanAssumption DEF TypeOK, LoadInv, User
  <2> QED
    BY <2>1, <2>2, <2>3 DEF FitInv, CreditsFitPlan
<1>15. CASE UNCHANGED vars
  BY <1>15, FitUnchanged DEF vars
<1> QED
  BY <1>1, <1>2, <1>3, <1>4, <1>5, <1>6, <1>7, <1>8, <1>9, <1>10,
     <1>11, <1>12, <1>13, <1>14, <1>15, NextCases

-----------------------------------------------------------------------------
(* The plan of the row. *)

\* Commits, deductions and jobs, by column.
LEMMA CommitColumns ==
  ASSUME user \in User, NEW old \in User, NEW new \in User, Commit(old, new), NEW c \in PlanColumns
  PROVE  user'[c] = IF new[c] # old[c] THEN new[c] ELSE user[c]
PROOF BY DEF Commit, User, PlanColumns

LEMMA DeductedColumns ==
  ASSUME user \in User, NEW cost \in Costs, NEW c \in PlanColumns
  PROVE  Deducted(user, cost)[c] = user[c]
PROOF
<1> USE DEF User, PlanColumns
<1>1. CASE user.credits + user.bonus < cost
  BY <1>1 DEF Deducted
<1>2. CASE ~(user.credits + user.bonus < cost) /\ user.bonus >= cost
  BY <1>2 DEF Deducted
<1>3. CASE ~(user.credits + user.bonus < cost) /\ ~(user.bonus >= cost)
  BY <1>3 DEF Deducted
<1> QED
  BY <1>1, <1>2, <1>3

LEMMA RefreshedColumns ==
  ASSUME user \in User, NEW c \in PlanColumns
  PROVE  Freed(user)[c] = user[c] /\ Refreshed(user, month)[c] = user[c]
PROOF BY DEF Freed, Refreshed, User, PlanColumns

LEMMA FitsByColumn ==
  /\ \A v : Fits("plan", v) <=> v \in IF sub.status = "active" THEN {sub.plan, sub.meta[1]} ELSE {"free"}
  /\ \A v : Fits("cycle", v) <=> (sub.status = "active" => v \in Cycles)
  /\ \A v : Fits("status", v) <=> (sub.status = "canceled" => v = "canceled")
PROOF BY DEF Fits

\* What a handler makes of the row fits, if its event is of the newest batch.
LEMMA HandledFits ==
  ASSUME TypeOK, BatchInv, NEW e \in events, Newest(e), NEW retrieved \in BOOLEAN, NEW c \in PlanColumns
  PROVE  Fits(c, Handled(e, user, sub, retrieved)[c])
PROOF
<1> DEFINE new == Handled(e, user, sub, retrieved)
<1> SUFFICES Fits(c, new[c])
  OBVIOUS
<1>1. e.sub = sub /\ (e.kind = "deleted" <=> sub.status = "canceled") /\ sub.status # "none"
  BY DEF BatchInv
<1>2. /\ e.kind \in Kinds /\ user \in User /\ sub.plan \in Plans /\ sub.cycle \in Cycles
      /\ sub.meta[1] \in Plans /\ sub.meta[2] \in Cycles /\ sub.status \in {"none", "active", "canceled"}
  BY DEF TypeOK, Event, Sub
<1>3. CASE e.kind = "deleted"
  <2>1. new.plan = "free" /\ new.status = "canceled"
    BY <1>2, <1>3 DEF Handled, User
  <2> HIDE DEF new
  <2>2. sub.status = "canceled"
    BY <1>1, <1>3
  <2> QED
    BY <2>1, <2>2, FitsByColumn DEF PlanColumns
<1>4. CASE e.kind # "deleted"
  <2>1. PICK p \in {sub.plan, sub.meta[1]}, cy \in Cycles, st \in {"none", "active", "canceled", "paid"} :
          new = Granted(user, p, cy, st)
    <3>1. CASE e.kind = "checkout"
      BY <1>1, <1>2, <3>1 DEF Handled
    <3>2. CASE e.kind = "invoice" /\ retrieved
      BY <1>1, <1>2, <3>2 DEF Handled
    <3>3. CASE e.kind = "invoice" /\ ~retrieved
      BY <1>1, <1>2, <3>3 DEF Handled
    <3>4. CASE e.kind = "updated"
      BY <1>1, <1>2, <3>4 DEF Handled
    <3> QED
      BY <1>2, <1>4, <3>1, <3>2, <3>3, <3>4 DEF Kinds
  <2> HIDE DEF new
  <2>2. new.plan = p /\ new.cycle = cy
    BY <1>2, <2>1 DEF Granted, User
  <2>3. sub.status = "active"
    BY <1>1, <1>2, <1>4
  <2> QED
    BY <2>2, <2>3, FitsByColumn DEF PlanColumns
<1> QED
  BY <1>3, <1>4

\* Of a finite number of batches, the newest has their number.
LEMMA SendBatch ==
  ASSUME BatchInv, NEW kinds, kinds # {}, NEW s, Send(kinds, s)
  PROVE  Batches' = Batches + 1 /\ Batches' \in Nat /\ {e.batch : e \in events'} = 1 .. Batches'
PROOF
<1> DEFINE n == Batches
           sent == {[kind |-> k, batch |-> n + 1, sub |-> s] : k \in kinds}
<1>1. n \in Nat /\ {e.batch : e \in events} = 1 .. n
  BY DEF BatchInv
<1>2. events' = events \union sent
  BY DEF Send
<1>3. \A e \in sent : e.batch = n + 1
  OBVIOUS
<1>4. sent # {}
  OBVIOUS
<1> HIDE DEF n, sent
<1>5. {e.batch : e \in events'} = {e.batch : e \in events} \union {n + 1}
  BY <1>2, <1>3, <1>4
<1>6. {e.batch : e \in events'} = 1 .. (n + 1)
  BY <1>1, <1>5
<1>7. Cardinality(1 .. (n + 1)) = n + 1
  BY <1>1, FS_Interval
<1>8. Batches' = n + 1
  BY <1>6, <1>7 DEF Batches
<1> QED
  BY <1>1, <1>6, <1>8 DEF n

LEMMA SendPlan ==
  ASSUME TypeOK, BatchInv, PlanInv, NEW kinds \in SUBSET Kinds, NEW s \in Sub, Send(kinds, s), s.status # "none",
         \A k \in kinds : k = "deleted" <=> s.status = "canceled", \E k \in kinds : k # "invoice"
  PROVE  BatchInv' /\ PlanInv'
PROOF
<1> DEFINE sent == {[kind |-> k, batch |-> Batches + 1, sub |-> s] : k \in kinds}
<1>1. /\ sub' = s /\ events' = events \union sent /\ pending' = pending \union sent
      /\ UNCHANGED <<user, hooks, job>>
  BY DEF Send
<1>2. Batches' = Batches + 1 /\ Batches' \in Nat /\ {e.batch : e \in events'} = 1 .. Batches'
  BY SendBatch
<1>3. Batches \in Nat /\ \A e \in events : e.batch \in 1 .. Batches
  BY DEF BatchInv
<1>4. \A e \in sent : e.batch = Batches + 1 /\ e.sub = s /\ e.kind \in kinds
  OBVIOUS
<1>5. \E e \in sent : e.kind # "invoice"
  <2>1. PICK k \in kinds : k # "invoice"
    OBVIOUS
  <2>2. [kind |-> k, batch |-> Batches + 1, sub |-> s] \in sent
    OBVIOUS
  <2> QED
    BY <2>1, <2>2
<1> HIDE DEF sent
<1>6. \A h \in hooks : h.event \in pending /\ h.event \in events
  BY DEF TypeOK
<1>7. \A e \in events' : Newest(e)' <=> e \in sent
  BY <1>1, <1>2, <1>3, <1>4 DEF Newest
<1>8. BatchInv'
  <2>1. ASSUME NEW e \in (events' \ pending') \union {h.event : h \in hooks'}, NEW f \in pending'
        PROVE  e.batch <= f.batch
    <3>1. e \in (events \ pending) \union {h.event : h \in hooks} /\ e \in events
      BY <1>1, <1>6, <2>1
    <3>2. CASE f \in pending
      BY <3>1, <3>2 DEF BatchInv
    <3>3. CASE f \in sent
      BY <1>3, <1>4, <3>1, <3>3
    <3> QED
      BY <1>1, <3>2, <3>3
  <2>2. ASSUME NEW e \in events', Newest(e)'
        PROVE  e.sub = sub' /\ (e.kind = "deleted" <=> sub'.status = "canceled")
    BY <1>1, <1>4, <1>7, <2>2
  <2>3. sub'.status # "none" /\ \E e \in events' : Newest(e)' /\ e.kind # "invoice"
    BY <1>1, <1>5, <1>7
  <2> QED
    BY <1>2, <2>1, <2>2, <2>3 DEF BatchInv
<1>9. PlanInv'
  <2>1. \A h \in hooks' : ~Newest(h.event)'
    BY <1>1, <1>2, <1>3, <1>6 DEF Newest
  <2>2. \A e \in events' \ pending' : ~Newest(e)'
    BY <1>1, <1>7
  <2>3. events' # {}
    BY <1>1, <1>5
  <2> QED
    BY <1>1, <2>1, <2>2, <2>3 DEF PlanInv
<1> QED
  BY <1>8, <1>9

LEMMA PlanInit == Init => BatchInv /\ PlanInv
PROOF
<1> SUFFICES ASSUME Init PROVE BatchInv /\ PlanInv
  OBVIOUS
<1>1. events = {} /\ pending = {} /\ hooks = {} /\ job = Idle
  BY DEF Init
<1>2. Batches = 0
  <2>1. {e.batch : e \in events} = {}
    BY <1>1
  <2> QED
    BY <2>1, FS_EmptySet DEF Batches
<1>3. BatchInv
  BY <1>1, <1>2 DEF BatchInv
<1>4. RowFits
  <2> DEFINE p == (CHOOSE price \in Prices : price[2] = "annually")[1]
  <2>1. \/ sub.status = "none" /\ user.plan = "free"
        \/ sub.status = "active" /\ sub.plan = p /\ user.plan = p /\ user.cycle = "annually"
    <3> DEFINE new == [plan |-> "free", status |-> "none", cycle |-> "none", credits |-> Allowance["free"],
                       bonus |-> Bonus, customer |-> FALSE, refreshed |-> 0]
               paid == [new EXCEPT !.plan = p, !.status = "active", !.cycle = "annually",
                                   !.credits = Allowance[p], !.customer = TRUE]
    <3>1. new.plan = "free" /\ paid.plan = p /\ paid.cycle = "annually"
      OBVIOUS
    <3>2. \/ sub = Subscribed(p, "annually", "none") /\ user = new
          \/ sub = Subscribed(p, "annually", "active") /\ user = paid
      BY DEF Init
    <3> HIDE DEF p, new, paid
    <3> QED
      BY <3>1, <3>2 DEF Subscribed
  <2> HIDE DEF p
  <2>2. CASE sub.status = "none" /\ user.plan = "free"
    BY <2>2, FitsByColumn DEF RowFits, PlanColumns
  <2>3. CASE sub.status = "active" /\ sub.plan = p /\ user.plan = p /\ user.cycle = "annually"
    BY <2>3, FitsByColumn DEF RowFits, PlanColumns, Cycles
  <2> QED
    BY <2>1, <2>2, <2>3
<1> QED
  BY <1>1, <1>3, <1>4 DEF PlanInv

\* A step that leaves Stripe's side alone, and the batches with it.
LEMMA BatchKept ==
  ASSUME UNCHANGED <<sub, events>>
  PROVE  /\ Batches' = Batches /\ \A e : Newest(e)' <=> Newest(e)
         /\ \A c, v : Fits(c, v)' <=> Fits(c, v')
PROOF BY DEF Batches, Newest, Fits

\* A step that may drop hooks and acknowledge what it has just recorded, and leaves the plan of the row alone.
LEMMA PlanKept ==
  ASSUME TypeOK, BatchInv, PlanInv, UNCHANGED <<sub, events>>, pending' \subseteq pending,
         \A c \in PlanColumns : user'[c] = user[c],
         \A h \in hooks' : h \in hooks \/ (h.at # "loaded" /\ \E g \in hooks : g.event = h.event /\ g.at # "loaded"),
         \A e \in pending \ pending' : \/ e.kind = "invoice" /\ \A f \in pending : e.batch <= f.batch
                                       \/ \E h \in hooks : h.event = e /\ h.at # "loaded",
         job' = job \/ job' = Idle \/ \A c \in PlanColumns : job'.new[c] = job'.old[c]
  PROVE  BatchInv' /\ PlanInv'
PROOF
<1>1. /\ Batches' = Batches /\ \A e : Newest(e)' <=> Newest(e)
      /\ \A c, v : Fits(c, v)' <=> Fits(c, v')
  BY BatchKept
<1>2. RowFits => RowFits'
  BY <1>1, ZenonT(40) DEF RowFits, Fits
<1>3. \A h \in hooks : h.event \in pending /\ h.event \in events
  BY DEF TypeOK
<1>4. BatchInv'
  <2>1. ASSUME NEW e \in (events' \ pending') \union {h.event : h \in hooks'}, NEW f \in pending'
        PROVE  e.batch <= f.batch
    <3>1. CASE e \in (events \ pending) \union {h.event : h \in hooks}
      BY <3>1 DEF BatchInv
    <3>2. CASE e \notin (events \ pending) \union {h.event : h \in hooks}
      BY <2>1, <3>2
    <3> QED
      BY <3>1, <3>2
  <2> QED
    BY <1>1, <2>1 DEF BatchInv
<1>5. PlanInv'
  <2>1. ASSUME NEW h \in hooks', Newest(h.event)'
        PROVE  IF h.at = "loaded"
               THEN \A c \in PlanColumns : Fits(c, h.new[c])' /\ (Fits(c, user[c])' \/ user'[c] = h.old[c])
               ELSE RowFits'
    <3>1. CASE h \in hooks
      <4>1. Newest(h.event)
        BY <1>1, <2>1
      <4>2. CASE h.at = "loaded"
        <5>1. \A c \in PlanColumns : Fits(c, h.new[c]) /\ (Fits(c, user[c]) \/ user[c] = h.old[c])
          BY <3>1, <4>1, <4>2 DEF PlanInv
        <5> QED
          BY <4>2, <5>1, ZenonT(40) DEF Fits
      <4>3. CASE h.at # "loaded"
        BY <1>2, <3>1, <4>1, <4>3 DEF PlanInv
      <4> QED
        BY <4>2, <4>3
    <3>2. CASE h \notin hooks
      <4>1. PICK g \in hooks : g.event = h.event /\ g.at # "loaded"
        BY <2>1, <3>2
      <4>2. RowFits
        BY <1>1, <2>1, <4>1 DEF PlanInv
      <4> QED
        BY <1>2, <2>1, <3>2, <4>2
    <3> QED
      BY <3>1, <3>2
  <2>2. ASSUME NEW e \in events' \ pending', Newest(e)', e.kind # "invoice"
        PROVE  RowFits'
    <3>1. CASE e \in pending
      <4>1. PICK h \in hooks : h.event = e /\ h.at # "loaded"
        BY <2>2, <3>1
      <4> QED
        BY <1>1, <1>2, <2>2, <4>1 DEF PlanInv
    <3>2. CASE e \notin pending
      BY <1>1, <1>2, <2>2, <3>2 DEF PlanInv
    <3> QED
      BY <3>1, <3>2
  <2>3. events' = {} => RowFits'
    BY <1>2 DEF PlanInv
  <2>4. job' # Idle => \A c \in PlanColumns : job'.new[c] = job'.old[c]
    BY DEF PlanInv
  <2> QED
    BY <2>1, <2>2, <2>3, <2>4 DEF PlanInv
<1> QED
  BY <1>4, <1>5

\* A commit of a hook, the only step that changes the plan of the row.
LEMMA ApplyPlan ==
  ASSUME TypeOK, LoadInv, BatchInv, PlanInv, NEW h \in hooks, Apply(h)
  PROVE  BatchInv' /\ PlanInv'
PROOF
<1>1. /\ h.at = "loaded" /\ Commit(h.old, h.new) /\ UNCHANGED <<sub, events, pending, job>>
      /\ hooks' = (hooks \ {h}) \union {[at |-> "applied", event |-> h.event]}
  BY DEF Apply
<1>2. /\ Batches' = Batches /\ \A e : Newest(e)' <=> Newest(e)
      /\ \A c, v : Fits(c, v)' <=> Fits(c, v')
  BY <1>1, BatchKept
<1>3. user \in User /\ h.old \in User /\ h.new \in User
  BY <1>1 DEF TypeOK, LoadInv
<1>4. \A c \in PlanColumns : user'[c] = IF h.new[c] # h.old[c] THEN h.new[c] ELSE user[c]
  BY <1>1, <1>3, CommitColumns
<1>5. \A g \in hooks : g.event \in pending /\ g.event \in events
  BY DEF TypeOK
<1>6. BatchInv'
  <2>1. {g.event : g \in hooks'} = {g.event : g \in hooks}
    <3>1. \A g \in hooks' : \E f \in hooks : f.event = g.event
      BY <1>1
    <3>2. \A g \in hooks : \E f \in hooks' : f.event = g.event
      <4>1. [at |-> "applied", event |-> h.event] \in hooks' /\ [at |-> "applied", event |-> h.event].event = h.event
        BY <1>1
      <4>2. \A g \in hooks : g \in hooks' \/ g = h
        BY <1>1
      <4> QED
        BY <4>1, <4>2
    <3> QED
      BY <3>1, <3>2
  <2> QED
    BY <1>1, <1>2, <2>1 DEF BatchInv
<1>7. Newest(h.event) => RowFits'
  <2> SUFFICES ASSUME Newest(h.event), NEW c \in PlanColumns PROVE Fits(c, user[c])'
    BY DEF RowFits
  <2>1. Fits(c, h.new[c]) /\ (Fits(c, user[c]) \/ user[c] = h.old[c])
    BY <1>1 DEF PlanInv
  <2>2. Fits(c, user'[c])
    BY <1>4, <2>1
  <2> QED
    BY <1>1, <2>2 DEF Fits
<1>8. ASSUME NEW e \in (events \ pending) \union {g.event : g \in hooks}, Newest(e)
      PROVE  Newest(h.event)
  <2>1. e.batch <= h.event.batch
    BY <1>5 DEF BatchInv
  <2>2. h.event.batch \in 1 .. Batches /\ Batches \in Nat
    BY <1>5 DEF BatchInv
  <2> QED
    BY <1>8, <2>1, <2>2 DEF Newest
<1>9. PlanInv'
  <2>1. ASSUME NEW g \in hooks', Newest(g.event)'
        PROVE  IF g.at = "loaded"
               THEN \A c \in PlanColumns : Fits(c, g.new[c])' /\ (Fits(c, user[c])' \/ user'[c] = g.old[c])
               ELSE RowFits'
    <3>1. g.event \in {f.event : f \in hooks} /\ Newest(g.event)
      BY <1>1, <1>2, <2>1
    <3>2. RowFits'
      BY <1>7, <1>8, <3>1
    <3>3. CASE g.at = "loaded"
      <4>1. g \in hooks
        BY <1>1, <3>3
      <4>2. \A c \in PlanColumns : Fits(c, g.new[c])
        BY <3>1, <3>3, <4>1 DEF PlanInv
      <4>3. \A c \in PlanColumns : Fits(c, g.new[c])'
        BY <1>1, <4>2 DEF Fits
      <4> QED
        BY <3>2, <3>3, <4>3 DEF RowFits
    <3> QED
      BY <3>2, <3>3
  <2>2. ASSUME NEW e \in events' \ pending', Newest(e)', e.kind # "invoice"
        PROVE  RowFits'
    BY <1>1, <1>2, <1>7, <1>8, <2>2
  <2>3. events' # {}
    BY <1>1, <1>5
  <2> QED
    BY <1>1, <2>1, <2>2, <2>3 DEF PlanInv
<1> QED
  BY <1>6, <1>9

LEMMA DeliverPlan ==
  ASSUME TypeOK, BatchInv, PlanInv, NEW e \in pending, NEW retrieved \in BOOLEAN, Deliver(e, retrieved)
  PROVE  BatchInv' /\ PlanInv'
PROOF
<1>1. /\ UNCHANGED <<user, sub, events, job>> /\ e \in events
      /\ \A f \in pending : e.batch <= f.batch
  BY DEF Deliver, Deliverable, TypeOK
<1>2. CASE Unknown(e, retrieved)
  <2>1. pending' = pending \ {e} /\ hooks' = hooks /\ e.kind = "invoice"
    BY <1>2 DEF Deliver, Unknown
  <2> QED
    BY <1>1, <2>1, PlanKept
<1>3. CASE ~Unknown(e, retrieved)
  <2> DEFINE load == [at |-> "loaded", event |-> e, old |-> user, new |-> Handled(e, user, sub, retrieved)]
  <2>1. hooks' = hooks \union {load} /\ pending' = pending
    BY <1>3 DEF Deliver
  <2>2. /\ Batches' = Batches /\ \A x : Newest(x)' <=> Newest(x)
        /\ \A c, v : Fits(c, v)' <=> Fits(c, v')
    BY <1>1, BatchKept
  <2>3. load.event = e /\ load.at = "loaded" /\ load.old = user /\ load.new = Handled(e, user, sub, retrieved)
    OBVIOUS
  <2> HIDE DEF load
  <2>4. BatchInv'
    <3>1. ASSUME NEW x \in (events' \ pending') \union {h.event : h \in hooks'}, NEW f \in pending'
          PROVE  x.batch <= f.batch
      <4>1. x \in (events \ pending) \union {h.event : h \in hooks} \/ x = e
        BY <1>1, <2>1, <2>3
      <4> QED
        BY <1>1, <2>1, <4>1 DEF BatchInv
    <3> QED
      BY <1>1, <2>2, <3>1 DEF BatchInv
  <2>5. ASSUME NEW h \in hooks', Newest(h.event)'
        PROVE  IF h.at = "loaded"
               THEN \A c \in PlanColumns : Fits(c, h.new[c])' /\ (Fits(c, user[c])' \/ user'[c] = h.old[c])
               ELSE RowFits'
    <3>1. Newest(h.event)
      BY <2>2, <2>5
    <3>2. CASE h \in hooks
      <4>1. IF h.at = "loaded"
            THEN \A c \in PlanColumns : Fits(c, h.new[c]) /\ (Fits(c, user[c]) \/ user[c] = h.old[c])
            ELSE RowFits
        BY <3>1, <3>2 DEF PlanInv
      <4> QED
        BY <1>1, <4>1 DEF RowFits, Fits
    <3>3. CASE h = load
      <4>1. \A c \in PlanColumns : Fits(c, h.new[c])
        BY <1>1, <2>3, <3>1, <3>3, HandledFits
      <4> QED
        BY <1>1, <2>3, <3>3, <4>1 DEF Fits
    <3> QED
      BY <2>1, <3>2, <3>3
  <2>6. \A x \in events' \ pending' : Newest(x)' /\ x.kind # "invoice" => RowFits'
    BY <1>1, <2>1, <2>2 DEF PlanInv, RowFits, Fits
  <2>7. events' # {}
    BY <1>1
  <2> QED
    BY <1>1, <2>4, <2>5, <2>6, <2>7 DEF PlanInv
<1> QED
  BY <1>2, <1>3

LEMMA PlanStep ==
  ASSUME TypeOK, LoadInv, BatchInv, PlanInv, [Next]_vars
  PROVE  BatchInv' /\ PlanInv'
PROOF
<1>u. user \in User /\ sub \in Sub
  BY DEF TypeOK
<1>1. CASE Renew
  <2>1. Send({"invoice", "updated"}, sub) /\ sub.status = "active"
    BY <1>1 DEF Renew
  <2> QED
    BY <1>u, <2>1, SendPlan DEF Kinds
<1>2. CASE Cancel
  <2> DEFINE s == [sub EXCEPT !.status = "canceled"]
  <2>1. Send({"deleted"}, s)
    BY <1>2 DEF Cancel
  <2>2. s \in Sub /\ s.status = "canceled"
    BY <1>u DEF Sub
  <2> HIDE DEF s
  <2> QED
    BY <2>1, <2>2, SendPlan DEF Kinds
<1>3. ASSUME NEW price \in Prices, Checkout(price[1], price[2]) PROVE BatchInv' /\ PlanInv'
  <2> DEFINE s == Subscribed(price[1], price[2], "active")
  <2>1. Send({"checkout", "invoice"}, s)
    BY <1>3 DEF Checkout
  <2>2. price[1] \in Plans /\ price[2] \in Cycles
    BY PlanAssumption
  <2>3. s \in Sub /\ s.status = "active"
    BY <2>2 DEF Sub, Subscribed
  <2> HIDE DEF s
  <2> QED
    BY <2>1, <2>3, SendPlan DEF Kinds
<1>4. ASSUME NEW price \in Prices, ChangePlan(price[1], price[2]) PROVE BatchInv' /\ PlanInv'
  <2> DEFINE s == [sub EXCEPT !.plan = price[1], !.cycle = price[2]]
  <2>1. Send({"updated"}, s) /\ sub.status = "active"
    BY <1>4 DEF ChangePlan
  <2>2. price[1] \in Plans /\ price[2] \in Cycles
    BY PlanAssumption
  <2>3. s \in Sub /\ s.status = "active"
    BY <1>u, <2>1, <2>2 DEF Sub
  <2> HIDE DEF s
  <2> QED
    BY <2>1, <2>3, SendPlan DEF Kinds
<1>5. ASSUME NEW h \in hooks, Record(h) \/ Acknowledge(h) \/ HookLost(h) PROVE BatchInv' /\ PlanInv'
  <2>1. UNCHANGED <<user, sub, events, job>> /\ pending' \subseteq pending
    BY <1>5 DEF Record, Acknowledge, HookLost
  <2>2. \A g \in hooks' : g \in hooks \/ (g.at # "loaded" /\ \E f \in hooks : f.event = g.event /\ f.at # "loaded")
    BY <1>5 DEF Record, Acknowledge, HookLost
  <2>3. \A e \in pending \ pending' : \E g \in hooks : g.event = e /\ g.at # "loaded"
    BY <1>5 DEF Record, Acknowledge, HookLost
  <2> QED
    BY <2>1, <2>2, <2>3, PlanKept
<1>6. CASE StartFree \/ StartAnnual
  <2>1. /\ UNCHANGED <<user, sub, events, pending, hooks>>
        /\ job'.old = user /\ job'.new \in {Freed(user), Refreshed(user, month)}
    BY <1>6 DEF StartFree, StartAnnual
  <2>2. \A c \in PlanColumns : job'.new[c] = job'.old[c]
    BY <1>u, <2>1, RefreshedColumns
  <2> QED
    BY <2>1, <2>2, PlanKept
<1>7. CASE JobCommit
  <2>1. UNCHANGED <<sub, events, pending, hooks>> /\ job # Idle /\ job' = Idle /\ Commit(job.old, job.new)
    BY <1>7 DEF JobCommit
  <2>2. job.old \in User /\ job.new \in User
    BY <2>1 DEF TypeOK
  <2>3. \A c \in PlanColumns : user'[c] = user[c]
    BY <1>u, <2>1, <2>2, CommitColumns DEF PlanInv
  <2> QED
    BY <2>1, <2>3, PlanKept
<1>8. ASSUME NEW cost \in Costs, Deduct(cost) PROVE BatchInv' /\ PlanInv'
  <2>1. \A c \in PlanColumns : user'[c] = user[c]
    BY <1>u, <1>8, DeductedColumns DEF Deduct
  <2> QED
    BY <1>8, <2>1, PlanKept DEF Deduct
<1>9. CASE NextMonth \/ UNCHANGED vars
  BY <1>9, PlanKept DEF NextMonth, vars
<1> QED
  BY NextCases, ApplyPlan, DeliverPlan, <1>1, <1>2, <1>3, <1>4, <1>5, <1>6, <1>7, <1>8, <1>9

LEMMA PlanSuffices == TypeOK /\ BatchInv /\ PlanInv => PlanFollowsStripe
PROOF
<1> SUFFICES ASSUME TypeOK, BatchInv, PlanInv, pending = {} PROVE PlanFollowsStripe
  BY DEF PlanFollowsStripe
<1>1. RowFits
  BY DEF BatchInv, PlanInv
<1>2. /\ user.plan \in IF sub.status = "active" THEN {sub.plan, sub.meta[1]} ELSE {"free"}
      /\ sub.status = "active" => user.cycle \in Cycles
      /\ sub.status = "canceled" => user.status = "canceled"
  BY <1>1, FitsByColumn DEF RowFits, PlanColumns
<1>3. sub.status \in {"none", "active", "canceled"}
  BY DEF TypeOK, Sub
<1>4. CASE sub.status = "none"
  BY <1>2, <1>4 DEF PlanFollowsStripe
<1>5. CASE sub.status = "active"
  BY <1>2, <1>5 DEF PlanFollowsStripe
<1>6. CASE sub.status = "canceled"
  BY <1>2, <1>6 DEF PlanFollowsStripe
<1> QED
  BY <1>3, <1>4, <1>5, <1>6

-----------------------------------------------------------------------------
(* The theorems. *)

\* Types and the inductive invariants hold in every reachable state.
LEMMA InvCorrect == Spec => [](TypeOK /\ LoadInv /\ RefreshInv /\ FitInv)
PROOF
<1> DEFINE Inv == TypeOK /\ LoadInv /\ RefreshInv /\ FitInv
<1>1. Inv /\ [Next]_vars => Inv'
  BY TypeStep, RefreshStep, FitStep
<1>2. Init => Inv
  BY InitInv
<1> QED
  BY <1>1, <1>2, PTL DEF Spec

\* TypeOK: every reachable state is well typed; no balance is negative, whatever is deducted meanwhile.
THEOREM TypeCorrect == Spec => []TypeOK
PROOF BY InvCorrect, PTL

\* OneRefreshPerMonth: the annual job grants once a month, whatever the webhooks do to the row.
THEOREM RefreshesOnce == Spec => []OneRefreshPerMonth
PROOF
<1>1. TypeOK /\ RefreshInv => OneRefreshPerMonth
  BY DEF TypeOK, RefreshInv, OneRefreshPerMonth
<1> QED
  BY <1>1, InvCorrect, PTL

\* CreditsFitPlan: however often an event is delivered, the credits stay within the allowance, unless
\* two had the row loaded at the same time.
THEOREM CreditsAreBounded == Spec => []CreditsFitPlan
PROOF
<1>1. FitInv => CreditsFitPlan
  BY DEF FitInv
<1> QED
  BY <1>1, InvCorrect, PTL

\* PlanFollowsStripe: when every event is acknowledged the row has the plan of the subscription as of the last
\* batch, or of its checkout, however the handlers of a batch, the jobs, deductions and the redeliveries within
\* it were interleaved; batches come one after the other.
THEOREM PlanIsStripes == Spec => []PlanFollowsStripe
PROOF
<1>1. TypeOK /\ LoadInv /\ BatchInv /\ PlanInv /\ [Next]_vars => (BatchInv /\ PlanInv)'
  BY PlanStep
<1> QED
  BY <1>1, PlanInit, PlanSuffices, InvCorrect, PTL DEF Spec

-----------------------------------------------------------------------------
(* The books. *)

\* Nothing takes the customer from a row, and every event but the end of a subscription brings him.
LEMMA CustomerStays ==
  ASSUME NEW u \in User
  PROVE  /\ \A e \in Event, now \in Sub, retrieved \in BOOLEAN :
              (u.customer \/ e.kind # "deleted") => Handled(e, u, now, retrieved).customer
         /\ \A n : u.customer => Freed(u).customer /\ Refreshed(u, n).customer
         /\ \A cost \in Costs : Deducted(u, cost).customer = u.customer
PROOF
<1>1. ASSUME NEW e \in Event, NEW now \in Sub, NEW retrieved \in BOOLEAN, u.customer \/ e.kind # "deleted"
      PROVE  Handled(e, u, now, retrieved).customer
  <2>1. \A p, c, status : Granted(u, p, c, status).customer
    BY DEF Granted, User
  <2>2. e.kind \in {"checkout", "invoice", "updated", "deleted"}
    BY DEF Event, Kinds
  <2>3. CASE e.kind = "deleted"
    BY <1>1, <2>3 DEF Handled, User
  <2>4. CASE e.kind # "deleted"
    BY <2>1, <2>2, <2>4 DEF Handled
  <2> QED
    BY <2>3, <2>4
<1>2. \A n : u.customer => Freed(u).customer /\ Refreshed(u, n).customer
  BY DEF Freed, Refreshed, User
<1>3. ASSUME NEW cost \in Costs PROVE Deducted(u, cost).customer = u.customer
  BY DEF Deducted, User
<1> QED
  BY <1>1, <1>2, <1>3

\* A commit writes the customer of what it has made of the row, or leaves the row's.
LEMMA CommitCustomer ==
  ASSUME user \in User, NEW old \in User, NEW new \in User, Commit(old, new), old.customer => user.customer /\ new.customer
  PROVE  /\ user.customer => user'.customer
         /\ new.customer => user'.customer
PROOF
<1>1. user'.customer = IF new.customer # old.customer THEN new.customer ELSE user.customer
  BY DEF Commit, User
<1>2. user.customer \in BOOLEAN /\ old.customer \in BOOLEAN /\ new.customer \in BOOLEAN
  BY DEF User
<1> QED
  BY <1>1, <1>2

\* A step that does not send, whose writer leaves the customer in the row, and who loads one brings him.
LEMMA BookKept ==
  ASSUME TypeOK, BookInv, UNCHANGED <<sub, events>>,
         user.customer => user'.customer, ledger \subseteq ledger',
         \A h \in hooks' : h.at = "recorded" => h \in hooks \/ h.event \in ledger',
         \A h \in Loads' : h \in Loads \/ (h.old = user /\ (user.customer => h.new.customer)),
         \A h \in hooks' : h.event.kind = "checkout" =>
             h \in hooks \/ IF h.at = "loaded" THEN h.new.customer ELSE user'.customer,
         \A e \in pending \ pending' : e.kind = "checkout" => user'.customer
  PROVE  BookInv'
PROOF
<1>1. \A h \in hooks' : h.at = "recorded" => h.event \in ledger'
  BY DEF BookInv
<1>2. ASSUME NEW h \in Loads', h.old.customer PROVE user'.customer /\ h.new.customer
  BY <1>2 DEF BookInv
<1>3. ASSUME NEW h \in hooks', h.event.kind = "checkout" PROVE IF h.at = "loaded" THEN h.new.customer ELSE user'.customer
  BY <1>3 DEF BookInv
<1>4. ASSUME NEW e \in events' \ pending', e.kind = "checkout" PROVE user'.customer
  BY <1>4 DEF BookInv
<1>5. user'.customer \/ IF events' = {} THEN sub'.status = "none" ELSE \E e \in events' : e.kind = "checkout" /\ e.batch = 1
  BY DEF BookInv
<1> QED
  BY <1>1, <1>2, <1>3, <1>4, <1>5 DEF BookInv

\* The first batch has a checkout, unless the customer is known.
LEMMA BookSent ==
  ASSUME TypeOK, BookInv, NEW kinds, NEW s, Send(kinds, s), kinds # {},
         sub.status = "active" \/ "checkout" \in kinds
  PROVE  BookInv'
PROOF
<1> DEFINE sent == {[kind |-> k, batch |-> Batches + 1, sub |-> s] : k \in kinds}
<1>1. /\ UNCHANGED <<user, ledger, hooks, job>>
      /\ events' = events \union sent /\ pending' = pending \union sent
  BY DEF Send
<1>2. sent # {} /\ \A e \in sent : e.batch = Batches + 1
  <2> DEFINE n == Batches + 1
             new == {[kind |-> k, batch |-> n, sub |-> s] : k \in kinds}
  <2> HIDE DEF n
  <2>1. PICK k \in kinds : TRUE
    OBVIOUS
  <2>2. [kind |-> k, batch |-> n, sub |-> s] \in new
    OBVIOUS
  <2>3. new # {}
    BY <2>2
  <2>4. \A e \in new : e.batch = n
    OBVIOUS
  <2> HIDE DEF new
  <2> QED
    BY <2>3, <2>4 DEF n, new
<1>3. "checkout" \in kinds => \E e \in sent : e.kind = "checkout"
  <2> SUFFICES ASSUME "checkout" \in kinds PROVE [kind |-> "checkout", batch |-> Batches + 1, sub |-> s] \in sent
    OBVIOUS
  <2> QED
    OBVIOUS
<1> HIDE DEF sent
<1>4. Loads' = Loads
  BY <1>1 DEF Loads
<1>5. user.customer \/ \E e \in events' : e.kind = "checkout" /\ e.batch = 1
  <2>1. CASE events # {}
    BY <1>1, <2>1 DEF BookInv
  <2>2. CASE events = {} /\ ~user.customer
    <3>1. "checkout" \in kinds
      BY <2>2 DEF BookInv
    <3>2. {e.batch : e \in events} = {}
      BY <2>2
    <3>3. Batches = 0
      BY <3>2, FS_EmptySet DEF Batches
    <3> QED
      BY <1>1, <1>2, <1>3, <3>1, <3>3
  <2> QED
    BY <2>1, <2>2
<1>6. events' # {}
  BY <1>1, <1>2
<1>7. events' \ pending' \subseteq events \ pending
  BY <1>1
<1> QED
  BY <1>1, <1>4, <1>5, <1>6, <1>7 DEF BookInv

\* Every step keeps the customer.
LEMMA BookStep ==
  ASSUME TypeOK, LoadInv, BookInv, [Next]_vars
  PROVE  BookInv'
PROOF
<1>u. user \in User /\ sub \in Sub
  BY DEF TypeOK
<1>1. ASSUME Renew \/ Cancel PROVE BookInv'
  <2>1. PICK kinds, s : Send(kinds, s) /\ kinds # {} /\ sub.status = "active"
    BY <1>1 DEF Renew, Cancel
  <2> QED
    BY <2>1, BookSent
<1>2. ASSUME NEW p, NEW c, Checkout(p, c) \/ ChangePlan(p, c) PROVE BookInv'
  <2>1. PICK kinds, s : Send(kinds, s) /\ kinds # {} /\ (sub.status = "active" \/ "checkout" \in kinds)
    BY <1>2 DEF Checkout, ChangePlan
  <2> QED
    BY <2>1, BookSent
<1>3. ASSUME NEW e \in pending, NEW retrieved \in BOOLEAN, Deliver(e, retrieved) PROVE BookInv'
  <2>1. UNCHANGED <<user, sub, events, ledger, job>> /\ e \in Event
    BY <1>3 DEF Deliver, TypeOK
  <2>2. CASE Unknown(e, retrieved)
    <3>1. hooks' = hooks /\ pending' = pending \ {e} /\ e.kind = "invoice"
      BY <1>3, <2>2 DEF Deliver, Unknown
    <3>2. Loads' = Loads
      BY <2>1, <3>1 DEF Loads
    <3> QED
      BY <2>1, <3>1, <3>2, BookKept DEF BookInv
  <2>3. CASE ~Unknown(e, retrieved)
    <3> DEFINE load == [at |-> "loaded", event |-> e, old |-> user, new |-> Handled(e, user, sub, retrieved)]
    <3>1. hooks' = hooks \union {load} /\ pending' = pending
      BY <1>3, <2>3 DEF Deliver
    <3>2. load.at = "loaded" /\ load.event = e /\ load.old = user /\ load.new = Handled(e, user, sub, retrieved)
      OBVIOUS
    <3> HIDE DEF load
    <3>3. user.customer \/ e.kind # "deleted" => load.new.customer
      BY <1>u, <2>1, <3>2, CustomerStays
    <3>4. Loads' \subseteq Loads \union {load}
      BY <2>1, <3>1 DEF Loads
    <3> QED
      BY <2>1, <3>1, <3>2, <3>3, <3>4, BookKept
  <2> QED
    BY <2>2, <2>3
<1>4. ASSUME NEW h \in hooks, Apply(h) PROVE BookInv'
  <2> DEFINE done == [at |-> "applied", event |-> h.event]
  <2>1. /\ UNCHANGED <<sub, events, pending, ledger, job>> /\ h.at = "loaded" /\ Commit(h.old, h.new)
        /\ hooks' = (hooks \ {h}) \union {done}
    BY <1>4 DEF Apply
  <2>2. done.at = "applied" /\ done.event = h.event
    OBVIOUS
  <2> HIDE DEF done
  <2>3. h.old \in User /\ h.new \in User /\ h \in Loads
    BY <2>1, LoadsAre DEF LoadInv
  <2>4. (user.customer => user'.customer) /\ (h.new.customer => user'.customer)
    BY <1>u, <2>1, <2>3, CommitCustomer DEF BookInv
  <2>5. h.event.kind = "checkout" => h.new.customer
    BY <2>1 DEF BookInv
  <2>6. Loads' \subseteq Loads
    BY <2>1, <2>2 DEF Loads
  <2> QED
    BY <2>1, <2>2, <2>4, <2>5, <2>6, BookKept
<1>5. ASSUME NEW h \in hooks, Record(h) PROVE BookInv'
  <2> DEFINE done == [at |-> "recorded", event |-> h.event]
  <2>1. /\ UNCHANGED <<user, sub, events, pending, job>> /\ h.at = "applied" /\ ledger' = ledger \union {h.event}
        /\ hooks' = (hooks \ {h}) \union {done}
    BY <1>5 DEF Record
  <2>2. done.at = "recorded" /\ done.event = h.event
    OBVIOUS
  <2> HIDE DEF done
  <2>3. h.event.kind = "checkout" => user.customer
    BY <2>1 DEF BookInv
  <2>4. Loads' \subseteq Loads
    BY <2>1, <2>2 DEF Loads
  <2> QED
    BY <2>1, <2>2, <2>3, <2>4, BookKept
<1>6. ASSUME NEW h \in hooks, Acknowledge(h) \/ HookLost(h) PROVE BookInv'
  <2>1. UNCHANGED <<user, sub, events, ledger, job>> /\ hooks' \subseteq hooks
    BY <1>6 DEF Acknowledge, HookLost
  <2>2. \A e \in pending \ pending' : e.kind = "checkout" => user.customer
    BY <1>6 DEF Acknowledge, HookLost, BookInv
  <2>3. Loads' \subseteq Loads
    BY <2>1 DEF Loads
  <2> QED
    BY <2>1, <2>2, <2>3, BookKept
<1>7. ASSUME StartFree \/ StartAnnual PROVE BookInv'
  <2>1. /\ UNCHANGED <<user, sub, events, pending, ledger, hooks>>
        /\ job'.old = user /\ job'.new \in {Freed(user), Refreshed(user, month)}
    BY <1>7 DEF StartFree, StartAnnual
  <2>2. user.customer => job'.new.customer
    BY <1>u, <2>1, CustomerStays
  <2>3. Loads' \subseteq Loads \union {job'}
    BY <2>1 DEF Loads
  <2> QED
    BY <2>1, <2>2, <2>3, BookKept
<1>8. ASSUME JobCommit PROVE BookInv'
  <2>1. UNCHANGED <<sub, events, pending, ledger, hooks>> /\ job # Idle /\ job' = Idle /\ Commit(job.old, job.new)
    BY <1>8 DEF JobCommit
  <2>2. job.old \in User /\ job.new \in User /\ job \in Loads
    BY <2>1, LoadsAre DEF TypeOK
  <2>3. user.customer => user'.customer
    BY <1>u, <2>1, <2>2, CommitCustomer DEF BookInv
  <2>4. Loads' \subseteq Loads
    BY <2>1 DEF Loads
  <2> QED
    BY <2>1, <2>3, <2>4, BookKept
<1>9. ASSUME NEW cost \in Costs, Deduct(cost) PROVE BookInv'
  <2>1. UNCHANGED <<sub, events, pending, ledger, hooks, job>> /\ user'.customer = user.customer
    BY <1>u, <1>9, CustomerStays DEF Deduct
  <2>2. Loads' = Loads
    BY <2>1 DEF Loads
  <2> QED
    BY <2>1, <2>2, BookKept
<1>10. CASE NextMonth \/ UNCHANGED vars
  <2>1. UNCHANGED <<user, sub, events, pending, ledger, hooks, job>>
    BY <1>10 DEF NextMonth, vars
  <2>2. Loads' = Loads
    BY <2>1 DEF Loads
  <2> QED
    BY <2>1, <2>2, BookKept
<1> QED
  BY NextCases, <1>1, <1>2, <1>3, <1>4, <1>5, <1>6, <1>7, <1>8, <1>9, <1>10

\* The initial state has no event, and a subscriber is a customer.
LEMMA BookInit == Init => BookInv
PROOF
<1> SUFFICES ASSUME Init PROVE BookInv
  OBVIOUS
<1>1. Loads = {} /\ hooks = {} /\ events = {} /\ pending = {}
  BY DEF Init, Loads
<1>2. sub.status = "none" \/ user.customer
  <2> DEFINE p == (CHOOSE price \in Prices : price[2] = "annually")[1]
             new == [plan |-> "free", status |-> "none", cycle |-> "none", credits |-> Allowance["free"],
                     bonus |-> Bonus, customer |-> FALSE, refreshed |-> 0]
             paid == [new EXCEPT !.plan = p, !.status = "active", !.cycle = "annually", !.credits = Allowance[p],
                                 !.customer = TRUE]
  <2>1. sub = Subscribed(p, "annually", "none") \/ user = paid
    BY DEF Init
  <2>2. paid.customer
    OBVIOUS
  <2> HIDE DEF p, new, paid
  <2> QED
    BY <2>1, <2>2 DEF Subscribed
<1> QED
  BY <1>1, <1>2 DEF BookInv

\* Whoever is acknowledged has been recorded, or told of nobody.
LEMMA BooksStep ==
  ASSUME TypeOK, BatchInv, BookInv, BooksAreComplete, [Next]_vars
  PROVE  BooksAreComplete'
PROOF
<1>1. ledger \subseteq ledger'
  BY NextCases DEF Renew, Cancel, StartFree, StartAnnual, JobCommit, NextMonth, Checkout, ChangePlan, Send, Deliver, Apply,
                   Record, Acknowledge, HookLost, Deduct, vars
<1>2. events' \ pending' \subseteq (events \ pending) \union (pending \ pending')
  BY NextCases DEF Renew, Cancel, StartFree, StartAnnual, JobCommit, NextMonth, Checkout, ChangePlan, Send, Deliver, Apply,
                   Record, Acknowledge, HookLost, Deduct, vars
<1>3. ASSUME NEW x \in pending \ pending' PROVE x \in ledger \/ (x.kind = "invoice" /\ x.batch = 1)
  <2>1. \/ \E e \in pending, retrieved \in BOOLEAN : Deliver(e, retrieved)
        \/ \E h \in hooks : Acknowledge(h)
    BY <1>3, NextCases DEF Renew, Cancel, StartFree, StartAnnual, JobCommit, NextMonth, Checkout, ChangePlan, Send, Apply,
                   Record, HookLost, Deduct, vars
  <2>2. ASSUME NEW h \in hooks, Acknowledge(h) PROVE x \in ledger
    BY <1>3, <2>2 DEF Acknowledge, BookInv
  <2>3. ASSUME NEW e \in pending, NEW retrieved \in BOOLEAN, Deliver(e, retrieved) PROVE x.kind = "invoice" /\ x.batch = 1
    <3>1. x = e /\ e.kind = "invoice" /\ ~user.customer
      BY <1>3, <2>3 DEF Deliver, Unknown
    <3>2. PICK c \in events : c.kind = "checkout" /\ c.batch = 1
      BY <3>1 DEF BookInv, TypeOK
    <3>3. c \in pending
      BY <3>1, <3>2 DEF BookInv
    <3>4. e.batch <= 1 /\ e.batch \in 1 .. MaxEvents
      BY <2>3, <3>2, <3>3 DEF Deliver, Deliverable, TypeOK, Event
    <3> QED
      BY <3>1, <3>4, BoundAssumption
  <2> QED
    BY <2>1, <2>2, <2>3
<1> QED
  BY <1>1, <1>2, <1>3 DEF BooksAreComplete

\* BooksAreComplete: whatever is lost, repeated or overlaps, an event is acknowledged only with its entry in the
\* ledger, but for an invoice of the first batch that overtakes the checkout and whose subscription Stripe does not tell.
THEOREM BooksComplete == Spec => []BooksAreComplete
PROOF
<1>1. TypeOK /\ LoadInv /\ BatchInv /\ PlanInv /\ [Next]_vars => (BatchInv /\ PlanInv)'
  BY PlanStep
<1>2. TypeOK /\ LoadInv /\ BookInv /\ [Next]_vars => BookInv'
  BY BookStep
<1>3. TypeOK /\ BatchInv /\ BookInv /\ BooksAreComplete /\ [Next]_vars => BooksAreComplete'
  BY BooksStep
<1>4. Init => BooksAreComplete
  BY DEF Init, BooksAreComplete
<1> QED
  BY <1>1, <1>2, <1>3, <1>4, BookInit, PlanInit, InvCorrect, PTL DEF Spec

-----------------------------------------------------------------------------
(* The handling comes to its end. *)

\* The number of an event under way, by its one handler.
LEMMA StepsLeftAt ==
  /\ \A e : e \notin pending => StepsLeft(e) = 0
  /\ \A e \in pending : (\A h \in hooks : h.event # e) => StepsLeft(e) = 4
  /\ TypeOK /\ LoadInv =>
       \A h \in hooks : /\ h.at = "loaded" => StepsLeft(h.event) = 3
                        /\ h.at = "applied" => StepsLeft(h.event) = 2
                        /\ h.at = "recorded" => StepsLeft(h.event) = 1
  /\ TypeOK /\ LoadInv => \A e : StepsLeft(e) \in 0 .. 4 /\ (e \in pending => StepsLeft(e) \in 1 .. 4)
PROOF
<1>1. \A e : e \notin pending => StepsLeft(e) = 0
  BY DEF StepsLeft
<1>2. \A e \in pending : (\A h \in hooks : h.event # e) => StepsLeft(e) = 4
  BY DEF StepsLeft
<1>3. ASSUME TypeOK, LoadInv, NEW h \in hooks
      PROVE  /\ h.at = "loaded" => StepsLeft(h.event) = 3
             /\ h.at = "applied" => StepsLeft(h.event) = 2
             /\ h.at = "recorded" => StepsLeft(h.event) = 1
  <2>1. h.event \in pending
    BY <1>3 DEF TypeOK
  <2>2. (CHOOSE g \in hooks : g.event = h.event) = h
    BY <1>3 DEF LoadInv
  <2>3. StepsLeft(h.event) = CASE h.at = "loaded" -> 3 [] h.at = "applied" -> 2 [] h.at = "recorded" -> 1
    BY <2>1, <2>2 DEF StepsLeft
  <2> QED
    BY <2>3
<1>4. ASSUME TypeOK, LoadInv, NEW e \in pending PROVE StepsLeft(e) \in 1 .. 4
  <2>1. CASE \A h \in hooks : h.event # e
    BY <1>2, <2>1
  <2>2. ASSUME NEW h \in hooks, h.event = e PROVE StepsLeft(e) \in 1 .. 4
    BY <1>3, <1>4, <2>2 DEF TypeOK
  <2> QED
    BY <2>1, <2>2
<1> QED
  BY <1>1, <1>2, <1>3, <1>4

\* A step of a handler brings its event closer, and touches no other.
LEMMA HandlerStep ==
  ASSUME TypeOK, LoadInv, TypeOK', LoadInv', NEW h \in hooks, Apply(h) \/ Record(h) \/ Acknowledge(h)
  PROVE  /\ StepsLeft(h.event)' \in Nat /\ StepsLeft(h.event)' < StepsLeft(h.event)
         /\ \A e : e # h.event => StepsLeft(e)' = StepsLeft(e)
         /\ events' = events /\ pending' \subseteq pending
PROOF
<1>1. h.event \in pending /\ \A g \in hooks : g # h => g.event # h.event
  BY DEF TypeOK, LoadInv
<1>2. /\ events' = events /\ pending' \subseteq pending /\ pending \ pending' \subseteq {h.event}
      /\ \A g \in hooks : g # h => g \in hooks'
      /\ \A g \in hooks' : g \in hooks \/ g.event = h.event
  BY DEF Apply, Record, Acknowledge
<1>3. StepsLeft(h.event)' \in Nat /\ StepsLeft(h.event)' < StepsLeft(h.event)
  <2>1. CASE Acknowledge(h)
    <3>1. h.event \notin pending' /\ h.at = "recorded"
      BY <2>1 DEF Acknowledge
    <3>2. StepsLeft(h.event) = 1
      BY <3>1, StepsLeftAt
    <3>3. StepsLeft(h.event)' = 0
      BY <3>1 DEF StepsLeft
    <3> QED
      BY <3>2, <3>3
  <2>2. CASE Apply(h)
    <3> DEFINE done == [at |-> "applied", event |-> h.event]
    <3>1. h.at = "loaded" /\ done \in hooks'
      BY <2>2 DEF Apply
    <3>2. StepsLeft(h.event) = 3
      BY <3>1, StepsLeftAt
    <3>3. StepsLeft(h.event)' = 2
      <4>1. done \in hooks' /\ done.event = h.event /\ done.at = "applied"
        BY <3>1
      <4> HIDE DEF done
      <4>2. (CHOOSE g \in hooks' : g.event = h.event) = done /\ h.event \in pending'
        BY <4>1 DEF LoadInv, TypeOK
      <4> QED
        BY <4>1, <4>2 DEF StepsLeft
    <3> QED
      BY <3>2, <3>3
  <2>3. CASE Record(h)
    <3> DEFINE done == [at |-> "recorded", event |-> h.event]
    <3>1. h.at = "applied" /\ done \in hooks'
      BY <2>3 DEF Record
    <3>2. StepsLeft(h.event) = 2
      BY <3>1, StepsLeftAt
    <3>3. StepsLeft(h.event)' = 1
      <4>1. done \in hooks' /\ done.event = h.event /\ done.at = "recorded"
        BY <3>1
      <4> HIDE DEF done
      <4>2. (CHOOSE g \in hooks' : g.event = h.event) = done /\ h.event \in pending'
        BY <4>1 DEF LoadInv, TypeOK
      <4> QED
        BY <4>1, <4>2 DEF StepsLeft
    <3> QED
      BY <3>2, <3>3
  <2> QED
    BY <2>1, <2>2, <2>3
<1>4. ASSUME NEW e, e # h.event PROVE StepsLeft(e)' = StepsLeft(e)
  <2>1. e \in pending' <=> e \in pending
    BY <1>2, <1>4
  <2>2. \A g : g.event = e => (g \in hooks' <=> g \in hooks)
    BY <1>2, <1>4
  <2>3. (CHOOSE g \in hooks' : g.event = e) = (CHOOSE g \in hooks : g.event = e)
    BY <2>2
  <2> QED
    BY <2>1, <2>2, <2>3 DEF StepsLeft
<1> QED
  BY <1>2, <1>3, <1>4

\* A delivery brings its event to a handler, or acknowledges it.
LEMMA DeliveryStep ==
  ASSUME TypeOK, LoadInv, TypeOK', LoadInv', NEW e \in pending, NEW retrieved \in BOOLEAN, Deliver(e, retrieved)
  PROVE  /\ StepsLeft(e)' \in Nat /\ StepsLeft(e)' < StepsLeft(e)
         /\ \A x : x # e => StepsLeft(x)' = StepsLeft(x)
         /\ events' = events /\ pending' \subseteq pending
PROOF
<1> DEFINE load == [at |-> "loaded", event |-> e, old |-> user, new |-> Handled(e, user, sub, retrieved)]
<1>1. /\ events' = events
      /\ \/ pending' = pending \ {e} /\ hooks' = hooks
         \/ pending' = pending /\ hooks' = hooks \union {load}
  BY DEF Deliver
<1>2. load.at = "loaded" /\ load.event = e
  OBVIOUS
<1> HIDE DEF load
<1>3. StepsLeft(e) = 4
  BY StepsLeftAt DEF Deliver
<1>4. StepsLeft(e)' \in Nat /\ StepsLeft(e)' < 4
  <2>1. CASE pending' = pending \ {e}
    BY <2>1 DEF StepsLeft
  <2>2. CASE pending' = pending /\ hooks' = hooks \union {load}
    <3>1. load \in hooks'
      BY <2>2
    <3>2. (CHOOSE h \in hooks' : h.event = e) = load /\ e \in pending'
      BY <1>2, <2>2, <3>1 DEF LoadInv
    <3>3. StepsLeft(e)' = 3
      BY <1>2, <3>1, <3>2 DEF StepsLeft
    <3> QED
      BY <3>3
  <2> QED
    BY <1>1, <2>1, <2>2
<1>5. ASSUME NEW x, x # e PROVE StepsLeft(x)' = StepsLeft(x)
  <2>1. x \in pending' <=> x \in pending
    BY <1>1, <1>5
  <2>2. \A h : h.event = x => (h \in hooks' <=> h \in hooks)
    BY <1>1, <1>2, <1>5
  <2>3. (CHOOSE h \in hooks' : h.event = x) = (CHOOSE h \in hooks : h.event = x)
    BY <2>2
  <2> QED
    BY <2>1, <2>2, <2>3 DEF StepsLeft
<1> QED
  BY <1>1, <1>3, <1>4, <1>5

\* A new batch is of new events.
LEMMA SendingStep ==
  ASSUME TypeOK, BatchInv, NEW kinds, NEW s, Send(kinds, s)
  PROVE  \A e \in events : StepsLeft(e)' = StepsLeft(e) /\ (e \in pending' <=> e \in pending)
PROOF
<1> DEFINE sent == {[kind |-> k, batch |-> Batches + 1, sub |-> s] : k \in kinds}
<1>1. hooks' = hooks /\ pending' = pending \union sent
  BY DEF Send
<1>2. sent \intersect events = {}
  <2>1. \A e \in events : e.batch \in 1 .. Batches
    BY DEF BatchInv
  <2>2. Batches + 1 \notin 1 .. Batches
    BY DEF BatchInv
  <2> DEFINE n == Batches + 1
  <2> HIDE DEF n
  <2>3. \A e \in {[kind |-> k, batch |-> n, sub |-> s] : k \in kinds} : e.batch = n
    OBVIOUS
  <2> QED
    BY <2>1, <2>2, <2>3 DEF n
<1> HIDE DEF sent
<1>3. \A e \in events : e \in pending' <=> e \in pending
  BY <1>1, <1>2
<1> QED
  BY <1>1, <1>3 DEF StepsLeft

\* EventsCountDown: at most four steps of a handler are between an event and its acknowledgement, whatever other events,
\* jobs and deductions do; only a lost handler sends it back, and that is one of the faults.
THEOREM EventsEnd == Spec => EventsCountDown
PROOF
<1> DEFINE Falls == /\ \A e \in events : StepsLeft(e)' <= StepsLeft(e) \/ faults' = faults + 1
                    /\ \A e \in events \ pending : e \notin pending'
                    /\ HookStep => \E e \in pending : StepsLeft(e)' < StepsLeft(e)
<1>1. ASSUME TypeOK, LoadInv, TypeOK', LoadInv', BatchInv, [Next]_vars PROVE Falls
  <2>0. (\A e : StepsLeft(e) \in 0 .. 4) /\ pending \subseteq events
    BY <1>1, StepsLeftAt DEF TypeOK
  <2>1. HookStep => \E e \in pending : StepsLeft(e)' < StepsLeft(e)
    <3>1. ASSUME NEW e \in pending, Deliver(e, TRUE) PROVE StepsLeft(e)' < StepsLeft(e)
      BY <1>1, <3>1, DeliveryStep
    <3>2. ASSUME NEW h \in hooks, Apply(h) \/ Record(h) \/ Acknowledge(h)
          PROVE  h.event \in pending /\ StepsLeft(h.event)' < StepsLeft(h.event)
      BY <1>1, <3>2, HandlerStep DEF TypeOK
    <3> QED
      BY <3>1, <3>2 DEF HookStep
  <2>2. ASSUME NEW e \in events
        PROVE  /\ StepsLeft(e)' <= StepsLeft(e) \/ faults' = faults + 1
               /\ e \notin pending => e \notin pending'
    <3>1. ASSUME NEW x \in pending, NEW retrieved \in BOOLEAN, Deliver(x, retrieved)
          PROVE  StepsLeft(e)' <= StepsLeft(e) /\ (e \notin pending => e \notin pending')
      <4>1. /\ StepsLeft(x)' \in Nat /\ StepsLeft(x)' < StepsLeft(x)
            /\ e # x => StepsLeft(e)' = StepsLeft(e)
            /\ pending' \subseteq pending
        BY <1>1, <3>1, DeliveryStep
      <4> QED
        BY <2>0, <4>1
    <3>2. ASSUME NEW h \in hooks, Apply(h) \/ Record(h) \/ Acknowledge(h)
          PROVE  StepsLeft(e)' <= StepsLeft(e) /\ (e \notin pending => e \notin pending')
      <4>1. /\ StepsLeft(h.event)' \in Nat /\ StepsLeft(h.event)' < StepsLeft(h.event)
            /\ e # h.event => StepsLeft(e)' = StepsLeft(e)
            /\ pending' \subseteq pending
        BY <1>1, <3>2, HandlerStep
      <4> QED
        BY <2>0, <4>1
    <3>3. ASSUME NEW kinds, NEW s, Send(kinds, s)
          PROVE  StepsLeft(e)' <= StepsLeft(e) /\ (e \notin pending => e \notin pending')
      BY <1>1, <2>0, <3>3, SendingStep
    <3>4. ASSUME NEW h \in hooks, HookLost(h)
          PROVE  faults' = faults + 1 /\ pending' = pending
      BY <3>4 DEF HookLost, Fault
    <3>5. ASSUME UNCHANGED <<pending, hooks>>
          PROVE  StepsLeft(e)' <= StepsLeft(e) /\ (e \notin pending => e \notin pending')
      <4>1. StepsLeft(e)' = StepsLeft(e)
        BY <3>5 DEF StepsLeft
      <4> QED
        BY <2>0, <3>5, <4>1
    <3>6. \/ \E x \in pending, retrieved \in BOOLEAN : Deliver(x, retrieved)
          \/ \E h \in hooks : Apply(h) \/ Record(h) \/ Acknowledge(h) \/ HookLost(h)
          \/ \E kinds, s : Send(kinds, s)
          \/ UNCHANGED <<pending, hooks>>
      BY <1>1, NextCases DEF Renew, Cancel, Checkout, ChangePlan, StartFree, StartAnnual, JobCommit, NextMonth, Deduct, vars
    <3> QED
      BY <3>1, <3>2, <3>3, <3>4, <3>5, <3>6
  <2> QED
    BY <2>1, <2>2
<1>2. TypeOK /\ LoadInv /\ BatchInv /\ PlanInv /\ [Next]_vars => (BatchInv /\ PlanInv)'
  BY PlanStep
<1>3. TypeOK /\ LoadInv /\ TypeOK' /\ LoadInv' /\ BatchInv /\ [Next]_vars => [Falls]_vars
  BY <1>1
<1> QED
  BY <1>2, <1>3, PlanInit, InvCorrect, PTL DEF Spec, EventsCountDown
=============================================================================
