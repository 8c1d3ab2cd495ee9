------------------------------ MODULE Billing ------------------------------
(* One user's plan and credits: Stripe's events and the webhook that       *)
(* handles them, the two jobs that refresh credits, and the deductions.    *)
(* A handler and a job load the row of the user, and at the commit write   *)
(* the columns they have changed; a deduction is one SQL statement.        *)
EXTENDS Integers, Sequences, FiniteSets

Cycles == {"monthly", "annually"}

CONSTANTS Plans,      \* the paid plans
          Prices,     \* the pairs of plan and cycle that have a price
          Allowance,  \* default_plans_credits, and default_user_credits for "free"
          Bonus,      \* beta_program_bonus_credits
          Costs,      \* credits an LLM call may cost
          MaxEvents,  \* bound: batches of events Stripe sends
          MaxMonth,   \* bound: months
          MaxFaults   \* bound: failed retrievals, lost acknowledgements and crashes of the handler

ASSUME PlanAssumption ==
  /\ "free" \notin Plans /\ Prices \subseteq Plans \X Cycles /\ \E price \in Prices : price[2] = "annually"
  /\ Allowance \in [Plans \union {"free"} -> Nat]
ASSUME BoundAssumption == Bonus \in Nat /\ Costs \subseteq Nat \ {0} /\ MaxEvents \in Nat /\ MaxMonth \in Nat \ {0} /\ MaxFaults \in Nat

VARIABLES user,    \* the row of the user
          sub,     \* Stripe's subscription; its metadata is that of the checkout
          events, pending,  \* Stripe's events in batches, and those not acknowledged
          ledger,  \* billing_transactions, by event
          hooks, job,       \* the webhooks and the job under way
          month, faults,
          raced,   \* history variable: two have had the row loaded at the same time
          granted  \* history variable: annual refreshes of each month

vars == <<user, sub, events, pending, ledger, hooks, job, month, faults, raced, granted>>

Kinds  == {"checkout", "invoice", "updated", "deleted"}
User   == [plan : Plans \union {"free"}, status : {"none", "active", "paid", "canceled"}, cycle : Cycles \union {"none"},
           credits : Nat, bonus : 0 .. Bonus, customer : BOOLEAN, refreshed : 0 .. MaxMonth]
Sub    == [plan : Plans, cycle : Cycles, meta : Plans \X Cycles, status : {"none", "active", "canceled"}]
Event  == [kind : Kinds, batch : 1 .. MaxEvents, sub : Sub]
Idle   == [at |-> "idle"]

\* An ORM commit: of the row only the columns that differ from what was loaded are written.
Commit(old, new) == user' = [c \in DOMAIN user |-> IF new[c] # old[c] THEN new[c] ELSE user[c]]

Fault == faults < MaxFaults /\ faults' = faults + 1

----------------------------------------------------------------------------
Subscribed(p, c, status) == [plan |-> p, cycle |-> c, meta |-> <<p, c>>, status |-> status]

\* A new user, or one who has subscribed to a plan for a year.
Init ==
  /\ LET p == (CHOOSE price \in Prices : price[2] = "annually")[1]
         new == [plan |-> "free", status |-> "none", cycle |-> "none", credits |-> Allowance["free"], bonus |-> Bonus,
                 customer |-> FALSE, refreshed |-> 0]
     IN  \/ sub = Subscribed(p, "annually", "none") /\ user = new
         \/ /\ sub = Subscribed(p, "annually", "active")
            /\ user = [new EXCEPT !.plan = p, !.status = "active", !.cycle = "annually", !.credits = Allowance[p], !.customer = TRUE]
  /\ events = {} /\ pending = {} /\ ledger = {}
  /\ hooks = {} /\ job = Idle
  /\ month = 1 /\ faults = 0
  /\ raced = FALSE
  /\ granted = [n \in 1 .. MaxMonth |-> 0]

----------------------------------------------------------------------------
(* Stripe. *)

Batches == Cardinality({e.batch : e \in events})
Send(kinds, s) ==
  /\ Batches < MaxEvents
  /\ sub' = s
  /\ LET sent == {[kind |-> k, batch |-> Batches + 1, sub |-> s] : k \in kinds}
     IN  events' = events \union sent /\ pending' = pending \union sent
  /\ UNCHANGED <<user, ledger, hooks, job, month, faults, raced, granted>>

\* create_checkout_session, paid; a second subscription begins when nothing of the first is under way.
Checkout(p, c) ==
  /\ sub.status # "active" /\ pending = {}
  /\ Send({"checkout", "invoice"}, Subscribed(p, c, "active"))
Renew ==
  /\ sub.status = "active"
  /\ Send({"invoice", "updated"}, sub)
\* The plan is changed in the billing portal; the metadata stays.
ChangePlan(p, c) ==
  /\ sub.status = "active" /\ <<p, c>> # <<sub.plan, sub.cycle>>
  /\ Send({"updated"}, [sub EXCEPT !.plan = p, !.cycle = c])
Cancel ==
  /\ sub.status = "active"
  /\ Send({"deleted"}, [sub EXCEPT !.status = "canceled"])

----------------------------------------------------------------------------
(* The webhook. *)

\* Mutant: the allowance is added to what is left.
AddedUp(u, p, c, status) ==
  [u EXCEPT !.plan = p, !.cycle = c, !.status = status, !.credits = @ + Allowance[p], !.customer = TRUE]

Granted(u, p, c, status) ==
  [u EXCEPT !.plan = p, !.cycle = c, !.status = status, !.credits = Allowance[p], !.customer = TRUE]

\* Mutant: the end of a subscription changes the status alone.
HandledByStatus(e, u, now, retrieved) ==
  CASE e.kind = "checkout" -> Granted(u, e.sub.meta[1], e.sub.meta[2], now.status)
    [] e.kind = "invoice" /\ retrieved -> Granted(u, now.meta[1], now.meta[2], now.status)
    [] e.kind = "invoice" /\ ~retrieved -> Granted(u, e.sub.plan, e.sub.cycle, "paid")
    [] e.kind = "updated" -> Granted(u, e.sub.plan, e.sub.meta[2], e.sub.status)
    [] e.kind = "deleted" -> [u EXCEPT !.status = "canceled"]

\* _handle_checkout_session_completed, _handle_invoice_payment_succeeded, _handle_subscription_updated and
\* _handle_subscription_deleted: the row an event makes of a loaded one.  The first two ask Stripe for the
\* subscription (now); an invoice does without it.
Handled(e, u, now, retrieved) ==
  CASE e.kind = "checkout" -> Granted(u, e.sub.meta[1], e.sub.meta[2], now.status)
    [] e.kind = "invoice" /\ retrieved -> Granted(u, now.meta[1], now.meta[2], now.status)
    [] e.kind = "invoice" /\ ~retrieved -> Granted(u, e.sub.plan, e.sub.cycle, "paid")
    [] e.kind = "updated" -> Granted(u, e.sub.plan, e.sub.meta[2], e.sub.status)
    [] e.kind = "deleted" -> [u EXCEPT !.plan = "free", !.cycle = "none", !.status = "canceled", !.credits = Allowance["free"]]

\* Batches are delivered in their order, what is in a batch in any order.
Deliverable == {e \in pending : \A f \in pending : e.batch <= f.batch}

\* A user of whom an event without subscription only gives the customer.
Unknown(e, retrieved) == e.kind = "invoice" /\ ~retrieved /\ ~user.customer

\* An event comes in and the user is loaded; the two of a batch may be under way together.  A checkout whose
\* subscription cannot be retrieved raises (first_item is unbound) and stays pending.
Deliver(e, retrieved) ==
  /\ e \in Deliverable /\ \A h \in hooks : h.event # e
  /\ IF retrieved THEN UNCHANGED faults ELSE e.kind = "invoice" /\ Fault
  /\ IF Unknown(e, retrieved)
       THEN pending' = pending \ {e} /\ UNCHANGED hooks
       ELSE /\ hooks' = hooks \union {[at |-> "loaded", event |-> e, old |-> user, new |-> Handled(e, user, sub, retrieved)]}
            /\ UNCHANGED pending
  /\ UNCHANGED <<user, sub, events, ledger, job, month, raced, granted>>

\* Somebody else has written the row, or is about to, since it was loaded.
Overlaps(others) == raced' = (raced \/ \E h \in others : h.at = "loaded")

Apply(h) ==
  /\ h.at = "loaded"
  /\ Commit(h.old, h.new)
  /\ hooks' = (hooks \ {h}) \union {[at |-> "applied", event |-> h.event]}
  /\ Overlaps((hooks \ {h}) \union {job})
  /\ UNCHANGED <<sub, events, pending, ledger, job, month, faults, granted>>

\* Mutant: an event that is in the ledger is not acknowledged.
RecordNew(h) ==
  /\ h.at = "applied" /\ h.event \notin ledger
  /\ ledger' = ledger \union {h.event}
  /\ hooks' = (hooks \ {h}) \union {[at |-> "recorded", event |-> h.event]}
  /\ UNCHANGED <<user, sub, events, pending, job, month, faults, raced, granted>>

\* _record_transaction: at most one of an event.
Record(h) ==
  /\ h.at = "applied"
  /\ ledger' = ledger \union {h.event}
  /\ hooks' = (hooks \ {h}) \union {[at |-> "recorded", event |-> h.event]}
  /\ UNCHANGED <<user, sub, events, pending, job, month, faults, raced, granted>>

Acknowledge(h) ==
  /\ h.at = "recorded"
  /\ pending' = pending \ {h.event} /\ hooks' = hooks \ {h}
  /\ UNCHANGED <<user, sub, events, ledger, job, month, faults, raced, granted>>

\* The handler dies, or its answer is lost: Stripe sends the event again.
HookLost(h) ==
  /\ Fault
  /\ hooks' = hooks \ {h}
  /\ UNCHANGED <<user, sub, events, pending, ledger, job, month, raced, granted>>

----------------------------------------------------------------------------
(* The jobs. *)

\* refresh_free_user_credits
Freed(u) == [u EXCEPT !.credits = Allowance["free"]]
\* _refresh_user_credits
Refreshed(u, now) == [u EXCEPT !.credits = Allowance[u.plan], !.refreshed = now]

\* Mutant: the month of the last refresh is not looked at.
AnnualAgain ==
  /\ job = Idle
  /\ user.status = "active" /\ user.cycle = "annually"
  /\ job' = [at |-> "loaded", job |-> "annual", now |-> month, old |-> user, new |-> Refreshed(user, month)]
  /\ UNCHANGED <<user, sub, events, pending, ledger, hooks, month, faults, raced, granted>>

StartFree ==
  /\ job = Idle /\ user.plan = "free"
  /\ job' = [at |-> "loaded", job |-> "free", now |-> month, old |-> user, new |-> Freed(user)]
  /\ UNCHANGED <<user, sub, events, pending, ledger, hooks, month, faults, raced, granted>>

\* refresh_annual_subscription_credits; a user whose period is over by the row is passed over.
StartAnnual ==
  /\ job = Idle
  /\ user.status = "active" /\ user.cycle = "annually" /\ user.refreshed # month
  /\ job' = [at |-> "loaded", job |-> "annual", now |-> month, old |-> user, new |-> Refreshed(user, month)]
  /\ UNCHANGED <<user, sub, events, pending, ledger, hooks, month, faults, raced, granted>>

JobCommit ==
  /\ job # Idle
  /\ Commit(job.old, job.new)
  /\ granted' = IF job.job = "annual" THEN [granted EXCEPT ![job.now] = @ + 1] ELSE granted
  /\ Overlaps(hooks)
  /\ job' = Idle
  /\ UNCHANGED <<sub, events, pending, ledger, hooks, month, faults>>

NextMonth ==
  /\ month < MaxMonth
  /\ month' = month + 1
  /\ UNCHANGED <<user, sub, events, pending, ledger, hooks, job, faults, raced, granted>>

----------------------------------------------------------------------------
\* Mutant: the bonus is left out of the remainder.
DeductedAll(u, cost) ==
  IF u.credits + u.bonus < cost THEN u
  ELSE IF u.bonus >= cost THEN [u EXCEPT !.bonus = @ - cost]
  ELSE [u EXCEPT !.bonus = 0, !.credits = @ - cost]

\* deduct_user_credits: the bonus first, and all or nothing.
Deducted(u, cost) ==
  IF u.credits + u.bonus < cost THEN u
  ELSE IF u.bonus >= cost THEN [u EXCEPT !.bonus = @ - cost]
  ELSE [u EXCEPT !.bonus = 0, !.credits = @ - (cost - u.bonus)]

Deduct(cost) ==
  /\ user' = Deducted(user, cost)
  /\ UNCHANGED <<sub, events, pending, ledger, hooks, job, month, faults, raced, granted>>

----------------------------------------------------------------------------
StripeStep == Renew \/ Cancel \/ \E price \in Prices : Checkout(price[1], price[2]) \/ ChangePlan(price[1], price[2])
HookStep   == (\E e \in pending : Deliver(e, TRUE)) \/ \E h \in hooks : Apply(h) \/ Record(h) \/ Acknowledge(h)
JobStep    == StartFree \/ StartAnnual \/ JobCommit

Next ==
  \/ StripeStep \/ HookStep \/ JobStep \/ NextMonth
  \/ \E h \in hooks : HookLost(h)
  \/ \E e \in pending : Deliver(e, FALSE)
  \/ \E cost \in Costs : Deduct(cost)

Spec == Init /\ [][Next]_vars

\* Stripe sends an event until it is acknowledged, and its own interface answers in the end.
FairSpec == Spec /\ WF_vars(HookStep)

----------------------------------------------------------------------------
TypeOK ==
  /\ user \in User /\ sub \in Sub
  /\ events \subseteq Event /\ pending \subseteq events /\ ledger \subseteq events
  /\ \A h \in hooks : h.at \in {"loaded", "applied", "recorded"} /\ h.event \in pending
  /\ job = Idle \/ (job.job \in {"free", "annual"} /\ job.old \in User /\ job.new \in User)
  /\ month \in 1 .. MaxMonth /\ faults \in 0 .. MaxFaults /\ raced \in BOOLEAN
  /\ granted \in [1 .. MaxMonth -> Nat]

\* However often an event is handled, the credits are within the allowance of the plan of the row, unless
\* two of the handlers and the jobs had the row loaded at the same time (user rows have no version).
CreditsFitPlan == user.credits <= Allowance[user.plan] \/ raced

\* The annual job grants once a month, whatever happens to the subscription.
OneRefreshPerMonth == \A n \in 1 .. MaxMonth : granted[n] <= 1

\* When Stripe has nothing to tell any more the row has Stripe's plan, or the one of the checkout where the
\* plan was changed since: an invoice is taken for the plan in the metadata.
PlanFollowsStripe ==
  pending = {} =>
    CASE sub.status = "none"     -> user.plan = "free"
      [] sub.status = "canceled" -> user.plan = "free" /\ user.status = "canceled"
      [] sub.status = "active"   -> user.plan \in {sub.plan, sub.meta[1]} /\ user.cycle \in Cycles

\* Every event is acknowledged in the end.
EveryEventIsAcked == \A b \in 1 .. MaxEvents : (\E e \in pending : e.batch = b) ~> ~(\E e \in pending : e.batch = b)

----------------------------------------------------------------------------
(* The inductive invariants the proofs rest on. *)

\* A row that somebody has loaded and is going to write.
Loads == {h \in hooks : h.at = "loaded"} \union (IF job = Idle THEN {} ELSE {job})

\* One handler an event; what is loaded, and what it becomes, is a row.
LoadInv ==
  /\ \A h, g \in hooks : h.event = g.event => h = g
  /\ \A h \in hooks : h.at = "loaded" => h.old \in User /\ h.new \in User
  /\ job # Idle => job.at = "loaded" /\ job.now \in 1 .. month

\* The mark of the month is on the row as soon as the month's refresh is counted, nobody else
\* writes it, and from the month of the refresh under way on nothing is counted yet.
RefreshInv ==
  /\ \A n \in 1 .. MaxMonth :
       granted[n] > 0 => granted[n] = 1 /\ n <= month /\ (n = month => user.refreshed = month)
  /\ \A h \in hooks : h.at = "loaded" => h.new.refreshed = h.old.refreshed
  /\ job # Idle =>
       IF job.job = "annual" THEN /\ \A n \in job.now .. MaxMonth : granted[n] = 0
                                  /\ job.new.refreshed = job.now /\ job.old.refreshed # job.now
                             ELSE job.new.refreshed = job.old.refreshed

\* Unless two overlapped, the row has not changed since it was loaded, but for deductions.
FitInv ==
  /\ CreditsFitPlan
  /\ \A h \in Loads :
       /\ h.new.credits <= Allowance[h.new.plan]
       /\ raced \/ (user.plan = h.old.plan /\ user.credits <= h.old.credits /\ h.old.credits <= Allowance[h.old.plan])

\* What a column of the row may be once Stripe has nothing more to tell.
PlanColumns == {"plan", "cycle", "status"}
Fits(c, v) ==
  CASE c = "plan"   -> v \in IF sub.status = "active" THEN {sub.plan, sub.meta[1]} ELSE {"free"}
    [] c = "cycle"  -> sub.status = "active" => v \in Cycles
    [] c = "status" -> sub.status = "canceled" => v = "canceled"
RowFits == \A c \in PlanColumns : Fits(c, user[c])

\* Batches are numbered and handled in their order; the newest one tells of the subscription as it is.
Newest(e) == e.batch = Batches
BatchInv ==
  /\ Batches \in Nat /\ {e.batch : e \in events} = 1 .. Batches
  /\ \A e \in (events \ pending) \union {h.event : h \in hooks}, f \in pending : e.batch <= f.batch
  /\ \A e \in events : Newest(e) => e.sub = sub /\ (e.kind = "deleted" <=> sub.status = "canceled")
  /\ events # {} => sub.status # "none" /\ \E e \in events : Newest(e) /\ e.kind # "invoice"

\* The row fits as soon as a handler of the newest batch has written it, and until then nobody has
\* changed what such a handler has loaded.
PlanInv ==
  /\ \A h \in hooks : Newest(h.event) =>
       IF h.at = "loaded"
       THEN \A c \in PlanColumns : Fits(c, h.new[c]) /\ (Fits(c, user[c]) \/ user[c] = h.old[c])
       ELSE RowFits
  /\ \A e \in events \ pending : Newest(e) /\ e.kind # "invoice" => RowFits
  /\ events = {} => RowFits
  /\ job # Idle => \A c \in PlanColumns : job.new[c] = job.old[c]

\* Only the invoice of the first batch may be acknowledged without a ledger entry: when Stripe does not tell its
\* subscription, the row must have the customer, and it is the checkout of the same batch that brings him.
BooksAreComplete == \A e \in events \ pending : e \in ledger \/ (e.kind = "invoice" /\ e.batch = 1)

\* Once it is there the customer stays, whatever is written over the row, and he comes with the first checkout.
BookInv ==
  /\ \A h \in hooks : h.at = "recorded" => h.event \in ledger
  /\ \A h \in Loads : h.old.customer => user.customer /\ h.new.customer
  /\ \A h \in hooks : h.event.kind = "checkout" => IF h.at = "loaded" THEN h.new.customer ELSE user.customer
  /\ \A e \in events \ pending : e.kind = "checkout" => user.customer
  /\ user.customer \/ IF events = {} THEN sub.status = "none" ELSE \E e \in events : e.kind = "checkout" /\ e.batch = 1

\* What the handling of an event has still to do.
StepsLeft(e) ==
  CASE e \notin pending                                   -> 0
    [] e \in pending /\ \A h \in hooks : h.event # e       -> 4
    [] e \in pending /\ \E h \in hooks : h.event = e       ->
         LET h == CHOOSE h \in hooks : h.event = e
         IN  CASE h.at = "loaded" -> 3 [] h.at = "applied" -> 2 [] h.at = "recorded" -> 1

\* The handling of an event falls back only with one of the faults, an acknowledged event does not come back,
\* and every step of a handler brings an event closer to its acknowledgement.
EventsCountDown ==
  [][/\ \A e \in events : StepsLeft(e)' <= StepsLeft(e) \/ faults' = faults + 1
     /\ \A e \in events \ pending : e \notin pending'
     /\ HookStep => \E e \in pending : StepsLeft(e)' < StepsLeft(e)]_vars
=============================================================================
