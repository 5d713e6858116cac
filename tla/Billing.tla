------------------------------ MODULE Billing ------------------------------
(***************************************************************************)
(* The subscription of one workspace: the rows of tables subscriptions and *)
(* workspaces, the Stripe objects they mirror, the requests of the admin   *)
(* (stripe_service.py) and the effects of the webhook events               *)
(* (handle_event of stripe_task.py).                                       *)
(*                                                                         *)
(* A request or an event is a job with its own database session. A job     *)
(* reads its rows in one step, calls Stripe in another, and commits in a   *)
(* third; other workers and Stripe may act between them. The SELECTs of    *)
(* one handler are taken together. Module StripeInbox shows that an event  *)
(* has its effect at most once; here the events not yet taken by a worker  *)
(* are a queue, and an event is gone when the job that took it fails.      *)
(***************************************************************************)
EXTENDS Integers, Sequences, FiniteSets

CONSTANTS
  Plans, Free,      \* the plans, and the one named FREE
  Price,            \* their prices
  NoPlan,           \* a null plan id, or metadata that was not set
  Subs, NoSub,      \* Stripe subscriptions; a checkout session has the id of its own
  Procs,            \* jobs that can run at the same time
  MaxPeriod,        \* bound: billing periods of a subscription
  MaxRequests,      \* bound: requests of the admin
  MaxReplays,       \* bound: times a success page is opened again later
  MaxEvents,        \* bound: events waiting for a worker
  Hazards           \* what the environment may do, see below

(* overlap      requests and Stripe go on while events and jobs are open    *)
(* reorder      events are delivered in any order                          *)
(* fault        a job can stop at any step with an exception               *)
(* twoPayments  a session is paid although a subscription is running       *)
(* declined     the payment of a renewal can fail                          *)
(* create       the older endpoint POST /subscription is used              *)
AllHazards ==
  {"overlap", "reorder", "fault", "twoPayments", "declined", "create"}

ASSUME PlansAssumption ==
  /\ Free \in Plans /\ NoPlan \notin Plans
  /\ Price \in [Plans -> Nat]
ASSUME SubsAssumption == NoSub \notin Subs
ASSUME BoundsAssumption ==
  /\ MaxPeriod \in Nat /\ MaxRequests \in Nat /\ MaxReplays \in Nat /\ MaxEvents \in Nat
  /\ Hazards \subseteq AllHazards

VARIABLES
  workspace,      \* the row of workspaces: plan_id, stripe_customer_id (0: null)
  subscription,   \* the rows of subscriptions with this workspace_id
  stripe,         \* the subscriptions and sessions at Stripe
  customers,      \* number of Customer objects at Stripe
  events,         \* events, and returns from the payment page, not yet taken
  job,            \* what each worker is doing
  requests,       \* requests so far, for MaxRequests
  replays,        \* pages opened again so far, for MaxReplays
  priced,         \* history: plans that a paid subscription has been billed for
  scheduled,      \* history: period in which a downgrade was last scheduled
  misreported     \* history: what requests that answered 500 or 502 had committed

dbVars == <<workspace, subscription>>
stripeVars == <<stripe, customers, events, priced>>
ghostVars == <<requests, replays, scheduled, misreported>>
vars == <<dbVars, stripeVars, job, ghostVars>>

(* The plans with a price known to Stripe; that of FREE is a placeholder,  *)
(* price_zero, and Stripe turns down every call that names it.             *)
Paid == Plans \ {Free}

RowStatus == {"INCOMPLETE", "ACTIVE", "PAST_DUE", "CANCELED"}
StripeStatus == {"none", "open", "incomplete", "active", "past_due", "canceled"}
EventType == {"completed", "paid", "payment_failed", "updated", "deleted", "return"}

Workspace == [plan : Plans, customer : Nat]

Row == [sid : Subs, item : Subs, plan : Plans, status : RowStatus, cancel : BOOLEAN,
        pplan : Plans \cup {NoPlan}, ptype : {"NONE", "DOWNGRADE", "CANCEL_TO_FREE"},
        period : Nat]

StripeSub == [status : StripeStatus, plan : Plans \cup {NoPlan},
              meta : Plans \cup {NoPlan}, cancel : BOOLEAN, period : Nat]

Event == [type : EventType, sub : Subs, active : BOOLEAN, period : Nat, cancel : BOOLEAN]

NoRow == [sid |-> NoSub]
NoEvent == [type |-> "none"]

Op == {"none", "checkout", "create", "update", "cancel", "complete", "webhook"}

Job == [pc : {"idle", "loaded", "customer", "saved", "called"}, op : Op,
        plan : Plans \cup {NoPlan}, sub : Subs \cup {NoSub}, ev : Event \cup {NoEvent},
        row : Nat, old : Row \cup {NoRow}, ws : Workspace \cup {NoRow}]

Idle == [pc |-> "idle", op |-> "none", plan |-> NoPlan, sub |-> NoSub, ev |-> NoEvent,
         row |-> 0, old |-> NoRow, ws |-> NoRow]

(* What a request that answers with an error may have committed.           *)
Leftover == {"customer", "subscription"}

TypeOK ==
  /\ workspace \in Workspace
  /\ subscription \in Seq(Row)
  /\ stripe \in [Subs -> StripeSub]
  /\ customers \in Nat
  /\ events \in Seq(Event)
  /\ job \in [Procs -> Job]
  /\ requests \in 0..MaxRequests
  /\ replays \in 0..MaxReplays
  /\ priced \subseteq Paid
  /\ scheduled \in [Subs -> Nat]
  /\ misreported \subseteq Leftover

Init ==
  /\ workspace = [plan |-> Free, customer |-> 0]
  /\ subscription = << >>
  /\ stripe = [s \in Subs |-> [status |-> "none", plan |-> NoPlan, meta |-> NoPlan,
                               cancel |-> FALSE, period |-> 0]]
  /\ customers = 0
  /\ events = << >>
  /\ job = [p \in Procs |-> Idle]
  /\ requests = 0
  /\ replays = 0
  /\ priced = {}
  /\ scheduled = [s \in Subs |-> 0]
  /\ misreported = {}

-----------------------------------------------------------------------------
(* Sessions of the ORM.                                                    *)

(* What first() may return for a query with no ORDER BY: 0 if no row fits. *)
First(found) == IF found = {} THEN {0} ELSE found

AnyRow == First(DOMAIN subscription)
RowOf(s) == First({r \in DOMAIN subscription : subscription[r].sid = s})

Loaded(r) == IF r = 0 THEN NoRow ELSE subscription[r]

(* A flush writes the columns whose value differs from the one loaded, so  *)
(* what others committed to the remaining columns stays.                   *)
Flush(now, old, new) ==
  [f \in DOMAIN new |-> IF new[f] = old[f] THEN now[f] ELSE new[f]]

SaveRow(j, new) ==
  subscription' = IF j.row = 0 THEN Append(subscription, new)
                  ELSE [subscription EXCEPT ![j.row] = Flush(@, j.old, new)]

SavePlan(j, plan) ==
  workspace' = [workspace EXCEPT !.plan = IF plan = j.ws.plan THEN @ ELSE plan]

NewRow(s, plan, status) ==
  [sid |-> s, item |-> s, plan |-> plan, status |-> status, cancel |-> FALSE,
   pplan |-> NoPlan, ptype |-> "NONE", period |-> 0]

ClearPending(row) == [row EXCEPT !.pplan = NoPlan, !.ptype = "NONE"]

Finish(p) == job' = [job EXCEPT ![p] = Idle]

Calm == events = << >> /\ \A p \in Procs : job[p].pc = "idle"

MayStart == "overlap" \in Hazards \/ Calm

-----------------------------------------------------------------------------
(* The Stripe side. Emit appends events about s as it is after the step.   *)

About(s, type) ==
  [type |-> type, sub |-> s, active |-> stripe'[s].status = "active",
   period |-> stripe'[s].period, cancel |-> stripe'[s].cancel]

Emit(s, types) ==
  events' = events \o [i \in DOMAIN types |-> About(s, types[i])]

(* Bounds: n more events fit; there are sessions for the jobs that want one.*)
RoomFor(n) == Len(events) + n <= MaxEvents

RoomForSession ==
  Cardinality({s \in Subs : stripe[s].status = "none"}) >
  Cardinality({p \in Procs : job[p].op \in {"checkout", "create"}})

Running(s) == stripe[s].status \in {"active", "past_due"}

(* The admin pays for a subscription when no other one goes on.            *)
MayPay ==
  \/ "twoPayments" \in Hazards
  \/ \A u \in Subs : Running(u) => stripe[u].cancel

StripeOnly == UNCHANGED <<dbVars, job, customers, ghostVars>>

(* The events of a first payment, and the return of the browser to the     *)
(* success page before or after them. One order is enough if they are      *)
(* taken in any.                                                           *)
PaymentOrders ==
  IF "reorder" \in Hazards THEN {<<"return", "completed", "paid">>}
  ELSE {<<"return", "completed", "paid">>, <<"completed", "return", "paid">>,
        <<"completed", "paid", "return">>}

(* The admin pays an open session.                                         *)
PayCheckout(s) ==
  /\ MayStart /\ RoomFor(3) /\ MayPay
  /\ stripe[s].status = "open"
  /\ stripe' = [stripe EXCEPT ![s].status = "active", ![s].period = 1]
  /\ \E types \in PaymentOrders : Emit(s, types)
  /\ priced' = priced \cup {stripe[s].plan}
  /\ StripeOnly

(* The first invoice of a subscription made by POST /subscription is paid, *)
(* by the client or by POST /confirm_payment.                              *)
PayFirstInvoice(s) ==
  /\ MayStart /\ RoomFor(2) /\ MayPay
  /\ stripe[s].status = "incomplete"
  /\ stripe' = [stripe EXCEPT ![s].status = "active", ![s].period = 1]
  /\ Emit(s, <<"updated", "paid">>)
  /\ priced' = priced \cup {stripe[s].plan}
  /\ StripeOnly

Renew(s) ==
  /\ MayStart /\ RoomFor(2)
  /\ stripe[s].status = "active" /\ ~ stripe[s].cancel /\ stripe[s].period < MaxPeriod
  /\ stripe' = [stripe EXCEPT ![s].period = @ + 1]
  /\ Emit(s, <<"updated", "paid">>)
  /\ UNCHANGED priced
  /\ StripeOnly

RenewFails(s) ==
  /\ MayStart /\ RoomFor(2) /\ "declined" \in Hazards
  /\ stripe[s].status = "active" /\ ~ stripe[s].cancel /\ stripe[s].period < MaxPeriod
  /\ stripe' = [stripe EXCEPT ![s].status = "past_due", ![s].period = @ + 1]
  /\ Emit(s, <<"updated", "payment_failed">>)
  /\ UNCHANGED priced
  /\ StripeOnly

(* A retry of the failed payment succeeds.                                 *)
Recover(s) ==
  /\ MayStart /\ RoomFor(2)
  /\ stripe[s].status = "past_due"
  /\ stripe' = [stripe EXCEPT ![s].status = "active"]
  /\ Emit(s, <<"updated", "paid">>)
  /\ UNCHANGED priced
  /\ StripeOnly

(* The end of a cancelled subscription, or of one that stayed past due.    *)
End(s) ==
  /\ MayStart /\ RoomFor(1)
  /\ stripe[s].status = "past_due" \/ (Running(s) /\ stripe[s].cancel)
  /\ stripe' = [stripe EXCEPT ![s].status = "canceled"]
  /\ Emit(s, <<"deleted">>)
  /\ UNCHANGED priced
  /\ StripeOnly

-----------------------------------------------------------------------------
(* Requests of the admin: guards and reads.                                *)

(* Both endpoints answer 400, "An active subscription already exists".     *)
CheckoutRefused(row) == row # NoRow /\ ~ row.cancel /\ row.status # "CANCELED"
CreateRefused(row) == row # NoRow /\ ~ row.cancel

Load(p, op, plan, r) ==
  /\ MayStart /\ RoomFor(1)
  /\ job[p].pc = "idle" /\ requests < MaxRequests
  /\ requests' = requests + 1
  /\ job' = [job EXCEPT ![p] = [Idle EXCEPT !.pc = "loaded", !.op = op, !.plan = plan,
                                !.row = r, !.old = Loaded(r), !.ws = workspace]]
  /\ UNCHANGED <<dbVars, stripeVars, replays, scheduled, misreported>>

LoadCheckout(p) ==
  \E r \in AnyRow, plan \in Plans :
    RoomForSession /\ ~ CheckoutRefused(Loaded(r)) /\ Load(p, "checkout", plan, r)

LoadCreate(p) ==
  \E r \in AnyRow, plan \in Plans :
    /\ "create" \in Hazards /\ RoomForSession /\ ~ CreateRefused(Loaded(r))
    /\ Load(p, "create", plan, r)

(* No subscription is 404, the plan of the row is 400.                     *)
LoadUpdate(p) ==
  \E r \in AnyRow, plan \in Plans :
    r # 0 /\ Loaded(r).plan # plan /\ Load(p, "update", plan, r)

LoadCancel(p) ==
  \E r \in AnyRow :
    r # 0 /\ ~ Loaded(r).cancel /\ Load(p, "cancel", NoPlan, r)

-----------------------------------------------------------------------------
(* POST /subscription/checkout and POST /subscription.                     *)

At(p, ops, pc) == job[p].op \in ops /\ job[p].pc = pc

(* get_stripe_customer_id, when the workspace was loaded without one.      *)
CreateCustomer(p) ==
  /\ At(p, {"checkout", "create"}, "loaded") /\ job[p].ws.customer = 0
  /\ customers' = customers + 1
  /\ job' = [job EXCEPT ![p].pc = "customer", ![p].ws.customer = customers']
  /\ UNCHANGED <<dbVars, stripe, events, priced, ghostVars>>

SaveCustomer(p) ==
  /\ At(p, {"checkout", "create"}, "customer")
  /\ workspace' = [workspace EXCEPT !.customer = job[p].ws.customer]
  /\ job' = [job EXCEPT ![p].pc = "saved"]
  /\ UNCHANGED <<subscription, stripeVars, ghostVars>>

(* The customer is there: loaded with the workspace, or just committed.    *)
HasCustomer(p, op) ==
  At(p, {op}, "saved") \/ (At(p, {op}, "loaded") /\ job[p].ws.customer # 0)

(* The session, with the plan in its metadata and in the subscription's.   *)
OpenSession(p) ==
  /\ HasCustomer(p, "checkout") /\ job[p].plan \in Paid
  /\ \E s \in Subs :
       /\ stripe[s].status = "none"
       /\ stripe' = [stripe EXCEPT ![s].status = "open", ![s].plan = job[p].plan,
                                   ![s].meta = job[p].plan]
  /\ Finish(p)
  /\ UNCHANGED <<dbVars, customers, events, priced, ghostVars>>

(* Subscription.create passes no metadata.                                 *)
CreateSubscription(p) ==
  /\ HasCustomer(p, "create") /\ job[p].plan \in Paid
  /\ \E s \in Subs :
       /\ stripe[s].status = "none"
       /\ stripe' = [stripe EXCEPT ![s].status = "incomplete", ![s].plan = job[p].plan]
       /\ job' = [job EXCEPT ![p].pc = "called", ![p].sub = s]
  /\ UNCHANGED <<dbVars, customers, events, priced, ghostVars>>

(* A row that exists keeps its stripe_subscription_id.                     *)
CreateRow(old, s, plan) ==
  IF old = NoRow THEN NewRow(s, plan, "INCOMPLETE")
  ELSE [old EXCEPT !.plan = plan, !.item = s, !.status = "INCOMPLETE", !.cancel = FALSE]

SaveCreate(p) ==
  /\ At(p, {"create"}, "called")
  /\ SaveRow(job[p], CreateRow(job[p].old, job[p].sub, job[p].plan))
  /\ Finish(p)
  /\ UNCHANGED <<workspace, stripeVars, ghostVars>>

-----------------------------------------------------------------------------
(* POST /subscription/update and POST /subscription/cancel.                *)

(* Stripe takes a change of a running subscription, for an item of it.     *)
Modifiable(row) == Running(row.sid) /\ row.item = row.sid

ModifyPlan(p) ==
  /\ At(p, {"update"}, "loaded") /\ job[p].plan \in Paid /\ Modifiable(job[p].old)
  /\ stripe' = [stripe EXCEPT ![job[p].old.sid].plan = job[p].plan]
  /\ Emit(job[p].old.sid, <<"updated">>)
  /\ priced' = priced \cup {job[p].plan}
  /\ job' = [job EXCEPT ![p].pc = "called"]
  /\ UNCHANGED <<dbVars, customers, ghostVars>>

(* Mutant of SaveUpdate: the plan is committed before Stripe is asked.     *)
SaveUpdateFirst(p) ==
  LET j == job[p] IN
  /\ At(p, {"update"}, "loaded")
  /\ SaveRow(j, [ClearPending(j.old) EXCEPT !.plan = j.plan])
  /\ SavePlan(j, j.plan)
  /\ job' = [job EXCEPT ![p].pc = "called"]
  /\ UNCHANGED <<stripeVars, ghostVars>>

(* Price decides: an upgrade takes effect at once, anything else waits.    *)
SaveUpdate(p) ==
  LET j == job[p] IN
  /\ At(p, {"update"}, "called")
  /\ IF Price[j.plan] > Price[j.old.plan]
     THEN /\ SaveRow(j, [ClearPending(j.old) EXCEPT !.plan = j.plan])
          /\ SavePlan(j, j.plan)
          /\ UNCHANGED scheduled
     ELSE /\ SaveRow(j, [j.old EXCEPT !.pplan = j.plan, !.ptype = "DOWNGRADE"])
          /\ scheduled' = [scheduled EXCEPT ![j.old.sid] = stripe[j.old.sid].period]
          /\ UNCHANGED workspace
  /\ Finish(p)
  /\ UNCHANGED <<stripeVars, requests, replays, misreported>>

ModifyCancel(p) ==
  /\ At(p, {"cancel"}, "loaded") /\ Running(job[p].old.sid)
  /\ stripe' = [stripe EXCEPT ![job[p].old.sid].cancel = TRUE]
  /\ Emit(job[p].old.sid, <<"updated">>)
  /\ job' = [job EXCEPT ![p].pc = "called"]
  /\ UNCHANGED <<dbVars, customers, priced, ghostVars>>

(* COMMIT, refresh, then SubscriptionCancelOut, which has no room for a    *)
(* subscription without current_period_end and raises.                     *)
SaveCancel(p) ==
  LET j == job[p] IN
  /\ At(p, {"cancel"}, "called")
  /\ SaveRow(j, [j.old EXCEPT !.cancel = TRUE, !.pplan = Free, !.ptype = "CANCEL_TO_FREE"])
  /\ misreported' = misreported \cup IF subscription'[j.row].period = 0
                                        THEN {"subscription"} ELSE {}
  /\ Finish(p)
  /\ UNCHANGED <<workspace, stripeVars, requests, replays, scheduled>>

(* An answer of 500 or 502. The rollback does not undo the customer that a *)
(* job has committed (once Subscription.create was called, it is no longer *)
(* told which job did).                                                    *)
AnswerError(p) ==
  /\ misreported' = misreported \cup IF job[p].pc = "saved" THEN {"customer"} ELSE {}
  /\ Finish(p)
  /\ UNCHANGED <<dbVars, stripeVars, requests, replays, scheduled>>

(* The calls Stripe turns down: a price it does not have, a subscription   *)
(* that has ended, an item of another one.                                 *)
StripeRefuses(p) ==
  /\ \/ \E op \in {"checkout", "create"} : HasCustomer(p, op) /\ job[p].plan = Free
     \/ At(p, {"update"}, "loaded") /\ (job[p].plan = Free \/ ~ Modifiable(job[p].old))
     \/ At(p, {"cancel"}, "loaded") /\ ~ Running(job[p].old.sid)
  /\ AnswerError(p)

-----------------------------------------------------------------------------
(* POST /subscription/checkout/complete and the webhook.                   *)

Without(i) == SubSeq(events, 1, i - 1) \o SubSeq(events, i + 1, Len(events))

Deliverable == {i \in DOMAIN events : i = 1 \/ "reorder" \in Hazards}

(* The success page asks for the session, which is complete and paid.      *)
LoadComplete(p, s) ==
  /\ job[p].pc = "idle" /\ stripe[s].meta # NoPlan /\ stripe[s].status \notin {"none", "open"}
  /\ \E r \in AnyRow :
       job' = [job EXCEPT ![p] = [Idle EXCEPT !.pc = "loaded", !.op = "complete", !.sub = s,
                 !.ev = [type |-> "return", sub |-> s, active |-> TRUE,
                         period |-> stripe[s].period, cancel |-> FALSE],
                 !.row = r, !.old = Loaded(r), !.ws = workspace]]
  /\ UNCHANGED <<dbVars, stripe, customers, priced, requests, scheduled, misreported>>

Return(p) ==
  \E i \in Deliverable :
    /\ events[i].type = "return"
    /\ events' = Without(i)
    /\ LoadComplete(p, events[i].sub)
    /\ UNCHANGED replays

(* The page is closed before it can ask.                                   *)
Leave ==
  \E i \in Deliverable :
    /\ events[i].type = "return"
    /\ events' = Without(i)
    /\ UNCHANGED <<dbVars, stripe, customers, priced, job, ghostVars>>

Replay(p) ==
  \E s \in Subs :
    /\ MayStart /\ replays < MaxReplays
    /\ replays' = replays + 1
    /\ LoadComplete(p, s)
    /\ UNCHANGED events

(* Mutant of Subscribed: the pending change of the old row stays.          *)
SubscribedKeepsPending(old, s, plan, status) ==
  IF old = NoRow THEN NewRow(s, plan, status)
  ELSE [old EXCEPT !.sid = s, !.item = s, !.plan = plan, !.status = status, !.cancel = FALSE]

(* Mutant of Subscribed: the item of the old row stays.                    *)
SubscribedKeepsItem(old, s, plan, status) ==
  IF old = NoRow THEN NewRow(s, plan, status)
  ELSE [ClearPending(old) EXCEPT !.sid = s, !.plan = plan, !.status = status, !.cancel = FALSE]

(* Whatever the row was, it is the session's subscription now.             *)
Subscribed(old, s, plan, status) ==
  IF old = NoRow THEN NewRow(s, plan, status)
  ELSE [ClearPending(old) EXCEPT !.sid = s, !.item = s, !.plan = plan,
                                 !.status = status, !.cancel = FALSE]

SaveComplete(p) ==
  LET j == job[p]
      plan == stripe[j.sub].meta IN
  /\ At(p, {"complete"}, "loaded")
  /\ SaveRow(j, [Subscribed(j.old, j.sub, plan, "ACTIVE") EXCEPT !.period = j.ev.period])
  /\ SavePlan(j, plan)
  /\ Finish(p)
  /\ UNCHANGED <<stripeVars, ghostVars>>

(* Mutant of Claim: a completed session looks for the row of its own       *)
(* subscription too.                                                       *)
ClaimBySubscription(p) ==
  \E i \in Deliverable :
    LET e == events[i] IN
    /\ e.type # "return" /\ job[p].pc = "idle"
    /\ events' = Without(i)
    /\ \E r \in RowOf(e.sub) :
         job' = [job EXCEPT ![p] = [Idle EXCEPT !.pc = "loaded", !.op = "webhook", !.sub = e.sub,
                                    !.ev = e, !.row = r, !.old = Loaded(r), !.ws = workspace]]
    /\ UNCHANGED <<dbVars, stripe, customers, priced, ghostVars>>

(* A worker records the event and reads: the row of the workspace for a    *)
(* completed session, the row of the Stripe subscription otherwise.        *)
Claim(p) ==
  \E i \in Deliverable :
    LET e == events[i] IN
    /\ e.type # "return" /\ job[p].pc = "idle"
    /\ events' = Without(i)
    /\ \E r \in IF e.type = "completed" THEN AnyRow ELSE RowOf(e.sub) :
         job' = [job EXCEPT ![p] = [Idle EXCEPT !.pc = "loaded", !.op = "webhook", !.sub = e.sub,
                                    !.ev = e, !.row = r, !.old = Loaded(r), !.ws = workspace]]
    /\ UNCHANGED <<dbVars, stripe, customers, priced, ghostVars>>

(* Mutant of PaidRow: the plan is the one of the checkout.                 *)
PaidRowFromMetadata(j) ==
  IF j.old = NoRow THEN [NewRow(j.sub, stripe[j.sub].meta, "ACTIVE") EXCEPT !.period = j.ev.period]
  ELSE [j.old EXCEPT !.status = "ACTIVE", !.period = j.ev.period, !.plan = stripe[j.sub].meta]

(* Mutant of PaidRow: the end of the period is not copied.                 *)
PaidRowWithoutPeriod(j) ==
  LET row == IF j.old = NoRow THEN NewRow(j.sub, stripe[j.sub].meta, "INCOMPLETE") ELSE j.old
      due == IF row.ptype = "DOWNGRADE" THEN [ClearPending(row) EXCEPT !.plan = row.pplan] ELSE row
  IN  [due EXCEPT !.status = "ACTIVE"]

(* A row that is not there yet is made from the metadata of the            *)
(* subscription; a scheduled downgrade takes effect.                       *)
PaidRow(j) ==
  LET row == IF j.old = NoRow THEN NewRow(j.sub, stripe[j.sub].meta, "INCOMPLETE") ELSE j.old
      due == IF row.ptype = "DOWNGRADE" THEN [ClearPending(row) EXCEPT !.plan = row.pplan] ELSE row
  IN  [due EXCEPT !.status = "ACTIVE", !.period = j.ev.period]

(* What the handler of an event can do: change a row it has found, or make *)
(* one with a plan, since plan_id of subscriptions is not nullable.        *)
Applies(j) ==
  \/ j.ev.type = "completed"
  \/ j.ev.type = "paid" /\ PaidRow(j).plan # NoPlan
  \/ j.ev.type \in {"payment_failed", "updated", "deleted"} /\ j.old # NoRow

Handles(p, type) ==
  At(p, {"webhook"}, "loaded") /\ job[p].ev.type = type /\ Applies(job[p])

SaveCompleted(p) ==
  LET j == job[p] IN
  /\ Handles(p, "completed")
  /\ SaveRow(j, Subscribed(j.old, j.sub, stripe[j.sub].meta,
                           IF j.old # NoRow /\ j.old.status = "ACTIVE" THEN "ACTIVE" ELSE "INCOMPLETE"))
  /\ Finish(p)
  /\ UNCHANGED <<workspace, stripeVars, ghostVars>>

(* Mutant of SavePaid: the workspace is not touched.                       *)
SavePaidRowOnly(p) ==
  LET j == job[p] IN
  /\ Handles(p, "paid")
  /\ SaveRow(j, PaidRow(j))
  /\ Finish(p)
  /\ UNCHANGED <<workspace, stripeVars, ghostVars>>

SavePaid(p) ==
  LET j == job[p] IN
  /\ Handles(p, "paid")
  /\ SaveRow(j, PaidRow(j))
  /\ SavePlan(j, PaidRow(j).plan)
  /\ Finish(p)
  /\ UNCHANGED <<stripeVars, ghostVars>>

SavePaymentFailed(p) ==
  /\ Handles(p, "payment_failed")
  /\ SaveRow(job[p], [job[p].old EXCEPT !.status = "PAST_DUE"])
  /\ Finish(p)
  /\ UNCHANGED <<workspace, stripeVars, ghostVars>>

(* Mutant of SaveUpdated: a scheduled downgrade takes effect here too.     *)
SaveUpdatedDowngrades(p) ==
  LET j == job[p]
      due == IF j.old.ptype = "DOWNGRADE" THEN [ClearPending(j.old) EXCEPT !.plan = j.old.pplan]
             ELSE j.old IN
  /\ Handles(p, "updated")
  /\ SaveRow(j, [due EXCEPT !.status = IF j.ev.active THEN "ACTIVE" ELSE @,
                            !.period = j.ev.period, !.cancel = j.ev.cancel])
  /\ Finish(p)
  /\ UNCHANGED <<workspace, stripeVars, ghostVars>>

SaveUpdated(p) ==
  LET j == job[p] IN
  /\ Handles(p, "updated")
  /\ SaveRow(j, [j.old EXCEPT !.status = IF j.ev.active THEN "ACTIVE" ELSE @,
                              !.period = j.ev.period, !.cancel = j.ev.cancel])
  /\ Finish(p)
  /\ UNCHANGED <<workspace, stripeVars, ghostVars>>

(* Mutant of SaveDeleted: the plan becomes the pending one.                *)
SaveDeletedToPending(p) ==
  LET j == job[p] IN
  /\ Handles(p, "deleted")
  /\ SaveRow(j, [ClearPending(j.old) EXCEPT !.status = "CANCELED", !.cancel = FALSE,
                                            !.plan = j.old.pplan])
  /\ SavePlan(j, j.old.pplan)
  /\ Finish(p)
  /\ UNCHANGED <<stripeVars, ghostVars>>

(* Mutant of SaveDeleted: the status of the row stays.                     *)
SaveDeletedKeepsStatus(p) ==
  LET j == job[p] IN
  /\ Handles(p, "deleted")
  /\ SaveRow(j, [ClearPending(j.old) EXCEPT !.cancel = FALSE, !.plan = Free])
  /\ SavePlan(j, Free)
  /\ Finish(p)
  /\ UNCHANGED <<stripeVars, ghostVars>>

(* Mutant of SaveDeleted: the workspace keeps its plan.                    *)
SaveDeletedRowOnly(p) ==
  LET j == job[p] IN
  /\ Handles(p, "deleted")
  /\ SaveRow(j, [ClearPending(j.old) EXCEPT !.status = "CANCELED", !.cancel = FALSE, !.plan = Free])
  /\ Finish(p)
  /\ UNCHANGED <<workspace, stripeVars, ghostVars>>

SaveDeleted(p) ==
  LET j == job[p] IN
  /\ Handles(p, "deleted")
  /\ SaveRow(j, [ClearPending(j.old) EXCEPT !.status = "CANCELED", !.cancel = FALSE, !.plan = Free])
  /\ SavePlan(j, Free)
  /\ Finish(p)
  /\ UNCHANGED <<stripeVars, ghostVars>>

(* No row to change, or no plan to write in it: the handler raises, and the*)
(* event is not handled again.                                             *)
EventFails(p) ==
  /\ At(p, {"webhook"}, "loaded") /\ ~ Applies(job[p])
  /\ Finish(p)
  /\ UNCHANGED <<dbVars, stripeVars, ghostVars>>

(* An exception anywhere in a job, or the death of its process. What Stripe*)
(* has done stays, what is not committed does not.                         *)
Fault(p) ==
  /\ "fault" \in Hazards /\ job[p].pc # "idle"
  /\ AnswerError(p)

-----------------------------------------------------------------------------
Request(p) == LoadCheckout(p) \/ LoadCreate(p) \/ LoadUpdate(p) \/ LoadCancel(p) \/ Replay(p)

Step(p) ==
  \/ CreateCustomer(p) \/ SaveCustomer(p) \/ OpenSession(p)
  \/ CreateSubscription(p) \/ SaveCreate(p)
  \/ ModifyPlan(p) \/ SaveUpdate(p) \/ ModifyCancel(p) \/ SaveCancel(p) \/ StripeRefuses(p)
  \/ SaveComplete(p)
  \/ SaveCompleted(p) \/ SavePaid(p) \/ SavePaymentFailed(p) \/ SaveUpdated(p) \/ SaveDeleted(p)
  \/ EventFails(p)

Stripe(s) ==
  PayCheckout(s) \/ PayFirstInvoice(s) \/ Renew(s) \/ RenewFails(s) \/ Recover(s) \/ End(s)

Next ==
  \/ \E p \in Procs : Request(p) \/ Return(p) \/ Claim(p) \/ Step(p) \/ Fault(p)
  \/ \E s \in Subs : Stripe(s)
  \/ Leave

Spec == Init /\ [][Next]_vars

(* Workers take events, and a job that has begun goes on to its end. The   *)
(* admin and Stripe are under no obligation.                               *)
Fairness ==
  /\ WF_vars(Leave \/ \E p \in Procs : Return(p) \/ Claim(p))
  /\ \A p \in Procs : WF_vars(Step(p))

FairSpec == Spec /\ Fairness

-----------------------------------------------------------------------------
Mirrors(row, s) ==
  /\ CASE s.status = "canceled" -> row.status = "CANCELED" /\ row.plan = Free
       [] s.status = "past_due" -> row.status = "PAST_DUE"
       [] s.status = "active" -> row.status = "ACTIVE"
       [] OTHER -> row.status = "INCOMPLETE"
  /\ s.status # "canceled" =>
       /\ row.period = s.period
       /\ row.cancel = s.cancel
       /\ row.ptype = "NONE" => row.plan = s.plan
       /\ row.ptype = "DOWNGRADE" => row.pplan = s.plan
       /\ row.ptype = "CANCEL_TO_FREE" => row.cancel

(* When every event has been handled, each row says what Stripe says of    *)
(* its subscription, and once it was paid the workspace is on its plan: the *)
(* sync that nine handlers, each writing some of the columns, add up to.   *)
Synchronised ==
  Calm => \A r \in DOMAIN subscription :
            /\ Mirrors(subscription[r], stripe[subscription[r].sid])
            /\ subscription[r].status # "INCOMPLETE" => workspace.plan = subscription[r].plan

(* The workspace has one row, which create_subscription_service,           *)
(* complete_checkout_session_service and two webhook handlers may insert   *)
(* and every request takes with first(); no constraint of the table says so*)
OneRow == Len(subscription) <= 1

(* The Stripe item a row names, which updates are sent to, is an item of   *)
(* the subscription the row names.                                         *)
ItemBelongs == \A r \in DOMAIN subscription : subscription[r].item = subscription[r].sid

(* A workspace is only ever on FREE or on a plan that one of its           *)
(* subscriptions has at some time been billed for: no order of events,     *)
(* requests, lost events and half-written columns grants a plan that was   *)
(* asked for and never charged. It does not say that the subscription still*)
(* goes on: complete_checkout_session_service does not look at its status, *)
(* so a success page opened again after the end gives the plan back.       *)
GrantedPlanWasPriced == workspace.plan \in priced \cup {Free}

(* A request is turned down with "An active subscription already exists"   *)
(* only while a subscription at Stripe is running or waits for its payment.*)
RefusalJustified ==
  Calm => \A r \in DOMAIN subscription :
    LET row == subscription[r] IN
    CheckoutRefused(row) \/ ("create" \in Hazards /\ CreateRefused(row)) =>
      \E s \in Subs : Running(s) \/ stripe[s].status = "incomplete"

(* Taken one after the other, no request answers with an error after it has*)
(* changed the subscription: no cancellation is committed and then answered*)
(* 500. What a failed request may have committed is a customer at Stripe   *)
(* (get_stripe_customer_id), and the requests after it use that one: there *)
(* is never a second.                                                      *)
FailedRequestIsHarmless ==
  /\ "subscription" \notin misreported
  /\ customers <= 1
  /\ Calm => workspace.customer = customers

(* A step that carries out a downgrade does so in a later billing cycle    *)
(* than the one it was scheduled in ("Downgrade scheduled for next billing *)
(* cycle").                                                                *)
DowngradeNextCycle ==
  [][\A r \in DOMAIN subscription :
       LET row == subscription[r] IN
       ( /\ row.ptype = "DOWNGRADE" /\ row.plan # row.pplan
         /\ subscription'[r].sid = row.sid /\ subscription'[r].plan = row.pplan )
         => stripe[row.sid].period > scheduled[row.sid]]_vars

(* The plan of a workspace falls only to the plan that Stripe bills for, or*)
(* to FREE when its subscription has ended.                                *)
NoSilentLoss ==
  [][Price[workspace'.plan] < Price[workspace.plan] =>
       \/ \E s \in Subs : Running(s) /\ stripe[s].plan = workspace'.plan
       \/ /\ workspace'.plan = Free
          /\ \E r \in DOMAIN subscription : stripe[subscription[r].sid].status = "canceled"]_vars

(* A checkout that was paid eventually lifts the workspace off FREE, unless*)
(* the admin cancels it or it ends first.                                  *)
PaidIsGranted ==
  \A s \in Subs :
    (stripe[s].meta # NoPlan /\ stripe[s].status = "active") ~>
      (workspace.plan # Free \/ stripe[s].cancel \/ stripe[s].status = "canceled")

(* A subscription that has ended at Stripe is eventually CANCELED in the   *)
(* row that names it, and the workspace is back on FREE unless a row names *)
(* a subscription that goes on. (POST /subscription over an existing row   *)
(* leaves the old id in it, so no row names the new subscription: of its   *)
(* end only the part about the workspace is claimed.)                      *)
EndIsRecorded ==
  \A s \in Subs : stripe[s].status = "canceled" ~>
    /\ \A r \in DOMAIN subscription :
         subscription[r].sid = s => subscription[r].status = "CANCELED"
    /\ workspace.plan = Free \/ \E r \in DOMAIN subscription : Running(subscription[r].sid)

-----------------------------------------------------------------------------
(* Events of s that wait in the queue or are with a worker.                *)
Waiting(s, type) ==
  \E i \in DOMAIN events : events[i].sub = s /\ events[i].type = type
InHand(s, type) ==
  \E p \in Procs : /\ job[p].op \in {"complete", "webhook"}
                   /\ job[p].sub = s /\ job[p].ev.type = type
Due(s, type) == Waiting(s, type) \/ InHand(s, type)

(* The contract of the workspace that its one row and Stripe add up to. A  *)
(* purchase is settled when the invoice of its first period is handled.    *)
Settling ==
  {s \in Subs : stripe[s].status = "active" /\ stripe[s].period = 1 /\ Due(s, "paid")}
Bought == {stripe[s].plan : s \in Settling}

HasRow == subscription # << >>
Pending == IF HasRow /\ subscription[1].ptype # "NONE" THEN subscription[1].pplan ELSE NoPlan
Ripe ==
  /\ HasRow /\ subscription[1].ptype = "DOWNGRADE"
  /\ stripe[subscription[1].sid].period > scheduled[subscription[1].sid]
Over == HasRow /\ Due(subscription[1].sid, "deleted")

Contract == INSTANCE SubscriptionContract WITH
  plan <- workspace.plan, pending <- Pending, ripe <- Ripe, bought <- Bought, over <- Over

(* Taken one after the other, the requests and the handlers keep what the  *)
(* contract says about the plan of the workspace: update_subscription_     *)
(* service, cancel_subscription_service and handle_event of stripe_task.py.*)
KeepsContract == Contract!Spec
=============================================================================
