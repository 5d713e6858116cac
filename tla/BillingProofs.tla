--------------------------- MODULE BillingProofs ---------------------------
(***************************************************************************)
(* Theorems about Billing for any plans, prices, subscriptions, workers and*)
(* bounds: type correctness, and, as long as POST /subscription is not     *)
(* used, the two safety properties that survive every race: the item of a  *)
(* row belongs to its subscription, and no plan is granted that was never  *)
(* billed for.                                                             *)
(***************************************************************************)
EXTENDS Billing, SequenceTheorems, TLAPS

(* What the Stripe objects look like between steps.                        *)
StripeOK(s) ==
  /\ s.status # "none" => s.plan \in Paid
  /\ s.meta # NoPlan => s.meta \in Paid
  /\ s.status = "open" => s.meta = s.plan

EventOK(e) == e.type = "completed" => stripe[e.sub].meta # NoPlan

(* What a job holds: a row that exists, the workspace, and the input that  *)
(* its request or event has.                                               *)
JobOK(j) ==
  /\ j.row <= Len(subscription)
  /\ j.row = 0 <=> j.old = NoRow
  /\ j.op \in {"checkout", "create"} => j.ws \in Workspace
  /\ j.op \in {"update", "cancel"} => j.old # NoRow
  /\ j.op \in {"checkout", "create", "update"} => j.plan \in Plans
  /\ j.op \in {"create", "update"} /\ j.pc = "called" => j.plan \in Paid
  /\ j.op = "create" /\ j.pc = "called" => j.sub \in Subs
  /\ j.op \in {"complete", "webhook"} => j.sub \in Subs /\ j.ev \in Event
  /\ j.op = "complete" => stripe[j.sub].meta # NoPlan
  /\ j.op = "webhook" => j.ev.sub = j.sub /\ EventOK(j.ev)

TypeInv ==
  /\ TypeOK
  /\ \A s \in Subs : StripeOK(stripe[s])
  /\ \A i \in DOMAIN events : EventOK(events[i])
  /\ \A p \in Procs : JobOK(job[p])

-----------------------------------------------------------------------------
(* What survives every race as long as POST /subscription is not used: the *)
(* plans that may be granted, and where a plan and an item can come from:  *)
(* the rows and the copies of them that jobs hold, the input of an update  *)
(* that Stripe has taken, and the metadata of a session that was paid.     *)
Known == priced \cup {Free}

RowFine(row) ==
  row.item = row.sid /\ row.plan \in Known /\ row.pplan \in Known \cup {NoPlan}

Billed(s) == stripe[s].status \notin {"none", "open"} /\ stripe[s].meta \in priced

JobFine(j) ==
  /\ j.op # "create"
  /\ j.old # NoRow => RowFine(j.old)
  /\ j.op = "update" /\ j.pc = "called" => j.plan \in priced
  /\ j.op \in {"complete", "webhook"} => Billed(j.sub)

FineInv ==
  /\ workspace.plan \in Known
  /\ \A r \in DOMAIN subscription : RowFine(subscription[r])
  /\ \A s \in Subs : stripe[s].status \notin {"none", "open"} => Billed(s)
  /\ \A i \in DOMAIN events : Billed(events[i].sub)
  /\ \A p \in Procs : JobFine(job[p])

-----------------------------------------------------------------------------
(* Sequences of rows and events.                                           *)

(* The missing row is neither a row nor a workspace.                       *)
LEMMA NoRowIsNone == NoRow \notin Row /\ NoRow \notin Workspace
  BY SubsAssumption DEF NoRow, Row, Workspace

(* A flush mixes two rows column by column.                                *)
LEMMA FlushColumns ==
  ASSUME NEW now \in Row, NEW old \in Row, NEW new \in Row
  PROVE  /\ Flush(now, old, new) \in Row
         /\ Flush(now, old, new).plan = IF new.plan = old.plan THEN now.plan ELSE new.plan
         /\ Flush(now, old, new).pplan = IF new.pplan = old.pplan THEN now.pplan ELSE new.pplan
         /\ Flush(now, old, new).sid = IF new.sid = old.sid THEN now.sid ELSE new.sid
         /\ Flush(now, old, new).item = IF new.item = old.item THEN now.item ELSE new.item
<1> DEFINE F == {"sid", "item", "plan", "status", "cancel", "pplan", "ptype", "period"}
<1>1. DOMAIN new = F
  BY DEF Row
<1>2. Flush(now, old, new) = [f \in F |-> IF new[f] = old[f] THEN now[f] ELSE new[f]]
  BY <1>1 DEF Flush
<1>3. Flush(now, old, new) =
        [sid |-> IF new.sid = old.sid THEN now.sid ELSE new.sid,
         item |-> IF new.item = old.item THEN now.item ELSE new.item,
         plan |-> IF new.plan = old.plan THEN now.plan ELSE new.plan,
         status |-> IF new.status = old.status THEN now.status ELSE new.status,
         cancel |-> IF new.cancel = old.cancel THEN now.cancel ELSE new.cancel,
         pplan |-> IF new.pplan = old.pplan THEN now.pplan ELSE new.pplan,
         ptype |-> IF new.ptype = old.ptype THEN now.ptype ELSE new.ptype,
         period |-> IF new.period = old.period THEN now.period ELSE new.period]
  BY <1>2
<1>. QED BY <1>3 DEF Row

(* A job writes its row, or appends one; the other rows stay.              *)
LEMMA SavedRows ==
  ASSUME subscription \in Seq(Row), NEW j \in Job, NEW new \in Row,
         j.row <= Len(subscription), j.row = 0 <=> j.old = NoRow,
         SaveRow(j, new)
  PROVE  /\ subscription' \in Seq(Row)
         /\ Len(subscription') >= Len(subscription)
         /\ \A r \in DOMAIN subscription' :
              \/ r \in DOMAIN subscription /\ subscription'[r] = subscription[r]
              \/ j.old = NoRow /\ subscription'[r] = new
              \/ /\ j.old \in Row /\ r \in DOMAIN subscription
                 /\ subscription'[r] = Flush(subscription[r], j.old, new)
<1>1. CASE j.row = 0
  <2>1. subscription' = Append(subscription, new)
    BY <1>1 DEF SaveRow
  <2>. QED BY <1>1, <2>1
<1>2. CASE j.row # 0
  <2>1. /\ j.row \in 1 .. Len(subscription) /\ j.old \in Row
        /\ subscription' = [subscription EXCEPT ![j.row] = Flush(subscription[j.row], j.old, new)]
    BY <1>2 DEF SaveRow, Job
  <2>2. Flush(subscription[j.row], j.old, new) \in Row
    BY <2>1, FlushColumns
  <2>. QED BY <2>1, <2>2, ExceptSeq
<1>. QED BY <1>1, <1>2

(* A commit leaves the plan it writes, or the one it found.                *)
LEMMA SavedPlan ==
  ASSUME workspace \in Workspace, NEW j, NEW plan \in Plans, SavePlan(j, plan)
  PROVE  workspace' \in Workspace /\ workspace'.plan \in {workspace.plan, plan}
  BY DEF SavePlan, Workspace

(* What a query finds: nothing, or a row that exists.                      *)
LEMMA AnyRowIs ==
  ASSUME subscription \in Seq(Row), NEW r, r \in AnyRow \/ \E s \in Subs : r \in RowOf(s)
  PROVE  /\ r \in Nat /\ r <= Len(subscription)
         /\ Loaded(r) \in Row \cup {NoRow}
         /\ r = 0 <=> Loaded(r) = NoRow
         /\ Loaded(r) # NoRow => r \in DOMAIN subscription /\ Loaded(r) = subscription[r]
<1>1. r = 0 \/ r \in DOMAIN subscription
  BY DEF AnyRow, RowOf, First
<1>2. CASE r = 0
  BY <1>2 DEF Loaded
<1>3. CASE r # 0
  <2>1. r \in 1 .. Len(subscription) /\ Loaded(r) = subscription[r] /\ subscription[r] \in Row
    BY <1>1, <1>3 DEF Loaded
  <2>. QED BY <1>3, <2>1, NoRowIsNone
<1>. QED BY <1>2, <1>3

(* The events of a step are about its subscription.                        *)
LEMMA EmittedEvents ==
  ASSUME events \in Seq(Event), stripe' \in [Subs -> StripeSub], NEW s \in Subs,
         NEW types \in Seq(EventType), Emit(s, types)
  PROVE  /\ events' \in Seq(Event)
         /\ \A i \in DOMAIN events' :
              \/ i \in DOMAIN events /\ events'[i] = events[i]
              \/ events'[i].sub = s /\ \E k \in DOMAIN types : events'[i].type = types[k]
<1> DEFINE new == [i \in DOMAIN types |-> About(s, types[i])]
<1>1. DOMAIN types = 1 .. Len(types) /\ Len(types) \in Nat
  OBVIOUS
<1>2. \A i \in DOMAIN types : About(s, types[i]) \in Event /\ About(s, types[i]).sub = s
                              /\ About(s, types[i]).type = types[i]
  BY DEF About, Event, StripeSub
<1>3. new \in Seq(Event) /\ Len(new) = Len(types)
  <2>1. new \in [1 .. Len(types) -> Event]
    BY <1>1, <1>2
  <2>. QED BY <1>1, <2>1
<1>4. events' = events \o new
  BY DEF Emit
<1>5. /\ events' \in Seq(Event) /\ Len(events') = Len(events) + Len(new)
      /\ \A i \in 1 .. Len(events) + Len(new) :
           events'[i] = IF i <= Len(events) THEN events[i] ELSE new[i - Len(events)]
  BY <1>3, <1>4, ConcatProperties
<1>6. ASSUME NEW i \in DOMAIN events'
      PROVE  \/ i \in DOMAIN events /\ events'[i] = events[i]
             \/ events'[i].sub = s /\ \E k \in DOMAIN types : events'[i].type = types[k]
  <2>1. i \in 1 .. Len(events) + Len(new)
    BY <1>5
  <2>2. CASE i <= Len(events)
    BY <1>5, <2>1, <2>2
  <2>3. CASE ~ (i <= Len(events))
    <3>1. events'[i] = new[i - Len(events)] /\ i - Len(events) \in DOMAIN types
      BY <1>1, <1>3, <1>5, <2>1, <2>3
    <3>. QED BY <1>2, <3>1
  <2>. QED BY <2>2, <2>3
<1>. QED BY <1>5, <1>6

(* Taking an event out of the queue leaves the others in it.               *)
LEMMA RemainingEvents ==
  ASSUME events \in Seq(Event), NEW i \in DOMAIN events
  PROVE  /\ Without(i) \in Seq(Event)
         /\ \A k \in DOMAIN Without(i) : \E l \in DOMAIN events : Without(i)[k] = events[l]
<1> DEFINE a == SubSeq(events, 1, i - 1)
           b == SubSeq(events, i + 1, Len(events))
<1>1. i \in 1 .. Len(events) /\ Len(events) \in Nat
  OBVIOUS
<1>2. /\ a \in Seq(Event) /\ Len(a) = i - 1
      /\ \A k \in 1 .. i - 1 : a[k] = events[k]
  <2>1. \A k \in 1 .. i - 1 : events[k] \in Event
    BY <1>1
  <2>. QED BY <1>1, <2>1, SubSeqProperties
<1>3. /\ b \in Seq(Event) /\ Len(b) = Len(events) - i
      /\ \A k \in 1 .. Len(events) - i : b[k] = events[k + i]
  <2>1. \A k \in i + 1 .. Len(events) : events[k] \in Event
    BY <1>1
  <2>2. /\ SubSeq(events, i + 1, Len(events)) \in Seq(Event)
        /\ Len(SubSeq(events, i + 1, Len(events))) =
             IF i + 1 <= Len(events) THEN Len(events) - (i + 1) + 1 ELSE 0
        /\ \A k \in 1 .. Len(events) - (i + 1) + 1 :
             SubSeq(events, i + 1, Len(events))[k] = events[i + 1 + k - 1]
    BY <1>1, <2>1, SubSeqProperties
  <2>. QED BY <1>1, <2>2
<1>4. /\ a \o b \in Seq(Event) /\ Len(a \o b) = Len(a) + Len(b)
      /\ \A k \in 1 .. Len(a) + Len(b) : (a \o b)[k] = IF k <= Len(a) THEN a[k] ELSE b[k - Len(a)]
  BY <1>2, <1>3, ConcatProperties
<1>5. Without(i) = a \o b
  BY DEF Without
<1>6. ASSUME NEW k \in DOMAIN Without(i)
      PROVE  \E l \in DOMAIN events : Without(i)[k] = events[l]
  <2>. HIDE DEF a, b
  <2>1. k \in 1 .. Len(a) + Len(b)
    BY <1>4, <1>5
  <2>2. k \in 1 .. Len(events) - 1 /\ DOMAIN events = 1 .. Len(events)
    BY <1>1, <1>2, <1>3, <2>1
  <2>3. CASE k <= i - 1
    <3>1. Without(i)[k] = events[k]
      BY <1>1, <1>2, <1>4, <1>5, <2>1, <2>2, <2>3
    <3>. QED BY <2>2, <3>1
  <2>4. CASE ~ (k <= i - 1)
    <3>1. k - (i - 1) \in 1 .. Len(events) - i
      BY <1>1, <2>2, <2>4
    <3>2. Without(i)[k] = b[k - (i - 1)]
      BY <1>1, <1>2, <1>4, <1>5, <2>1, <2>2, <2>4
    <3>3. Without(i)[k] = events[k - (i - 1) + i]
      BY <1>3, <3>1, <3>2
    <3>4. k - (i - 1) + i = k + 1 /\ k + 1 \in DOMAIN events
      BY <1>1, <2>2
    <3>. QED BY <3>3, <3>4
  <2>. QED BY <2>3, <2>4
<1>. QED BY <1>4, <1>5, <1>6

-----------------------------------------------------------------------------
(* Type correctness.                                                       *)

(* What a job holds stays right while the rows grow and the metadata of    *)
(* sessions stay.                                                          *)
LEMMA JobStays ==
  ASSUME NEW j, JobOK(j),
         Len(subscription) \in Nat, Len(subscription') \in Nat, NEW n \in Nat, n = j.row,
         Len(subscription') >= Len(subscription),
         \A s \in Subs : stripe[s].meta # NoPlan => stripe'[s].meta # NoPlan
  PROVE  JobOK(j)'
  BY DEF JobOK, EventOK

(* A step of Stripe, or of a job at Stripe, that adds events about s.      *)
LEMMA StripeTypes ==
  ASSUME TypeInv, NEW s \in Subs, NEW new \in StripeSub, NEW types \in Seq(EventType),
         stripe' = [stripe EXCEPT ![s] = new], Emit(s, types),
         StripeOK(new), stripe[s].meta = new.meta,
         \A k \in DOMAIN types : types[k] = "completed" => new.meta # NoPlan
  PROVE  /\ stripe' \in [Subs -> StripeSub] /\ events' \in Seq(Event)
         /\ \A u \in Subs : StripeOK(stripe[u])'
         /\ \A i \in DOMAIN events' : EventOK(events[i])'
         /\ \A u \in Subs : stripe[u].meta = stripe'[u].meta
<1>1. /\ stripe' \in [Subs -> StripeSub] /\ stripe'[s] = new
      /\ \A u \in Subs : u # s => stripe'[u] = stripe[u]
  BY DEF TypeInv, TypeOK
<1>2. \A u \in Subs : StripeOK(stripe'[u]) /\ stripe[u].meta = stripe'[u].meta
  BY <1>1 DEF TypeInv
<1>3. /\ events' \in Seq(Event)
      /\ \A i \in DOMAIN events' :
           \/ i \in DOMAIN events /\ events'[i] = events[i]
           \/ events'[i].sub = s /\ \E k \in DOMAIN types : events'[i].type = types[k]
  BY <1>1, EmittedEvents DEF TypeInv, TypeOK
<1>4. ASSUME NEW i \in DOMAIN events' PROVE EventOK(events[i])'
  <2>1. CASE i \in DOMAIN events /\ events'[i] = events[i]
    <3>1. EventOK(events[i]) /\ events[i] \in Event
      BY <2>1 DEF TypeInv, TypeOK
    <3>. QED BY <1>2, <2>1, <3>1 DEF EventOK, Event
  <2>2. CASE events'[i].sub = s /\ \E k \in DOMAIN types : events'[i].type = types[k]
    BY <1>1, <2>2 DEF EventOK
  <2>. QED BY <1>3, <2>1, <2>2
<1>. QED BY <1>1, <1>2, <1>3, <1>4 DEF StripeOK

(* One job moves on; the others keep what they hold.                       *)
LEMMA JobsStay ==
  ASSUME TypeInv, NEW p \in Procs, NEW new \in Job, job' = [job EXCEPT ![p] = new], JobOK(new)',
         Len(subscription') \in Nat, Len(subscription') >= Len(subscription),
         \A s \in Subs : stripe[s].meta # NoPlan => stripe'[s].meta # NoPlan
  PROVE  job' \in [Procs -> Job] /\ \A q \in Procs : JobOK(job[q])'
<1>1. job \in [Procs -> Job] /\ job'[p] = new /\ \A q \in Procs : q # p => job'[q] = job[q]
  BY DEF TypeInv, TypeOK
<1>2. ASSUME NEW q \in Procs PROVE JobOK(job[q])'
  <2>1. CASE q = p
    BY <1>1, <2>1
  <2>2. CASE q # p
    <3>1. PICK j \in Job : j = job[q]
      BY <1>1
    <3>2. JobOK(j) /\ Len(subscription) \in Nat /\ j.row \in Nat
      BY <3>1 DEF TypeInv, TypeOK, Job
    <3>3. JobOK(j)'
      BY <3>2, JobStays
    <3>. QED BY <1>1, <2>2, <3>1, <3>3
  <2>. QED BY <2>1, <2>2
<1>. QED BY <1>1, <1>2

(* A job that is over holds nothing.                                       *)
LEMMA IdleIsFine ==
  ASSUME Len(subscription') \in Nat
  PROVE  Idle \in Job /\ JobOK(Idle)'
  BY DEF Idle, Job, JobOK, Op

(* The end of a job that has written its row, and perhaps the plan of the  *)
(* workspace.                                                              *)
LEMMA SavedTypes ==
  ASSUME TypeInv, NEW p \in Procs, NEW new \in Row, NEW plan \in Plans,
         SaveRow(job[p], new), SavePlan(job[p], plan) \/ workspace' = workspace,
         Finish(p), UNCHANGED <<stripeVars, requests, replays>>,
         scheduled' \in [Subs -> Nat], misreported' \subseteq Leftover
  PROVE  TypeInv'
<1>1. PICK j \in Job : j = job[p]
  BY DEF TypeInv, TypeOK
<1>2. JobOK(j)
  BY <1>1 DEF TypeInv
<1>3. subscription' \in Seq(Row) /\ Len(subscription') >= Len(subscription)
  BY <1>1, <1>2, SavedRows DEF TypeInv, TypeOK, JobOK
<1>4. workspace' \in Workspace
  BY <1>1, SavedPlan DEF TypeInv, TypeOK
<1>5. Len(subscription') \in Nat
  BY <1>3
<1>6. job' \in [Procs -> Job] /\ \A q \in Procs : JobOK(job[q])'
  BY <1>3, <1>5, JobsStay, IdleIsFine DEF Finish, stripeVars
<1>7. TypeOK'
  BY <1>3, <1>4, <1>6 DEF TypeInv, TypeOK, stripeVars
<1>. QED BY <1>6, <1>7 DEF TypeInv, stripeVars, EventOK

(* A step of a job that writes nothing to the database.                    *)
LEMMA QuietTypes ==
  ASSUME TypeInv, NEW p \in Procs, NEW new \in Job, job' = [job EXCEPT ![p] = new], JobOK(new)',
         UNCHANGED <<dbVars, scheduled, misreported>>,
         stripe' \in [Subs -> StripeSub], \A s \in Subs : StripeOK(stripe[s])',
         \A s \in Subs : stripe[s].meta # NoPlan => stripe'[s].meta # NoPlan,
         customers' \in Nat, events' \in Seq(Event), priced' \subseteq Paid,
         requests' \in 0 .. MaxRequests, replays' \in 0 .. MaxReplays,
         \A i \in DOMAIN events' : EventOK(events[i])'
  PROVE  TypeInv'
<1>1. Len(subscription') \in Nat /\ Len(subscription') >= Len(subscription)
  BY DEF TypeInv, TypeOK, dbVars
<1>2. job' \in [Procs -> Job] /\ \A q \in Procs : JobOK(job[q])'
  BY <1>1, JobsStay
<1>3. TypeOK'
  BY <1>2 DEF TypeInv, TypeOK, dbVars
<1>. QED BY <1>2, <1>3 DEF TypeInv

(* The same for an action that leaves the events alone.                    *)
LEMMA SilentTypes ==
  ASSUME TypeInv, NEW p \in Procs, NEW new \in Job, job' = [job EXCEPT ![p] = new], JobOK(new)',
         UNCHANGED <<dbVars, stripe, events, priced, scheduled, misreported>>,
         customers' \in Nat,
         requests' \in 0 .. MaxRequests, replays' \in 0 .. MaxReplays
  PROVE  TypeInv'
<1>1. /\ \A i \in DOMAIN events' : EventOK(events[i])'
      /\ \A s \in Subs : StripeOK(stripe[s])'
      /\ stripe' \in [Subs -> StripeSub]
      /\ \A s \in Subs : stripe[s].meta # NoPlan => stripe'[s].meta # NoPlan
  BY DEF TypeInv, TypeOK, EventOK
<1>2. events' \in Seq(Event) /\ priced' \subseteq Paid
  BY DEF TypeInv, TypeOK
<1>. QED BY <1>1, <1>2, QuietTypes

(* A step of Stripe alone.                                                 *)
LEMMA StripeStepTypes ==
  ASSUME TypeInv, StripeOnly, priced' \subseteq Paid,
         stripe' \in [Subs -> StripeSub], events' \in Seq(Event),
         \A u \in Subs : StripeOK(stripe[u])',
         \A i \in DOMAIN events' : EventOK(events[i])',
         \A u \in Subs : stripe[u].meta = stripe'[u].meta
  PROVE  TypeInv'
<1>1. TypeOK'
  BY DEF TypeInv, TypeOK, StripeOnly, dbVars, ghostVars
<1>2. ASSUME NEW p \in Procs PROVE JobOK(job[p])'
  <2>1. PICK j \in Job : j = job[p]
    BY DEF TypeInv, TypeOK
  <2>2. JobOK(j)
    BY <2>1 DEF TypeInv
  <2>3. /\ Len(subscription) \in Nat /\ Len(subscription') \in Nat /\ j.row \in Nat
        /\ Len(subscription') >= Len(subscription) /\ job' = job
    BY <2>1 DEF TypeInv, TypeOK, StripeOnly, dbVars, Job
  <2>4. JobOK(j)'
    BY <2>2, <2>3, JobStays
  <2>. QED BY <2>1, <2>3, <2>4
<1>. QED BY <1>1, <1>2 DEF TypeInv

(* The events that the steps emit.                                         *)
LEMMA EmittedTypes ==
  /\ <<"updated">> \in Seq(EventType) /\ <<"deleted">> \in Seq(EventType)
  /\ <<"updated", "paid">> \in Seq(EventType)
  /\ <<"updated", "payment_failed">> \in Seq(EventType)
  /\ PaymentOrders \subseteq Seq(EventType)
  /\ \A k \in DOMAIN <<"updated">> : <<"updated">>[k] # "completed"
  /\ \A k \in DOMAIN <<"deleted">> : <<"deleted">>[k] # "completed"
  /\ \A k \in DOMAIN <<"updated", "paid">> : <<"updated", "paid">>[k] # "completed"
  /\ \A k \in DOMAIN <<"updated", "payment_failed">> :
       <<"updated", "payment_failed">>[k] # "completed"
<1>1. /\ <<"return", "completed", "paid">> \in Seq(EventType)
      /\ <<"completed", "return", "paid">> \in Seq(EventType)
      /\ <<"completed", "paid", "return">> \in Seq(EventType)
  BY DEF EventType
<1>2. PaymentOrders \subseteq Seq(EventType)
  BY <1>1 DEF PaymentOrders
<1>. QED BY <1>2 DEF EventType

(* Each step of Stripe.                                                    *)
LEMMA StripeTypeStep ==
  ASSUME TypeInv, NEW s \in Subs, Stripe(s)
  PROVE  TypeInv'
<1>s. stripe \in [Subs -> StripeSub] /\ stripe[s] \in StripeSub /\ StripeOK(stripe[s])
      /\ priced \subseteq Paid
  BY DEF TypeInv, TypeOK
<1>1. ASSUME PayCheckout(s) PROVE TypeInv'
  <2> DEFINE new == [stripe[s] EXCEPT !.status = "active", !.period = 1]
  <2>1. new \in StripeSub /\ stripe' = [stripe EXCEPT ![s] = new]
    BY <1>1, <1>s DEF PayCheckout, StripeSub, StripeStatus
  <2>2. StripeOK(new) /\ stripe[s].meta = new.meta /\ new.meta # NoPlan
    BY <1>1, <1>s, PlansAssumption DEF PayCheckout, StripeSub, StripeOK, Paid
  <2>3. PICK types \in PaymentOrders : Emit(s, types)
    BY <1>1 DEF PayCheckout
  <2>4. types \in Seq(EventType)
    BY <2>3, EmittedTypes
  <2>5. priced' \subseteq Paid
    BY <1>1, <1>s DEF PayCheckout, StripeOK
  <2>. HIDE DEF new
  <2>. QED BY <1>1, <2>1, <2>2, <2>3, <2>4, <2>5, StripeTypes, StripeStepTypes DEF PayCheckout
<1>2. ASSUME PayFirstInvoice(s) PROVE TypeInv'
  <2> DEFINE new == [stripe[s] EXCEPT !.status = "active", !.period = 1]
  <2>1. new \in StripeSub /\ stripe' = [stripe EXCEPT ![s] = new]
    BY <1>2, <1>s DEF PayFirstInvoice, StripeSub, StripeStatus
  <2>2. StripeOK(new) /\ stripe[s].meta = new.meta
    BY <1>2, <1>s DEF PayFirstInvoice, StripeSub, StripeOK
  <2>5. priced' \subseteq Paid
    BY <1>2, <1>s DEF PayFirstInvoice, StripeOK
  <2>. HIDE DEF new
  <2>. QED BY <1>2, <2>1, <2>2, <2>5, EmittedTypes, StripeTypes, StripeStepTypes DEF PayFirstInvoice
<1>3. ASSUME Renew(s) PROVE TypeInv'
  <2> DEFINE new == [stripe[s] EXCEPT !.period = @ + 1]
  <2>1. new \in StripeSub /\ stripe' = [stripe EXCEPT ![s] = new]
    BY <1>3, <1>s DEF Renew, StripeSub, StripeStatus
  <2>2. StripeOK(new) /\ stripe[s].meta = new.meta
    BY <1>s DEF StripeSub, StripeOK
  <2>. HIDE DEF new
  <2>. QED BY <1>3, <1>s, <2>1, <2>2, EmittedTypes, StripeTypes, StripeStepTypes DEF Renew
<1>4. ASSUME RenewFails(s) PROVE TypeInv'
  <2> DEFINE new == [stripe[s] EXCEPT !.status = "past_due", !.period = @ + 1]
  <2>1. new \in StripeSub /\ stripe' = [stripe EXCEPT ![s] = new]
    BY <1>4, <1>s DEF RenewFails, StripeSub, StripeStatus
  <2>2. StripeOK(new) /\ stripe[s].meta = new.meta
    BY <1>4, <1>s DEF RenewFails, StripeSub, StripeOK
  <2>. HIDE DEF new
  <2>. QED BY <1>4, <1>s, <2>1, <2>2, EmittedTypes, StripeTypes, StripeStepTypes DEF RenewFails
<1>5. ASSUME Recover(s) PROVE TypeInv'
  <2> DEFINE new == [stripe[s] EXCEPT !.status = "active"]
  <2>1. new \in StripeSub /\ stripe' = [stripe EXCEPT ![s] = new]
    BY <1>5, <1>s DEF Recover, StripeSub, StripeStatus
  <2>2. StripeOK(new) /\ stripe[s].meta = new.meta
    BY <1>5, <1>s DEF Recover, StripeSub, StripeOK
  <2>. HIDE DEF new
  <2>. QED BY <1>5, <1>s, <2>1, <2>2, EmittedTypes, StripeTypes, StripeStepTypes DEF Recover
<1>6. ASSUME End(s) PROVE TypeInv'
  <2> DEFINE new == [stripe[s] EXCEPT !.status = "canceled"]
  <2>1. new \in StripeSub /\ stripe' = [stripe EXCEPT ![s] = new]
    BY <1>6, <1>s DEF End, StripeSub, StripeStatus
  <2>2. StripeOK(new) /\ stripe[s].meta = new.meta
    BY <1>6, <1>s DEF End, Running, StripeSub, StripeOK
  <2>. HIDE DEF new
  <2>. QED BY <1>6, <1>s, <2>1, <2>2, EmittedTypes, StripeTypes, StripeStepTypes DEF End
<1>. QED BY <1>1, <1>2, <1>3, <1>4, <1>5, <1>6 DEF Stripe

(* A request, the success page and an event each start a job.              *)
LEMMA LoadTypes ==
  ASSUME TypeInv, NEW p \in Procs, NEW op \in {"checkout", "create", "update", "cancel"},
         NEW plan \in Plans \cup {NoPlan}, op # "cancel" => plan \in Plans,
         NEW r \in AnyRow, op \in {"update", "cancel"} => r # 0,
         Load(p, op, plan, r)
  PROVE  TypeInv'
<1> DEFINE new == [Idle EXCEPT !.pc = "loaded", !.op = op, !.plan = plan,
                               !.row = r, !.old = Loaded(r), !.ws = workspace]
<1>1. /\ subscription \in Seq(Row) /\ workspace \in Workspace /\ customers \in Nat
      /\ requests \in 0 .. MaxRequests /\ replays \in 0 .. MaxReplays
  BY DEF TypeInv, TypeOK
<1>2. /\ r \in Nat /\ r <= Len(subscription) /\ Loaded(r) \in Row \cup {NoRow}
      /\ r = 0 <=> Loaded(r) = NoRow
  BY <1>1, AnyRowIs
<1>3. PICK n \in Job : n = new
  BY <1>1, <1>2 DEF Idle, Job, Op
<1>4. JobOK(n)'
  <2>1. subscription' = subscription
    BY DEF Load, dbVars
  <2>. QED BY <1>1, <1>2, <1>3, <2>1 DEF JobOK, Idle
<1>5. job' = [job EXCEPT ![p] = n]
  BY <1>3 DEF Load
<1>6. requests' \in 0 .. MaxRequests
  BY <1>1, BoundsAssumption DEF Load
<1>7. UNCHANGED <<dbVars, stripe, events, priced, scheduled, misreported, customers, replays>>
  BY DEF Load, stripeVars
<1>. HIDE DEF new
<1>. QED BY <1>1, <1>3, <1>4, <1>5, <1>6, <1>7, SilentTypes

(* The four requests of the admin.                                         *)
LEMMA RequestTypes ==
  ASSUME TypeInv, NEW p \in Procs,
         LoadCheckout(p) \/ LoadCreate(p) \/ LoadUpdate(p) \/ LoadCancel(p)
  PROVE  TypeInv'
<1>1. CASE LoadCheckout(p)
  <2>1. PICK r \in AnyRow, plan \in Plans : Load(p, "checkout", plan, r)
    BY <1>1 DEF LoadCheckout
  <2>. QED BY <2>1, LoadTypes
<1>2. CASE LoadCreate(p)
  <2>1. PICK r \in AnyRow, plan \in Plans : Load(p, "create", plan, r)
    BY <1>2 DEF LoadCreate
  <2>. QED BY <2>1, LoadTypes
<1>3. CASE LoadUpdate(p)
  <2>1. PICK r \in AnyRow, plan \in Plans : r # 0 /\ Load(p, "update", plan, r)
    BY <1>3 DEF LoadUpdate
  <2>. QED BY <2>1, LoadTypes
<1>4. CASE LoadCancel(p)
  <2>1. PICK r \in AnyRow : r # 0 /\ Load(p, "cancel", NoPlan, r)
    BY <1>4 DEF LoadCancel
  <2>. QED BY <2>1, LoadTypes
<1>. QED BY <1>1, <1>2, <1>3, <1>4

(* The success page, when it is returned to or opened again.               *)
LEMMA CompleteTypes ==
  ASSUME TypeInv, NEW p \in Procs, NEW s \in Subs, LoadComplete(p, s),
         events' \in Seq(Event), \A i \in DOMAIN events' : EventOK(events[i])',
         replays' \in 0 .. MaxReplays
  PROVE  TypeInv'
<1>1. /\ subscription \in Seq(Row) /\ workspace \in Workspace /\ customers \in Nat
      /\ requests \in 0 .. MaxRequests /\ stripe \in [Subs -> StripeSub] /\ priced \subseteq Paid
      /\ \A u \in Subs : StripeOK(stripe[u])
  BY DEF TypeInv, TypeOK
<1>2. PICK r \in AnyRow :
        job' = [job EXCEPT ![p] = [Idle EXCEPT !.pc = "loaded", !.op = "complete", !.sub = s,
                  !.ev = [type |-> "return", sub |-> s, active |-> TRUE,
                          period |-> stripe[s].period, cancel |-> FALSE],
                  !.row = r, !.old = Loaded(r), !.ws = workspace]]
  BY DEF LoadComplete
<1> DEFINE ev == [type |-> "return", sub |-> s, active |-> TRUE,
                  period |-> stripe[s].period, cancel |-> FALSE]
           new == [Idle EXCEPT !.pc = "loaded", !.op = "complete", !.sub = s, !.ev = ev,
                               !.row = r, !.old = Loaded(r), !.ws = workspace]
<1>3. /\ r \in Nat /\ r <= Len(subscription) /\ Loaded(r) \in Row \cup {NoRow}
      /\ r = 0 <=> Loaded(r) = NoRow
  BY <1>1, AnyRowIs
<1>4. ev \in Event
  BY <1>1 DEF Event, EventType, StripeSub
<1>5. PICK n \in Job : n = new
  <2>. HIDE DEF ev
  <2>. QED BY <1>1, <1>3, <1>4 DEF Idle, Job, Op
<1>6. JobOK(n)'
  <2>1. subscription' = subscription /\ stripe' = stripe /\ stripe[s].meta # NoPlan
    BY DEF LoadComplete, dbVars
  <2>2. ev.type # "completed"
    OBVIOUS
  <2>. HIDE DEF ev
  <2>. QED BY <1>1, <1>3, <1>4, <1>5, <2>1, <2>2 DEF JobOK, Idle, EventOK
<1>7. job' = [job EXCEPT ![p] = n]
  BY <1>2, <1>5
<1>8. UNCHANGED <<dbVars, stripe, priced, scheduled, misreported, customers, requests>>
  BY DEF LoadComplete
<1>9. /\ stripe' \in [Subs -> StripeSub] /\ \A u \in Subs : StripeOK(stripe[u])'
      /\ \A u \in Subs : stripe[u].meta # NoPlan => stripe'[u].meta # NoPlan
      /\ customers' \in Nat /\ priced' \subseteq Paid /\ requests' \in 0 .. MaxRequests
  BY <1>1, <1>8
<1>. HIDE DEF new, ev
<1>. QED BY <1>5, <1>6, <1>7, <1>8, <1>9, QuietTypes

(* An event that is taken leaves the queue as it was otherwise.            *)
LEMMA TakenEvent ==
  ASSUME TypeInv, NEW i \in Deliverable, events' = Without(i), stripe' = stripe
  PROVE  /\ events' \in Seq(Event) /\ \A k \in DOMAIN events' : EventOK(events[k])'
         /\ events[i] \in Event /\ EventOK(events[i])
         /\ \A k \in DOMAIN events' : \E l \in DOMAIN events : events'[k] = events[l]
<1>1. i \in DOMAIN events /\ events \in Seq(Event)
  BY DEF Deliverable, TypeInv, TypeOK
<1>2. events' \in Seq(Event) /\ \A k \in DOMAIN events' : \E l \in DOMAIN events : events'[k] = events[l]
  BY <1>1, RemainingEvents
<1>3. \A l \in DOMAIN events : EventOK(events[l])
  BY DEF TypeInv
<1>4. \A k \in DOMAIN events' : EventOK(events[k])'
  BY <1>2, <1>3 DEF EventOK
<1>. QED BY <1>1, <1>2, <1>3, <1>4

(* A worker takes an event.                                                *)
LEMMA ClaimTypes ==
  ASSUME TypeInv, NEW p \in Procs, Claim(p)
  PROVE  TypeInv'
<1>1. PICK i \in Deliverable :
        LET e == events[i] IN
        /\ e.type # "return" /\ job[p].pc = "idle"
        /\ events' = Without(i)
        /\ \E r \in IF e.type = "completed" THEN AnyRow ELSE RowOf(e.sub) :
             job' = [job EXCEPT ![p] = [Idle EXCEPT !.pc = "loaded", !.op = "webhook", !.sub = e.sub,
                                        !.ev = e, !.row = r, !.old = Loaded(r), !.ws = workspace]]
        /\ UNCHANGED <<dbVars, stripe, customers, priced, ghostVars>>
  BY DEF Claim
<1>2. /\ subscription \in Seq(Row) /\ workspace \in Workspace /\ customers \in Nat
      /\ requests \in 0 .. MaxRequests /\ stripe \in [Subs -> StripeSub] /\ priced \subseteq Paid
      /\ \A u \in Subs : StripeOK(stripe[u])
      /\ replays \in 0 .. MaxReplays
  BY DEF TypeInv, TypeOK
<1>3. PICK e \in Event : e = events[i]
  BY <1>1, TakenEvent
<1>4. EventOK(e) /\ e.sub \in Subs
  BY <1>1, <1>3, TakenEvent DEF Event
<1>5. PICK r \in AnyRow \cup RowOf(e.sub) :
        job' = [job EXCEPT ![p] = [Idle EXCEPT !.pc = "loaded", !.op = "webhook", !.sub = e.sub,
                                   !.ev = e, !.row = r, !.old = Loaded(r), !.ws = workspace]]
  BY <1>1, <1>3
<1> DEFINE new == [Idle EXCEPT !.pc = "loaded", !.op = "webhook", !.sub = e.sub, !.ev = e,
                               !.row = r, !.old = Loaded(r), !.ws = workspace]
<1>6. /\ r \in Nat /\ r <= Len(subscription) /\ Loaded(r) \in Row \cup {NoRow}
      /\ r = 0 <=> Loaded(r) = NoRow
  BY <1>2, <1>4, AnyRowIs
<1>7. PICK n \in Job : n = new
  BY <1>2, <1>4, <1>6 DEF Idle, Job, Op
<1>8. JobOK(n)'
  <2>1. subscription' = subscription /\ stripe' = stripe
    BY <1>1 DEF dbVars
  <2>. QED BY <1>2, <1>4, <1>6, <1>7, <2>1 DEF JobOK, Idle, EventOK
<1>9. /\ events' \in Seq(Event) /\ \A k \in DOMAIN events' : EventOK(events[k])'
  BY <1>1, TakenEvent
<1>10. /\ stripe' \in [Subs -> StripeSub] /\ \A u \in Subs : StripeOK(stripe[u])'
       /\ \A u \in Subs : stripe[u].meta # NoPlan => stripe'[u].meta # NoPlan
       /\ customers' \in Nat /\ priced' \subseteq Paid
       /\ requests' \in 0 .. MaxRequests /\ replays' \in 0 .. MaxReplays
  BY <1>1, <1>2 DEF ghostVars
<1>11. UNCHANGED <<dbVars, scheduled, misreported>>
  BY <1>1 DEF ghostVars
<1>12. job' = [job EXCEPT ![p] = n]
  BY <1>5, <1>7
<1>. HIDE DEF new
<1>. QED BY <1>7, <1>8, <1>9, <1>10, <1>11, <1>12, QuietTypes

(* What is known of the job that takes a step.                             *)
LEMMA JobFacts ==
  ASSUME TypeInv, NEW p \in Procs
  PROVE  \E j \in Job : j = job[p] /\ JobOK(j)
  BY DEF TypeInv, TypeOK

(* A job that ends without writing.                                        *)
LEMMA EndedTypes ==
  ASSUME TypeInv, NEW p \in Procs, Finish(p), misreported' \subseteq Leftover,
         UNCHANGED <<dbVars, stripeVars, requests, replays, scheduled>>
  PROVE  TypeInv'
<1>1. Len(subscription') \in Nat /\ Len(subscription') >= Len(subscription)
  BY DEF TypeInv, TypeOK, dbVars
<1>2. Idle \in Job /\ JobOK(Idle)' /\ job' = [job EXCEPT ![p] = Idle]
  BY <1>1, IdleIsFine DEF Finish
<1>3. job' \in [Procs -> Job] /\ \A q \in Procs : JobOK(job[q])'
  BY <1>1, <1>2, JobsStay DEF stripeVars
<1>4. TypeOK'
  BY <1>3 DEF TypeInv, TypeOK, dbVars, stripeVars
<1>. QED BY <1>3, <1>4 DEF TypeInv, stripeVars, EventOK

(* An answer of an error, and an event whose handler raises.               *)
LEMMA FailedTypes ==
  ASSUME TypeInv, NEW p \in Procs, StripeRefuses(p) \/ EventFails(p) \/ Fault(p)
  PROVE  TypeInv'
<1>1. /\ Finish(p) /\ misreported' \subseteq Leftover
      /\ UNCHANGED <<dbVars, stripeVars, requests, replays, scheduled>>
  BY DEF StripeRefuses, EventFails, Fault, AnswerError, ghostVars, TypeInv, TypeOK, Leftover
<1>. QED BY <1>1, EndedTypes

(* The rows that the jobs write.                                           *)
LEMMA NewRows ==
  ASSUME NEW s \in Subs, NEW plan \in Plans, NEW st \in RowStatus, NEW old \in Row \cup {NoRow}
  PROVE  /\ NewRow(s, plan, st) \in Row
         /\ Subscribed(old, s, plan, st) \in Row
         /\ CreateRow(old, s, plan) \in Row
  BY DEF NewRow, Subscribed, CreateRow, ClearPending, Row, RowStatus

(* What an invoice makes of a row, or of none, once it has a plan.         *)
LEMMA PaidRowType ==
  ASSUME NEW j \in Job, j.sub \in Subs, j.ev \in Event,
         stripe[j.sub].meta \in Plans \cup {NoPlan}, PaidRow(j).plan # NoPlan
  PROVE  PaidRow(j) \in Row
<1>1. j.old \in Row \cup {NoRow} /\ j.ev.period \in Nat
  BY DEF Job, Event
<1>2. CASE j.old = NoRow
  <2>1. /\ PaidRow(j) = [NewRow(j.sub, stripe[j.sub].meta, "INCOMPLETE")
                           EXCEPT !.status = "ACTIVE", !.period = j.ev.period]
    BY <1>2 DEF PaidRow, NewRow
  <2>2. stripe[j.sub].meta \in Plans
    BY <2>1 DEF NewRow
  <2>. QED BY <1>1, <2>1, <2>2 DEF NewRow, Row, RowStatus
<1>3. CASE j.old \in Row
  <2>1. CASE j.old.ptype = "DOWNGRADE"
    <3>1. PaidRow(j) = [j.old EXCEPT !.pplan = NoPlan, !.ptype = "NONE", !.plan = j.old.pplan,
                                     !.status = "ACTIVE", !.period = j.ev.period]
      BY <1>3, <2>1, NoRowIsNone DEF PaidRow, ClearPending, Row
    <3>2. j.old.pplan \in Plans
      BY <1>3, <3>1 DEF Row
    <3>. QED BY <1>1, <1>3, <3>1, <3>2 DEF Row, RowStatus
  <2>2. CASE j.old.ptype # "DOWNGRADE"
    <3>1. PaidRow(j) = [j.old EXCEPT !.status = "ACTIVE", !.period = j.ev.period]
      BY <1>3, <2>2, NoRowIsNone DEF PaidRow
    <3>. QED BY <1>1, <1>3, <3>1 DEF Row, RowStatus
  <2>. QED BY <2>1, <2>2
<1>. QED BY <1>1, <1>2, <1>3

(* Events that nobody took stay about sessions with their metadata.        *)
LEMMA EventsStay ==
  ASSUME TypeInv, events' = events,
         \A s \in Subs : stripe[s].meta # NoPlan => stripe'[s].meta # NoPlan
  PROVE  events' \in Seq(Event) /\ \A i \in DOMAIN events' : EventOK(events[i])'
<1>1. ASSUME NEW i \in DOMAIN events' PROVE EventOK(events[i])'
  <2>1. events[i] \in Event /\ EventOK(events[i])
    BY DEF TypeInv, TypeOK
  <2>2. events[i].sub \in Subs
    BY <2>1 DEF Event
  <2>. QED BY <2>1, <2>2 DEF EventOK
<1>. QED BY <1>1 DEF TypeInv, TypeOK

(* The steps of POST /subscription/checkout and POST /subscription.        *)
LEMMA CheckoutTypes ==
  ASSUME TypeInv, NEW p \in Procs,
         CreateCustomer(p) \/ SaveCustomer(p) \/ OpenSession(p) \/ CreateSubscription(p)
         \/ SaveCreate(p)
  PROVE  TypeInv'
<1>j. PICK j \in Job : j = job[p] /\ JobOK(j)
  BY JobFacts
<1>t. /\ subscription \in Seq(Row) /\ workspace \in Workspace /\ customers \in Nat
      /\ stripe \in [Subs -> StripeSub] /\ priced \subseteq Paid /\ Paid \subseteq Plans
      /\ requests \in 0 .. MaxRequests /\ replays \in 0 .. MaxReplays
      /\ \A u \in Subs : StripeOK(stripe[u])
  BY DEF TypeInv, TypeOK, Paid
<1>1. CASE CreateCustomer(p)
  <2>1. j.op \in {"checkout", "create"} /\ j.ws \in Workspace /\ j.pc = "loaded"
    BY <1>1, <1>j DEF CreateCustomer, At, JobOK
  <2>2. PICK c \in Nat : c = customers'
    BY <1>1, <1>t DEF CreateCustomer
  <2> DEFINE n == [j EXCEPT !.pc = "customer", !.ws.customer = c]
  <2>3. n \in Job
    BY <2>1 DEF Job, Workspace
  <2>4. JobOK(n)'
    <3>1. subscription' = subscription /\ stripe' = stripe
      BY <1>1 DEF CreateCustomer, dbVars
    <3>. QED BY <1>j, <2>1, <3>1 DEF JobOK, Job, Workspace
  <2>5. job' = [job EXCEPT ![p] = n]
    BY <1>1, <1>j, <2>2 DEF CreateCustomer
  <2>6. /\ UNCHANGED <<dbVars, stripe, events, priced, scheduled, misreported>>
        /\ requests' \in 0 .. MaxRequests /\ replays' \in 0 .. MaxReplays
    BY <1>1, <1>t DEF CreateCustomer, ghostVars
  <2>. HIDE DEF n
  <2>. QED BY <2>2, <2>3, <2>4, <2>5, <2>6, SilentTypes
<1>2. CASE SaveCustomer(p)
  <2>1. j.op \in {"checkout", "create"} /\ j.ws \in Workspace
    BY <1>2, <1>j DEF SaveCustomer, At, JobOK
  <2> DEFINE n == [j EXCEPT !.pc = "saved"]
  <2>2. n \in Job
    BY DEF Job
  <2>3. /\ subscription' = subscription /\ stripe' = stripe
        /\ Len(subscription') \in Nat /\ Len(subscription') >= Len(subscription)
        /\ events' = events /\ customers' = customers /\ priced' = priced
    BY <1>2, <1>t DEF SaveCustomer, stripeVars
  <2>4. JobOK(n)'
    BY <1>j, <2>1, <2>3 DEF JobOK, Job, EventOK
  <2>5. job' = [job EXCEPT ![p] = n]
    BY <1>2, <1>j DEF SaveCustomer
  <2>6. workspace' \in Workspace
    BY <1>2, <1>j, <1>t, <2>1 DEF SaveCustomer, Workspace
  <2>. HIDE DEF n
  <2>7. job' \in [Procs -> Job] /\ \A q \in Procs : JobOK(job[q])'
    BY <2>2, <2>3, <2>4, <2>5, JobsStay
  <2>8. TypeOK'
    BY <1>2, <2>3, <2>6, <2>7 DEF TypeInv, TypeOK, SaveCustomer, ghostVars
  <2>. QED BY <2>3, <2>7, <2>8 DEF TypeInv, EventOK
<1>3. CASE OpenSession(p)
  <2>0. j.plan \in Paid /\ Finish(p)
    BY <1>3, <1>j DEF OpenSession
  <2>1. PICK s \in Subs : stripe' = [stripe EXCEPT ![s].status = "open", ![s].plan = j.plan,
                                                   ![s].meta = j.plan]
    BY <1>3, <1>j DEF OpenSession
  <2> DEFINE new == [stripe[s] EXCEPT !.status = "open", !.plan = j.plan, !.meta = j.plan]
  <2>2. new \in StripeSub /\ stripe' = [stripe EXCEPT ![s] = new]
    BY <1>t, <2>0, <2>1 DEF StripeSub, StripeStatus
  <2>3. new.status = "open" /\ new.plan = j.plan /\ new.meta = j.plan
    BY <1>t DEF StripeSub
  <2>. HIDE DEF new
  <2>4. /\ stripe' \in [Subs -> StripeSub] /\ \A u \in Subs : StripeOK(stripe'[u])
        /\ \A u \in Subs : stripe[u].meta # NoPlan => stripe'[u].meta # NoPlan
    BY <1>t, <2>0, <2>2, <2>3, PlansAssumption DEF StripeOK
  <2>5. /\ UNCHANGED <<dbVars, scheduled, misreported>> /\ events' = events
        /\ events' \in Seq(Event)
        /\ customers' \in Nat /\ priced' \subseteq Paid
        /\ requests' \in 0 .. MaxRequests /\ replays' \in 0 .. MaxReplays
    BY <1>3, <1>t DEF OpenSession, ghostVars, TypeInv, TypeOK
  <2>6. \A i \in DOMAIN events' : EventOK(events[i])'
    BY <2>4, <2>5, EventsStay
  <2>7. Idle \in Job /\ JobOK(Idle)' /\ job' = [job EXCEPT ![p] = Idle]
    BY <1>t, <2>0, <2>5, IdleIsFine DEF Finish, dbVars
  <2>. QED BY <2>4, <2>5, <2>6, <2>7, QuietTypes DEF StripeOK
<1>4. CASE CreateSubscription(p)
  <2>0. j.plan \in Paid /\ j.op = "create" /\ j.ws \in Workspace
    BY <1>4, <1>j DEF CreateSubscription, HasCustomer, At, JobOK
  <2>1. PICK s \in Subs :
          /\ stripe[s].status = "none"
          /\ stripe' = [stripe EXCEPT ![s].status = "incomplete", ![s].plan = j.plan]
          /\ job' = [job EXCEPT ![p].pc = "called", ![p].sub = s]
    BY <1>4, <1>j DEF CreateSubscription
  <2> DEFINE new == [stripe[s] EXCEPT !.status = "incomplete", !.plan = j.plan]
             n == [j EXCEPT !.pc = "called", !.sub = s]
  <2>2. new \in StripeSub /\ stripe' = [stripe EXCEPT ![s] = new]
    BY <1>t, <2>0, <2>1 DEF StripeSub, StripeStatus
  <2>3. new.status = "incomplete" /\ new.plan = j.plan /\ new.meta = stripe[s].meta
    BY <1>t DEF StripeSub
  <2>4. n \in Job /\ job' = [job EXCEPT ![p] = n]
    BY <1>j, <2>1 DEF Job
  <2>. HIDE DEF new
  <2>5. /\ stripe' \in [Subs -> StripeSub] /\ \A u \in Subs : StripeOK(stripe'[u])
        /\ \A u \in Subs : stripe[u].meta = stripe'[u].meta
    BY <1>t, <2>0, <2>2, <2>3 DEF StripeOK
  <2>6. /\ UNCHANGED <<dbVars, scheduled, misreported>> /\ events' = events
        /\ events' \in Seq(Event)
        /\ customers' \in Nat /\ priced' \subseteq Paid
        /\ requests' \in 0 .. MaxRequests /\ replays' \in 0 .. MaxReplays
    BY <1>4, <1>t DEF CreateSubscription, ghostVars, TypeInv, TypeOK
  <2>7. \A i \in DOMAIN events' : EventOK(events[i])'
    BY <2>5, <2>6, EventsStay
  <2>8. JobOK(n)'
    BY <1>j, <2>0, <2>6 DEF JobOK, Job, dbVars
  <2>. HIDE DEF n
  <2>. QED BY <2>4, <2>5, <2>6, <2>7, <2>8, QuietTypes DEF StripeOK
<1>5. CASE SaveCreate(p)
  <2>1. j.sub \in Subs /\ j.plan \in Plans /\ j.old \in Row \cup {NoRow}
    BY <1>5, <1>j, <1>t DEF SaveCreate, At, JobOK, Job
  <2>2. "INCOMPLETE" \in RowStatus
    BY DEF RowStatus
  <2>3. CreateRow(j.old, j.sub, j.plan) \in Row
    BY <2>1, <2>2, NewRows
  <2>. QED BY <1>5, <1>j, <2>1, <2>3, SavedTypes DEF SaveCreate, ghostVars, TypeInv, TypeOK
<1>. QED BY <1>1, <1>2, <1>3, <1>4, <1>5

(* Both calls to Stripe that change a running subscription.                *)
LEMMA ModifyTypes ==
  ASSUME TypeInv, NEW p \in Procs, ModifyPlan(p) \/ ModifyCancel(p)
  PROVE  TypeInv'
<1>j. PICK j \in Job : j = job[p] /\ JobOK(j)
  BY JobFacts
<1>t. /\ subscription \in Seq(Row) /\ workspace \in Workspace /\ customers \in Nat
      /\ stripe \in [Subs -> StripeSub] /\ priced \subseteq Paid
      /\ requests \in 0 .. MaxRequests /\ replays \in 0 .. MaxReplays
      /\ \A u \in Subs : StripeOK(stripe[u])
  BY DEF TypeInv, TypeOK
<1>0. /\ j.op \in {"update", "cancel"} /\ j.old \in Row /\ j.old.sid \in Subs
      /\ Running(j.old.sid) /\ (j.op = "update" => j.plan \in Paid)
  BY <1>j, NoRowIsNone DEF ModifyPlan, ModifyCancel, At, JobOK, Job, Row, Modifiable
<1>s. PICK s \in Subs : s = j.old.sid
  BY <1>0
<1> DEFINE n == [j EXCEPT !.pc = "called"]
<1>1. n \in Job
  BY DEF Job
<1>2. job' = [job EXCEPT ![p] = n]
  BY <1>j DEF ModifyPlan, ModifyCancel
<1>3. subscription' = subscription /\ UNCHANGED <<dbVars, scheduled, misreported>>
      /\ customers' \in Nat /\ requests' \in 0 .. MaxRequests /\ replays' \in 0 .. MaxReplays
  BY <1>t DEF ModifyPlan, ModifyCancel, dbVars, ghostVars
<1>4. ASSUME NEW new \in StripeSub, stripe' = [stripe EXCEPT ![s] = new], Emit(s, <<"updated">>),
             StripeOK(new), stripe[s].meta = new.meta, priced' \subseteq Paid
      PROVE  TypeInv'
  <2>1. /\ stripe' \in [Subs -> StripeSub] /\ events' \in Seq(Event)
        /\ \A u \in Subs : StripeOK(stripe[u])'
        /\ \A i \in DOMAIN events' : EventOK(events[i])'
        /\ \A u \in Subs : stripe[u].meta = stripe'[u].meta
    BY <1>4, EmittedTypes, StripeTypes
  <2>2. JobOK(n)'
    BY <1>j, <1>0, <1>3, <2>1 DEF JobOK, Job
  <2>. HIDE DEF n
  <2>. QED BY <1>1, <1>2, <1>3, <1>4, <2>1, <2>2, QuietTypes
<1>. HIDE DEF n
<1>5. CASE ModifyPlan(p)
  <2> DEFINE new == [stripe[s] EXCEPT !.plan = j.plan]
  <2>1. j.plan \in Paid /\ Paid \subseteq Plans
    BY <1>5, <1>j DEF ModifyPlan, Paid
  <2>2. new \in StripeSub /\ stripe' = [stripe EXCEPT ![s] = new]
    BY <1>5, <1>j, <1>t, <1>s, <2>1 DEF ModifyPlan, StripeSub
  <2>3. StripeOK(new) /\ stripe[s].meta = new.meta
    BY <1>0, <1>t, <1>s, <2>1 DEF StripeSub, StripeOK, Running
  <2>4. Emit(s, <<"updated">>) /\ priced' \subseteq Paid
    BY <1>5, <1>j, <1>t, <1>s, <2>1 DEF ModifyPlan
  <2>. HIDE DEF new
  <2>. QED BY <1>4, <2>2, <2>3, <2>4
<1>6. CASE ModifyCancel(p)
  <2> DEFINE new == [stripe[s] EXCEPT !.cancel = TRUE]
  <2>1. new \in StripeSub
    BY <1>t, <1>s DEF StripeSub
  <2>2. stripe' = [stripe EXCEPT ![s] = new]
    BY <1>6, <1>j, <1>t, <1>s DEF ModifyCancel
  <2>3. StripeOK(new) /\ stripe[s].meta = new.meta
    BY <1>t, <1>s DEF StripeSub, StripeOK
  <2>4. Emit(s, <<"updated">>) /\ priced' \subseteq Paid
    BY <1>6, <1>j, <1>t, <1>s DEF ModifyCancel
  <2>. HIDE DEF new
  <2>. QED BY <1>4, <2>1, <2>2, <2>3, <2>4
<1>. QED BY <1>5, <1>6

(* The commits of the two requests.                                        *)
LEMMA SavedRequestTypes ==
  ASSUME TypeInv, NEW p \in Procs, SaveUpdate(p) \/ SaveCancel(p)
  PROVE  TypeInv'
<1>j. PICK j \in Job : j = job[p] /\ JobOK(j)
  BY JobFacts
<1>t. /\ scheduled \in [Subs -> Nat] /\ misreported \subseteq Leftover /\ stripe \in [Subs -> StripeSub]
      /\ Free \in Plans /\ Paid \subseteq Plans
  BY PlansAssumption DEF TypeInv, TypeOK, Paid
<1>0. j.op \in {"update", "cancel"} /\ j.old \in Row /\ j.old.sid \in Subs
  BY <1>j, NoRowIsNone DEF SaveUpdate, SaveCancel, At, JobOK, Job, Row
<1>1. CASE SaveUpdate(p)
  <2>1. j.plan \in Plans
    BY <1>1, <1>j, <1>t DEF SaveUpdate, At, JobOK
  <2>2. UNCHANGED <<stripeVars, requests, replays>> /\ misreported' \subseteq Leftover /\ Finish(p)
    BY <1>1, <1>t DEF SaveUpdate
  <2>3. CASE Price[j.plan] > Price[j.old.plan]
    <3> DEFINE new == [ClearPending(j.old) EXCEPT !.plan = j.plan]
    <3>1. new \in Row
      BY <1>0, <2>1 DEF ClearPending, Row
    <3>2. SaveRow(job[p], new) /\ SavePlan(job[p], j.plan) /\ scheduled' \in [Subs -> Nat]
      BY <1>1, <1>j, <1>t, <2>3 DEF SaveUpdate
    <3>. HIDE DEF new
    <3>. QED BY <2>1, <2>2, <3>1, <3>2, SavedTypes
  <2>4. CASE ~ (Price[j.plan] > Price[j.old.plan])
    <3> DEFINE new == [j.old EXCEPT !.pplan = j.plan, !.ptype = "DOWNGRADE"]
    <3>1. new \in Row
      BY <1>0, <2>1 DEF Row
    <3>2. SaveRow(job[p], new) /\ workspace' = workspace
      BY <1>1, <1>j, <2>4 DEF SaveUpdate
    <3>3. scheduled' = [scheduled EXCEPT ![j.old.sid] = stripe[j.old.sid].period]
      BY <1>1, <1>j, <2>4 DEF SaveUpdate
    <3>4. scheduled' \in [Subs -> Nat]
      BY <1>0, <1>t, <3>3 DEF StripeSub
    <3>. HIDE DEF new
    <3>. QED BY <2>1, <2>2, <3>1, <3>2, <3>4, SavedTypes
  <2>. QED BY <2>3, <2>4
<1>2. CASE SaveCancel(p)
  <2> DEFINE new == [j.old EXCEPT !.cancel = TRUE, !.pplan = Free, !.ptype = "CANCEL_TO_FREE"]
  <2>1. new \in Row
    BY <1>0, <1>t DEF Row
  <2>2. SaveRow(job[p], new) /\ workspace' = workspace
    BY <1>2, <1>j DEF SaveCancel
  <2>3. UNCHANGED <<stripeVars, requests, replays>> /\ scheduled' \in [Subs -> Nat] /\ Finish(p)
    BY <1>2, <1>t DEF SaveCancel
  <2>4. misreported' \subseteq Leftover
    BY <1>2, <1>t DEF SaveCancel, Leftover
  <2>. HIDE DEF new
  <2>. QED BY <1>t, <2>1, <2>2, <2>3, <2>4, SavedTypes
<1>. QED BY <1>1, <1>2

(* The commits of the success page and of the webhook events.              *)
LEMMA SavedEventTypes ==
  ASSUME TypeInv, NEW p \in Procs,
         SaveComplete(p) \/ SaveCompleted(p) \/ SavePaid(p) \/ SavePaymentFailed(p)
         \/ SaveUpdated(p) \/ SaveDeleted(p)
  PROVE  TypeInv'
<1>j. PICK j \in Job : j = job[p] /\ JobOK(j)
  BY JobFacts
<1>t. /\ scheduled \in [Subs -> Nat] /\ misreported \subseteq Leftover /\ stripe \in [Subs -> StripeSub]
      /\ Free \in Plans /\ Paid \subseteq Plans
      /\ \A u \in Subs : StripeOK(stripe[u])
  BY PlansAssumption DEF TypeInv, TypeOK, Paid
<1>0. /\ j.op \in {"complete", "webhook"} /\ j.sub \in Subs /\ j.ev \in Event
      /\ j.old \in Row \cup {NoRow} /\ j.ev.period \in Nat /\ j.ev.cancel \in BOOLEAN
  BY <1>j DEF SaveComplete, SaveCompleted, SavePaid, SavePaymentFailed, SaveUpdated, SaveDeleted,
              Handles, At, JobOK, Job, Event
<1>u. /\ UNCHANGED <<stripeVars, requests, replays>> /\ misreported' \subseteq Leftover
      /\ scheduled' \in [Subs -> Nat] /\ Finish(p)
  BY <1>t DEF SaveComplete, SaveCompleted, SavePaid, SavePaymentFailed, SaveUpdated, SaveDeleted, ghostVars
<1>m. stripe[j.sub].meta \in Plans \cup {NoPlan}
      /\ (stripe[j.sub].meta # NoPlan => stripe[j.sub].meta \in Plans)
  BY <1>0, <1>t DEF StripeSub
<1>r. {"ACTIVE", "INCOMPLETE", "PAST_DUE", "CANCELED"} \subseteq RowStatus
  BY DEF RowStatus
<1>1. CASE SaveComplete(p)
  <2> DEFINE row == Subscribed(j.old, j.sub, stripe[j.sub].meta, "ACTIVE")
             new == [row EXCEPT !.period = j.ev.period]
  <2>1. stripe[j.sub].meta \in Plans
    BY <1>1, <1>j, <1>m DEF SaveComplete, At, JobOK
  <2>2. row \in Row
    BY <1>0, <1>r, <2>1, NewRows
  <2>3. new \in Row
    <3>. HIDE DEF row
    <3>. QED BY <1>0, <2>2 DEF Row
  <2>4. SaveRow(job[p], new) /\ SavePlan(job[p], stripe[j.sub].meta)
    BY <1>1, <1>j DEF SaveComplete
  <2>. HIDE DEF new, row
  <2>. QED BY <1>u, <2>1, <2>3, <2>4, SavedTypes
<1>2. CASE SaveCompleted(p)
  <2>1. stripe[j.sub].meta \in Plans
    BY <1>2, <1>j, <1>m DEF SaveCompleted, Handles, At, JobOK, EventOK
  <2>2. PICK st \in RowStatus :
          SaveRow(j, Subscribed(j.old, j.sub, stripe[j.sub].meta, st))
    BY <1>2, <1>j, <1>r DEF SaveCompleted
  <2>3. Subscribed(j.old, j.sub, stripe[j.sub].meta, st) \in Row
    BY <1>0, <2>1, NewRows
  <2>4. workspace' = workspace
    BY <1>2 DEF SaveCompleted
  <2>. QED BY <1>u, <1>j, <2>1, <2>2, <2>3, <2>4, SavedTypes
<1>3. CASE SavePaid(p)
  <2>1. PaidRow(j).plan # NoPlan /\ SaveRow(j, PaidRow(j)) /\ SavePlan(j, PaidRow(j).plan)
    BY <1>3, <1>j DEF SavePaid, Handles, Applies
  <2>2. PaidRow(j) \in Row
    BY <1>0, <1>m, <2>1, PaidRowType
  <2>3. PaidRow(j).plan \in Plans
    BY <2>1, <2>2 DEF Row
  <2>. QED BY <1>u, <1>j, <2>1, <2>2, <2>3, SavedTypes
<1>4. CASE SavePaymentFailed(p)
  <2> DEFINE new == [j.old EXCEPT !.status = "PAST_DUE"]
  <2>1. j.old \in Row
    BY <1>4, <1>0, <1>j DEF SavePaymentFailed, Handles, Applies
  <2>2. new \in Row
    BY <1>r, <2>1 DEF Row
  <2>3. SaveRow(job[p], new) /\ workspace' = workspace
    BY <1>4, <1>j DEF SavePaymentFailed
  <2>. HIDE DEF new
  <2>. QED BY <1>u, <1>t, <2>2, <2>3, SavedTypes
<1>5. CASE SaveUpdated(p)
  <2>1. j.old \in Row
    BY <1>5, <1>0, <1>j DEF SaveUpdated, Handles, Applies
  <2>2. PICK st \in RowStatus :
          SaveRow(j, [j.old EXCEPT !.status = st, !.period = j.ev.period, !.cancel = j.ev.cancel])
    <3>1. j.old.status \in RowStatus
      BY <2>1 DEF Row
    <3>. QED BY <1>5, <1>j, <1>r, <2>1, <3>1 DEF SaveUpdated
  <2>3. [j.old EXCEPT !.status = st, !.period = j.ev.period, !.cancel = j.ev.cancel] \in Row
    BY <1>0, <2>1 DEF Row
  <2>4. workspace' = workspace
    BY <1>5 DEF SaveUpdated
  <2>. QED BY <1>u, <1>t, <1>j, <2>2, <2>3, <2>4, SavedTypes
<1>6. CASE SaveDeleted(p)
  <2> DEFINE new == [ClearPending(j.old) EXCEPT !.status = "CANCELED", !.cancel = FALSE, !.plan = Free]
  <2>1. j.old \in Row
    BY <1>6, <1>0, <1>j DEF SaveDeleted, Handles, Applies
  <2>2. new \in Row
    BY <1>r, <1>t, <2>1 DEF Row, ClearPending
  <2>3. SaveRow(job[p], new) /\ SavePlan(job[p], Free)
    BY <1>6, <1>j DEF SaveDeleted
  <2>. HIDE DEF new
  <2>. QED BY <1>u, <1>t, <2>2, <2>3, SavedTypes
<1>. QED BY <1>1, <1>2, <1>3, <1>4, <1>5, <1>6

(* A return page that is closed.                                           *)
LEMMA LeaveTypes ==
  ASSUME TypeInv, Leave
  PROVE  TypeInv'
<1>1. PICK i \in Deliverable :
        events' = Without(i) /\ UNCHANGED <<dbVars, stripe, customers, priced, job, ghostVars>>
  BY DEF Leave
<1>2. stripe' = stripe
  BY <1>1
<1>3. events' \in Seq(Event) /\ \A k \in DOMAIN events' : EventOK(events[k])'
  BY <1>1, <1>2, TakenEvent
<1>4. TypeOK'
  BY <1>1, <1>3 DEF TypeInv, TypeOK, dbVars, ghostVars
<1>5. subscription' = subscription
  BY <1>1 DEF dbVars
<1>6. ASSUME NEW p \in Procs PROVE JobOK(job[p])'
  BY <1>1, <1>5 DEF TypeInv, JobOK, EventOK
<1>. QED BY <1>1, <1>3, <1>4, <1>6 DEF TypeInv

(* The invariant holds for a new workspace.                                *)
LEMMA TypeInit == Init => TypeInv
<1>. SUFFICES ASSUME Init PROVE TypeInv
  OBVIOUS
<1>1. stripe \in [Subs -> StripeSub] /\ \A s \in Subs : stripe[s].status = "none" /\ stripe[s].meta = NoPlan
  BY DEF Init, StripeSub, StripeStatus
<1>2. \A s \in Subs : StripeOK(stripe[s])
  BY <1>1 DEF StripeOK
<1>3. Idle \in Job /\ \A p \in Procs : job[p] = Idle
  BY DEF Init, Idle, Job, Op
<1>4. subscription \in Seq(Row) /\ Len(subscription) = 0 /\ events \in Seq(Event) /\ Len(events) = 0
  BY DEF Init
<1>5. JobOK(Idle)
  BY <1>4 DEF Idle, JobOK
<1>6. workspace \in Workspace
  BY PlansAssumption DEF Init, Workspace
<1>7. job \in [Procs -> Job]
  BY <1>3 DEF Init
<1>8. /\ customers \in Nat /\ requests \in 0 .. MaxRequests /\ replays \in 0 .. MaxReplays
      /\ priced \subseteq Paid /\ scheduled \in [Subs -> Nat] /\ misreported \subseteq Leftover
  BY BoundsAssumption DEF Init
<1>9. TypeOK
  BY <1>1, <1>4, <1>6, <1>7, <1>8 DEF TypeOK
<1>10. \A i \in DOMAIN events : EventOK(events[i])
  BY <1>4
<1>. QED BY <1>2, <1>3, <1>5, <1>9, <1>10 DEF TypeInv

(* Every step keeps it.                                                    *)
LEMMA TypeStep ==
  ASSUME TypeInv, [Next]_vars
  PROVE  TypeInv'
<1>1. CASE UNCHANGED vars
  <2>1. /\ UNCHANGED <<workspace, subscription, stripe, customers, events, priced, job>>
        /\ UNCHANGED <<requests, replays, scheduled, misreported>>
    BY <1>1 DEF vars, dbVars, stripeVars, ghostVars
  <2>. QED BY <2>1 DEF TypeInv, TypeOK, StripeOK, EventOK, JobOK
<1>2. ASSUME NEW s \in Subs, Stripe(s) PROVE TypeInv'
  BY <1>2, StripeTypeStep
<1>3. CASE Leave
  BY <1>3, LeaveTypes
<1>4. ASSUME NEW p \in Procs, Request(p) PROVE TypeInv'
  <2>1. CASE LoadCheckout(p) \/ LoadCreate(p) \/ LoadUpdate(p) \/ LoadCancel(p)
    BY <2>1, RequestTypes
  <2>2. CASE Replay(p)
    <3>1. PICK s \in Subs : /\ replays < MaxReplays /\ replays' = replays + 1
                            /\ LoadComplete(p, s) /\ events' = events
      BY <2>2 DEF Replay
    <3>2. replays' \in 0 .. MaxReplays
      BY <3>1, BoundsAssumption DEF TypeInv, TypeOK
    <3>3. stripe' = stripe
      BY <3>1 DEF LoadComplete
    <3>4. events' \in Seq(Event) /\ \A i \in DOMAIN events' : EventOK(events[i])'
      BY <3>1, <3>3, EventsStay
    <3>. QED BY <3>1, <3>2, <3>4, CompleteTypes
  <2>. QED BY <1>4, <2>1, <2>2 DEF Request
<1>5. ASSUME NEW p \in Procs, Return(p) PROVE TypeInv'
  <2>1. PICK i \in Deliverable :
          events' = Without(i) /\ LoadComplete(p, events[i].sub) /\ replays' = replays
    BY <1>5 DEF Return
  <2>2. stripe' = stripe
    BY <2>1 DEF LoadComplete
  <2>3. /\ events' \in Seq(Event) /\ \A k \in DOMAIN events' : EventOK(events[k])'
        /\ events[i] \in Event
    BY <2>1, <2>2, TakenEvent
  <2>4. events[i].sub \in Subs /\ replays' \in 0 .. MaxReplays
    BY <2>1, <2>3 DEF Event, TypeInv, TypeOK
  <2>. QED BY <2>1, <2>3, <2>4, CompleteTypes
<1>6. ASSUME NEW p \in Procs, Claim(p) PROVE TypeInv'
  BY <1>6, ClaimTypes
<1>7. ASSUME NEW p \in Procs, Fault(p) PROVE TypeInv'
  BY <1>7, FailedTypes
<1>8. ASSUME NEW p \in Procs, Step(p) PROVE TypeInv'
  <2>1. CASE CreateCustomer(p) \/ SaveCustomer(p) \/ OpenSession(p) \/ CreateSubscription(p)
             \/ SaveCreate(p)
    BY <2>1, CheckoutTypes
  <2>2. CASE ModifyPlan(p) \/ ModifyCancel(p)
    BY <2>2, ModifyTypes
  <2>3. CASE SaveUpdate(p) \/ SaveCancel(p)
    BY <2>3, SavedRequestTypes
  <2>4. CASE SaveComplete(p) \/ SaveCompleted(p) \/ SavePaid(p) \/ SavePaymentFailed(p)
             \/ SaveUpdated(p) \/ SaveDeleted(p)
    BY <2>4, SavedEventTypes
  <2>5. CASE StripeRefuses(p) \/ EventFails(p)
    BY <2>5, FailedTypes
  <2>. QED BY <1>8, <2>1, <2>2, <2>3, <2>4, <2>5 DEF Step
<1>. QED BY <1>1, <1>2, <1>3, <1>4, <1>5, <1>6, <1>7, <1>8 DEF Next

(* Every variable keeps its type, and every job what its guards have seen. *)
THEOREM TypeCorrect == Spec => []TypeOK
<1>1. TypeInv /\ [Next]_vars => TypeInv'
  BY TypeStep
<1>2. TypeInv => TypeOK
  BY DEF TypeInv
<1>. QED BY TypeInit, <1>1, <1>2, PTL DEF Spec

-----------------------------------------------------------------------------
(* Items and plans.                                                        *)

(* One job moves on; the others stay fine while more plans are billed for. *)
LEMMA JobsFine ==
  ASSUME TypeInv, FineInv, NEW p \in Procs, NEW new \in Job, job' = [job EXCEPT ![p] = new],
         JobFine(new)', priced \subseteq priced', \A s \in Subs : Billed(s) => Billed(s)'
  PROVE  \A q \in Procs : JobFine(job[q])'
<1>1. job \in [Procs -> Job] /\ job'[p] = new /\ \A q \in Procs : q # p => job'[q] = job[q]
  BY DEF TypeInv, TypeOK
<1>2. ASSUME NEW q \in Procs PROVE JobFine(job[q])'
  <2>1. CASE q = p
    BY <1>1, <2>1
  <2>2. CASE q # p
    <3>1. PICK j \in Job : j = job[q]
      BY <1>1
    <3>2. JobFine(j) /\ (j.op \in {"complete", "webhook"} => j.sub \in Subs)
      BY <3>1 DEF TypeInv, FineInv, JobOK
    <3>3. JobFine(j)'
      BY <3>2 DEF JobFine, RowFine, Known
    <3>. QED BY <1>1, <2>2, <3>1, <3>3
  <2>. QED BY <2>1, <2>2
<1>. QED BY <1>2

(* The end of a job that has written a fine row: the row it leaves behind, *)
(* a mix of columns with those of others, is fine too.                     *)
LEMMA SavedFine ==
  ASSUME TypeInv, FineInv, NEW p \in Procs, NEW new \in Row, NEW plan \in Plans,
         RowFine(new), plan \in Known,
         SaveRow(job[p], new), SavePlan(job[p], plan) \/ workspace' = workspace,
         Finish(p), UNCHANGED stripeVars
  PROVE  FineInv'
<1>1. PICK j \in Job : j = job[p]
  BY DEF TypeInv, TypeOK
<1>2. JobOK(j) /\ JobFine(j)
  BY <1>1 DEF TypeInv, FineInv
<1>3. /\ subscription \in Seq(Row)
      /\ \A r \in DOMAIN subscription' :
           \/ r \in DOMAIN subscription /\ subscription'[r] = subscription[r]
           \/ j.old = NoRow /\ subscription'[r] = new
           \/ /\ j.old \in Row /\ r \in DOMAIN subscription
              /\ subscription'[r] = Flush(subscription[r], j.old, new)
  BY <1>1, <1>2, SavedRows DEF TypeInv, TypeOK, JobOK
<1>4. ASSUME NEW now \in Row, RowFine(now), j.old \in Row
      PROVE  RowFine(Flush(now, j.old, new))
  <2>1. RowFine(j.old)
    BY <1>2, <1>4, NoRowIsNone DEF JobFine
  <2>. QED BY <1>4, <2>1, FlushColumns DEF RowFine
<1>5. ASSUME NEW r \in DOMAIN subscription' PROVE RowFine(subscription'[r])
  <2>1. r \in DOMAIN subscription => subscription[r] \in Row /\ RowFine(subscription[r])
    BY <1>3 DEF FineInv
  <2>. QED BY <1>3, <1>4, <2>1
<1>6. workspace'.plan \in Known
  BY SavedPlan DEF FineInv, TypeInv, TypeOK
<1>7. Known' = Known /\ \A s \in Subs : Billed(s) <=> Billed(s)'
  BY DEF Known, Billed, stripeVars
<1>8. \A q \in Procs : JobFine(job[q])'
  <2>1. Idle \in Job /\ JobFine(Idle)'
    BY DEF Idle, Job, Op, JobFine
  <2>. QED BY <1>7, <2>1, JobsFine DEF Finish, stripeVars
<1>9. \A r \in DOMAIN subscription' : RowFine(subscription[r])'
  BY <1>5, <1>7 DEF RowFine
<1>10. \A i \in DOMAIN events' : Billed(events[i].sub)'
  BY DEF FineInv, Billed, stripeVars
<1>11. \A s \in Subs : stripe'[s].status \notin {"none", "open"} => Billed(s)'
  BY <1>7 DEF FineInv, stripeVars
<1>. QED BY <1>6, <1>7, <1>8, <1>9, <1>10, <1>11 DEF FineInv

(* A step of a job that writes neither to the database nor to a            *)
(* subscription, with the events that are left.                            *)
LEMMA QuietFine ==
  ASSUME TypeInv, FineInv, NEW p \in Procs, NEW new \in Job, job' = [job EXCEPT ![p] = new],
         JobFine(new), UNCHANGED <<subscription, workspace, stripe, priced>>,
         \A i \in DOMAIN events' : \E k \in DOMAIN events : events'[i] = events[k]
  PROVE  FineInv'
<1>1. Known' = Known /\ \A s \in Subs : Billed(s) <=> Billed(s)'
  BY DEF Known, Billed
<1>2. JobFine(new)'
  BY DEF JobFine, RowFine, Known, Billed
<1>3. \A q \in Procs : JobFine(job[q])'
  BY <1>1, <1>2, JobsFine
<1>4. \A i \in DOMAIN events' : Billed(events[i].sub)'
  BY DEF FineInv, Billed
<1>5. \A r \in DOMAIN subscription' : RowFine(subscription[r])'
  BY <1>1 DEF FineInv, RowFine
<1>. QED BY <1>1, <1>3, <1>4, <1>5 DEF FineInv

(* A step of Stripe, or of a job at Stripe, on a subscription that is      *)
(* billed for.                                                             *)
LEMMA StripeFine ==
  ASSUME TypeInv, FineInv, NEW s \in Subs, NEW new \in StripeSub, NEW types \in Seq(EventType),
         stripe' = [stripe EXCEPT ![s] = new], Emit(s, types),
         new.status \notin {"none", "open"}, new.meta \in priced',
         priced \subseteq priced', UNCHANGED dbVars
  PROVE  /\ \A u \in Subs : Billed(u) => Billed(u)'
         /\ (\A q \in Procs : JobFine(job[q])') => FineInv'
<1>1. /\ stripe' \in [Subs -> StripeSub] /\ stripe'[s] = new
      /\ \A u \in Subs : u # s => stripe'[u] = stripe[u]
  BY DEF TypeInv, TypeOK
<1>2. \A u \in Subs : Billed(u) => Billed(u)'
  BY <1>1 DEF Billed
<1>3. \A u \in Subs : stripe'[u].status \notin {"none", "open"} => Billed(u)'
  BY <1>1 DEF Billed, FineInv
<1>4. /\ events \in Seq(Event)
      /\ \A i \in DOMAIN events' :
           \/ i \in DOMAIN events /\ events'[i] = events[i]
           \/ events'[i].sub = s /\ \E k \in DOMAIN types : events'[i].type = types[k]
  BY <1>1, EmittedEvents DEF TypeInv, TypeOK
<1>5. ASSUME NEW i \in DOMAIN events' PROVE Billed(events[i].sub)'
  <2>1. CASE i \in DOMAIN events /\ events'[i] = events[i]
    <3>1. PICK e \in Event : e = events[i]
      BY <1>4, <2>1
    <3>2. e.sub \in Subs /\ Billed(e.sub)
      BY <2>1, <3>1 DEF FineInv, Event
    <3>3. Billed(e.sub)'
      BY <1>2, <3>2
    <3>. QED BY <2>1, <3>1, <3>3
  <2>2. CASE events'[i].sub = s
    BY <1>1, <2>2 DEF Billed
  <2>. QED BY <1>4, <2>1, <2>2
<1>6. workspace'.plan \in Known' /\ \A r \in DOMAIN subscription' : RowFine(subscription[r])'
  BY DEF FineInv, RowFine, Known, dbVars
<1>. QED BY <1>2, <1>3, <1>5, <1>6 DEF FineInv

(* A row that is read is fine.                                             *)
LEMMA LoadedFine ==
  ASSUME TypeInv, FineInv, NEW r, r \in AnyRow \/ \E s \in Subs : r \in RowOf(s)
  PROVE  /\ r \in Nat /\ Loaded(r) \in Row \cup {NoRow}
         /\ Loaded(r) # NoRow => RowFine(Loaded(r))
  BY AnyRowIs DEF TypeInv, TypeOK, FineInv

(* Stripe bills for what it starts, and changes no row.                    *)
LEMMA StripeFineStep ==
  ASSUME TypeInv, FineInv, NEW s \in Subs, Stripe(s)
  PROVE  FineInv'
<1>s. /\ stripe \in [Subs -> StripeSub] /\ stripe[s] \in StripeSub /\ StripeOK(stripe[s])
      /\ stripe[s].status \notin {"none", "open"} => stripe[s].meta \in priced
  BY DEF TypeInv, TypeOK, FineInv, Billed
<1>1. PICK st \in StripeStatus, n \in Nat, types \in Seq(EventType) :
        /\ stripe' = [stripe EXCEPT ![s].status = st, ![s].period = n] /\ Emit(s, types)
        /\ st \notin {"none", "open"}
  <2>1. CASE PayCheckout(s)
    BY <2>1, <1>s, EmittedTypes DEF PayCheckout, StripeStatus
  <2>2. CASE PayFirstInvoice(s)
    BY <2>2, <1>s, EmittedTypes DEF PayFirstInvoice, StripeStatus
  <2>3. CASE Renew(s)
    <3>1. stripe[s].period + 1 \in Nat /\ stripe[s].status = "active"
      BY <2>3, <1>s DEF Renew, StripeSub
    <3>2. stripe' = [stripe EXCEPT ![s].status = "active", ![s].period = stripe[s].period + 1]
      BY <2>3, <3>1, <1>s DEF Renew, StripeSub
    <3>. QED BY <2>3, <3>1, <3>2, EmittedTypes DEF Renew, StripeStatus
  <2>4. CASE RenewFails(s)
    <3>1. stripe[s].period + 1 \in Nat
      BY <1>s DEF StripeSub
    <3>. QED BY <2>4, <3>1, <1>s, EmittedTypes DEF RenewFails, StripeStatus
  <2>5. CASE Recover(s)
    <3>1. stripe[s].period \in Nat
      BY <1>s DEF StripeSub
    <3>2. stripe' = [stripe EXCEPT ![s].status = "active", ![s].period = stripe[s].period]
      BY <2>5, <1>s DEF Recover, StripeSub
    <3>. QED BY <2>5, <3>1, <3>2, EmittedTypes DEF Recover, StripeStatus
  <2>6. CASE End(s)
    <3>1. stripe[s].period \in Nat
      BY <1>s DEF StripeSub
    <3>2. stripe' = [stripe EXCEPT ![s].status = "canceled", ![s].period = stripe[s].period]
      BY <2>6, <1>s DEF End, StripeSub
    <3>. QED BY <2>6, <3>1, <3>2, EmittedTypes DEF End, StripeStatus
  <2>. QED BY <2>1, <2>2, <2>3, <2>4, <2>5, <2>6 DEF Stripe
<1>2. priced \subseteq priced' /\ stripe[s].meta \in priced'
  <2>1. CASE PayCheckout(s)
    BY <2>1, <1>s, PlansAssumption DEF PayCheckout, StripeOK
  <2>2. CASE stripe[s].status \notin {"none", "open"} /\ (priced' = priced \cup {stripe[s].plan} \/ priced' = priced)
    BY <2>2, <1>s
  <2>3. CASE ~ PayCheckout(s)
    <3>1. stripe[s].status \notin {"none", "open"} /\ (priced' = priced \cup {stripe[s].plan} \/ priced' = priced)
      BY <2>3 DEF Stripe, PayFirstInvoice, Renew, RenewFails, Recover, End, Running
    <3>. QED BY <2>2, <3>1
  <2>. QED BY <2>1, <2>3
<1> DEFINE new == [stripe[s] EXCEPT !.status = st, !.period = n]
<1>3. /\ new \in StripeSub /\ stripe' = [stripe EXCEPT ![s] = new]
      /\ new.status = st /\ new.meta = stripe[s].meta
  BY <1>s, <1>1 DEF StripeSub
<1>. HIDE DEF new
<1>4. dbVars' = dbVars /\ job' = job
  BY DEF Stripe, PayCheckout, PayFirstInvoice, Renew, RenewFails, Recover, End, StripeOnly
<1>5. /\ \A u \in Subs : Billed(u) => Billed(u)'
      /\ (\A q \in Procs : JobFine(job[q])') => FineInv'
  BY <1>1, <1>2, <1>3, <1>4, StripeFine
<1>6. ASSUME NEW q \in Procs PROVE JobFine(job[q])'
  <2>1. PICK j \in Job : j = job[q] /\ JobOK(j)
    BY JobFacts
  <2>2. JobFine(j) /\ (j.op \in {"complete", "webhook"} => j.sub \in Subs)
    BY <2>1 DEF FineInv, JobOK
  <2>3. JobFine(j)'
    BY <1>2, <1>5, <2>2 DEF JobFine, RowFine, Known
  <2>. QED BY <1>4, <2>1, <2>3
<1>. QED BY <1>5, <1>6

(* A job that begins.                                                      *)
LEMMA RequestFine ==
  ASSUME TypeInv, FineInv, NEW p \in Procs, NEW op \in {"checkout", "update", "cancel"},
         NEW plan \in Plans \cup {NoPlan}, NEW r \in AnyRow, Load(p, op, plan, r)
  PROVE  FineInv'
<1> DEFINE new == [Idle EXCEPT !.pc = "loaded", !.op = op, !.plan = plan,
                               !.row = r, !.old = Loaded(r), !.ws = workspace]
<1>1. /\ r \in Nat /\ Loaded(r) \in Row \cup {NoRow} /\ workspace \in Workspace
      /\ Loaded(r) # NoRow => RowFine(Loaded(r))
  BY LoadedFine DEF TypeInv, TypeOK
<1>2. PICK n \in Job : n = new
  BY <1>1 DEF Idle, Job, Op
<1>3. JobFine(n)
  BY <1>1, <1>2 DEF JobFine, Idle
<1>4. /\ job' = [job EXCEPT ![p] = n]
      /\ UNCHANGED <<subscription, workspace, stripe, priced, events>>
  BY <1>2 DEF Load, dbVars, stripeVars
<1>5. \A i \in DOMAIN events' : \E k \in DOMAIN events : events'[i] = events[k]
  BY <1>4
<1>. HIDE DEF new
<1>. QED BY <1>2, <1>3, <1>4, <1>5, QuietFine

(* The success page reads a session that was paid.                         *)
LEMMA CompleteFine ==
  ASSUME TypeInv, FineInv, NEW p \in Procs, NEW s \in Subs, LoadComplete(p, s),
         \A i \in DOMAIN events' : \E k \in DOMAIN events : events'[i] = events[k]
  PROVE  FineInv'
<1> DEFINE ev == [type |-> "return", sub |-> s, active |-> TRUE,
                  period |-> stripe[s].period, cancel |-> FALSE]
<1>1. PICK r \in AnyRow :
        job' = [job EXCEPT ![p] = [Idle EXCEPT !.pc = "loaded", !.op = "complete", !.sub = s,
                  !.ev = ev, !.row = r, !.old = Loaded(r), !.ws = workspace]]
  BY DEF LoadComplete
<1>2. /\ r \in Nat /\ Loaded(r) \in Row \cup {NoRow} /\ workspace \in Workspace
      /\ Loaded(r) # NoRow => RowFine(Loaded(r))
  BY LoadedFine DEF TypeInv, TypeOK
<1>3. ev \in Event
  BY DEF Event, EventType, StripeSub, TypeInv, TypeOK
<1>. HIDE DEF ev
<1> DEFINE new == [Idle EXCEPT !.pc = "loaded", !.op = "complete", !.sub = s,
                     !.ev = ev, !.row = r, !.old = Loaded(r), !.ws = workspace]
<1>4. PICK n \in Job : n = new
  BY <1>2, <1>3 DEF Idle, Job, Op
<1>5. Billed(s)
  BY DEF LoadComplete, FineInv
<1>6. JobFine(n)
  BY <1>2, <1>4, <1>5 DEF JobFine, Idle
<1>7. /\ job' = [job EXCEPT ![p] = n]
      /\ UNCHANGED <<subscription, workspace, stripe, priced>>
  BY <1>1, <1>4 DEF LoadComplete, dbVars
<1>. HIDE DEF new
<1>. QED BY <1>4, <1>6, <1>7, QuietFine

(* An event is about a subscription that was billed for.                   *)
LEMMA ClaimFine ==
  ASSUME TypeInv, FineInv, NEW p \in Procs, Claim(p)
  PROVE  FineInv'
<1>1. PICK i \in Deliverable :
        /\ events' = Without(i)
        /\ \E r \in IF events[i].type = "completed" THEN AnyRow ELSE RowOf(events[i].sub) :
             job' = [job EXCEPT ![p] = [Idle EXCEPT !.pc = "loaded", !.op = "webhook",
                       !.sub = events[i].sub, !.ev = events[i],
                       !.row = r, !.old = Loaded(r), !.ws = workspace]]
        /\ UNCHANGED <<subscription, workspace, stripe, priced>>
  BY DEF Claim, dbVars
<1>2. /\ events[i] \in Event
      /\ \A k \in DOMAIN events' : \E l \in DOMAIN events : events'[k] = events[l]
  BY <1>1, TakenEvent
<1>3. PICK e \in Event : e = events[i]
  BY <1>2
<1>4. e.sub \in Subs /\ Billed(e.sub)
  BY <1>3 DEF Event, FineInv, Deliverable
<1>5. PICK r \in AnyRow \cup RowOf(e.sub) :
        job' = [job EXCEPT ![p] = [Idle EXCEPT !.pc = "loaded", !.op = "webhook", !.sub = e.sub,
                                   !.ev = e, !.row = r, !.old = Loaded(r), !.ws = workspace]]
  BY <1>1, <1>3
<1>6. /\ r \in Nat /\ Loaded(r) \in Row \cup {NoRow} /\ workspace \in Workspace
      /\ Loaded(r) # NoRow => RowFine(Loaded(r))
  BY <1>4, LoadedFine DEF TypeInv, TypeOK
<1> DEFINE new == [Idle EXCEPT !.pc = "loaded", !.op = "webhook", !.sub = e.sub, !.ev = e,
                               !.row = r, !.old = Loaded(r), !.ws = workspace]
<1>7. PICK n \in Job : n = new
  BY <1>4, <1>6 DEF Idle, Job, Op
<1>8. JobFine(n)
  BY <1>4, <1>6, <1>7 DEF JobFine, Idle
<1>9. job' = [job EXCEPT ![p] = n]
  BY <1>5, <1>7
<1>. HIDE DEF new
<1>. QED BY <1>1, <1>2, <1>7, <1>8, <1>9, QuietFine

(* The steps of a job that write nothing to the database.                  *)
LEMMA CallsFine ==
  ASSUME TypeInv, FineInv, NEW p \in Procs,
         CreateCustomer(p) \/ SaveCustomer(p) \/ OpenSession(p) \/ StripeRefuses(p)
         \/ EventFails(p) \/ Fault(p)
  PROVE  FineInv'
<1>j. PICK j \in Job : j = job[p] /\ JobOK(j) /\ JobFine(j)
  BY JobFacts DEF FineInv
<1>i. Idle \in Job /\ JobFine(Idle)
  BY DEF Idle, Job, Op, JobFine
<1>1. CASE CreateCustomer(p)
  <2>1. j.op = "checkout" /\ j.ws \in Workspace
    BY <1>1, <1>j DEF CreateCustomer, At, JobOK, JobFine
  <2>2. PICK c \in Nat : c = customers'
    BY <1>1 DEF CreateCustomer, TypeInv, TypeOK
  <2> DEFINE n == [j EXCEPT !.pc = "customer", !.ws.customer = c]
  <2>3. n \in Job
    BY <2>1 DEF Job, Workspace
  <2>4. JobFine(n)
    BY <1>j, <2>1 DEF JobFine, Job
  <2>5. /\ job' = [job EXCEPT ![p] = n]
        /\ UNCHANGED <<subscription, workspace, stripe, priced, events>>
    BY <1>1, <1>j, <2>2 DEF CreateCustomer, dbVars
  <2>6. \A i \in DOMAIN events' : \E k \in DOMAIN events : events'[i] = events[k]
    BY <2>5
  <2>. HIDE DEF n
  <2>. QED BY <2>3, <2>4, <2>5, <2>6, QuietFine
<1>2. CASE SaveCustomer(p)
  <2>1. j.op = "checkout"
    BY <1>2, <1>j DEF SaveCustomer, At, JobOK, JobFine
  <2> DEFINE n == [j EXCEPT !.pc = "saved"]
  <2>2. n \in Job
    BY DEF Job
  <2>3. /\ job' = [job EXCEPT ![p] = n]
        /\ UNCHANGED <<subscription, stripe, priced, events>>
        /\ workspace'.plan = workspace.plan
    BY <1>2, <1>j DEF SaveCustomer, stripeVars, TypeInv, TypeOK, Workspace
  <2>4. JobFine(n)'
    BY <1>j, <2>1, <2>3 DEF JobFine, Job, RowFine, Known
  <2>. HIDE DEF n
  <2>5. \A s \in Subs : Billed(s) <=> Billed(s)'
    BY <2>3 DEF Billed
  <2>6. \A q \in Procs : JobFine(job[q])'
    BY <2>2, <2>3, <2>4, <2>5, JobsFine
  <2>. QED BY <2>3, <2>6 DEF FineInv, RowFine, Known, Billed
<1>3. CASE OpenSession(p)
  <2>1. PICK s \in Subs :
          /\ stripe[s].status = "none"
          /\ stripe' = [stripe EXCEPT ![s].status = "open", ![s].plan = job[p].plan,
                                      ![s].meta = job[p].plan]
    BY <1>3 DEF OpenSession
  <2>2. /\ stripe'[s].status = "open" /\ \A u \in Subs : u # s => stripe'[u] = stripe[u]
    BY <2>1 DEF TypeInv, TypeOK, StripeSub
  <2>3. UNCHANGED <<subscription, workspace, events, priced>> /\ job' = [job EXCEPT ![p] = Idle]
    BY <1>3 DEF OpenSession, Finish, dbVars
  <2>4. ASSUME NEW u \in Subs, Billed(u) PROVE Billed(u)'
    <3>1. u # s
      BY <2>1, <2>4 DEF Billed
    <3>2. stripe'[u] = stripe[u] /\ priced' = priced
      BY <2>2, <2>3, <3>1
    <3>. QED BY <2>4, <3>2 DEF Billed
  <2>5. \A q \in Procs : JobFine(job[q])'
    BY <1>i, <2>3, <2>4, JobsFine DEF JobFine, Idle
  <2>6. ASSUME NEW i \in DOMAIN events' PROVE Billed(events[i].sub)'
    <3>1. PICK e \in Event : e = events[i]
      BY <2>3 DEF TypeInv, TypeOK
    <3>2. e.sub \in Subs /\ Billed(e.sub)
      BY <2>3, <3>1 DEF FineInv, Event
    <3>3. Billed(e.sub)'
      BY <2>4, <3>2
    <3>. QED BY <2>3, <3>1, <3>3
  <2>7. \A u \in Subs : stripe'[u].status \notin {"none", "open"} => Billed(u)'
    BY <2>2, <2>3 DEF FineInv, Billed
  <2>. QED BY <2>3, <2>5, <2>6, <2>7 DEF FineInv, RowFine, Known
<1>4. CASE StripeRefuses(p) \/ EventFails(p) \/ Fault(p)
  <2>1. job' = [job EXCEPT ![p] = Idle] /\ UNCHANGED <<subscription, workspace, stripe, priced, events>>
    BY <1>4 DEF StripeRefuses, EventFails, Fault, AnswerError, Finish, dbVars, stripeVars
  <2>2. \A i \in DOMAIN events' : \E k \in DOMAIN events : events'[i] = events[k]
    BY <2>1
  <2>. QED BY <1>i, <2>1, <2>2, QuietFine
<1>. QED BY <1>1, <1>2, <1>3, <1>4

(* The changes of a running subscription.                                  *)
LEMMA ModifyFine ==
  ASSUME TypeInv, FineInv, NEW p \in Procs, ModifyPlan(p) \/ ModifyCancel(p)
  PROVE  FineInv'
<1>j. PICK j \in Job : j = job[p] /\ JobOK(j) /\ JobFine(j)
  BY JobFacts DEF FineInv
<1>t. stripe \in [Subs -> StripeSub]
  BY DEF TypeInv, TypeOK
<1>0. /\ j.op \in {"update", "cancel"} /\ j.old \in Row /\ j.old.sid \in Subs
      /\ Running(j.old.sid)
  BY <1>j, NoRowIsNone DEF ModifyPlan, ModifyCancel, At, JobOK, Job, Row, Modifiable
<1>s. PICK s \in Subs : s = j.old.sid
  BY <1>0
<1>1. stripe[s].status \notin {"none", "open"} /\ stripe[s].meta \in priced
  BY <1>0, <1>s DEF Running, FineInv, Billed
<1> DEFINE n == [j EXCEPT !.pc = "called"]
<1>2. n \in Job /\ job' = [job EXCEPT ![p] = n]
  BY <1>j DEF ModifyPlan, ModifyCancel, Job
<1>3. /\ UNCHANGED dbVars /\ Emit(s, <<"updated">>) /\ priced \subseteq priced'
      /\ (j.op = "update" => j.plan \in priced')
  BY <1>j, <1>s DEF ModifyPlan, ModifyCancel, At
<1>4. PICK new \in StripeSub :
        /\ stripe' = [stripe EXCEPT ![s] = new]
        /\ new.status = stripe[s].status /\ new.meta = stripe[s].meta
  <2>1. CASE ModifyPlan(p)
    <3> DEFINE new == [stripe[s] EXCEPT !.plan = j.plan]
    <3>1. new \in StripeSub
      BY <1>t DEF StripeSub, Job
    <3>2. stripe' = [stripe EXCEPT ![s] = new]
      BY <2>1, <1>j, <1>t, <1>s DEF ModifyPlan
    <3>3. new.status = stripe[s].status /\ new.meta = stripe[s].meta
      BY <1>t DEF StripeSub
    <3>. HIDE DEF new
    <3>. QED BY <3>1, <3>2, <3>3
  <2>2. CASE ModifyCancel(p)
    <3> DEFINE new == [stripe[s] EXCEPT !.cancel = TRUE]
    <3>1. new \in StripeSub
      BY <1>t DEF StripeSub
    <3>2. stripe' = [stripe EXCEPT ![s] = new]
      BY <2>2, <1>j, <1>t, <1>s DEF ModifyCancel
    <3>3. new.status = stripe[s].status /\ new.meta = stripe[s].meta
      BY <1>t DEF StripeSub
    <3>. HIDE DEF new
    <3>. QED BY <3>1, <3>2, <3>3
  <2>. QED BY <2>1, <2>2
<1>5. /\ \A u \in Subs : Billed(u) => Billed(u)'
      /\ (\A q \in Procs : JobFine(job[q])') => FineInv'
  BY <1>1, <1>3, <1>4, EmittedTypes, StripeFine
<1>6. JobFine(n)'
  BY <1>j, <1>0, <1>3 DEF JobFine, Job, RowFine, Known
<1>. HIDE DEF n
<1>. QED BY <1>2, <1>3, <1>5, <1>6, JobsFine

(* Each commit leaves a fine row and a plan that was billed for.           *)
LEMMA SavedRequestFine ==
  ASSUME TypeInv, FineInv, NEW p \in Procs, SaveUpdate(p) \/ SaveCancel(p)
  PROVE  FineInv'
<1>j. PICK j \in Job : j = job[p] /\ JobOK(j) /\ JobFine(j)
  BY JobFacts DEF FineInv
<1>0. j.op \in {"update", "cancel"} /\ j.old \in Row /\ RowFine(j.old)
  BY <1>j, NoRowIsNone DEF SaveUpdate, SaveCancel, At, JobOK, Job, JobFine
<1>t. Free \in Plans /\ Free \in Known /\ Paid \subseteq Plans /\ priced \subseteq Plans
  BY PlansAssumption DEF Known, Paid, TypeInv, TypeOK
<1>u. UNCHANGED stripeVars /\ Finish(p)
  BY DEF SaveUpdate, SaveCancel
<1>1. CASE SaveUpdate(p)
  <2>1. j.plan \in Plans /\ j.plan \in Known
    BY <1>1, <1>j, <1>t DEF SaveUpdate, At, JobOK, JobFine, Known
  <2>2. CASE Price[j.plan] > Price[j.old.plan]
    <3> DEFINE new == [ClearPending(j.old) EXCEPT !.plan = j.plan]
    <3>1. new \in Row
      BY <1>0, <2>1 DEF ClearPending, Row
    <3>2. RowFine(new)
      BY <1>0, <2>1 DEF ClearPending, Row, RowFine
    <3>3. SaveRow(job[p], new) /\ SavePlan(job[p], j.plan)
      BY <1>1, <1>j, <2>2 DEF SaveUpdate
    <3>. HIDE DEF new
    <3>. QED BY <1>u, <2>1, <3>1, <3>2, <3>3, SavedFine
  <2>3. CASE ~ (Price[j.plan] > Price[j.old.plan])
    <3> DEFINE new == [j.old EXCEPT !.pplan = j.plan, !.ptype = "DOWNGRADE"]
    <3>1. new \in Row
      BY <1>0, <2>1 DEF Row
    <3>2. RowFine(new)
      BY <1>0, <2>1 DEF Row, RowFine
    <3>3. SaveRow(job[p], new) /\ workspace' = workspace
      BY <1>1, <1>j, <2>3 DEF SaveUpdate
    <3>. HIDE DEF new
    <3>. QED BY <1>u, <2>1, <3>1, <3>2, <3>3, SavedFine
  <2>. QED BY <2>2, <2>3
<1>2. CASE SaveCancel(p)
  <2> DEFINE new == [j.old EXCEPT !.cancel = TRUE, !.pplan = Free, !.ptype = "CANCEL_TO_FREE"]
  <2>1. new \in Row
    BY <1>0, <1>t DEF Row
  <2>2. RowFine(new)
    BY <1>0, <1>t DEF Row, RowFine
  <2>3. SaveRow(job[p], new) /\ workspace' = workspace
    BY <1>2, <1>j DEF SaveCancel
  <2>. HIDE DEF new
  <2>. QED BY <1>t, <1>u, <2>1, <2>2, <2>3, SavedFine
<1>. QED BY <1>1, <1>2

(* The row of a session is fine, and so is the one an invoice leaves.      *)
LEMMA FineRows ==
  ASSUME NEW s \in Subs, NEW plan \in Plans, plan \in Known, NEW st \in RowStatus,
         NEW old \in Row \cup {NoRow}, old # NoRow => RowFine(old)
  PROVE  RowFine(NewRow(s, plan, st)) /\ RowFine(Subscribed(old, s, plan, st))
<1>1. RowFine(NewRow(s, plan, st))
  BY DEF RowFine, NewRow
<1>2. CASE old = NoRow
  BY <1>1, <1>2 DEF Subscribed
<1>3. CASE old # NoRow
  <2>1. Subscribed(old, s, plan, st) =
          [old EXCEPT !.pplan = NoPlan, !.ptype = "NONE", !.sid = s, !.item = s, !.plan = plan,
                      !.status = st, !.cancel = FALSE]
    BY <1>3 DEF Subscribed, ClearPending, Row
  <2>. QED BY <1>1, <1>3, <2>1 DEF RowFine, Row
<1>. QED BY <1>1, <1>2, <1>3

(* An invoice puts a row on a plan that was billed for.                    *)
LEMMA PaidRowFine ==
  ASSUME NEW j \in Job, j.sub \in Subs, stripe[j.sub].meta \in Known,
         j.old # NoRow => RowFine(j.old), PaidRow(j).plan # NoPlan
  PROVE  RowFine(PaidRow(j))
<1>1. j.old \in Row \cup {NoRow}
  BY DEF Job
<1>2. CASE j.old = NoRow
  <2>1. PaidRow(j) = [NewRow(j.sub, stripe[j.sub].meta, "INCOMPLETE")
                           EXCEPT !.status = "ACTIVE", !.period = j.ev.period]
    BY <1>2 DEF PaidRow, NewRow
  <2>. QED BY <2>1 DEF NewRow, RowFine
<1>3. CASE j.old \in Row
  <2>1. CASE j.old.ptype = "DOWNGRADE"
    <3>1. PaidRow(j) = [j.old EXCEPT !.pplan = NoPlan, !.ptype = "NONE", !.plan = j.old.pplan,
                                     !.status = "ACTIVE", !.period = j.ev.period]
      BY <1>3, <2>1, NoRowIsNone DEF PaidRow, ClearPending, Row
    <3>. QED BY <1>3, <3>1, NoRowIsNone DEF Row, RowFine
  <2>2. CASE j.old.ptype # "DOWNGRADE"
    <3>1. PaidRow(j) = [j.old EXCEPT !.status = "ACTIVE", !.period = j.ev.period]
      BY <1>3, <2>2, NoRowIsNone DEF PaidRow
    <3>. QED BY <1>3, <3>1, NoRowIsNone DEF Row, RowFine
  <2>. QED BY <2>1, <2>2
<1>. QED BY <1>1, <1>2, <1>3

(* The commits of the success page and of the events.                      *)
LEMMA SavedEventFine ==
  ASSUME TypeInv, FineInv, NEW p \in Procs,
         SaveComplete(p) \/ SaveCompleted(p) \/ SavePaid(p) \/ SavePaymentFailed(p)
         \/ SaveUpdated(p) \/ SaveDeleted(p)
  PROVE  FineInv'
<1>j. PICK j \in Job : j = job[p] /\ JobOK(j) /\ JobFine(j)
  BY JobFacts DEF FineInv
<1>t. Free \in Plans /\ Free \in Known /\ priced \subseteq Plans /\ NoPlan \notin Plans
  BY PlansAssumption DEF Known, Paid, TypeInv, TypeOK
<1>0. /\ j.op \in {"complete", "webhook"} /\ j.sub \in Subs /\ j.ev \in Event
      /\ j.old \in Row \cup {NoRow} /\ j.ev.period \in Nat /\ j.ev.cancel \in BOOLEAN
      /\ Billed(j.sub) /\ (j.old # NoRow => RowFine(j.old))
  BY <1>j DEF SaveComplete, SaveCompleted, SavePaid, SavePaymentFailed, SaveUpdated, SaveDeleted,
              Handles, At, JobOK, Job, Event, JobFine
<1>u. UNCHANGED stripeVars /\ Finish(p)
  BY DEF SaveComplete, SaveCompleted, SavePaid, SavePaymentFailed, SaveUpdated, SaveDeleted
<1>m. PICK plan \in Plans : plan = stripe[j.sub].meta /\ plan \in Known
  BY <1>0, <1>t DEF Billed, Known
<1>r. {"ACTIVE", "INCOMPLETE", "PAST_DUE", "CANCELED"} \subseteq RowStatus
  BY DEF RowStatus
<1>1. CASE SaveComplete(p)
  <2> DEFINE row == Subscribed(j.old, j.sub, plan, "ACTIVE")
             new == [row EXCEPT !.period = j.ev.period]
  <2>1. row \in Row /\ RowFine(row)
    BY <1>0, <1>m, <1>r, NewRows, FineRows
  <2>2. SaveRow(job[p], new) /\ SavePlan(job[p], plan)
    BY <1>1, <1>j, <1>m DEF SaveComplete
  <2>. HIDE DEF row
  <2>3. new \in Row /\ RowFine(new)
    BY <1>0, <2>1 DEF Row, RowFine
  <2>. HIDE DEF new
  <2>. QED BY <1>m, <1>u, <2>2, <2>3, SavedFine
<1>2. CASE SaveCompleted(p)
  <2>1. PICK st \in RowStatus : SaveRow(j, Subscribed(j.old, j.sub, plan, st))
    BY <1>2, <1>j, <1>r, <1>m DEF SaveCompleted
  <2>2. Subscribed(j.old, j.sub, plan, st) \in Row /\ RowFine(Subscribed(j.old, j.sub, plan, st))
    BY <1>0, <1>m, NewRows, FineRows
  <2>3. workspace' = workspace
    BY <1>2 DEF SaveCompleted
  <2>. QED BY <1>m, <1>u, <1>j, <2>1, <2>2, <2>3, SavedFine
<1>3. CASE SavePaid(p)
  <2>1. PaidRow(j).plan # NoPlan /\ SaveRow(j, PaidRow(j)) /\ SavePlan(j, PaidRow(j).plan)
    BY <1>3, <1>j DEF SavePaid, Handles, Applies
  <2>2. PaidRow(j) \in Row
    BY <1>0, <1>m, <2>1, PaidRowType
  <2>3. RowFine(PaidRow(j))
    BY <1>0, <1>m, <2>1, PaidRowFine
  <2>4. PaidRow(j).plan \in Plans /\ PaidRow(j).plan \in Known
    BY <2>1, <2>2, <2>3 DEF Row, RowFine
  <2>. QED BY <1>u, <1>j, <2>1, <2>2, <2>3, <2>4, SavedFine
<1>4. CASE SavePaymentFailed(p)
  <2> DEFINE new == [j.old EXCEPT !.status = "PAST_DUE"]
  <2>1. j.old \in Row /\ RowFine(j.old)
    BY <1>4, <1>0, <1>j DEF SavePaymentFailed, Handles, Applies
  <2>2. new \in Row /\ RowFine(new)
    BY <1>r, <2>1 DEF Row, RowFine
  <2>3. SaveRow(job[p], new) /\ workspace' = workspace
    BY <1>4, <1>j DEF SavePaymentFailed
  <2>. HIDE DEF new
  <2>. QED BY <1>m, <1>u, <2>2, <2>3, SavedFine
<1>5. CASE SaveUpdated(p)
  <2>1. j.old \in Row /\ RowFine(j.old)
    BY <1>5, <1>0, <1>j DEF SaveUpdated, Handles, Applies
  <2>2. PICK st \in RowStatus :
          SaveRow(j, [j.old EXCEPT !.status = st, !.period = j.ev.period, !.cancel = j.ev.cancel])
    <3>1. j.old.status \in RowStatus
      BY <2>1 DEF Row
    <3>. QED BY <1>5, <1>j, <1>r, <2>1, <3>1 DEF SaveUpdated
  <2> DEFINE new == [j.old EXCEPT !.status = st, !.period = j.ev.period, !.cancel = j.ev.cancel]
  <2>3. new \in Row
    BY <1>0, <2>1 DEF Row
  <2>4. RowFine(new)
    BY <2>1 DEF Row, RowFine
  <2>5. workspace' = workspace
    BY <1>5 DEF SaveUpdated
  <2>. QED BY <1>m, <1>u, <1>j, <2>2, <2>3, <2>4, <2>5, SavedFine
<1>6. CASE SaveDeleted(p)
  <2> DEFINE new == [ClearPending(j.old) EXCEPT !.status = "CANCELED", !.cancel = FALSE, !.plan = Free]
  <2>1. j.old \in Row /\ RowFine(j.old)
    BY <1>6, <1>0, <1>j DEF SaveDeleted, Handles, Applies
  <2>2. new \in Row
    BY <1>r, <1>t, <2>1 DEF Row, ClearPending
  <2>3. RowFine(new)
    BY <1>t, <2>1 DEF Row, ClearPending, RowFine
  <2>4. SaveRow(job[p], new) /\ SavePlan(job[p], Free)
    BY <1>6, <1>j DEF SaveDeleted
  <2>. HIDE DEF new
  <2>. QED BY <1>u, <1>t, <2>2, <2>3, <2>4, SavedFine
<1>. QED BY <1>1, <1>2, <1>3, <1>4, <1>5, <1>6

(* A new workspace is on FREE, with no row.                                *)
LEMMA FineInit == Init => FineInv
<1>. SUFFICES ASSUME Init PROVE FineInv
  OBVIOUS
<1>1. \A s \in Subs : stripe[s].status = "none"
  BY DEF Init
<1>2. \A p \in Procs : job[p] = Idle
  BY DEF Init
<1>3. Len(subscription) = 0 /\ Len(events) = 0 /\ subscription = << >> /\ events = << >>
  BY DEF Init
<1>4. JobFine(Idle)
  BY DEF JobFine, Idle
<1>5. workspace.plan = Free
  BY DEF Init
<1>. QED BY <1>1, <1>2, <1>3, <1>4, <1>5 DEF FineInv, Known

(* Every step keeps what is fine, without POST /subscription.              *)
LEMMA FineStep ==
  ASSUME "create" \notin Hazards, TypeInv, FineInv, [Next]_vars
  PROVE  FineInv'
<1>1. CASE UNCHANGED vars
  <2>1. UNCHANGED <<workspace, subscription, stripe, events, priced, job>>
    BY <1>1 DEF vars, dbVars, stripeVars
  <2>. QED BY <2>1 DEF FineInv, JobFine, RowFine, Known, Billed
<1>2. ASSUME NEW s \in Subs, Stripe(s) PROVE FineInv'
  BY <1>2, StripeFineStep
<1>3. CASE Leave
  <2>1. PICK i \in Deliverable :
          events' = Without(i) /\ UNCHANGED <<workspace, subscription, stripe, priced, job>>
    BY <1>3 DEF Leave, dbVars
  <2>2. stripe' = stripe
    BY <2>1
  <2>3. \A k \in DOMAIN events' : \E l \in DOMAIN events : events'[k] = events[l]
    BY <2>1, <2>2, TakenEvent
  <2>. QED BY <2>1, <2>3 DEF FineInv, JobFine, RowFine, Known, Billed
<1>4. ASSUME NEW p \in Procs, Request(p) PROVE FineInv'
  <2>1. CASE LoadCheckout(p)
    <3>1. PICK r \in AnyRow, plan \in Plans : Load(p, "checkout", plan, r)
      BY <2>1 DEF LoadCheckout
    <3>. QED BY <3>1, RequestFine
  <2>2. CASE LoadCreate(p)
    BY <2>2 DEF LoadCreate
  <2>3. CASE LoadUpdate(p)
    <3>1. PICK r \in AnyRow, plan \in Plans : Load(p, "update", plan, r)
      BY <2>3 DEF LoadUpdate
    <3>. QED BY <3>1, RequestFine
  <2>4. CASE LoadCancel(p)
    <3>1. PICK r \in AnyRow : Load(p, "cancel", NoPlan, r)
      BY <2>4 DEF LoadCancel
    <3>. QED BY <3>1, RequestFine
  <2>5. CASE Replay(p)
    <3>1. PICK s \in Subs : LoadComplete(p, s) /\ events' = events
      BY <2>5 DEF Replay
    <3>2. \A i \in DOMAIN events' : \E k \in DOMAIN events : events'[i] = events[k]
      BY <3>1
    <3>. QED BY <3>1, <3>2, CompleteFine
  <2>. QED BY <1>4, <2>1, <2>2, <2>3, <2>4, <2>5 DEF Request
<1>5. ASSUME NEW p \in Procs, Return(p) PROVE FineInv'
  <2>1. PICK i \in Deliverable : events' = Without(i) /\ LoadComplete(p, events[i].sub)
    BY <1>5 DEF Return
  <2>2. stripe' = stripe
    BY <2>1 DEF LoadComplete
  <2>3. /\ \A k \in DOMAIN events' : \E l \in DOMAIN events : events'[k] = events[l]
        /\ events[i] \in Event
    BY <2>1, <2>2, TakenEvent
  <2>4. events[i].sub \in Subs
    BY <2>3 DEF Event
  <2>. QED BY <2>1, <2>3, <2>4, CompleteFine
<1>6. ASSUME NEW p \in Procs, Claim(p) PROVE FineInv'
  BY <1>6, ClaimFine
<1>7. ASSUME NEW p \in Procs, Fault(p) PROVE FineInv'
  BY <1>7, CallsFine
<1>8. ASSUME NEW p \in Procs, Step(p) PROVE FineInv'
  <2>1. CASE CreateCustomer(p) \/ SaveCustomer(p) \/ OpenSession(p) \/ StripeRefuses(p) \/ EventFails(p)
    BY <2>1, CallsFine
  <2>2. CASE CreateSubscription(p) \/ SaveCreate(p)
    BY <2>2 DEF CreateSubscription, SaveCreate, HasCustomer, At, FineInv, JobFine
  <2>3. CASE ModifyPlan(p) \/ ModifyCancel(p)
    BY <2>3, ModifyFine
  <2>4. CASE SaveUpdate(p) \/ SaveCancel(p)
    BY <2>4, SavedRequestFine
  <2>5. CASE SaveComplete(p) \/ SaveCompleted(p) \/ SavePaid(p) \/ SavePaymentFailed(p)
             \/ SaveUpdated(p) \/ SaveDeleted(p)
    BY <2>5, SavedEventFine
  <2>. QED BY <1>8, <2>1, <2>2, <2>3, <2>4, <2>5 DEF Step
<1>. QED BY <1>1, <1>2, <1>3, <1>4, <1>5, <1>6, <1>7, <1>8 DEF Next

(* No order of requests, payments, renewals, faults and late or reordered  *)
(* events puts the workspace on a plan that was never billed for, unless   *)
(* POST /subscription is used, whose row says the plan before it is paid.  *)
(* That the subscription billed for it still goes on is not claimed.       *)
THEOREM PlansArePriced ==
  ASSUME "create" \notin Hazards
  PROVE  Spec => []GrantedPlanWasPriced
<1>1. TypeInv /\ FineInv /\ [Next]_vars => TypeInv' /\ FineInv'
  BY TypeStep, FineStep
<1>2. FineInv => GrantedPlanWasPriced
  BY DEF FineInv, Known, GrantedPlanWasPriced
<1>. QED BY TypeInit, FineInit, <1>1, <1>2, PTL DEF Spec

(* A row never mixes the subscription of one session with the item of      *)
(* another, although two commits can interleave column by column, unless   *)
(* POST /subscription is used, which replaces the item only.               *)
THEOREM ItemsBelong ==
  ASSUME "create" \notin Hazards
  PROVE  Spec => []ItemBelongs
<1>1. TypeInv /\ FineInv /\ [Next]_vars => TypeInv' /\ FineInv'
  BY TypeStep, FineStep
<1>2. FineInv => ItemBelongs
  BY DEF FineInv, RowFine, ItemBelongs
<1>. QED BY TypeInit, FineInit, <1>1, <1>2, PTL DEF Spec
=============================================================================
