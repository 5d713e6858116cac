------------------------- MODULE BillingSerialProofs -------------------------
(***************************************************************************)
(* Theorems about Billing when requests and events are taken one after the *)
(* other, for any plans, prices, sessions, periods and numbers of requests:*)
(* what nine handlers write, column by column, adds up to what Stripe has. *)
(* The invariant says of each column which event still due will put it     *)
(* right.                                                                  *)
(***************************************************************************)
EXTENDS BillingProofs

(* One worker, a Stripe that answers nothing unexpected, and a success page*)
(* that is opened once: requests and events are taken one after the other. *)
Serial == Hazards = {} /\ MaxReplays = 0 /\ \A p, q \in Procs : p = q

(* Stripe has the new plan of s, the row does not.                         *)
Changing(s) ==
  \E p \in Procs : job[p].op = "update" /\ job[p].pc = "called" /\ job[p].old.sid = s

Growing(s) == stripe[s].status = "active" /\ ~ stripe[s].cancel

(* Without declined payments and POST /subscription a subscription is open,*)
(* then active, then canceled.                                             *)
StripeRight(s) ==
  /\ stripe[s].status \in {"none", "open", "active", "canceled"}
  /\ IF stripe[s].status \in {"none", "open"}
     THEN ~ stripe[s].cancel /\ scheduled[s] = 0
     ELSE stripe[s].period >= 1
  /\ stripe[s].status # "none" => stripe[s].meta # NoPlan
  /\ scheduled[s] <= stripe[s].period

Payment == {"paid", "completed", "return"}

(* An event tells what Stripe has now, and "completed" comes before "paid".*)
EventRight(e) ==
  /\ e.type # "payment_failed"
  /\ e.period = stripe[e.sub].period /\ e.cancel = stripe[e.sub].cancel
  /\ IF e.type = "deleted" THEN stripe[e.sub].status = "canceled"
     ELSE stripe[e.sub].status = "active" /\ e.active
  /\ e.type \in Payment => Growing(e.sub) /\ scheduled[e.sub] < stripe[e.sub].period
  /\ e.type \in {"completed", "return"} => stripe[e.sub].plan = stripe[e.sub].meta
  /\ e.type = "completed" => Due(e.sub, "paid")

(* What is wrong in a row is put right by an event that is still due, or by*)
(* the update that is under way.                                           *)
RowRight(row) ==
  LET s == stripe[row.sid]
      To(type) == Due(row.sid, type) IN
  /\ s.status \in {"active", "canceled"}
  /\ s.status = "active" =>
       /\ row.status = "ACTIVE" \/ To("paid")
       /\ row.period = s.period \/ To("paid") \/ To("updated")
       /\ row.cancel = s.cancel \/ To("updated")
       /\ row.ptype = "NONE" => row.plan = s.plan \/ Changing(row.sid)
       /\ row.ptype = "DOWNGRADE" => row.pplan = s.plan \/ Changing(row.sid)
  /\ s.status = "canceled" => (row.status = "CANCELED" /\ row.plan = Free) \/ To("deleted")
  /\ row.ptype = "DOWNGRADE" => row.pplan \in Paid /\ Price[row.pplan] <= Price[row.plan]
  /\ row.ptype = "CANCEL_TO_FREE" => s.cancel
  /\ row.period = 0 => To("paid")
  /\ workspace.plan = row.plan \/ To("paid")

(* A request that Stripe has carried out.                                  *)
Called(j) ==
  /\ stripe[j.old.sid].status = "active"
  /\ Waiting(j.old.sid, "updated")
  /\ \A i \in DOMAIN events : events[i].type = "updated"
  /\ j.op = "update" => stripe[j.old.sid].plan = j.plan
  /\ j.op = "cancel" => stripe[j.old.sid].cancel

Handling(j) ==
  /\ j.pc = "loaded" /\ EventRight(j.ev) /\ j.ev.sub = j.sub
  /\ j.op = "complete" <=> j.ev.type = "return"
  /\ IF j.ev.type \in {"completed", "return"} THEN j.row = 0 => subscription = << >>
     ELSE IF j.row = 0 THEN \A r \in DOMAIN subscription : subscription[r].sid # j.sub
     ELSE j.old.sid = j.sub
  /\ j.ev.type = "paid" => ~ Waiting(j.sub, "completed")

(* What the worker has read is still so.                                   *)
JobRight(j) ==
  /\ j.pc = "idle" => j.op = "none"
  /\ j.op # "create"
  /\ j.op # "none" => j.ws.plan = workspace.plan
  /\ j.row # 0 => j.old = subscription[j.row]
  /\ j.op \in {"checkout", "update", "cancel"} =>
       IF j.pc = "called" THEN Called(j) ELSE events = << >>
  /\ j.op \in {"complete", "webhook"} => Handling(j)

(* One subscription at most goes on beyond its period, and the row is of   *)
(* that one, or will be.                                                   *)
Linked ==
  \A s \in Subs : Growing(s) =>
    /\ (\E r \in DOMAIN subscription : subscription[r].sid = s) \/ Due(s, "completed")
    /\ \A u \in Subs : Growing(u) => u = s

InOrder ==
  \A i, k \in DOMAIN events : events[i].type = "paid" /\ events[k].type = "completed" => k < i

(* No cancellation was committed and then answered 500.                    *)
CancelsTold == "subscription" \notin misreported

(* A customer that was made is committed by the request that made it, which*)
(* then has it, as every request that has just loaded the workspace.       *)
CustomerRight(j) ==
  /\ IF j.pc = "customer" THEN workspace.customer = 0 /\ customers = 1 /\ j.ws.customer = 1
     ELSE workspace.customer = customers
  /\ j.op = "checkout" /\ j.pc = "loaded" => j.ws.customer = workspace.customer

CustomerInv ==
  /\ customers <= 1
  /\ Procs = {} => workspace.customer = customers
  /\ \A p \in Procs : CustomerRight(job[p])

SerialInv ==
  /\ \A s \in Subs : StripeRight(s)
  /\ \A i \in DOMAIN events : EventRight(events[i])
  /\ InOrder
  /\ Linked
  /\ OneRow
  /\ \A r \in DOMAIN subscription : RowRight(subscription[r])
  /\ \A p \in Procs : JobRight(job[p])

-----------------------------------------------------------------------------
(* The queue.                                                              *)

(* In order, the first event is the one that is taken.                     *)
LEMMA FirstTaken ==
  ASSUME TypeInv, Serial, NEW i \in Deliverable, events' = Without(i)
  PROVE  /\ i = 1 /\ 1 \in DOMAIN events
         /\ \A k \in DOMAIN events' : k + 1 \in DOMAIN events /\ events'[k] = events[k + 1]
         /\ \A k \in DOMAIN events :
              k = 1 \/ (k - 1 \in DOMAIN events' /\ events'[k - 1] = events[k])
<1> DEFINE a == SubSeq(events, 1, 0)
           b == SubSeq(events, 2, Len(events))
<1>1. i = 1 /\ events \in Seq(Event) /\ i \in DOMAIN events /\ DOMAIN events = 1 .. Len(events)
      /\ Len(events) \in Nat
  BY DEF Deliverable, Serial, TypeInv, TypeOK
<1>2. /\ b \in Seq(Event) /\ Len(b) = Len(events) - 1
      /\ \A k \in 1 .. Len(events) - 1 : b[k] = events[k + 1]
  <2>1. \A k \in 2 .. Len(events) : events[k] \in Event
    BY <1>1
  <2>2. /\ SubSeq(events, 2, Len(events)) \in Seq(Event)
        /\ Len(SubSeq(events, 2, Len(events))) =
             IF 2 <= Len(events) THEN Len(events) - 2 + 1 ELSE 0
        /\ \A k \in 1 .. Len(events) - 2 + 1 :
             SubSeq(events, 2, Len(events))[k] = events[2 + k - 1]
    BY <1>1, <2>1, SubSeqProperties
  <2>. QED BY <1>1, <2>2
<1>3. a \in Seq(Event) /\ Len(a) = 0
  BY <1>1, SubSeqProperties
<1>4. events' = a \o b
  BY <1>1 DEF Without
<1>5. /\ Len(events') = Len(events) - 1 /\ events' \in Seq(Event)
      /\ \A k \in 1 .. Len(events) - 1 : events'[k] = b[k]
  <2>. HIDE DEF a, b
  <2>1. /\ a \o b \in Seq(Event) /\ Len(a \o b) = Len(a) + Len(b)
        /\ \A k \in 1 .. Len(a) + Len(b) : (a \o b)[k] = IF k <= Len(a) THEN a[k] ELSE b[k - Len(a)]
    BY <1>2, <1>3, ConcatProperties
  <2>2. Len(a) + Len(b) = Len(events) - 1
    BY <1>1, <1>2, <1>3
  <2>3. \A k \in 1 .. Len(events) - 1 : ~ (k <= Len(a)) /\ k - Len(a) = k
    BY <1>1, <1>3
  <2>. QED BY <1>4, <2>1, <2>2, <2>3
<1>6. DOMAIN events' = 1 .. Len(events) - 1
  BY <1>1, <1>5
<1>. HIDE DEF a, b
<1>. QED BY <1>1, <1>2, <1>5, <1>6

(* What is taken, and what is left, are events that waited.                *)
LEMMA TakenQueue ==
  ASSUME TypeInv, NEW i \in Deliverable, events' = Without(i)
  PROVE  /\ events \in Seq(Event) /\ events' \in Seq(Event) /\ events[i] \in Event
         /\ \A k \in DOMAIN events' : \E l \in DOMAIN events : events'[k] = events[l]
<1>1. i \in DOMAIN events /\ events \in Seq(Event)
  BY DEF Deliverable, TypeInv, TypeOK
<1>. QED BY <1>1, RemainingEvents

(* What waited is taken or waits.                                          *)
LEMMA WaitingTaken ==
  ASSUME TypeInv, Serial, NEW i \in Deliverable, events' = Without(i)
  PROVE  \A s, t : Waiting(s, t) <=> Waiting(s, t)' \/ (events[1].sub = s /\ events[1].type = t)
  BY FirstTaken DEF Waiting

(* What a step of Stripe adds to an empty queue.                           *)
LEMMA EmittedAlone ==
  ASSUME events = << >>, NEW s, NEW types \in Seq(EventType), Emit(s, types)
  PROVE  /\ DOMAIN events' = DOMAIN types
         /\ \A i \in DOMAIN types : events'[i] = About(s, types[i])
         /\ \A u, t : Waiting(u, t)' <=> u = s /\ \E i \in DOMAIN types : types[i] = t
<1> DEFINE new == [i \in DOMAIN types |-> About(s, types[i])]
<1>1. events' = << >> \o new
  BY DEF Emit
<1>2. Len(types) \in Nat /\ DOMAIN types = 1 .. Len(types)
  OBVIOUS
<1>3. new \in Seq({About(s, types[i]) : i \in DOMAIN types})
  BY <1>2
<1>4. events' = new
  <2>. HIDE DEF new
  <2>. QED BY <1>1, <1>3
<1>5. DOMAIN events' = DOMAIN types /\ \A i \in DOMAIN types : events'[i] = About(s, types[i])
  BY <1>4
<1>6. \A i \in DOMAIN types : About(s, types[i]).sub = s /\ About(s, types[i]).type = types[i]
  BY DEF About
<1>. QED BY <1>5, <1>6 DEF Waiting

-----------------------------------------------------------------------------
(* The one worker.                                                         *)

(* What the one worker has in hand, and what it is changing.               *)
LEMMA OneWorker ==
  ASSUME TypeInv, Serial, NEW p \in Procs
  PROVE  /\ \A q \in Procs : q = p
         /\ job[p] \in Job
         /\ \A s, t : InHand(s, t) <=> /\ job[p].op \in {"complete", "webhook"}
                                       /\ job[p].sub = s /\ job[p].ev.type = t
         /\ \A s : Changing(s) <=> /\ job[p].op = "update" /\ job[p].pc = "called"
                                   /\ job[p].old.sid = s
  BY DEF Serial, TypeInv, TypeOK, InHand, Changing

(* The same after a step of the worker.                                    *)
LEMMA OneWorkerNext ==
  ASSUME TypeInv, Serial, NEW p \in Procs, NEW new \in Job, job' = [job EXCEPT ![p] = new]
  PROVE  /\ \A q \in Procs : job'[q] = new
         /\ \A s : Changing(s)' <=> new.op = "update" /\ new.pc = "called" /\ new.old.sid = s
<1>1. \A q \in Procs : q = p /\ job'[q] = new
  BY DEF Serial, TypeInv, TypeOK
<1>. QED BY <1>1 DEF InHand, Changing

(* What it has in hand after a step.                                       *)
LEMMA InHandNext ==
  ASSUME TypeInv, Serial, NEW p \in Procs, NEW new \in Job, job' = [job EXCEPT ![p] = new],
         NEW s, NEW t
  PROVE  InHand(s, t)' <=> new.op \in {"complete", "webhook"} /\ new.sub = s /\ new.ev.type = t
<1>1. \A q \in Procs : q = p /\ job'[q] = new
  BY DEF Serial, TypeInv, TypeOK
<1>. QED BY <1>1 DEF InHand

(* It is enough to look at the job of that worker.                         *)
LEMMA JobsRight ==
  ASSUME TypeInv, Serial, NEW p \in Procs, NEW new \in Job, job' = [job EXCEPT ![p] = new],
         JobRight(new)'
  PROVE  \A q \in Procs : JobRight(job[q])'
<1>1. ASSUME NEW q \in Procs PROVE JobRight(job[q])'
  <2>1. job'[q] = new
    BY OneWorkerNext
  <2>. QED BY <2>1
<1>. QED BY <1>1

(* With nothing in the queue and no event in hand nothing is due.          *)
LEMMA NothingDue ==
  ASSUME events = << >>, \A p \in Procs : job[p].op \notin {"complete", "webhook"}
  PROVE  \A s, t : ~ Due(s, t)
  BY DEF Due, Waiting, InHand

(* Nothing is due, or under way, when the system is calm.                  *)
LEMMA CalmIsIdle ==
  ASSUME SerialInv, Calm
  PROVE  /\ events = << >> /\ \A p \in Procs : job[p].op = "none"
         /\ \A s, t : ~ Due(s, t)
         /\ \A s : ~ Changing(s)
<1>1. events = << >> /\ \A p \in Procs : job[p].op = "none"
  BY DEF Calm, SerialInv, JobRight
<1>. QED BY <1>1, NothingDue DEF Changing

(* When nothing is due a row agrees with Stripe.                           *)
LEMMA SettledRow ==
  ASSUME SerialInv, NEW r \in DOMAIN subscription,
         \A s, t : ~ Due(s, t), \A s : ~ Changing(s)
  PROVE  LET row == subscription[r]
             s == stripe[row.sid] IN
         /\ s.status \in {"active", "canceled"}
         /\ s.status = "active" =>
              /\ row.status = "ACTIVE" /\ row.period = s.period /\ row.cancel = s.cancel
              /\ row.ptype = "NONE" => row.plan = s.plan
              /\ row.ptype = "DOWNGRADE" => row.pplan = s.plan
         /\ s.status = "canceled" => row.status = "CANCELED" /\ row.plan = Free
         /\ row.ptype = "CANCEL_TO_FREE" => s.cancel
         /\ row.period # 0 /\ workspace.plan = row.plan
  BY DEF SerialInv, RowRight

-----------------------------------------------------------------------------
(* What is right stays right while Stripe and the row stay, and what will  *)
(* correct it is still due.                                                *)

(* An event goes on telling what Stripe has.                               *)
LEMMA EventStays ==
  ASSUME NEW e, EventRight(e), stripe'[e.sub] = stripe[e.sub],
         scheduled'[e.sub] = scheduled[e.sub], e.type = "completed" => Due(e.sub, "paid")'
  PROVE  EventRight(e)'
  BY DEF EventRight, Growing

(* A row goes on being right, or going to be put right.                    *)
LEMMA RowStays ==
  ASSUME NEW row, RowRight(row), stripe'[row.sid] = stripe[row.sid],
         workspace'.plan = workspace.plan,
         \A t \in {"paid", "updated", "deleted"} : Due(row.sid, t) => Due(row.sid, t)',
         Changing(row.sid) => Changing(row.sid)'
  PROVE  RowRight(row)'
<1>1. /\ Due(row.sid, "paid") => Due(row.sid, "paid")'
      /\ Due(row.sid, "updated") => Due(row.sid, "updated")'
      /\ Due(row.sid, "deleted") => Due(row.sid, "deleted")'
  OBVIOUS
<1>. HIDE DEF Due
<1>. QED BY <1>1 DEF RowRight

(* A step that writes neither rows nor Stripe.                             *)
LEMMA QuietSerial ==
  ASSUME TypeInv, SerialInv, UNCHANGED <<subscription, stripe, scheduled>>,
         workspace'.plan = workspace.plan,
         \A s : \A t \in {"paid", "completed"} : Due(s, t) => Due(s, t)',
         \A r \in DOMAIN subscription : \A s : s = subscription[r].sid =>
           \A t \in {"updated", "deleted"} : Due(s, t) => Due(s, t)',
         \A s : Changing(s) => Changing(s)',
         \A i \in DOMAIN events' : \E k \in DOMAIN events : events'[i] = events[k],
         InOrder', \A p \in Procs : JobRight(job[p])'
  PROVE  SerialInv'
<1>1. \A s \in Subs : StripeRight(s)'
  BY DEF SerialInv, StripeRight
<1>2. ASSUME NEW i \in DOMAIN events' PROVE EventRight(events[i])'
  <2>1. PICK e : e = events'[i] /\ \E k \in DOMAIN events : e = events[k]
    OBVIOUS
  <2>2. EventRight(e)
    BY <2>1 DEF SerialInv
  <2>3. e.type = "completed" => Due(e.sub, "paid")'
    BY <2>2 DEF EventRight
  <2>4. EventRight(e)'
    BY <2>2, <2>3, EventStays
  <2>. QED BY <2>1, <2>4
<1>3. Linked'
  <2>1. \A s : Due(s, "completed") => Due(s, "completed")'
    OBVIOUS
  <2>. HIDE DEF Due
  <2>. QED BY <2>1 DEF SerialInv, Linked, Growing
<1>4. OneRow'
  BY DEF SerialInv, OneRow
<1>5. ASSUME NEW r \in DOMAIN subscription' PROVE RowRight(subscription[r])'
  <2>1. PICK row : row = subscription[r] /\ row = subscription'[r] /\ r \in DOMAIN subscription
    OBVIOUS
  <2>2. RowRight(row)
    BY <2>1 DEF SerialInv
  <2>3. \A t \in {"paid", "updated", "deleted"} : Due(row.sid, t) => Due(row.sid, t)'
    BY <2>1
  <2>4. RowRight(row)'
    BY <2>2, <2>3, RowStays
  <2>. QED BY <2>1, <2>4
<1>. QED BY <1>1, <1>2, <1>3, <1>4, <1>5 DEF SerialInv

(* A request of the admin begins.                                          *)
LEMMA LoadSerial ==
  ASSUME TypeInv, SerialInv, Serial, NEW p \in Procs,
         NEW op \in {"checkout", "update", "cancel"},
         NEW plan \in Plans \cup {NoPlan}, NEW r \in AnyRow, Load(p, op, plan, r)
  PROVE  SerialInv'
<1> DEFINE new == [Idle EXCEPT !.pc = "loaded", !.op = op, !.plan = plan,
                               !.row = r, !.old = Loaded(r), !.ws = workspace]
<1>1. /\ r \in Nat /\ Loaded(r) \in Row \cup {NoRow} /\ workspace \in Workspace
  BY AnyRowIs DEF TypeInv, TypeOK
<1>2. PICK n \in Job : n = new
  BY <1>1 DEF Idle, Job, Op
<1>3. job' = [job EXCEPT ![p] = n] /\ events' = events /\ Calm
      /\ UNCHANGED <<subscription, stripe, scheduled, workspace>>
  BY <1>2 DEF Load, stripeVars, dbVars, MayStart, Serial
<1>4. n.op = op /\ n.pc = "loaded" /\ n.row = r /\ n.old = Loaded(r) /\ n.ws = workspace
  BY <1>2 DEF Idle
<1>. HIDE DEF new
<1>5. events = << >> /\ (\A s, t : ~ Due(s, t)) /\ \A s : ~ Changing(s)
  BY <1>3, CalmIsIdle
<1>6. JobRight(n)'
  BY <1>3, <1>4, <1>5 DEF JobRight, Loaded
<1>7. \A q \in Procs : JobRight(job[q])'
  BY <1>3, <1>6, JobsRight
<1>8. InOrder'
  BY <1>3, <1>5 DEF InOrder
<1>. QED BY <1>3, <1>5, <1>7, <1>8, QuietSerial

(* The guards of the requests; nobody opens the page again.                *)
LEMMA RequestSerial ==
  ASSUME TypeInv, SerialInv, Serial, NEW p \in Procs, Request(p)
  PROVE  SerialInv'
<1>1. CASE LoadCheckout(p)
  <2>1. PICK r \in AnyRow, plan \in Plans : Load(p, "checkout", plan, r)
    BY <1>1 DEF LoadCheckout
  <2>. QED BY <2>1, LoadSerial
<1>2. CASE LoadUpdate(p)
  <2>1. PICK r \in AnyRow, plan \in Plans : Load(p, "update", plan, r)
    BY <1>2 DEF LoadUpdate
  <2>. QED BY <2>1, LoadSerial
<1>3. CASE LoadCancel(p)
  <2>1. PICK r \in AnyRow : Load(p, "cancel", NoPlan, r)
    BY <1>3 DEF LoadCancel
  <2>. QED BY <2>1, LoadSerial
<1>4. ~ LoadCreate(p) /\ ~ Replay(p)
  <2>1. replays \in Nat /\ ~ (replays < 0)
    BY BoundsAssumption DEF TypeInv, TypeOK
  <2>. QED BY <2>1 DEF LoadCreate, Replay, Serial
<1>. QED BY <1>1, <1>2, <1>3, <1>4 DEF Request

(* The customer is made and saved.                                         *)
LEMMA CustomerSerial ==
  ASSUME TypeInv, SerialInv, Serial, NEW p \in Procs, CreateCustomer(p) \/ SaveCustomer(p)
  PROVE  SerialInv'
<1>j. PICK j \in Job : j = job[p] /\ JobOK(j) /\ JobRight(j)
  BY JobFacts DEF SerialInv
<1>1. /\ j.op = "checkout" /\ j.pc \in {"loaded", "customer"} /\ j.ws \in Workspace
      /\ customers \in Nat /\ workspace \in Workspace
  BY <1>j DEF CreateCustomer, SaveCustomer, At, JobRight, JobOK, TypeInv, TypeOK
<1>2. PICK n \in Job : /\ job' = [job EXCEPT ![p] = n]
                       /\ n.op = "checkout" /\ n.pc \in {"saved", "customer"} /\ n.row = j.row
                       /\ n.old = j.old /\ n.ws.plan = j.ws.plan
  <2>1. CASE CreateCustomer(p)
    <3> DEFINE n == [j EXCEPT !.pc = "customer", !.ws.customer = customers + 1]
    <3>1. job' = [job EXCEPT ![p] = n]
      BY <1>j, <2>1 DEF CreateCustomer
    <3>2. [j.ws EXCEPT !.customer = customers + 1] \in Workspace
      BY <1>1 DEF Workspace
    <3>3. n \in Job /\ n.op = "checkout" /\ n.pc = "customer" /\ n.row = j.row /\ n.old = j.old
          /\ n.ws.plan = j.ws.plan
      BY <1>1, <3>2 DEF Job, Workspace
    <3>. QED BY <3>1, <3>3
  <2>2. CASE SaveCustomer(p)
    <3> DEFINE n == [j EXCEPT !.pc = "saved"]
    <3>1. job' = [job EXCEPT ![p] = n]
      BY <1>j, <2>2 DEF SaveCustomer
    <3>3. n \in Job /\ n.op = "checkout" /\ n.pc = "saved" /\ n.row = j.row /\ n.old = j.old
          /\ n.ws.plan = j.ws.plan
      BY <1>1 DEF Job
    <3>. QED BY <3>1, <3>3
  <2>. QED BY <2>1, <2>2
<1>3. /\ UNCHANGED <<subscription, stripe, scheduled, events>>
      /\ workspace'.plan = workspace.plan
  BY <1>1 DEF CreateCustomer, SaveCustomer, dbVars, stripeVars, ghostVars, Workspace
<1>4. events = << >>
  BY <1>j, <1>1 DEF JobRight
<1>5. (\A s, t : ~ Due(s, t)) /\ \A s : ~ Changing(s)
  BY <1>j, <1>1, <1>4, OneWorker DEF Due, Waiting
<1>6. JobRight(n)'
  BY <1>j, <1>1, <1>2, <1>3, <1>4 DEF JobRight
<1>7. \A q \in Procs : JobRight(job[q])'
  BY <1>2, <1>6, JobsRight
<1>8. InOrder'
  BY <1>3, <1>4 DEF InOrder
<1>. QED BY <1>3, <1>4, <1>5, <1>7, <1>8, QuietSerial

-----------------------------------------------------------------------------
(* An event is taken: it was waiting and is in hand now.                   *)

(* What was due still is.                                                  *)
LEMMA DueTaken ==
  ASSUME TypeInv, SerialInv, Serial, NEW i \in Deliverable, events' = Without(i),
         NEW p \in Procs, job[p].pc = "idle", NEW n \in Job, job' = [job EXCEPT ![p] = n],
         n.op \in {"complete", "webhook"}, n.sub = events[i].sub, n.ev.type = events[i].type
  PROVE  /\ i = 1 /\ 1 \in DOMAIN events
         /\ \A s, t : Due(s, t) <=> Due(s, t)'
         /\ \A s : ~ Changing(s)
<1>1. i = 1 /\ 1 \in DOMAIN events
  BY FirstTaken
<1>2. job[p].op = "none"
  BY DEF SerialInv, JobRight
<1>3. \A s, t : ~ InHand(s, t)
  BY <1>2, OneWorker
<1>4. \A s, t : InHand(s, t)' <=> n.sub = s /\ n.ev.type = t
  BY InHandNext
<1>5. \A s, t : Waiting(s, t) <=> Waiting(s, t)' \/ (events[1].sub = s /\ events[1].type = t)
  BY WaitingTaken
<1>6. \A s : ~ Changing(s)
  BY <1>2, OneWorker
<1>. QED BY <1>1, <1>3, <1>4, <1>5, <1>6 DEF Due

(* The events that are left keep their order.                              *)
LEMMA OrderTaken ==
  ASSUME TypeInv, SerialInv, Serial, NEW i \in Deliverable, events' = Without(i)
  PROVE  /\ InOrder'
         /\ events[1].type = "paid" => \A s : ~ Waiting(s, "completed")'
<1>1. /\ i = 1 /\ 1 \in DOMAIN events /\ DOMAIN events \subseteq Nat /\ DOMAIN events' \subseteq Nat
      /\ \A k \in DOMAIN events : k >= 1
      /\ \A k \in DOMAIN events' : k + 1 \in DOMAIN events /\ events'[k] = events[k + 1]
  <2>1. events \in Seq(Event) /\ events' \in Seq(Event)
    BY TakenQueue
  <2>. QED BY <2>1, FirstTaken
<1>2. \A k, l \in DOMAIN events : events[k].type = "paid" /\ events[l].type = "completed" => l < k
  BY DEF SerialInv, InOrder
<1>3. ASSUME NEW k \in DOMAIN events', NEW l \in DOMAIN events',
             events'[k].type = "paid", events'[l].type = "completed"
      PROVE  l < k
  <2>1. l + 1 < k + 1
    BY <1>1, <1>2, <1>3
  <2>. QED BY <1>1, <2>1
<1>4. ASSUME events[1].type = "paid", NEW k \in DOMAIN events', events'[k].type = "completed"
      PROVE  FALSE
  <2>1. k + 1 < 1 /\ k + 1 >= 1
    BY <1>1, <1>2, <1>4
  <2>. QED BY <1>1, <2>1
<1>. QED BY <1>3, <1>4 DEF InOrder, Waiting

(* Taking an event keeps the invariant if the handler has read what is so. *)
LEMMA TakenSerial ==
  ASSUME TypeInv, SerialInv, Serial, NEW i \in Deliverable, events' = Without(i),
         NEW p \in Procs, job[p].pc = "idle", NEW n \in Job, job' = [job EXCEPT ![p] = n],
         n.op \in {"complete", "webhook"}, n.sub = events[i].sub, n.ev.type = events[i].type,
         UNCHANGED <<subscription, workspace, stripe, scheduled>>,
         n.pc # "idle", n.ws = workspace, n.row # 0 => n.old = subscription[n.row], Handling(n)'
  PROVE  SerialInv'
<1>1. i = 1 /\ (\A s, t : Due(s, t) <=> Due(s, t)') /\ \A s : ~ Changing(s)
  BY DueTaken
<1>2. \A k \in DOMAIN events' : \E l \in DOMAIN events : events'[k] = events[l]
  BY TakenQueue
<1>3. JobRight(n)'
  BY DEF JobRight
<1>4. \A q \in Procs : JobRight(job[q])'
  BY <1>3, JobsRight
<1>5. InOrder'
  BY OrderTaken
<1>. QED BY <1>1, <1>2, <1>4, <1>5, QuietSerial

(* What the queries of a handler say.                                      *)
LEMMA Found ==
  ASSUME subscription \in Seq(Row), NEW r
  PROVE  /\ r \in AnyRow /\ r = 0 => subscription = << >>
         /\ \A s : r \in RowOf(s) =>
              IF r = 0 THEN \A q \in DOMAIN subscription : subscription[q].sid # s
              ELSE r \in DOMAIN subscription /\ subscription[r].sid = s
<1>1. 0 \notin DOMAIN subscription
  OBVIOUS
<1>2. r \in AnyRow /\ r = 0 => subscription = << >>
  <2>1. r \in AnyRow /\ r = 0 => DOMAIN subscription = {}
    BY <1>1 DEF AnyRow, First
  <2>. QED BY <2>1
<1>. QED BY <1>1, <1>2 DEF RowOf, First

(* A worker takes an event.                                                *)
LEMMA ClaimSerial ==
  ASSUME TypeInv, SerialInv, Serial, NEW p \in Procs, Claim(p)
  PROVE  SerialInv'
<1>1. PICK i \in Deliverable :
        LET e == events[i] IN
        /\ e.type # "return" /\ job[p].pc = "idle"
        /\ events' = Without(i)
        /\ \E r \in IF e.type = "completed" THEN AnyRow ELSE RowOf(e.sub) :
             job' = [job EXCEPT ![p] = [Idle EXCEPT !.pc = "loaded", !.op = "webhook", !.sub = e.sub,
                                        !.ev = e, !.row = r, !.old = Loaded(r), !.ws = workspace]]
        /\ UNCHANGED <<dbVars, stripe, customers, priced, ghostVars>>
  BY DEF Claim
<1>2. subscription \in Seq(Row) /\ workspace \in Workspace /\ i = 1 /\ 1 \in DOMAIN events
  BY <1>1, FirstTaken DEF TypeInv, TypeOK
<1>3. PICK e \in Event : e = events[i] /\ EventRight(e) /\ e.sub \in Subs
  BY <1>1, TakenQueue DEF SerialInv, Deliverable, Event
<1>4. PICK r \in IF e.type = "completed" THEN AnyRow ELSE RowOf(e.sub) :
        job' = [job EXCEPT ![p] = [Idle EXCEPT !.pc = "loaded", !.op = "webhook", !.sub = e.sub,
                                   !.ev = e, !.row = r, !.old = Loaded(r), !.ws = workspace]]
  BY <1>1, <1>3
<1> DEFINE new == [Idle EXCEPT !.pc = "loaded", !.op = "webhook", !.sub = e.sub, !.ev = e,
                               !.row = r, !.old = Loaded(r), !.ws = workspace]
<1>5. r \in Nat /\ Loaded(r) \in Row \cup {NoRow}
  BY <1>2, <1>3, AnyRowIs
<1>6. PICK n \in Job : n = new
  BY <1>2, <1>3, <1>5 DEF Idle, Job, Op
<1>7. /\ n.pc = "loaded" /\ n.op = "webhook" /\ n.sub = e.sub /\ n.ev = e /\ n.row = r
      /\ n.old = Loaded(r) /\ n.ws = workspace
  BY <1>6 DEF Idle
<1>8. job' = [job EXCEPT ![p] = n] /\ UNCHANGED <<subscription, workspace, stripe, scheduled>>
  BY <1>1, <1>4, <1>6 DEF dbVars, ghostVars
<1>. HIDE DEF new
<1>9. \A s, t : Due(s, t) <=> Due(s, t)'
  BY <1>1, <1>3, <1>7, <1>8, DueTaken
<1>10. EventRight(e)'
  <2>1. e.type = "completed" => Due(e.sub, "paid")'
    BY <1>3, <1>9 DEF EventRight
  <2>. QED BY <1>3, <1>8, <2>1, EventStays
<1>11. e.type = "paid" => ~ Waiting(e.sub, "completed")'
  BY <1>1, <1>2, <1>3, OrderTaken
<1>12. n.row # 0 => n.old = subscription[n.row]
  BY <1>7 DEF Loaded
<1>13. Handling(n)'
  <2>1. IF e.type = "completed" THEN r = 0 => subscription = << >>
        ELSE IF r = 0 THEN \A q \in DOMAIN subscription : subscription[q].sid # e.sub
        ELSE subscription[r].sid = e.sub
    BY <1>2, <1>4, Found
  <2>2. e.type # "return" /\ e.type \in EventType
    BY <1>1, <1>3 DEF Event
  <2>. QED BY <1>7, <1>8, <1>10, <1>11, <1>12, <2>1, <2>2 DEF Handling
<1>. QED BY <1>1, <1>3, <1>7, <1>8, <1>12, <1>13, TakenSerial

(* The browser returns to the success page.                                *)
LEMMA ReturnSerial ==
  ASSUME TypeInv, SerialInv, Serial, NEW p \in Procs, Return(p)
  PROVE  SerialInv'
<1>1. PICK i \in Deliverable :
        /\ events[i].type = "return"
        /\ events' = Without(i)
        /\ LoadComplete(p, events[i].sub)
        /\ UNCHANGED replays
  BY DEF Return
<1>2. subscription \in Seq(Row) /\ workspace \in Workspace /\ stripe \in [Subs -> StripeSub]
  BY DEF TypeInv, TypeOK
<1>3. PICK s \in Subs : s = events[i].sub
  BY <1>1, TakenQueue DEF Event
<1>4. PICK e \in Event : e = events[i] /\ EventRight(e)
  BY <1>1, TakenQueue DEF SerialInv, Deliverable
<1> DEFINE ev == [type |-> "return", sub |-> s, active |-> TRUE,
                  period |-> stripe[s].period, cancel |-> FALSE]
<1>5. PICK r \in AnyRow :
        job' = [job EXCEPT ![p] = [Idle EXCEPT !.pc = "loaded", !.op = "complete", !.sub = s,
                  !.ev = ev, !.row = r, !.old = Loaded(r), !.ws = workspace]]
  BY <1>1, <1>3 DEF LoadComplete
<1> DEFINE new == [Idle EXCEPT !.pc = "loaded", !.op = "complete", !.sub = s, !.ev = ev,
                               !.row = r, !.old = Loaded(r), !.ws = workspace]
<1>6. r \in Nat /\ Loaded(r) \in Row \cup {NoRow} /\ ev \in Event
  BY <1>2, AnyRowIs DEF Event, EventType, StripeSub
<1>7. PICK n \in Job : n = new
  <2>. HIDE DEF ev
  <2>. QED BY <1>2, <1>6 DEF Idle, Job, Op
<1>8. /\ n.pc = "loaded" /\ n.op = "complete" /\ n.sub = s /\ n.ev = ev /\ n.row = r
      /\ n.old = Loaded(r) /\ n.ws = workspace
  BY <1>7 DEF Idle
<1>9. /\ job' = [job EXCEPT ![p] = n] /\ job[p].pc = "idle"
      /\ UNCHANGED <<subscription, workspace, stripe, scheduled>>
  BY <1>1, <1>5, <1>7 DEF LoadComplete, dbVars
<1>. HIDE DEF new
<1>10. PICK v \in Event : v = ev /\ EventRight(v)'
  <2>1. ev.type = "return" /\ ev.sub = s /\ ev.active /\ ev.period = stripe[s].period /\ ~ ev.cancel
    OBVIOUS
  <2>2. e.type = "return" /\ e.sub = s /\ stripe[s].cancel \in BOOLEAN
    BY <1>1, <1>2, <1>3, <1>4 DEF StripeSub
  <2>. HIDE DEF ev
  <2>3. /\ Growing(s) /\ scheduled[s] < stripe[s].period /\ stripe[s].plan = stripe[s].meta
        /\ stripe[s].status = "active"
    BY <1>4, <2>2 DEF EventRight, Payment
  <2>4. ev.cancel = stripe[s].cancel
    BY <1>6, <2>1, <2>2, <2>3 DEF Growing, Event
  <2>5. PICK v \in Event : v = ev
    BY <1>6
  <2>6. EventRight(v)
    BY <2>1, <2>3, <2>4, <2>5 DEF EventRight
  <2>7. v.sub = s /\ v.type = "return" /\ stripe'[v.sub] = stripe[v.sub]
        /\ scheduled'[v.sub] = scheduled[v.sub]
    BY <1>9, <2>1, <2>5
  <2>8. EventRight(v)'
    BY <2>6, <2>7, EventStays
  <2>. QED BY <2>5, <2>8
<1>11. n.row # 0 => n.old = subscription[n.row]
  BY <1>8 DEF Loaded
<1>12. r = 0 => subscription = << >>
  BY <1>2, Found
<1>13. ev.type = "return" /\ ev.sub = s
  OBVIOUS
<1>. HIDE DEF ev
<1>14. Handling(n)'
  <2>1. n.ev = v /\ n.ev.type = "return" /\ n.ev.sub = n.sub /\ n.op = "complete"
        /\ EventRight(n.ev)'
    BY <1>8, <1>10, <1>13
  <2>2. n.pc = "loaded" /\ (n.row = 0 => subscription' = << >>)
    BY <1>8, <1>9, <1>12
  <2>. QED BY <2>1, <2>2 DEF Handling
<1>. QED BY <1>1, <1>3, <1>8, <1>9, <1>11, <1>13, <1>14, TakenSerial

(* The page is closed: nobody waits for a return.                          *)
LEMMA LeaveSerial ==
  ASSUME TypeInv, SerialInv, Serial, Leave
  PROVE  SerialInv'
<1>1. PICK i \in Deliverable :
        /\ events[i].type = "return" /\ events' = Without(i)
        /\ UNCHANGED <<dbVars, stripe, customers, priced, job, ghostVars>>
  BY DEF Leave
<1>2. UNCHANGED <<subscription, workspace, stripe, scheduled, job>> /\ i = 1
  BY <1>1, FirstTaken DEF dbVars, ghostVars
<1>3. \A s, t : t # "return" => (Waiting(s, t) <=> Waiting(s, t)')
  BY <1>1, <1>2, WaitingTaken
<1>4. /\ \A s, t : t # "return" => (Due(s, t) => Due(s, t)')
      /\ \A s : Changing(s) => Changing(s)'
  BY <1>2, <1>3 DEF Due, InHand, Changing
<1>5. \A k \in DOMAIN events' : \E l \in DOMAIN events : events'[k] = events[l]
  BY <1>1, TakenQueue
<1>6. ASSUME NEW q \in Procs PROVE JobRight(job[q])'
  <2>1. PICK j \in Job : j = job[q] /\ JobRight(j)
    BY JobFacts DEF SerialInv
  <2>2. events # << >> /\ 1 \in DOMAIN events
    BY <1>1, FirstTaken
  <2>3. ~ (j.op \in {"checkout", "update", "cancel"})
    BY <1>1, <1>2, <2>1, <2>2 DEF JobRight, Called
  <2>4. j.op \in {"complete", "webhook"} => Handling(j)'
    <3>. SUFFICES ASSUME j.op \in {"complete", "webhook"} PROVE Handling(j)'
      OBVIOUS
    <3>1. Handling(j)
      BY <2>1 DEF JobRight
    <3>2. j.ev.type = "completed" => Due(j.ev.sub, "paid")'
      BY <1>4, <3>1 DEF Handling, EventRight
    <3>3. EventRight(j.ev)'
      BY <1>2, <3>1, <3>2, EventStays DEF Handling
    <3>4. ~ Waiting(j.sub, "completed") => ~ Waiting(j.sub, "completed")'
      BY <1>3
    <3>. QED BY <1>2, <3>1, <3>3, <3>4 DEF Handling
  <2>5. JobRight(j)'
    BY <1>2, <2>1, <2>3, <2>4 DEF JobRight
  <2>. QED BY <1>2, <2>1, <2>5
<1>7. InOrder'
  BY <1>1, OrderTaken
<1>. QED BY <1>2, <1>4, <1>5, <1>6, <1>7, QuietSerial

(* An invoice finds its row: the session has been completed before it.     *)
LEMMA PaidFound ==
  ASSUME TypeInv, SerialInv, Serial, NEW p \in Procs, NEW j \in Job, j = job[p], JobOK(j),
         j.op = "webhook", Handling(j), j.ev.type = "paid"
  PROVE  j.row # 0
<1>1. Growing(j.sub) /\ ~ Waiting(j.sub, "completed") /\ j.sub \in Subs
  BY DEF Handling, EventRight, JobOK, Payment
<1>2. ~ Due(j.sub, "completed")
  BY <1>1, OneWorker DEF Due
<1>3. PICK r \in DOMAIN subscription : subscription[r].sid = j.sub
  BY <1>1, <1>2 DEF SerialInv, Linked
<1>. QED BY <1>3 DEF Handling

(* A job that ends without writing: Stripe has refused, or the row of a    *)
(* subscription is not there.                                              *)
LEMMA EndedSerial ==
  ASSUME TypeInv, SerialInv, Serial, NEW p \in Procs, StripeRefuses(p) \/ EventFails(p)
  PROVE  SerialInv'
<1>j. PICK j \in Job : j = job[p] /\ JobOK(j) /\ JobRight(j)
  BY JobFacts DEF SerialInv
<1>1. /\ job' = [job EXCEPT ![p] = Idle] /\ Idle \in Job
      /\ UNCHANGED <<subscription, workspace, stripe, scheduled, events>>
  <2>1. Len(subscription') \in Nat
    BY DEF TypeInv, TypeOK, StripeRefuses, EventFails, AnswerError, dbVars
  <2>. QED BY <2>1, IdleIsFine DEF StripeRefuses, EventFails, AnswerError, Finish, dbVars, stripeVars, ghostVars
<1>2. Idle.op = "none" /\ Idle.pc = "idle" /\ Idle.row = 0
  BY DEF Idle
<1>3. JobRight(Idle)'
  BY <1>2 DEF JobRight
<1>4. \A q \in Procs : JobRight(job[q])'
  BY <1>1, <1>3, JobsRight
<1>5. InOrder'
  BY <1>1 DEF SerialInv, InOrder
<1>6. \A s, t : Waiting(s, t) <=> Waiting(s, t)'
  BY <1>1 DEF Waiting
<1>7. \A s : ~ Changing(s)
  BY <1>j, OneWorker DEF StripeRefuses, EventFails, HasCustomer, At
<1>8. CASE StripeRefuses(p)
  <2>1. \A s, t : ~ InHand(s, t)
    BY <1>j, <1>8, OneWorker DEF StripeRefuses, HasCustomer, At
  <2>2. \A s, t : Due(s, t) => Due(s, t)'
    BY <1>6, <2>1 DEF Due
  <2>. QED BY <1>1, <1>4, <1>5, <1>7, <2>2, QuietSerial
<1>9. CASE EventFails(p)
  <2>1. j.op = "webhook" /\ ~ Applies(j) /\ Handling(j)
    BY <1>j, <1>9 DEF EventFails, At, JobRight
  <2>2. j.ev.type # "completed" /\ j.ev.type # "paid"
    <3>1. j.ev.type # "completed"
      BY <2>1 DEF Applies
    <3>2. ASSUME j.ev.type = "paid" PROVE FALSE
      <4>1. j.old = subscription[j.row] /\ j.old \in Row /\ j.row \in DOMAIN subscription
        BY <1>j, <2>1, <3>2, PaidFound DEF JobRight, JobOK, Job, TypeInv, TypeOK
      <4>2. j.old.ptype = "DOWNGRADE" => j.old.pplan \in Paid
        BY <4>1 DEF SerialInv, RowRight
      <4>3. PaidRow(j).plan # NoPlan
        BY <4>1, <4>2, NoRowIsNone, PlansAssumption DEF PaidRow, ClearPending, Row, Paid
      <4>. QED BY <2>1, <3>2, <4>3 DEF Applies
    <3>. QED BY <3>1, <3>2
  <2>3. j.ev.type \in {"updated", "deleted", "return"}
    <3>1. j.ev.type \in EventType /\ j.ev.type # "payment_failed"
      BY <1>j, <2>1 DEF Handling, EventRight, JobOK, Event
    <3>. QED BY <2>2, <3>1 DEF EventType
  <2>4. j.ev.type # "return"
    BY <2>1 DEF Handling
  <2>5. j.row = 0
    BY <1>j, <2>1, <2>3, <2>4 DEF Applies, JobOK
  <2>6. \A r \in DOMAIN subscription : subscription[r].sid # j.sub
    BY <2>1, <2>2, <2>4, <2>5 DEF Handling
  <2>7. \A s, t : InHand(s, t) => s = j.sub /\ t = j.ev.type
    BY <1>j, OneWorker
  <2>8. \A s, t : Due(s, t) => Due(s, t)' \/ (s = j.sub /\ t = j.ev.type)
    BY <1>6, <2>7 DEF Due
  <2>9. /\ \A s : \A t \in {"paid", "completed"} : Due(s, t) => Due(s, t)'
        /\ \A r \in DOMAIN subscription : \A s : s = subscription[r].sid =>
             \A t \in {"updated", "deleted"} : Due(s, t) => Due(s, t)'
    BY <2>2, <2>6, <2>8
  <2>. QED BY <1>1, <1>4, <1>5, <1>7, <2>9, QuietSerial
<1>. QED BY <1>8, <1>9

-----------------------------------------------------------------------------
(* Steps of Stripe. They are taken when nothing is due, and each event they*)
(* emit will put right what they changed.                                  *)

(* What a step of Stripe about s has to leave right for s.                 *)
LEMMA StripeStepSerial ==
  ASSUME TypeInv, SerialInv, Calm, StripeOnly, NEW s \in Subs, NEW new \in StripeSub,
         stripe' = [stripe EXCEPT ![s] = new],
         StripeRight(s)', Linked', InOrder',
         \A i \in DOMAIN events' : EventRight(events[i])',
         \A r \in DOMAIN subscription : subscription[r].sid = s => RowRight(subscription[r])'
  PROVE  SerialInv'
<1>1. /\ UNCHANGED <<workspace, subscription, job, scheduled>>
      /\ stripe \in [Subs -> StripeSub] /\ subscription \in Seq(Row)
  BY DEF StripeOnly, dbVars, ghostVars, TypeInv, TypeOK
<1>2. (\A p \in Procs : job[p].op = "none") /\ (\A u, t : ~ Due(u, t)) /\ \A u : ~ Changing(u)
  BY CalmIsIdle
<1>3. \A u \in Subs : u # s => stripe'[u] = stripe[u]
  BY <1>1
<1>4. ASSUME NEW u \in Subs PROVE StripeRight(u)'
  <2>1. CASE u = s
    BY <2>1
  <2>2. CASE u # s
    <3>1. StripeRight(u)
      BY DEF SerialInv
    <3>. QED BY <1>1, <1>3, <2>2, <3>1 DEF StripeRight
  <2>. QED BY <2>1, <2>2
<1>5. ASSUME NEW r \in DOMAIN subscription' PROVE RowRight(subscription[r])'
  <2>1. PICK row \in Row : row = subscription[r] /\ row = subscription'[r] /\ RowRight(row)
    BY <1>1 DEF SerialInv
  <2>2. CASE row.sid = s
    BY <1>1, <2>1, <2>2
  <2>3. CASE row.sid # s
    <3>1. stripe'[row.sid] = stripe[row.sid]
      BY <1>3, <2>1, <2>3 DEF Row
    <3>2. RowRight(row)'
      BY <1>1, <1>2, <2>1, <3>1, RowStays
    <3>. QED BY <2>1, <3>2
  <2>. QED BY <2>2, <2>3
<1>6. ASSUME NEW p \in Procs PROVE JobRight(job[p])'
  <2>1. PICK j \in Job : j = job[p] /\ JobRight(j)
    BY JobFacts DEF SerialInv
  <2>2. JobRight(j)'
    BY <1>1, <1>2, <2>1 DEF JobRight
  <2>. QED BY <1>1, <2>1, <2>2
<1>7. OneRow'
  BY <1>1 DEF SerialInv, OneRow
<1>. QED BY <1>4, <1>5, <1>6, <1>7 DEF SerialInv

(* The events that a step of Stripe adds to an empty queue, field by field.*)
LEMMA EmittedFields ==
  ASSUME events = << >>, NEW s \in Subs, NEW types \in Seq(EventType), Emit(s, types),
         NEW i \in DOMAIN events'
  PROVE  /\ i \in DOMAIN types
         /\ events'[i].type = types[i] /\ events'[i].sub = s
         /\ events'[i].period = stripe'[s].period /\ events'[i].cancel = stripe'[s].cancel
         /\ events'[i].active <=> stripe'[s].status = "active"
<1>1. i \in DOMAIN types /\ events'[i] = About(s, types[i])
  BY EmittedAlone
<1>2. PICK b \in BOOLEAN : b = (stripe'[s].status = "active")
  BY Zenon
<1>3. events'[i] = [type |-> types[i], sub |-> s, active |-> b,
                    period |-> stripe'[s].period, cancel |-> stripe'[s].cancel]
  BY <1>1, <1>2, Zenon DEF About
<1>4. b <=> stripe'[s].status = "active"
  BY <1>2, Zenon
<1>. QED BY <1>1, <1>3, <1>4

(* The session is paid: no row is of it yet, and no other one goes on.     *)
LEMMA PaySerial ==
  ASSUME TypeInv, SerialInv, Serial, NEW s \in Subs, PayCheckout(s)
  PROVE  SerialInv'
<1> DEFINE new == [stripe[s] EXCEPT !.status = "active", !.period = 1]
<1>1. /\ stripe \in [Subs -> StripeSub] /\ stripe[s] \in StripeSub /\ StripeOK(stripe[s])
      /\ stripe[s].status = "open" /\ StripeOnly /\ Calm
      /\ scheduled' = scheduled /\ subscription' = subscription
  BY DEF PayCheckout, MayStart, Serial, TypeInv, TypeOK, StripeOnly, ghostVars, dbVars
<1>2. PICK types \in PaymentOrders : Emit(s, types)
  BY DEF PayCheckout
<1>3. types \in Seq(EventType)
  BY EmittedTypes
<1>4. new \in StripeSub /\ stripe' = [stripe EXCEPT ![s] = new]
  BY <1>1 DEF PayCheckout, StripeSub, StripeStatus
<1>5. /\ stripe'[s].status = "active" /\ stripe'[s].period = 1 /\ ~ stripe'[s].cancel
      /\ stripe'[s].plan = stripe'[s].meta /\ stripe'[s].meta # NoPlan /\ scheduled'[s] = 0
      /\ \A u \in Subs : u # s => stripe'[u] = stripe[u]
  <2>1. StripeRight(s)
    BY DEF SerialInv
  <2>2. ~ stripe[s].cancel /\ stripe[s].meta # NoPlan /\ stripe[s].meta = stripe[s].plan
        /\ scheduled[s] = 0
    BY <1>1, <2>1 DEF StripeRight, StripeOK
  <2>. QED BY <1>1, <1>4, <2>2 DEF StripeSub
<1>. HIDE DEF new
<1>6. StripeRight(s)'
  BY <1>5 DEF StripeRight
<1>7. events = << >> /\ \A u, t : ~ Due(u, t)
  BY <1>1, CalmIsIdle
<1>8. \/ types = <<"return", "completed", "paid">>
      \/ types = <<"completed", "return", "paid">>
      \/ types = <<"completed", "paid", "return">>
  BY DEF PaymentOrders
<1>9. /\ DOMAIN types = 1 .. 3
      /\ \A i \in DOMAIN types : types[i] \in Payment
      /\ \E i \in DOMAIN types : types[i] = "paid"
      /\ \E i \in DOMAIN types : types[i] = "completed"
      /\ \A i, k \in DOMAIN types : types[i] = "paid" /\ types[k] = "completed" => k < i
  BY <1>8 DEF Payment
<1>10. Due(s, "paid")' /\ Due(s, "completed")'
  BY <1>2, <1>3, <1>7, <1>9, EmittedAlone DEF Due
<1>11. ASSUME NEW i \in DOMAIN events' PROVE EventRight(events[i])'
  <2>1. /\ i \in DOMAIN types
        /\ events'[i].type = types[i] /\ events'[i].sub = s
        /\ events'[i].period = stripe'[s].period /\ events'[i].cancel = stripe'[s].cancel
        /\ events'[i].active <=> stripe'[s].status = "active"
    BY <1>2, <1>3, <1>7, EmittedFields
  <2>2. events'[i].type \in Payment
    BY <1>9, <2>1
  <2>. QED BY <1>5, <1>10, <2>1, <2>2 DEF EventRight, Growing, Payment
<1>12. InOrder'
  <2>1. DOMAIN events' = DOMAIN types /\ \A i \in DOMAIN events' : events'[i].type = types[i]
    BY <1>2, <1>3, <1>7, EmittedAlone, EmittedFields
  <2>. QED BY <1>9, <2>1 DEF InOrder
<1>13. Linked'
  <2>1. ASSUME NEW u \in Subs, u # s PROVE ~ Growing(u)'
    BY <1>5, <2>1 DEF PayCheckout, MayPay, Serial, Running, Growing
  <2>. QED BY <1>10, <2>1 DEF Linked
<1>14. ASSUME NEW r \in DOMAIN subscription PROVE subscription[r].sid # s
  <2>1. RowRight(subscription[r])
    BY DEF SerialInv
  <2>. QED BY <1>1, <2>1 DEF RowRight
<1>. QED BY <1>1, <1>4, <1>6, <1>11, <1>12, <1>13, <1>14, StripeStepSerial

(* The next period begins: the row will get it from "updated" or "paid".   *)
LEMMA RenewSerial ==
  ASSUME TypeInv, SerialInv, Serial, NEW s \in Subs, Renew(s)
  PROVE  SerialInv'
<1> DEFINE new == [stripe[s] EXCEPT !.period = @ + 1]
           types == <<"updated", "paid">>
<1>1. /\ stripe \in [Subs -> StripeSub] /\ stripe[s] \in StripeSub /\ stripe[s].period \in Nat
      /\ Growing(s) /\ StripeOnly /\ Calm /\ Emit(s, types)
      /\ scheduled' = scheduled /\ subscription' = subscription /\ workspace' = workspace
      /\ scheduled[s] \in Nat /\ subscription \in Seq(Row)
  BY DEF Renew, MayStart, Serial, TypeInv, TypeOK, StripeOnly, ghostVars, dbVars, StripeSub, Growing
<1>2. types \in Seq(EventType) /\ DOMAIN types = 1 .. 2 /\ types[1] = "updated" /\ types[2] = "paid"
  BY EmittedTypes
<1>3. new \in StripeSub /\ stripe' = [stripe EXCEPT ![s] = new]
  <2>1. stripe[s].period + 1 \in Nat
    BY <1>1
  <2>2. new \in StripeSub
    BY <1>1, <2>1 DEF StripeSub
  <2>. QED BY <1>1, <2>2 DEF Renew
<1>4. /\ stripe'[s].status = stripe[s].status /\ stripe'[s].period = stripe[s].period + 1
      /\ stripe'[s].cancel = stripe[s].cancel
      /\ stripe'[s].plan = stripe[s].plan /\ stripe'[s].meta = stripe[s].meta
      /\ \A u \in Subs : u # s => stripe'[u] = stripe[u]
  BY <1>1, <1>3 DEF StripeSub
<1>. HIDE DEF new, types
<1>5. \A u \in Subs : Growing(u)' <=> Growing(u)
  BY <1>4 DEF Growing
<1>6. StripeRight(s)' /\ scheduled'[s] < stripe'[s].period
  <2>1. StripeRight(s)
    BY DEF SerialInv
  <2>2. stripe[s].status = "active" /\ ~ stripe[s].cancel
    BY <1>1 DEF Growing
  <2>. QED BY <1>1, <1>4, <2>1, <2>2 DEF StripeRight
<1>7. events = << >> /\ (\A u, t : ~ Due(u, t)) /\ \A u : ~ Changing(u)
  BY <1>1, CalmIsIdle
<1>8. Due(s, "paid")' /\ Due(s, "updated")'
  BY <1>1, <1>2, <1>7, EmittedAlone DEF Due
<1>9. ASSUME NEW i \in DOMAIN events' PROVE EventRight(events[i])'
  <2>1. /\ i \in DOMAIN types
        /\ events'[i].type = types[i] /\ events'[i].sub = s
        /\ events'[i].period = stripe'[s].period /\ events'[i].cancel = stripe'[s].cancel
        /\ events'[i].active <=> stripe'[s].status = "active"
    BY <1>1, <1>2, <1>7, EmittedFields
  <2>2. events'[i].type \in {"updated", "paid"} /\ Growing(s)' /\ stripe'[s].status = "active"
    BY <1>1, <1>2, <1>4, <1>5, <2>1 DEF Growing
  <2>. QED BY <1>6, <2>1, <2>2 DEF EventRight
<1>10. InOrder'
  <2>1. DOMAIN events' = DOMAIN types /\ \A i \in DOMAIN events' : events'[i].type = types[i]
    BY <1>1, <1>2, <1>7, EmittedAlone, EmittedFields
  <2>2. \A i \in DOMAIN types : types[i] # "completed"
    BY <1>2
  <2>. QED BY <2>1, <2>2 DEF InOrder
<1>11. Linked'
  <2>1. \A u \in Subs : Growing(u) =>
          /\ \E r \in DOMAIN subscription : subscription[r].sid = u
          /\ \A v \in Subs : Growing(v) => v = u
    BY <1>7 DEF SerialInv, Linked
  <2>2. \A u \in Subs : Growing(u)' =>
          /\ \E r \in DOMAIN subscription' : subscription'[r].sid = u
          /\ \A v \in Subs : Growing(v)' => v = u
    BY <1>1, <1>5, <2>1
  <2>. QED BY <2>2 DEF Linked
<1>12. ASSUME NEW r \in DOMAIN subscription, subscription[r].sid = s
       PROVE  RowRight(subscription[r])'
  <2>1. PICK row \in Row : row = subscription[r] /\ row = subscription'[r] /\ RowRight(row)
                           /\ row.sid = s
    BY <1>1, <1>12 DEF SerialInv
  <2>2. /\ stripe[s].status = "active" /\ row.status = "ACTIVE" /\ row.cancel = stripe[s].cancel
        /\ row.ptype = "NONE" => row.plan = stripe[s].plan
        /\ row.ptype = "DOWNGRADE" => row.pplan = stripe[s].plan
        /\ row.ptype = "DOWNGRADE" => row.pplan \in Paid /\ Price[row.pplan] <= Price[row.plan]
        /\ row.ptype = "CANCEL_TO_FREE" => stripe[s].cancel
    BY <1>1, <1>7, <2>1, SettledRow DEF RowRight, Growing
  <2>3. RowRight(row)'
    BY <1>1, <1>4, <1>8, <2>1, <2>2 DEF RowRight
  <2>. QED BY <2>1, <2>3
<1>. QED BY <1>1, <1>3, <1>6, <1>9, <1>10, <1>11, <1>12, StripeStepSerial

(* The subscription ends: the row will hear of it from "deleted".          *)
LEMMA EndSerial ==
  ASSUME TypeInv, SerialInv, Serial, NEW s \in Subs, End(s)
  PROVE  SerialInv'
<1> DEFINE new == [stripe[s] EXCEPT !.status = "canceled"]
           types == <<"deleted">>
<1>1. /\ stripe \in [Subs -> StripeSub] /\ stripe[s] \in StripeSub
      /\ StripeOnly /\ Calm /\ Emit(s, types)
      /\ scheduled' = scheduled /\ subscription' = subscription /\ workspace' = workspace
      /\ subscription \in Seq(Row)
  BY DEF End, MayStart, Serial, TypeInv, TypeOK, StripeOnly, ghostVars, dbVars
<1>2. types \in Seq(EventType) /\ DOMAIN types = 1 .. 1 /\ types[1] = "deleted"
  BY EmittedTypes
<1>3. new \in StripeSub /\ stripe' = [stripe EXCEPT ![s] = new]
  BY <1>1 DEF End, StripeSub, StripeStatus
<1>4. /\ stripe'[s].status = "canceled" /\ stripe'[s].period = stripe[s].period
      /\ stripe'[s].cancel = stripe[s].cancel /\ stripe'[s].meta = stripe[s].meta
      /\ \A u \in Subs : u # s => stripe'[u] = stripe[u]
  BY <1>1, <1>3 DEF StripeSub
<1>. HIDE DEF new, types
<1>5. \A u \in Subs : Growing(u)' => Growing(u)
  BY <1>4 DEF Growing
<1>6. StripeRight(s)' /\ stripe[s].status = "active" /\ stripe[s].cancel
  <2>1. StripeRight(s)
    BY DEF SerialInv
  <2>2. stripe[s].status = "active" /\ stripe[s].cancel
    BY <2>1 DEF End, Running, StripeRight
  <2>. QED BY <1>1, <1>4, <2>1, <2>2 DEF StripeRight
<1>7. events = << >> /\ (\A u, t : ~ Due(u, t)) /\ \A u : ~ Changing(u)
  BY <1>1, CalmIsIdle
<1>8. Due(s, "deleted")'
  BY <1>1, <1>2, <1>7, EmittedAlone DEF Due
<1>9. ASSUME NEW i \in DOMAIN events' PROVE EventRight(events[i])'
  <2>1. /\ events'[i].type = "deleted" /\ events'[i].sub = s
        /\ events'[i].period = stripe'[s].period /\ events'[i].cancel = stripe'[s].cancel
    BY <1>1, <1>2, <1>7, EmittedFields
  <2>. QED BY <1>4, <2>1 DEF EventRight, Payment
<1>10. InOrder'
  <2>1. \A i \in DOMAIN events' : events'[i].type = "deleted"
    BY <1>1, <1>2, <1>7, EmittedFields
  <2>. QED BY <2>1 DEF InOrder
<1>11. Linked'
  <2>1. \A u \in Subs : Growing(u) =>
          /\ \E r \in DOMAIN subscription : subscription[r].sid = u
          /\ \A v \in Subs : Growing(v) => v = u
    BY <1>7 DEF SerialInv, Linked
  <2>2. \A u \in Subs : Growing(u)' =>
          /\ \E r \in DOMAIN subscription' : subscription'[r].sid = u
          /\ \A v \in Subs : Growing(v)' => v = u
    BY <1>1, <1>5, <2>1
  <2>. QED BY <2>2 DEF Linked
<1>12. ASSUME NEW r \in DOMAIN subscription, subscription[r].sid = s
       PROVE  RowRight(subscription[r])'
  <2>1. PICK row \in Row : row = subscription[r] /\ row = subscription'[r] /\ RowRight(row)
                           /\ row.sid = s
    BY <1>1, <1>12 DEF SerialInv
  <2>2. /\ row.ptype = "DOWNGRADE" => row.pplan \in Paid /\ Price[row.pplan] <= Price[row.plan]
        /\ row.period # 0 /\ workspace.plan = row.plan
    BY <1>7, <2>1, SettledRow DEF RowRight
  <2>3. RowRight(row)'
    BY <1>1, <1>4, <1>6, <1>8, <2>1, <2>2 DEF RowRight
  <2>. QED BY <2>1, <2>3
<1>. QED BY <1>1, <1>3, <1>6, <1>9, <1>10, <1>11, <1>12, StripeStepSerial

(* What is left of Stripe takes a hazard.                                  *)
LEMMA StripeSerial ==
  ASSUME TypeInv, SerialInv, Serial, NEW s \in Subs, Stripe(s)
  PROVE  SerialInv'
<1>1. stripe[s].status \in {"none", "open", "active", "canceled"}
  BY DEF SerialInv, StripeRight
<1>2. ~ PayFirstInvoice(s) /\ ~ RenewFails(s) /\ ~ Recover(s)
  BY <1>1 DEF PayFirstInvoice, RenewFails, Recover, Serial
<1>. QED BY <1>2, PaySerial, RenewSerial, EndSerial DEF Stripe

-----------------------------------------------------------------------------
(* Calls of a request to Stripe. Nothing is due before them.               *)

(* A session for a subscription that no row is of.                         *)
LEMMA OpenSerial ==
  ASSUME TypeInv, SerialInv, Serial, NEW p \in Procs, OpenSession(p)
  PROVE  SerialInv'
<1>j. PICK j \in Job : j = job[p] /\ JobOK(j) /\ JobRight(j)
  BY JobFacts DEF SerialInv
<1>1. PICK s \in Subs :
        /\ stripe[s].status = "none"
        /\ stripe' = [stripe EXCEPT ![s].status = "open", ![s].plan = job[p].plan,
                                    ![s].meta = job[p].plan]
  BY DEF OpenSession
<1>2. /\ j.op = "checkout" /\ j.pc \in {"loaded", "saved"} /\ j.plan \in Paid /\ events = << >>
      /\ UNCHANGED <<subscription, workspace, scheduled, events>>
      /\ job' = [job EXCEPT ![p] = Idle]
      /\ stripe \in [Subs -> StripeSub] /\ subscription \in Seq(Row)
  BY <1>j DEF OpenSession, HasCustomer, At, JobRight, JobOK, dbVars, ghostVars, Finish, TypeInv, TypeOK
<1>3. /\ stripe'[s].status = "open" /\ stripe'[s].meta = j.plan
      /\ stripe'[s].cancel = stripe[s].cancel
      /\ \A u \in Subs : u # s => stripe'[u] = stripe[u]
  BY <1>j, <1>1, <1>2 DEF StripeSub
<1>4. (\A u, t : ~ Due(u, t)) /\ \A u : ~ Changing(u)
  BY <1>j, <1>2, OneWorker DEF Due, Waiting
<1>5. ASSUME NEW u \in Subs PROVE StripeRight(u)'
  <2>1. StripeRight(u)
    BY DEF SerialInv
  <2>2. CASE u = s
    BY <1>1, <1>2, <1>3, <2>1, <2>2, PlansAssumption DEF StripeRight, Paid
  <2>3. CASE u # s
    BY <1>2, <1>3, <2>1, <2>3 DEF StripeRight
  <2>. QED BY <2>2, <2>3
<1>6. Linked'
  <2>1. \A u \in Subs : Growing(u) =>
          /\ \E r \in DOMAIN subscription : subscription[r].sid = u
          /\ \A v \in Subs : Growing(v) => v = u
    BY <1>4 DEF SerialInv, Linked
  <2>2. \A u \in Subs : Growing(u)' => Growing(u)
    BY <1>3 DEF Growing
  <2>3. \A u \in Subs : Growing(u)' =>
          /\ \E r \in DOMAIN subscription' : subscription'[r].sid = u
          /\ \A v \in Subs : Growing(v)' => v = u
    BY <1>2, <2>1, <2>2
  <2>. QED BY <2>3 DEF Linked
<1>7. ASSUME NEW r \in DOMAIN subscription' PROVE RowRight(subscription[r])'
  <2>1. PICK row \in Row : row = subscription[r] /\ row = subscription'[r] /\ RowRight(row)
    BY <1>2 DEF SerialInv
  <2>2. row.sid # s /\ row.sid \in Subs
    BY <1>1, <2>1 DEF RowRight, Row
  <2>3. RowRight(row)'
    BY <1>2, <1>3, <1>4, <2>1, <2>2, RowStays
  <2>. QED BY <2>1, <2>3
<1>8. \A q \in Procs : JobRight(job[q])'
  <2>1. Idle \in Job
    <3>1. Len(subscription') \in Nat
      BY <1>2
    <3>. QED BY <3>1, IdleIsFine
  <2>2. JobRight(Idle)'
    BY DEF Idle, JobRight
  <2>. QED BY <1>2, <2>1, <2>2, JobsRight
<1>9. InOrder' /\ OneRow' /\ \A i \in DOMAIN events' : EventRight(events[i])'
  BY <1>2 DEF SerialInv, InOrder, OneRow
<1>. QED BY <1>5, <1>6, <1>7, <1>8, <1>9 DEF SerialInv

(* The one event of a change.                                              *)
LEMMA EmittedOne ==
  ASSUME events = << >>, NEW s \in Subs, Emit(s, <<"updated">>), NEW i \in DOMAIN events'
  PROVE  /\ events'[i].type = "updated" /\ events'[i].sub = s
         /\ events'[i].period = stripe'[s].period /\ events'[i].cancel = stripe'[s].cancel
         /\ events'[i].active <=> stripe'[s].status = "active"
<1> DEFINE types == <<"updated">>
<1>1. types \in Seq(EventType) /\ DOMAIN types = {1} /\ types[1] = "updated"
  BY EmittedTypes
<1>2. Emit(s, types)
  OBVIOUS
<1>. HIDE DEF types
<1>3. /\ i \in DOMAIN types
      /\ events'[i].type = types[i] /\ events'[i].sub = s
      /\ events'[i].period = stripe'[s].period /\ events'[i].cancel = stripe'[s].cancel
      /\ events'[i].active <=> stripe'[s].status = "active"
  BY <1>1, <1>2, EmittedFields
<1>. QED BY <1>1, <1>3

(* What a row of an active subscription is when nothing is due.            *)
LEMMA SettledActive ==
  ASSUME NEW row, RowRight(row), stripe[row.sid].status = "active",
         \A s, t : ~ Due(s, t), \A s : ~ Changing(s)
  PROVE  /\ row.status = "ACTIVE" /\ row.period = stripe[row.sid].period
         /\ row.cancel = stripe[row.sid].cancel
         /\ row.ptype = "NONE" => row.plan = stripe[row.sid].plan
         /\ row.ptype = "DOWNGRADE" => row.pplan = stripe[row.sid].plan
         /\ row.ptype = "DOWNGRADE" => row.pplan \in Paid /\ Price[row.pplan] <= Price[row.plan]
         /\ row.ptype = "CANCEL_TO_FREE" => stripe[row.sid].cancel
         /\ row.period # 0 /\ workspace.plan = row.plan
  BY DEF RowRight

(* Such a row is still right when the change is announced.                 *)
LEMMA ChangedRow ==
  ASSUME NEW row, row.status = "ACTIVE", row.period = stripe'[row.sid].period,
         row.ptype = "NONE" => row.plan = stripe'[row.sid].plan \/ Changing(row.sid)',
         row.ptype = "DOWNGRADE" => row.pplan = stripe'[row.sid].plan \/ Changing(row.sid)',
         row.ptype = "DOWNGRADE" => row.pplan \in Paid /\ Price[row.pplan] <= Price[row.plan],
         row.ptype = "CANCEL_TO_FREE" => stripe'[row.sid].cancel,
         row.period # 0, workspace'.plan = row.plan,
         stripe'[row.sid].status = "active", Due(row.sid, "updated")'
  PROVE  RowRight(row)'
  BY DEF RowRight

(* A change of the running subscription of the row that was read: its row  *)
(* will be put right by the event, and by the request itself.              *)
LEMMA ModifiedSerial ==
  ASSUME TypeInv, SerialInv, Serial, NEW p \in Procs, NEW j \in Job, j = job[p],
         JobOK(j), JobRight(j),
         j.op \in {"update", "cancel"}, j.pc = "loaded",
         NEW s \in Subs, s = j.old.sid, stripe[s].status = "active",
         NEW new \in StripeSub, stripe' = [stripe EXCEPT ![s] = new],
         new.status = "active", new.period = stripe[s].period, new.meta = stripe[s].meta,
         j.op = "update" => new.plan = j.plan /\ new.cancel = stripe[s].cancel,
         j.op = "cancel" => new.plan = stripe[s].plan /\ new.cancel,
         Emit(s, <<"updated">>), UNCHANGED <<subscription, workspace, scheduled>>,
         NEW n \in Job, job' = [job EXCEPT ![p] = n],
         n.pc = "called", n.op = j.op, n.plan = j.plan, n.row = j.row, n.old = j.old,
         n.ws = j.ws
  PROVE  SerialInv'
<1>1. events = << >> /\ j.row # 0 /\ j.old = subscription[j.row] /\ j.row \in DOMAIN subscription
      /\ stripe \in [Subs -> StripeSub] /\ subscription \in Seq(Row)
  BY DEF JobRight, JobOK, TypeInv, TypeOK, Job
<1>2. stripe'[s] = new /\ \A u \in Subs : u # s => stripe'[u] = stripe[u]
  BY <1>1
<1>3. (\A u, t : ~ Due(u, t)) /\ \A u : ~ Changing(u)
  BY <1>1, OneWorker DEF Due, Waiting
<1>4. <<"updated">> \in Seq(EventType) /\ DOMAIN <<"updated">> = {1}
  BY EmittedTypes
<1>5. ASSUME NEW i \in DOMAIN events'
      PROVE  /\ events'[i].type = "updated" /\ events'[i].sub = s
             /\ events'[i].period = new.period /\ events'[i].cancel = new.cancel
             /\ events'[i].active
  BY <1>1, <1>2, EmittedOne
<1>6. Waiting(s, "updated")'
  <2>1. PICK types \in Seq(EventType) : types = <<"updated">>
    BY <1>4
  <2>2. 1 \in DOMAIN types /\ types[1] = "updated"
    BY <2>1
  <2>. QED BY <1>1, <2>1, <2>2, EmittedAlone
<1>7. ASSUME NEW u \in Subs PROVE StripeRight(u)'
  <2>1. StripeRight(u)
    BY DEF SerialInv
  <2>2. CASE u = s
    BY <1>2, <2>1, <2>2 DEF StripeRight
  <2>3. CASE u # s
    BY <1>2, <2>1, <2>3 DEF StripeRight
  <2>. QED BY <2>2, <2>3
<1>8. ASSUME NEW i \in DOMAIN events' PROVE EventRight(events[i])'
  BY <1>2, <1>5 DEF EventRight, Payment
<1>9. InOrder'
  BY <1>5 DEF InOrder
<1>10. Linked'
  <2>1. \A u \in Subs : Growing(u) =>
          /\ \E r \in DOMAIN subscription : subscription[r].sid = u
          /\ \A v \in Subs : Growing(v) => v = u
    BY <1>3 DEF SerialInv, Linked
  <2>2. \A u \in Subs : Growing(u)' => Growing(u)
    BY <1>2 DEF Growing
  <2>3. \A u \in Subs : Growing(u)' =>
          /\ \E r \in DOMAIN subscription' : subscription'[r].sid = u
          /\ \A v \in Subs : Growing(v)' => v = u
    BY <2>1, <2>2
  <2>. QED BY <2>3 DEF Linked
<1>11. j.op = "update" => Changing(s)'
  <2>1. job'[p] = n
    BY OneWorkerNext
  <2>. QED BY <2>1 DEF Changing
<1>12. ASSUME NEW r \in DOMAIN subscription' PROVE RowRight(subscription[r])'
  <2>1. PICK row \in Row : row = subscription[r] /\ row = subscription'[r] /\ RowRight(row)
    BY <1>1 DEF SerialInv
  <2>2. CASE row.sid = s
    <3>1. /\ row.status = "ACTIVE" /\ row.period = stripe[s].period /\ row.cancel = stripe[s].cancel
          /\ row.ptype = "NONE" => row.plan = stripe[s].plan
          /\ row.ptype = "DOWNGRADE" => row.pplan = stripe[s].plan
          /\ row.ptype = "DOWNGRADE" => row.pplan \in Paid /\ Price[row.pplan] <= Price[row.plan]
          /\ row.ptype = "CANCEL_TO_FREE" => stripe[s].cancel
          /\ row.period # 0 /\ workspace.plan = row.plan
      BY <1>3, <2>1, <2>2, SettledActive
    <3>2. Due(s, "updated")'
      BY <1>6 DEF Due
    <3>3. RowRight(row)'
      <4>1. /\ stripe'[s].status = "active" /\ row.period = stripe'[s].period
            /\ workspace'.plan = row.plan /\ stripe[s].cancel => stripe'[s].cancel
            /\ stripe'[s].plan = stripe[s].plan \/ Changing(s)'
        BY <1>2, <1>11, <3>1
      <4>2. /\ row.ptype = "NONE" => row.plan = stripe'[row.sid].plan \/ Changing(row.sid)'
            /\ row.ptype = "DOWNGRADE" => row.pplan = stripe'[row.sid].plan \/ Changing(row.sid)'
        BY <2>2, <3>1, <4>1
      <4>3. /\ row.ptype = "CANCEL_TO_FREE" => stripe'[row.sid].cancel
            /\ stripe'[row.sid].status = "active" /\ Due(row.sid, "updated")'
            /\ row.period = stripe'[row.sid].period
        BY <2>2, <3>1, <3>2, <4>1
      <4>. QED BY <3>1, <4>1, <4>2, <4>3, ChangedRow
    <3>. QED BY <2>1, <3>3
  <2>3. CASE row.sid # s
    <3>1. stripe'[row.sid] = stripe[row.sid]
      BY <1>2, <2>1, <2>3 DEF Row
    <3>2. RowRight(row)'
      BY <1>3, <2>1, <3>1, RowStays
    <3>. QED BY <2>1, <3>2
  <2>. QED BY <2>2, <2>3
<1>13. \A q \in Procs : JobRight(job[q])'
  <2>1. Called(n)'
    BY <1>2, <1>5, <1>6 DEF Called
  <2>2. JobRight(n)'
    BY <1>1, <2>1 DEF JobRight
  <2>. QED BY <2>2, JobsRight
<1>14. OneRow'
  BY DEF SerialInv, OneRow
<1>. QED BY <1>7, <1>8, <1>9, <1>10, <1>12, <1>13, <1>14 DEF SerialInv

(* The calls of POST /subscription/update and /subscription/cancel.        *)
LEMMA ModifySerial ==
  ASSUME TypeInv, SerialInv, Serial, NEW p \in Procs, ModifyPlan(p) \/ ModifyCancel(p)
  PROVE  SerialInv'
<1>j. PICK j \in Job : j = job[p] /\ JobOK(j) /\ JobRight(j)
  BY JobFacts DEF SerialInv
<1>1. /\ j.op \in {"update", "cancel"} /\ j.pc = "loaded" /\ j.old \in Row
      /\ Running(j.old.sid)
  BY <1>j, NoRowIsNone DEF ModifyPlan, ModifyCancel, At, JobOK, Job, Modifiable
<1>2. PICK s \in Subs : s = j.old.sid
  BY <1>1 DEF Row
<1>3. stripe[s].status = "active" /\ stripe \in [Subs -> StripeSub] /\ stripe[s] \in StripeSub
  <2>1. StripeRight(s) /\ Running(s)
    BY <1>1, <1>2 DEF SerialInv
  <2>. QED BY <2>1 DEF StripeRight, Running, TypeInv, TypeOK
<1>4. UNCHANGED <<subscription, workspace, scheduled>> /\ Emit(s, <<"updated">>)
  BY <1>j, <1>2 DEF ModifyPlan, ModifyCancel, dbVars, ghostVars
<1>5. PICK n \in Job : /\ job' = [job EXCEPT ![p] = n]
                       /\ n.pc = "called" /\ n.op = j.op /\ n.plan = j.plan /\ n.row = j.row
                       /\ n.old = j.old /\ n.ws = j.ws
  <2> DEFINE n == [j EXCEPT !.pc = "called"]
  <2>1. n \in Job /\ n.pc = "called" /\ n.op = j.op /\ n.plan = j.plan /\ n.row = j.row
        /\ n.old = j.old /\ n.ws = j.ws
    BY DEF Job
  <2>2. job' = [job EXCEPT ![p] = n]
    BY <1>j DEF ModifyPlan, ModifyCancel
  <2>. QED BY <2>1, <2>2
<1>6. CASE ModifyPlan(p)
  <2> DEFINE new == [stripe[s] EXCEPT !.plan = j.plan]
  <2>1. stripe' = [stripe EXCEPT ![s] = new]
    BY <1>j, <1>2, <1>6 DEF ModifyPlan
  <2>2. /\ new \in StripeSub /\ new.status = "active" /\ new.period = stripe[s].period
        /\ new.meta = stripe[s].meta /\ new.plan = j.plan /\ new.cancel = stripe[s].cancel
    BY <1>3 DEF StripeSub, Job
  <2>3. j.op = "update"
    BY <1>j, <1>6 DEF ModifyPlan, At
  <2>. HIDE DEF new
  <2>. QED BY <1>j, <1>1, <1>2, <1>3, <1>4, <1>5, <2>1, <2>2, <2>3, ModifiedSerial
<1>7. CASE ModifyCancel(p)
  <2> DEFINE new == [stripe[s] EXCEPT !.cancel = TRUE]
  <2>1. stripe' = [stripe EXCEPT ![s] = new]
    BY <1>j, <1>2, <1>7 DEF ModifyCancel
  <2>2. /\ new \in StripeSub /\ new.status = "active" /\ new.period = stripe[s].period
        /\ new.meta = stripe[s].meta /\ new.plan = stripe[s].plan /\ new.cancel
    BY <1>3 DEF StripeSub
  <2>3. j.op = "cancel"
    BY <1>j, <1>7 DEF ModifyCancel, At
  <2>. HIDE DEF new
  <2>. QED BY <1>j, <1>1, <1>2, <1>3, <1>4, <1>5, <2>1, <2>2, <2>3, ModifiedSerial
<1>. QED BY <1>6, <1>7

-----------------------------------------------------------------------------
(* A job that commits. What it has read is still so, so the row becomes    *)
(* what the job has made of it, and the workspace gets the plan.           *)

(* A flush of a row that nobody else has written is the row of the job.    *)
LEMMA FlushSame ==
  ASSUME NEW old \in Row, NEW new \in Row
  PROVE  Flush(old, old, new) = new
<1> DEFINE F == {"sid", "item", "plan", "status", "cancel", "pplan", "ptype", "period"}
<1>1. DOMAIN new = F
  BY DEF Row
<1>2. Flush(old, old, new) = [f \in F |-> IF new[f] = old[f] THEN old[f] ELSE new[f]]
  BY <1>1 DEF Flush
<1>3. Flush(old, old, new) = [f \in F |-> new[f]]
  BY <1>2, Zenon
<1>4. new = [f \in F |-> new[f]]
  BY DEF Row
<1>. QED BY <1>3, <1>4

(* The row that a job has found.                                           *)
LEMMA TheRow ==
  ASSUME TypeInv, SerialInv, NEW p \in Procs, NEW j \in Job, j = job[p], JobOK(j), JobRight(j),
         j.row # 0
  PROVE  /\ j.row = 1 /\ DOMAIN subscription = {1} /\ subscription[1] = j.old
         /\ j.old \in Row /\ RowRight(j.old)
<1>1. subscription \in Seq(Row) /\ Len(subscription) <= 1
  BY DEF TypeInv, TypeOK, SerialInv, OneRow
<1>2. Len(subscription) \in Nat /\ DOMAIN subscription = 1 .. Len(subscription)
  BY <1>1
<1>3. j.row = 1 /\ Len(subscription) = 1
  <2>1. j.row \in Nat /\ j.row <= Len(subscription)
    BY DEF JobOK, Job
  <2>. QED BY <1>1, <1>2, <2>1
<1>4. DOMAIN subscription = {1}
  BY <1>2, <1>3
<1>5. j.old = subscription[j.row]
  BY DEF JobRight
<1>6. subscription[1] \in Row
  <2>1. \A r \in 1 .. Len(subscription) : subscription[r] \in Row
    BY <1>1
  <2>2. 1 \in 1 .. Len(subscription)
    BY <1>3
  <2>. QED BY <2>1, <2>2
<1>7. RowRight(j.old)
  BY <1>3, <1>4, <1>5 DEF SerialInv
<1>. QED BY <1>3, <1>4, <1>5, <1>6, <1>7

(* The row after a commit is the one that the job has made.                *)
LEMMA SavedOne ==
  ASSUME TypeInv, SerialInv, NEW p \in Procs, NEW j \in Job, j = job[p], JobOK(j), JobRight(j),
         NEW new \in Row, SaveRow(j, new), j.row = 0 => subscription = << >>
  PROVE  /\ DOMAIN subscription' = {1} /\ subscription'[1] = new /\ Len(subscription') = 1
         /\ j.row # 0 => /\ j.row = 1 /\ DOMAIN subscription = {1} /\ subscription[1] = j.old
                         /\ j.old \in Row /\ RowRight(j.old)
<1>1. subscription \in Seq(Row) /\ Len(subscription) <= 1
  BY DEF TypeInv, TypeOK, SerialInv, OneRow
<1>2. CASE j.row = 0
  <2>1. subscription' = Append(<< >>, new)
    BY <1>2 DEF SaveRow
  <2>2. subscription' = <<new>>
    BY <2>1
  <2>. QED BY <1>2, <2>2
<1>3. CASE j.row # 0
  <2>1. /\ j.row = 1 /\ DOMAIN subscription = {1} /\ subscription[1] = j.old
        /\ j.old \in Row /\ RowRight(j.old)
    BY <1>3, TheRow
  <2>2. subscription' = [subscription EXCEPT ![1] = Flush(subscription[1], j.old, new)]
    BY <1>3, <2>1 DEF SaveRow
  <2>3. subscription' = [subscription EXCEPT ![1] = new]
    BY <2>1, <2>2, FlushSame
  <2>. QED BY <1>1, <2>1, <2>3
<1>. QED BY <1>2, <1>3

(* The plan of the workspace after a commit is the one that it writes.     *)
LEMMA SavedPlanIs ==
  ASSUME TypeInv, SerialInv, NEW p \in Procs, NEW j \in Job, j = job[p], JobRight(j),
         j.op # "none", NEW plan \in Plans, SavePlan(j, plan)
  PROVE  workspace'.plan = plan
BY DEF SavePlan, JobRight, TypeInv, TypeOK, Workspace

(* After the job only what waits is due.                                   *)
LEMMA FinishedDue ==
  ASSUME TypeInv, Serial, NEW p \in Procs, job' = [job EXCEPT ![p] = Idle], events' = events,
         NEW s, NEW t
  PROVE  Due(s, t)' <=> Waiting(s, t)
<1>1. \A q \in Procs : job'[q] = Idle
  BY DEF Serial, TypeInv, TypeOK
<1>2. Idle.op = "none"
  BY DEF Idle
<1>3. ~ InHand(s, t)'
  BY <1>1, <1>2 DEF InHand
<1>4. Waiting(s, t)' <=> Waiting(s, t)
  BY DEF Waiting
<1>. QED BY <1>3, <1>4 DEF Due

(* What a commit of the row has to leave right.                            *)
LEMMA SavedSerial ==
  ASSUME TypeInv, SerialInv, Serial, NEW p \in Procs, NEW j \in Job, j = job[p],
         JobOK(j), JobRight(j), j.op \in {"update", "cancel", "complete", "webhook"},
         NEW new \in Row, SaveRow(j, new), j.row = 0 => subscription = << >>,
         Finish(p), stripe' = stripe, events' = events,
         \A u \in Subs : \/ scheduled'[u] = scheduled[u]
                         \/ /\ scheduled'[u] = stripe[u].period /\ stripe[u].status = "active"
                            /\ \A i \in DOMAIN events : events[i].type = "updated",
         RowRight(new)',
         \A u \in Subs : Growing(u) => new.sid = u \/ Waiting(u, "completed")
  PROVE  SerialInv'
<1>1. job' = [job EXCEPT ![p] = Idle]
  BY DEF Finish
<1>2. DOMAIN subscription' = {1} /\ subscription'[1] = new /\ Len(subscription') = 1
  BY SavedOne
<1>3. ASSUME NEW u \in Subs PROVE StripeRight(u)'
  <2>1. StripeRight(u) /\ stripe[u].period \in Nat
    BY DEF SerialInv, TypeInv, TypeOK, StripeSub
  <2>. QED BY <2>1 DEF StripeRight
<1>4. ASSUME NEW i \in DOMAIN events' PROVE EventRight(events[i])'
  <2>1. PICK e \in Event : e = events[i] /\ EventRight(e) /\ e = events'[i]
    BY DEF SerialInv, TypeInv, TypeOK
  <2>2. e.type = "completed" => Due(e.sub, "paid")'
    <3>1. SUFFICES ASSUME e.type = "completed" PROVE Waiting(e.sub, "paid")
      BY <1>1, FinishedDue
    <3>2. Waiting(e.sub, "completed")
      BY <2>1, <3>1 DEF Waiting
    <3>3. Due(e.sub, "paid")
      BY <2>1, <3>1 DEF EventRight
    <3>4. ~ InHand(e.sub, "paid")
      <4>1. SUFFICES ASSUME InHand(e.sub, "paid") PROVE FALSE
        OBVIOUS
      <4>2. j.op \in {"complete", "webhook"} /\ j.sub = e.sub /\ j.ev.type = "paid"
        BY <4>1, OneWorker
      <4>3. Handling(j)
        BY <4>2 DEF JobRight
      <4>. QED BY <3>2, <4>2, <4>3 DEF Handling
    <3>. QED BY <3>3, <3>4 DEF Due
  <2>3. e.sub \in Subs
    BY <2>1 DEF Event
  <2>4. EventRight(e)'
    <3>1. CASE scheduled'[e.sub] = scheduled[e.sub]
      BY <2>1, <2>2, <3>1, EventStays
    <3>2. CASE \A k \in DOMAIN events : events[k].type = "updated"
      <4>1. e.type = "updated"
        BY <2>1, <3>2
      <4>. QED BY <2>1, <4>1 DEF EventRight, Payment
    <3>. QED BY <2>3, <3>1, <3>2
  <2>. QED BY <2>1, <2>4
<1>5. InOrder'
  BY DEF SerialInv, InOrder
<1>6. Linked'
  <2>1. ASSUME NEW u \in Subs, Growing(u)'
        PROVE  /\ (\E r \in DOMAIN subscription' : subscription'[r].sid = u) \/ Due(u, "completed")'
               /\ \A v \in Subs : Growing(v)' => v = u
    <3>1. Growing(u) /\ \A v \in Subs : Growing(v)' => Growing(v)
      BY <2>1 DEF Growing
    <3>2. \A v \in Subs : Growing(v) => v = u
      BY <3>1 DEF SerialInv, Linked
    <3>3. new.sid = u \/ Waiting(u, "completed")
      BY <3>1
    <3>4. Waiting(u, "completed") => Due(u, "completed")'
      BY <1>1, FinishedDue
    <3>. QED BY <1>2, <3>1, <3>2, <3>3, <3>4
  <2>. QED BY <2>1 DEF Linked
<1>7. OneRow'
  BY <1>2 DEF OneRow
<1>8. ASSUME NEW r \in DOMAIN subscription' PROVE RowRight(subscription[r])'
  BY <1>2
<1>9. \A q \in Procs : JobRight(job[q])'
  <2>1. Idle \in Job
    BY <1>2, IdleIsFine
  <2>2. JobRight(Idle)'
    BY DEF Idle, JobRight
  <2>. QED BY <1>1, <2>1, <2>2, JobsRight
<1>. QED BY <1>3, <1>4, <1>5, <1>6, <1>7, <1>8, <1>9 DEF SerialInv

-----------------------------------------------------------------------------
(* What a step must not do, besides keeping the invariant.                 *)

(* A downgrade is not carried out in the period it was scheduled in.       *)
LateDowngrade ==
  \A r \in DOMAIN subscription :
    LET row == subscription[r] IN
    ( /\ row.ptype = "DOWNGRADE" /\ row.plan # row.pplan
      /\ subscription'[r].sid = row.sid /\ subscription'[r].plan = row.pplan )
      => stripe[row.sid].period > scheduled[row.sid]

(* The plan of the workspace does not fall without a reason at Stripe.     *)
LossJustified ==
  Price[workspace'.plan] < Price[workspace.plan] =>
    \/ \E s \in Subs : Running(s) /\ stripe[s].plan = workspace'.plan
    \/ /\ workspace'.plan = Free
       /\ \E r \in DOMAIN subscription : stripe[subscription[r].sid].status = "canceled"

(* A commit that changes the plan of a row to a pending one.               *)
LEMMA SavedLate ==
  ASSUME TypeInv, SerialInv, NEW p \in Procs, NEW j \in Job, j = job[p], JobOK(j), JobRight(j),
         NEW new \in Row, SaveRow(j, new), j.row = 0 => subscription = << >>,
         j.row # 0 /\ new.sid = j.old.sid /\ j.old.ptype = "DOWNGRADE" /\ j.old.plan # j.old.pplan
           /\ new.plan = j.old.pplan => stripe[new.sid].period > scheduled[new.sid]
  PROVE  LateDowngrade
<1>1. subscription'[1] = new
  BY SavedOne
<1>2. CASE j.row = 0
  <2>1. DOMAIN subscription = {}
    BY <1>2
  <2>. QED BY <2>1 DEF LateDowngrade
<1>3. CASE j.row # 0
  <2>1. DOMAIN subscription = {1} /\ subscription[1] = j.old
    BY <1>3, TheRow
  <2>. QED BY <1>1, <1>3, <2>1 DEF LateDowngrade
<1>. QED BY <1>2, <1>3

(* A step that writes no row, and one that does not change the plan.       *)
LEMMA QuietLate ==
  ASSUME subscription' = subscription
  PROVE  LateDowngrade
BY DEF LateDowngrade

(* A step that leaves the plan of the workspace.                           *)
LEMMA QuietLoss ==
  ASSUME TypeInv, workspace'.plan = workspace.plan
  PROVE  LossJustified
<1>1. Price[workspace.plan] \in Nat
  BY PlansAssumption DEF TypeInv, TypeOK, Workspace
<1>2. ~ (Price[workspace'.plan] < Price[workspace.plan])
  BY <1>1
<1>. QED BY <1>2 DEF LossJustified

(* POST /subscription/update.                                              *)
LEMMA SaveUpdateSerial ==
  ASSUME TypeInv, SerialInv, Serial, NEW p \in Procs, SaveUpdate(p)
  PROVE  SerialInv' /\ LateDowngrade /\ LossJustified
<1>j. PICK j \in Job : j = job[p] /\ JobOK(j) /\ JobRight(j)
  BY JobFacts DEF SerialInv
<1>1. /\ j.op = "update" /\ j.pc = "called" /\ Called(j) /\ j.plan \in Paid /\ j.plan \in Plans
      /\ j.row # 0 /\ j.old \in Row /\ j.old.sid \in Subs
      /\ Finish(p) /\ stripe' = stripe /\ events' = events
      /\ scheduled \in [Subs -> Nat]
  BY <1>j, NoRowIsNone DEF SaveUpdate, At, JobRight, JobOK, Job, Row, stripeVars, Paid,
     TypeInv, TypeOK
<1>2. job' = [job EXCEPT ![p] = Idle]
  BY <1>1 DEF Finish
<1>3. /\ stripe[j.old.sid].status = "active" /\ stripe[j.old.sid].plan = j.plan
      /\ Waiting(j.old.sid, "updated")
      /\ \A i \in DOMAIN events : events[i].type = "updated"
  BY <1>1 DEF Called
<1>4. \A u, t : t # "updated" => ~ Due(u, t)
  BY <1>j, <1>1, <1>3, OneWorker DEF Due, Waiting
<1>5. Due(j.old.sid, "updated")'
  BY <1>1, <1>2, <1>3, FinishedDue
<1>6. RowRight(j.old) /\ \A u \in Subs : Growing(u) => j.old.sid = u
  <2>1. DOMAIN subscription = {1} /\ subscription[1] = j.old
    BY <1>j, <1>1, TheRow
  <2>2. \A u \in Subs : Growing(u) => \E r \in DOMAIN subscription : subscription[r].sid = u
    BY <1>4 DEF SerialInv, Linked
  <2>. QED BY <2>1, <2>2 DEF SerialInv
<1>7. /\ j.old.status = "ACTIVE" /\ j.old.period # 0 /\ workspace.plan = j.old.plan
  BY <1>3, <1>4, <1>6 DEF RowRight
<1>8. CASE Price[j.plan] > Price[j.old.plan]
  <2> DEFINE new == [ClearPending(j.old) EXCEPT !.plan = j.plan]
  <2>1. SaveRow(j, new) /\ SavePlan(j, j.plan) /\ scheduled' = scheduled
    BY <1>j, <1>8 DEF SaveUpdate
  <2>2. /\ new \in Row /\ new.sid = j.old.sid /\ new.status = j.old.status /\ new.plan = j.plan
        /\ new.period = j.old.period /\ new.ptype = "NONE"
    BY <1>1 DEF ClearPending, Row
  <2>. HIDE DEF new
  <2>3. workspace'.plan = j.plan
    BY <1>j, <1>1, <2>1, SavedPlanIs
  <2>4. RowRight(new)'
    BY <1>1, <1>3, <1>5, <1>7, <2>2, <2>3 DEF RowRight
  <2>5. SerialInv'
    BY <1>j, <1>1, <1>6, <2>1, <2>2, <2>4, SavedSerial
  <2>6. ~ (j.old.ptype = "DOWNGRADE" /\ new.plan = j.old.pplan)
    <3>1. Price[j.plan] \in Nat /\ Price[j.old.plan] \in Nat
      BY <1>1, PlansAssumption DEF Row
    <3>2. j.old.ptype = "DOWNGRADE" => Price[j.old.pplan] <= Price[j.old.plan]
      BY <1>6 DEF RowRight
    <3>. QED BY <1>8, <2>2, <3>1, <3>2
  <2>7. LateDowngrade
    BY <1>j, <1>1, <2>1, <2>2, <2>6, SavedLate
  <2>8. LossJustified
    BY <1>1, <1>3, <2>3 DEF LossJustified, Running
  <2>. QED BY <2>5, <2>7, <2>8
<1>9. CASE ~ (Price[j.plan] > Price[j.old.plan])
  <2> DEFINE new == [j.old EXCEPT !.pplan = j.plan, !.ptype = "DOWNGRADE"]
  <2>1. /\ SaveRow(j, new) /\ workspace' = workspace
        /\ scheduled' = [scheduled EXCEPT ![j.old.sid] = stripe[j.old.sid].period]
    BY <1>j, <1>9 DEF SaveUpdate
  <2>2. /\ new \in Row /\ new.sid = j.old.sid /\ new.status = j.old.status /\ new.plan = j.old.plan
        /\ new.period = j.old.period /\ new.ptype = "DOWNGRADE" /\ new.pplan = j.plan
    BY <1>1 DEF Row
  <2>3. Price[j.plan] <= Price[j.old.plan]
    <3>1. Price[j.plan] \in Nat /\ Price[j.old.plan] \in Nat
      BY <1>1, PlansAssumption DEF Row
    <3>. QED BY <1>9, <3>1
  <2>. HIDE DEF new
  <2>4. RowRight(new)'
    BY <1>1, <1>3, <1>5, <1>7, <2>1, <2>2, <2>3 DEF RowRight
  <2>5. \A u \in Subs : \/ scheduled'[u] = scheduled[u]
                        \/ /\ scheduled'[u] = stripe[u].period /\ stripe[u].status = "active"
                           /\ \A i \in DOMAIN events : events[i].type = "updated"
    BY <1>1, <1>3, <2>1
  <2>6. SerialInv'
    BY <1>j, <1>1, <1>6, <2>1, <2>2, <2>4, <2>5, SavedSerial
  <2>7. LateDowngrade
    BY <1>j, <1>1, <2>1, <2>2, SavedLate
  <2>. QED BY <2>1, <2>6, <2>7, QuietLoss
<1>. QED BY <1>8, <1>9

(* POST /subscription/cancel, which finds the period that the first invoice*)
(* has written.                                                            *)
LEMMA SaveCancelSerial ==
  ASSUME TypeInv, SerialInv, Serial, NEW p \in Procs, SaveCancel(p)
  PROVE  SerialInv' /\ LateDowngrade /\ LossJustified /\ (CancelsTold => CancelsTold')
<1>j. PICK j \in Job : j = job[p] /\ JobOK(j) /\ JobRight(j)
  BY JobFacts DEF SerialInv
<1>1. /\ j.op = "cancel" /\ j.pc = "called" /\ Called(j)
      /\ j.row # 0 /\ j.old \in Row /\ j.old.sid \in Subs
      /\ Finish(p) /\ stripe' = stripe /\ events' = events /\ scheduled' = scheduled
      /\ workspace' = workspace
  BY <1>j, NoRowIsNone DEF SaveCancel, At, JobRight, JobOK, Job, Row, stripeVars
<1>2. job' = [job EXCEPT ![p] = Idle]
  BY <1>1 DEF Finish
<1>3. /\ stripe[j.old.sid].status = "active" /\ stripe[j.old.sid].cancel
      /\ Waiting(j.old.sid, "updated")
      /\ \A i \in DOMAIN events : events[i].type = "updated"
  BY <1>1 DEF Called
<1>4. \A u, t : t # "updated" => ~ Due(u, t)
  BY <1>j, <1>1, <1>3, OneWorker DEF Due, Waiting
<1>5. Due(j.old.sid, "updated")'
  BY <1>1, <1>2, <1>3, FinishedDue
<1>6. RowRight(j.old) /\ \A u \in Subs : Growing(u) => j.old.sid = u
  <2>1. DOMAIN subscription = {1} /\ subscription[1] = j.old
    BY <1>j, <1>1, TheRow
  <2>2. \A u \in Subs : Growing(u) => \E r \in DOMAIN subscription : subscription[r].sid = u
    BY <1>4 DEF SerialInv, Linked
  <2>. QED BY <2>1, <2>2 DEF SerialInv
<1>7. /\ j.old.status = "ACTIVE" /\ j.old.period # 0 /\ workspace.plan = j.old.plan
  BY <1>3, <1>4, <1>6 DEF RowRight
<1> DEFINE new == [j.old EXCEPT !.cancel = TRUE, !.pplan = Free, !.ptype = "CANCEL_TO_FREE"]
<1>8. SaveRow(j, new)
  BY <1>j DEF SaveCancel
<1>9. /\ new \in Row /\ new.sid = j.old.sid /\ new.status = j.old.status /\ new.plan = j.old.plan
      /\ new.period = j.old.period /\ new.ptype = "CANCEL_TO_FREE"
  BY <1>1, PlansAssumption DEF Row
<1>. HIDE DEF new
<1>10. RowRight(new)'
  BY <1>1, <1>3, <1>5, <1>7, <1>9 DEF RowRight
<1>11. SerialInv'
  BY <1>j, <1>1, <1>6, <1>8, <1>9, <1>10, SavedSerial
<1>12. subscription'[j.row].period # 0
  <2>1. subscription'[1] = new /\ j.row = 1
    BY <1>j, <1>1, <1>8, <1>9, SavedOne
  <2>. QED BY <1>7, <1>9, <2>1
<1>13. CancelsTold => CancelsTold'
  BY <1>j, <1>12 DEF SaveCancel, CancelsTold
<1>14. LateDowngrade
  BY <1>j, <1>1, <1>8, <1>9, SavedLate
<1>. QED BY <1>1, <1>11, <1>13, <1>14, QuietLoss

(* What the handlers of events and of the success page know: what waits    *)
(* besides what they have in hand.                                         *)
LEMMA HandlerFacts ==
  ASSUME TypeInv, SerialInv, Serial, NEW p \in Procs, NEW j \in Job, j = job[p], JobOK(j),
         JobRight(j), j.op \in {"complete", "webhook"}
  PROVE  /\ Handling(j) /\ j.sub \in Subs /\ j.ev \in Event /\ j.ev.sub = j.sub
         /\ EventRight(j.ev) /\ j.ev.period \in Nat /\ j.ev.cancel \in BOOLEAN
         /\ stripe[j.sub] \in StripeSub /\ StripeRight(j.sub) /\ StripeOK(stripe[j.sub])
         /\ \A u, t : Due(u, t) /\ t # j.ev.type => Waiting(u, t)
         /\ \A u : ~ Changing(u)
<1>1. Handling(j) /\ j.sub \in Subs /\ j.ev \in Event /\ j.ev.sub = j.sub /\ EventRight(j.ev)
  BY DEF JobRight, JobOK, Handling
<1>2. j.ev.period \in Nat /\ j.ev.cancel \in BOOLEAN
  BY <1>1 DEF Event
<1>3. stripe[j.sub] \in StripeSub /\ StripeRight(j.sub) /\ StripeOK(stripe[j.sub])
  BY <1>1 DEF TypeInv, TypeOK, SerialInv
<1>4. (\A u, t : Due(u, t) /\ t # j.ev.type => Waiting(u, t)) /\ \A u : ~ Changing(u)
  BY OneWorker DEF Due
<1>. QED BY <1>1, <1>2, <1>3, <1>4

(* A session that was paid: the success page, and the event.               *)
LEMMA SaveCompleteSerial ==
  ASSUME TypeInv, SerialInv, Serial, NEW p \in Procs, SaveComplete(p) \/ SaveCompleted(p)
  PROVE  SerialInv' /\ LateDowngrade /\ LossJustified
<1>j. PICK j \in Job : j = job[p] /\ JobOK(j) /\ JobRight(j)
  BY JobFacts DEF SerialInv
<1>1. /\ j.op \in {"complete", "webhook"} /\ j.pc = "loaded" /\ Finish(p)
      /\ stripe' = stripe /\ events' = events /\ scheduled' = scheduled
      /\ SaveComplete(p) => j.op = "complete"
      /\ SaveCompleted(p) => j.op = "webhook" /\ j.ev.type = "completed"
  BY <1>j DEF SaveComplete, SaveCompleted, Handles, At, stripeVars, ghostVars
<1>2. job' = [job EXCEPT ![p] = Idle]
  BY <1>1 DEF Finish
<1>3. /\ Handling(j) /\ j.sub \in Subs /\ j.ev \in Event /\ j.ev.sub = j.sub
      /\ EventRight(j.ev) /\ j.ev.period \in Nat
      /\ stripe[j.sub] \in StripeSub /\ StripeRight(j.sub) /\ StripeOK(stripe[j.sub])
      /\ \A u, t : Due(u, t) /\ t # j.ev.type => Waiting(u, t)
  BY <1>j, <1>1, HandlerFacts
<1>4. /\ j.ev.type \in {"completed", "return"} /\ (j.row = 0 => subscription = << >>)
      /\ SaveComplete(p) => j.ev.type = "return"
  BY <1>1, <1>3 DEF Handling
<1>5. /\ Growing(j.sub) /\ stripe[j.sub].plan = stripe[j.sub].meta
      /\ j.ev.period = stripe[j.sub].period /\ stripe[j.sub].status = "active"
      /\ stripe[j.sub].cancel = FALSE /\ stripe[j.sub].period # 0
      /\ stripe[j.sub].meta \in Plans
      /\ scheduled[j.sub] < stripe[j.sub].period
      /\ j.ev.type = "completed" => Due(j.sub, "paid")
  BY <1>3, <1>4 DEF EventRight, Payment, Growing, StripeRight, StripeOK, Paid, StripeSub
<1>6. \A u \in Subs : Growing(u) => u = j.sub
  BY <1>3, <1>5 DEF SerialInv, Linked
<1>7. j.old \in Row \cup {NoRow}
  BY DEF Job
<1> DEFINE sub(st) == Subscribed(j.old, j.sub, stripe[j.sub].meta, st)
<1>8. ASSUME NEW st \in RowStatus
      PROVE  /\ sub(st) \in Row /\ sub(st).sid = j.sub /\ sub(st).plan = stripe[j.sub].meta
             /\ sub(st).status = st /\ sub(st).cancel = FALSE /\ sub(st).ptype = "NONE"
  <2>1. CASE j.old = NoRow
    BY <1>3, <1>5, <2>1 DEF Subscribed, NewRow, Row, RowStatus
  <2>2. CASE j.old # NoRow
    <3>1. j.old \in Row
      BY <1>7, <2>2
    <3>. QED BY <1>3, <1>5, <2>2, <3>1 DEF Subscribed, ClearPending, Row, RowStatus
  <2>. QED BY <2>1, <2>2
<1>9. CASE SaveComplete(p)
  <2> DEFINE row == [sub("ACTIVE") EXCEPT !.period = j.ev.period]
  <2>1. SaveRow(j, row) /\ SavePlan(j, stripe[j.sub].meta)
    BY <1>j, <1>9 DEF SaveComplete
  <2>2. /\ sub("ACTIVE") \in Row /\ sub("ACTIVE").sid = j.sub
        /\ sub("ACTIVE").plan = stripe[j.sub].meta /\ sub("ACTIVE").status = "ACTIVE"
        /\ sub("ACTIVE").cancel = FALSE /\ sub("ACTIVE").ptype = "NONE"
    BY <1>8 DEF RowStatus
  <2>. HIDE DEF sub
  <2>r. /\ row \in Row /\ row.sid = j.sub /\ row.plan = stripe[j.sub].meta
        /\ row.status = "ACTIVE" /\ row.cancel = FALSE /\ row.ptype = "NONE"
        /\ row.period = j.ev.period
    BY <1>3, <2>2 DEF Row
  <2>. HIDE DEF row
  <2>3. PICK new \in Row :
           /\ new = row /\ new.sid = j.sub /\ new.plan = stripe[j.sub].meta
           /\ new.status = "ACTIVE" /\ new.cancel = FALSE /\ new.ptype = "NONE"
           /\ new.period = j.ev.period
    BY <2>r
  <2>4. workspace'.plan = stripe[j.sub].meta
    BY <1>j, <1>1, <1>5, <2>1, SavedPlanIs
  <2>5. RowRight(new)'
    BY <1>1, <1>5, <2>3, <2>4 DEF RowRight
  <2>6. SerialInv'
    BY <1>j, <1>1, <1>4, <1>6, <2>1, <2>3, <2>5, SavedSerial
  <2>7. LateDowngrade
    BY <1>j, <1>4, <1>5, <2>1, <2>3, SavedLate
  <2>8. LossJustified
    BY <1>3, <1>5, <2>4 DEF LossJustified, Running
  <2>. QED BY <2>6, <2>7, <2>8
<1>10. CASE SaveCompleted(p)
  <2> DEFINE st == IF j.old # NoRow /\ j.old.status = "ACTIVE" THEN "ACTIVE" ELSE "INCOMPLETE"
             row == sub(st)
  <2>1. SaveRow(j, row)
    BY <1>j, <1>10 DEF SaveCompleted
  <2>2. st \in {"ACTIVE", "INCOMPLETE"} /\ st \in RowStatus
    BY DEF RowStatus
  <2>3. PICK new \in Row :
           /\ new = row /\ new.sid = j.sub /\ new.plan = stripe[j.sub].meta
           /\ new.cancel = FALSE /\ new.ptype = "NONE"
    BY <1>8, <2>2
  <2>4. j.ev.type = "completed" /\ Waiting(j.sub, "paid")
    BY <1>1, <1>3, <1>5, <1>10
  <2>5. Due(j.sub, "paid")'
    BY <1>1, <1>2, <2>4, FinishedDue
  <2>. HIDE DEF row, sub, st
  <2>6. RowRight(new)'
    BY <1>1, <1>5, <2>3, <2>5 DEF RowRight
  <2>7. SerialInv'
    BY <1>j, <1>1, <1>4, <1>6, <2>1, <2>3, <2>6, SavedSerial
  <2>8. LateDowngrade
    BY <1>j, <1>4, <1>5, <2>1, <2>3, SavedLate
  <2>9. workspace' = workspace
    BY <1>10 DEF SaveCompleted
  <2>. QED BY <2>7, <2>8, <2>9, QuietLoss
<1>. QED BY <1>9, <1>10

(* What an invoice makes of the row it has found.                          *)
LEMMA PaidRowIs ==
  ASSUME NEW j \in Job, j.old \in Row, j.ev.period \in Nat,
         j.old.ptype = "DOWNGRADE" => j.old.pplan \in Plans
  PROVE  /\ PaidRow(j) \in Row /\ PaidRow(j).sid = j.old.sid /\ PaidRow(j).status = "ACTIVE"
         /\ PaidRow(j).period = j.ev.period /\ PaidRow(j).cancel = j.old.cancel
         /\ PaidRow(j).plan = IF j.old.ptype = "DOWNGRADE" THEN j.old.pplan ELSE j.old.plan
         /\ PaidRow(j).ptype = IF j.old.ptype = "DOWNGRADE" THEN "NONE" ELSE j.old.ptype
<1>1. CASE j.old.ptype = "DOWNGRADE"
  <2>1. PaidRow(j) = [j.old EXCEPT !.pplan = NoPlan, !.ptype = "NONE", !.plan = j.old.pplan,
                                   !.status = "ACTIVE", !.period = j.ev.period]
    BY <1>1, NoRowIsNone DEF PaidRow, ClearPending, Row
  <2>. QED BY <1>1, <2>1 DEF Row, RowStatus
<1>2. CASE j.old.ptype # "DOWNGRADE"
  <2>1. PaidRow(j) = [j.old EXCEPT !.status = "ACTIVE", !.period = j.ev.period]
    BY <1>2, NoRowIsNone DEF PaidRow
  <2>. QED BY <1>2, <2>1 DEF Row, RowStatus
<1>. QED BY <1>1, <1>2

(* What a paid invoice, an update and an end find of their row, and what   *)
(* they must leave of it.                                                  *)
LEMMA FoundSerial ==
  ASSUME TypeInv, SerialInv, Serial, NEW p \in Procs, NEW j \in Job, j = job[p], JobOK(j),
         JobRight(j), j.op = "webhook", j.row # 0, j.ev.type \in {"paid", "updated", "deleted"},
         NEW new \in Row, new.sid = j.old.sid, SaveRow(j, new),
         Finish(p), stripe' = stripe, events' = events, scheduled' = scheduled,
         RowRight(new)'
  PROVE  SerialInv'
<1>1. /\ DOMAIN subscription = {1} /\ subscription[1] = j.old
  BY TheRow
<1>2. \A u, t : Due(u, t) /\ t # j.ev.type => Waiting(u, t)
  BY HandlerFacts
<1>3. ASSUME NEW u \in Subs, Growing(u) PROVE new.sid = u \/ Waiting(u, "completed")
  <2>1. (\E r \in DOMAIN subscription : subscription[r].sid = u) \/ Due(u, "completed")
    BY <1>3 DEF SerialInv, Linked
  <2>2. Due(u, "completed") => Waiting(u, "completed")
    BY <1>2
  <2>. QED BY <1>1, <2>1, <2>2
<1>. QED BY <1>3, SavedSerial

(* A paid invoice: the pending downgrade takes effect.                     *)
LEMMA SavePaidSerial ==
  ASSUME TypeInv, SerialInv, Serial, NEW p \in Procs, SavePaid(p)
  PROVE  SerialInv' /\ LateDowngrade /\ LossJustified
<1>j. PICK j \in Job : j = job[p] /\ JobOK(j) /\ JobRight(j)
  BY JobFacts DEF SerialInv
<1>1. /\ j.op = "webhook" /\ j.pc = "loaded" /\ j.ev.type = "paid" /\ Finish(p)
      /\ stripe' = stripe /\ events' = events /\ scheduled' = scheduled
      /\ SaveRow(j, PaidRow(j)) /\ SavePlan(j, PaidRow(j).plan)
  BY <1>j DEF SavePaid, Handles, At, stripeVars, ghostVars
<1>2. job' = [job EXCEPT ![p] = Idle]
  BY <1>1 DEF Finish
<1>3. /\ Handling(j) /\ j.ev.sub = j.sub /\ EventRight(j.ev) /\ j.ev.period \in Nat
      /\ StripeRight(j.sub) /\ j.sub \in Subs
      /\ \A u, t : Due(u, t) /\ t # j.ev.type => Waiting(u, t)
      /\ \A u : ~ Changing(u)
  BY <1>j, <1>1, HandlerFacts
<1>4. /\ stripe[j.sub].status = "active" /\ j.ev.period = stripe[j.sub].period
      /\ stripe[j.sub].period >= 1 /\ ~ stripe[j.sub].cancel
      /\ scheduled[j.sub] < stripe[j.sub].period
  BY <1>1, <1>3 DEF EventRight, StripeRight, Payment, Growing
<1>5. j.row # 0
  BY <1>j, <1>1, <1>3, PaidFound
<1>6. /\ j.old \in Row /\ RowRight(j.old) /\ j.old.sid = j.sub
  BY <1>j, <1>1, <1>3, <1>5, TheRow DEF Handling
<1>7. j.old.ptype = "DOWNGRADE" => j.old.pplan \in Plans
  BY <1>6 DEF RowRight, Paid
<1>8. PICK new \in Row :
      /\ new = PaidRow(j) /\ new.sid = j.old.sid /\ new.status = "ACTIVE"
      /\ new.period = j.ev.period /\ new.cancel = j.old.cancel
      /\ new.plan = IF j.old.ptype = "DOWNGRADE" THEN j.old.pplan ELSE j.old.plan
      /\ new.ptype = IF j.old.ptype = "DOWNGRADE" THEN "NONE" ELSE j.old.ptype
  BY <1>3, <1>6, <1>7, PaidRowIs
<1>9. SaveRow(j, new) /\ SavePlan(j, new.plan)
  BY <1>1, <1>8
<1>10. workspace'.plan = new.plan
  <2>1. new.plan \in Plans /\ j.op # "none"
    BY <1>1, <1>8 DEF Row
  <2>. QED BY <1>j, <1>9, <2>1, SavedPlanIs
<1>11. Due(j.sub, "updated") => Due(j.sub, "updated")'
  <2>1. Due(j.sub, "updated") => Waiting(j.sub, "updated")
    BY <1>1, <1>3
  <2>. QED BY <1>1, <1>2, <2>1, FinishedDue
<1>12. /\ new.cancel = stripe[j.sub].cancel \/ Due(j.sub, "updated")
       /\ new.ptype = "NONE" => new.plan = stripe[j.sub].plan
       /\ new.ptype = "CANCEL_TO_FREE" => stripe[j.sub].cancel
  <2>1. j.old.ptype \in {"NONE", "DOWNGRADE", "CANCEL_TO_FREE"}
    BY <1>6 DEF Row
  <2>2. /\ j.old.cancel = stripe[j.sub].cancel \/ Due(j.sub, "updated")
        /\ j.old.ptype = "NONE" => j.old.plan = stripe[j.sub].plan
        /\ j.old.ptype = "DOWNGRADE" => j.old.pplan = stripe[j.sub].plan
        /\ j.old.ptype = "CANCEL_TO_FREE" => stripe[j.sub].cancel
    BY <1>3, <1>4, <1>6 DEF RowRight
  <2>. QED BY <1>8, <2>1, <2>2
<1>13. RowRight(new)'
  BY <1>1, <1>4, <1>6, <1>8, <1>10, <1>11, <1>12 DEF RowRight
<1>14. SerialInv'
  BY <1>j, <1>1, <1>5, <1>8, <1>9, <1>13, FoundSerial
<1>15. LateDowngrade
  BY <1>j, <1>4, <1>5, <1>6, <1>8, <1>9, SavedLate
<1>16. LossJustified
  <2>1. new.ptype # "CANCEL_TO_FREE"
    BY <1>4, <1>12
  <2>2. new.plan = stripe[j.sub].plan
    BY <1>8, <1>12, <2>1 DEF Row
  <2>. QED BY <1>3, <1>4, <1>10, <2>2 DEF LossJustified, Running
<1>. QED BY <1>14, <1>15, <1>16

(* A subscription was updated: status, period and cancel_at_period_end.    *)
LEMMA SaveUpdatedSerial ==
  ASSUME TypeInv, SerialInv, Serial, NEW p \in Procs, SaveUpdated(p)
  PROVE  SerialInv' /\ LateDowngrade /\ LossJustified
<1>j. PICK j \in Job : j = job[p] /\ JobOK(j) /\ JobRight(j)
  BY JobFacts DEF SerialInv
<1>1. /\ j.op = "webhook" /\ j.pc = "loaded" /\ j.ev.type = "updated" /\ Finish(p)
      /\ stripe' = stripe /\ events' = events /\ scheduled' = scheduled /\ workspace' = workspace
      /\ j.row # 0
  BY <1>j DEF SaveUpdated, Handles, Applies, At, stripeVars, ghostVars, JobOK
<1>2. job' = [job EXCEPT ![p] = Idle]
  BY <1>1 DEF Finish
<1>3. /\ Handling(j) /\ j.ev.sub = j.sub /\ EventRight(j.ev) /\ j.ev.period \in Nat
      /\ j.ev.cancel \in BOOLEAN /\ StripeRight(j.sub)
      /\ \A u, t : Due(u, t) /\ t # j.ev.type => Waiting(u, t)
      /\ \A u : ~ Changing(u)
  BY <1>j, <1>1, HandlerFacts
<1>4. /\ stripe[j.sub].status = "active" /\ j.ev.active /\ j.ev.period = stripe[j.sub].period
      /\ j.ev.cancel = stripe[j.sub].cancel /\ stripe[j.sub].period >= 1
  BY <1>1, <1>3 DEF EventRight, StripeRight
<1>5. /\ j.old \in Row /\ RowRight(j.old) /\ j.old.sid = j.sub
  BY <1>j, <1>1, <1>3, TheRow DEF Handling
<1> DEFINE new == [j.old EXCEPT !.status = IF j.ev.active THEN "ACTIVE" ELSE @,
                                !.period = j.ev.period, !.cancel = j.ev.cancel]
<1>6. SaveRow(j, new)
  BY <1>j DEF SaveUpdated
<1>7. /\ new \in Row /\ new.sid = j.old.sid /\ new.status = "ACTIVE"
      /\ new.period = j.ev.period /\ new.cancel = j.ev.cancel
      /\ new.plan = j.old.plan /\ new.ptype = j.old.ptype /\ new.pplan = j.old.pplan
  BY <1>3, <1>4, <1>5 DEF Row, RowStatus
<1>. HIDE DEF new
<1>8. Due(j.sub, "paid") => Due(j.sub, "paid")'
  <2>1. Due(j.sub, "paid") => Waiting(j.sub, "paid")
    BY <1>1, <1>3
  <2>. QED BY <1>1, <1>2, <2>1, FinishedDue
<1>9. /\ j.old.ptype = "NONE" => j.old.plan = stripe[j.sub].plan
      /\ j.old.ptype = "DOWNGRADE" => j.old.pplan = stripe[j.sub].plan
      /\ j.old.ptype = "DOWNGRADE" =>
           j.old.pplan \in Paid /\ Price[j.old.pplan] <= Price[j.old.plan]
      /\ j.old.ptype = "CANCEL_TO_FREE" => stripe[j.sub].cancel
      /\ workspace.plan = j.old.plan \/ Due(j.sub, "paid")
  BY <1>3, <1>4, <1>5 DEF RowRight
<1>10. RowRight(new)'
  BY <1>1, <1>4, <1>5, <1>7, <1>8, <1>9 DEF RowRight
<1>11. SerialInv'
  BY <1>j, <1>1, <1>6, <1>7, <1>10, FoundSerial
<1>12. LateDowngrade
  BY <1>j, <1>1, <1>6, <1>7, SavedLate
<1>. QED BY <1>1, <1>11, <1>12, QuietLoss

(* A subscription has ended.                                               *)
LEMMA SaveDeletedSerial ==
  ASSUME TypeInv, SerialInv, Serial, NEW p \in Procs, SaveDeleted(p)
  PROVE  SerialInv' /\ LateDowngrade /\ LossJustified
<1>j. PICK j \in Job : j = job[p] /\ JobOK(j) /\ JobRight(j)
  BY JobFacts DEF SerialInv
<1>1. /\ j.op = "webhook" /\ j.pc = "loaded" /\ j.ev.type = "deleted" /\ Finish(p)
      /\ stripe' = stripe /\ events' = events /\ scheduled' = scheduled
      /\ SavePlan(j, Free) /\ j.row # 0
  BY <1>j DEF SaveDeleted, Handles, Applies, At, stripeVars, ghostVars, JobOK
<1>2. job' = [job EXCEPT ![p] = Idle]
  BY <1>1 DEF Finish
<1>3. /\ Handling(j) /\ j.ev.sub = j.sub /\ EventRight(j.ev)
      /\ \A u, t : Due(u, t) /\ t # j.ev.type => Waiting(u, t)
  BY <1>j, <1>1, HandlerFacts
<1>4. stripe[j.sub].status = "canceled"
  BY <1>1, <1>3 DEF EventRight
<1>5. /\ j.old \in Row /\ RowRight(j.old) /\ j.old.sid = j.sub
  BY <1>j, <1>1, <1>3, TheRow DEF Handling
<1> DEFINE new == [ClearPending(j.old) EXCEPT !.status = "CANCELED", !.cancel = FALSE,
                                              !.plan = Free]
<1>6. SaveRow(j, new)
  BY <1>j DEF SaveDeleted
<1>7. /\ new \in Row /\ new.sid = j.old.sid /\ new.status = "CANCELED" /\ new.plan = Free
      /\ new.ptype = "NONE" /\ new.period = j.old.period
  BY <1>5, PlansAssumption DEF Row, RowStatus, ClearPending
<1>. HIDE DEF new
<1>8. Due(j.sub, "paid") => Due(j.sub, "paid")'
  <2>1. Due(j.sub, "paid") => Waiting(j.sub, "paid")
    BY <1>1, <1>3
  <2>. QED BY <1>1, <1>2, <2>1, FinishedDue
<1>9. workspace'.plan = Free
  BY <1>j, <1>1, SavedPlanIs, PlansAssumption
<1>10. j.old.period = 0 => Due(j.sub, "paid")
  BY <1>5 DEF RowRight
<1>11. RowRight(new)'
  BY <1>1, <1>4, <1>5, <1>7, <1>8, <1>9, <1>10 DEF RowRight
<1>12. SerialInv'
  BY <1>j, <1>1, <1>6, <1>7, <1>11, FoundSerial
<1>13. LateDowngrade
  <2>1. ~ (j.old.ptype = "DOWNGRADE" /\ new.plan = j.old.pplan)
    BY <1>5, <1>7 DEF RowRight, Paid
  <2>. QED BY <1>j, <1>1, <1>6, <1>7, <2>1, SavedLate
<1>14. LossJustified
  <2>1. DOMAIN subscription = {1} /\ subscription[1] = j.old
    BY <1>j, <1>1, TheRow
  <2>. QED BY <1>4, <1>5, <1>9, <2>1 DEF LossJustified
<1>. QED BY <1>12, <1>13, <1>14

-----------------------------------------------------------------------------
(* All steps together.                                                     *)

(* At the start there is nothing to be wrong.                              *)
LEMMA SerialInit == Init => SerialInv
<1>. SUFFICES ASSUME Init PROVE SerialInv
  OBVIOUS
<1>1. \A s \in Subs : StripeRight(s) /\ ~ Growing(s)
  BY DEF Init, StripeRight, Growing
<1>2. \A p \in Procs : JobRight(job[p])
  BY DEF Init, Idle, JobRight
<1>3. DOMAIN events = {} /\ DOMAIN subscription = {} /\ Len(subscription) = 0
  BY DEF Init
<1>. QED BY <1>1, <1>2, <1>3 DEF SerialInv, InOrder, Linked, OneRow

(* Steps that write no row and leave the plan of the workspace.            *)
LEMMA QuietSteps ==
  ASSUME TypeInv, SerialInv, Serial, NEW p \in Procs,
         \/ Request(p) \/ Return(p) \/ Claim(p)
         \/ CreateCustomer(p) \/ SaveCustomer(p) \/ OpenSession(p)
         \/ ModifyPlan(p) \/ ModifyCancel(p) \/ StripeRefuses(p) \/ EventFails(p)
  PROVE  /\ SerialInv' /\ LateDowngrade /\ LossJustified /\ (CancelsTold => CancelsTold')
<1>1. subscription' = subscription /\ (CancelsTold => CancelsTold')
  BY DEF Request, LoadCheckout, LoadCreate, LoadUpdate, LoadCancel, Load, Replay, Return,
     LoadComplete, Claim, CreateCustomer, SaveCustomer, OpenSession, ModifyPlan, ModifyCancel,
     StripeRefuses, EventFails, AnswerError, CancelsTold, dbVars, ghostVars
<1>2. workspace'.plan = workspace.plan
  <2>1. CASE SaveCustomer(p)
    BY <2>1 DEF SaveCustomer, TypeInv, TypeOK, Workspace
  <2>2. CASE ~ SaveCustomer(p)
    BY <2>2 DEF Request, LoadCheckout, LoadCreate, LoadUpdate, LoadCancel, Load, Replay, Return,
       LoadComplete, Claim, CreateCustomer, OpenSession, ModifyPlan, ModifyCancel,
       StripeRefuses, EventFails, AnswerError, dbVars
  <2>. QED BY <2>1, <2>2
<1>3. SerialInv'
  BY RequestSerial, ReturnSerial, ClaimSerial, CustomerSerial, OpenSerial, ModifySerial, EndedSerial
<1>. QED BY <1>1, <1>2, <1>3, QuietLate, QuietLoss

(* Steps that commit a row.                                                *)
LEMMA SaveSteps ==
  ASSUME TypeInv, SerialInv, Serial, NEW p \in Procs,
         \/ SaveUpdate(p) \/ SaveCancel(p) \/ SaveComplete(p) \/ SaveCompleted(p)
         \/ SavePaid(p) \/ SaveUpdated(p) \/ SaveDeleted(p)
  PROVE  /\ SerialInv' /\ LateDowngrade /\ LossJustified /\ (CancelsTold => CancelsTold')
<1>1. CASE SaveCancel(p)
  BY <1>1, SaveCancelSerial
<1>2. CASE ~ SaveCancel(p)
  <2>1. CancelsTold => CancelsTold'
    BY <1>2 DEF SaveUpdate, SaveComplete, SaveCompleted, SavePaid, SaveUpdated,
       SaveDeleted, ghostVars, CancelsTold
  <2>. QED BY <1>2, <2>1, SaveUpdateSerial, SaveCompleteSerial, SavePaidSerial,
              SaveUpdatedSerial, SaveDeletedSerial
<1>. QED BY <1>1, <1>2

(* Steps that take a hazard: POST /subscription, a payment that is         *)
(* declined, an exception.                                                 *)
LEMMA HazardSteps ==
  ASSUME TypeInv, SerialInv, Serial, NEW p \in Procs
  PROVE  ~ CreateSubscription(p) /\ ~ SaveCreate(p) /\ ~ SavePaymentFailed(p) /\ ~ Fault(p)
<1>j. PICK j \in Job : j = job[p] /\ JobRight(j)
  BY JobFacts DEF SerialInv
<1>1. ~ CreateSubscription(p) /\ ~ SaveCreate(p)
  BY <1>j DEF CreateSubscription, SaveCreate, HasCustomer, At, JobRight
<1>2. ~ SavePaymentFailed(p)
  BY <1>j DEF SavePaymentFailed, Handles, At, JobRight, Handling, EventRight
<1>3. ~ Fault(p)
  BY DEF Fault, Serial
<1>. QED BY <1>1, <1>2, <1>3

(* Every step keeps the invariant, and does nothing it must not do.        *)
LEMMA SerialStep ==
  ASSUME TypeInv, SerialInv, Serial, Next
  PROVE  /\ SerialInv' /\ LateDowngrade /\ LossJustified /\ (CancelsTold => CancelsTold')
<1>1. ASSUME NEW s \in Subs, Stripe(s)
      PROVE  /\ SerialInv' /\ LateDowngrade /\ LossJustified /\ (CancelsTold => CancelsTold')
  <2>1. StripeOnly
    BY <1>1 DEF Stripe, PayCheckout, PayFirstInvoice, Renew, RenewFails, Recover, End
  <2>2. subscription' = subscription /\ workspace'.plan = workspace.plan
        /\ (CancelsTold => CancelsTold')
    BY <2>1 DEF StripeOnly, dbVars, ghostVars, CancelsTold
  <2>. QED BY <1>1, <2>2, StripeSerial, QuietLate, QuietLoss
<1>2. CASE Leave
  <2>1. subscription' = subscription /\ workspace'.plan = workspace.plan
        /\ (CancelsTold => CancelsTold')
    BY <1>2 DEF Leave, dbVars, ghostVars, CancelsTold
  <2>. QED BY <1>2, <2>1, LeaveSerial, QuietLate, QuietLoss
<1>3. ASSUME NEW p \in Procs, Request(p) \/ Return(p) \/ Claim(p) \/ Step(p) \/ Fault(p)
      PROVE  /\ SerialInv' /\ LateDowngrade /\ LossJustified /\ (CancelsTold => CancelsTold')
  <2>1. ~ CreateSubscription(p) /\ ~ SaveCreate(p) /\ ~ SavePaymentFailed(p) /\ ~ Fault(p)
    BY HazardSteps
  <2>2. \/ Request(p) \/ Return(p) \/ Claim(p)
        \/ CreateCustomer(p) \/ SaveCustomer(p) \/ OpenSession(p)
        \/ ModifyPlan(p) \/ ModifyCancel(p) \/ StripeRefuses(p) \/ EventFails(p)
        \/ SaveUpdate(p) \/ SaveCancel(p) \/ SaveComplete(p) \/ SaveCompleted(p)
        \/ SavePaid(p) \/ SaveUpdated(p) \/ SaveDeleted(p)
    BY <1>3, <2>1 DEF Step
  <2>. QED BY <2>2, QuietSteps, SaveSteps
<1>. QED BY <1>1, <1>2, <1>3 DEF Next

(* A step that changes nothing.                                            *)
LEMMA SerialStutter ==
  ASSUME SerialInv, UNCHANGED vars
  PROVE  SerialInv' /\ (CancelsTold => CancelsTold')
<1>1. /\ UNCHANGED <<workspace, subscription, stripe, customers, events, priced, job>>
      /\ UNCHANGED <<requests, replays, scheduled, misreported>>
  BY DEF vars, dbVars, stripeVars, ghostVars
<1>2. \A s, t : /\ Waiting(s, t)' <=> Waiting(s, t)
                /\ Due(s, t)' <=> Due(s, t)
  BY <1>1 DEF Due, Waiting, InHand
<1>3. \A s : Growing(s)' <=> Growing(s)
  BY <1>1 DEF Growing
<1>4. \A s : Changing(s)' <=> Changing(s)
  BY <1>1 DEF Changing
<1>5. \A s \in Subs : StripeRight(s)'
  BY <1>1 DEF SerialInv, StripeRight
<1>6. \A e : EventRight(e) => EventRight(e)'
  BY <1>1, <1>2, <1>3 DEF EventRight
<1>7. InOrder'
  BY <1>1 DEF SerialInv, InOrder
<1>8. Linked'
  BY <1>1, <1>2, <1>3 DEF SerialInv, Linked
<1>9. OneRow'
  BY <1>1 DEF SerialInv, OneRow
<1>10. ASSUME NEW row, RowRight(row) PROVE RowRight(row)'
  BY <1>1, <1>2, <1>4, <1>10 DEF RowRight
<1>11. ASSUME NEW j, JobRight(j) PROVE JobRight(j)'
  <2>1. Called(j) => Called(j)'
    BY <1>1, <1>2 DEF Called
  <2>2. Handling(j) => Handling(j)'
    BY <1>1, <1>2, <1>6 DEF Handling
  <2>. QED BY <1>1, <1>11, <2>1, <2>2 DEF JobRight
<1>12. (\A i \in DOMAIN events : EventRight(events[i]))'
  BY <1>1, <1>6 DEF SerialInv
<1>13. (\A r \in DOMAIN subscription : RowRight(subscription[r]))'
  BY <1>1, <1>10 DEF SerialInv
<1>14. (\A p \in Procs : JobRight(job[p]))'
  BY <1>1, <1>11 DEF SerialInv
<1>. QED BY <1>1, <1>5, <1>7, <1>8, <1>9, <1>12, <1>13, <1>14 DEF SerialInv, CancelsTold

(* The customer. All steps but two leave it alone.                         *)
LEMMA CustomerKept ==
  ASSUME TypeInv, Serial, CustomerInv, NEW p \in Procs, NEW n \in Job,
         job[p].pc # "customer", job' = [job EXCEPT ![p] = n], n.pc # "customer",
         n.op = "checkout" /\ n.pc = "loaded" => n.ws.customer = workspace.customer,
         customers' = customers, workspace'.customer = workspace.customer
  PROVE  CustomerInv'
<1>1. \A q \in Procs : job'[q] = n
  BY OneWorkerNext
<1>2. CustomerRight(job[p])
  BY DEF CustomerInv
<1>. QED BY <1>1, <1>2 DEF CustomerInv, CustomerRight

(* A job begins with the customer of the workspace.                        *)
LEMMA BeginCustomer ==
  ASSUME TypeInv, Serial, CustomerInv, NEW p \in Procs, Request(p) \/ Return(p) \/ Claim(p)
  PROVE  CustomerInv'
<1> DEFINE Begins == /\ job[p].pc = "idle" /\ customers' = customers /\ workspace' = workspace
                     /\ \E n : job' = [job EXCEPT ![p] = n] /\ n.pc = "loaded" /\ n.ws = workspace
<1>1. ASSUME NEW op, NEW plan, NEW r, Load(p, op, plan, r) PROVE Begins
  <2> DEFINE n == [Idle EXCEPT !.pc = "loaded", !.op = op, !.plan = plan,
                               !.row = r, !.old = Loaded(r), !.ws = workspace]
  <2>1. n.pc = "loaded" /\ n.ws = workspace
    BY DEF Idle
  <2>2. job' = [job EXCEPT ![p] = n]
    BY <1>1 DEF Load
  <2>. HIDE DEF n
  <2>. QED BY <1>1, <2>1, <2>2 DEF Load, dbVars, stripeVars
<1>2. ASSUME NEW s, LoadComplete(p, s) PROVE Begins
  <2>1. PICK r \in AnyRow :
          job' = [job EXCEPT ![p] = [Idle EXCEPT !.pc = "loaded", !.op = "complete", !.sub = s,
                    !.ev = [type |-> "return", sub |-> s, active |-> TRUE,
                            period |-> stripe[s].period, cancel |-> FALSE],
                    !.row = r, !.old = Loaded(r), !.ws = workspace]]
    BY <1>2 DEF LoadComplete
  <2> DEFINE n == [Idle EXCEPT !.pc = "loaded", !.op = "complete", !.sub = s,
                    !.ev = [type |-> "return", sub |-> s, active |-> TRUE,
                            period |-> stripe[s].period, cancel |-> FALSE],
                    !.row = r, !.old = Loaded(r), !.ws = workspace]
  <2>2. n.pc = "loaded" /\ n.ws = workspace
    BY DEF Idle
  <2>3. job' = [job EXCEPT ![p] = n]
    BY <2>1
  <2>. HIDE DEF n
  <2>. QED BY <1>2, <2>2, <2>3 DEF LoadComplete, dbVars
<1>3. ASSUME Claim(p) PROVE Begins
  <2>1. PICK e, r :
          job' = [job EXCEPT ![p] = [Idle EXCEPT !.pc = "loaded", !.op = "webhook", !.sub = e.sub,
                                     !.ev = e, !.row = r, !.old = Loaded(r), !.ws = workspace]]
    BY <1>3 DEF Claim
  <2> DEFINE n == [Idle EXCEPT !.pc = "loaded", !.op = "webhook", !.sub = e.sub,
                               !.ev = e, !.row = r, !.old = Loaded(r), !.ws = workspace]
  <2>2. n.pc = "loaded" /\ n.ws = workspace
    BY DEF Idle
  <2>3. job' = [job EXCEPT ![p] = n]
    BY <2>1
  <2>. HIDE DEF n
  <2>. QED BY <1>3, <2>2, <2>3 DEF Claim, dbVars
<1>4. ASSUME Request(p) PROVE Begins
  <2>1. (\E op, plan, r : Load(p, op, plan, r)) \/ \E s : LoadComplete(p, s)
    BY <1>4 DEF Request, LoadCheckout, LoadCreate, LoadUpdate, LoadCancel, Replay
  <2>. QED BY <1>1, <1>2, <2>1
<1>5. ASSUME Return(p) PROVE Begins
  <2>1. \E s : LoadComplete(p, s)
    BY <1>5 DEF Return
  <2>. QED BY <1>2, <2>1
<1>6. PICK n : job' = [job EXCEPT ![p] = n] /\ n.pc = "loaded" /\ n.ws = workspace
  BY <1>3, <1>4, <1>5
<1>7. TypeInv'
  BY TypeStep DEF Next
<1>8. n = job'[p] /\ n \in Job
  BY <1>6, <1>7 DEF TypeInv, TypeOK
<1>. QED BY <1>3, <1>4, <1>5, <1>6, <1>8, CustomerKept

(* So does a job that ends, or calls Stripe, or commits something else.    *)
LEMMA EndCustomer ==
  ASSUME TypeInv, Serial, CustomerInv, NEW p \in Procs,
         \/ OpenSession(p) \/ ModifyPlan(p) \/ ModifyCancel(p) \/ StripeRefuses(p) \/ EventFails(p)
         \/ SaveUpdate(p) \/ SaveCancel(p) \/ SaveComplete(p) \/ SaveCompleted(p)
         \/ SavePaid(p) \/ SaveUpdated(p) \/ SaveDeleted(p)
  PROVE  CustomerInv'
<1>j. PICK j \in Job : j = job[p]
  BY JobFacts
<1>1. /\ j.pc # "customer" /\ customers' = customers
      /\ Finish(p) \/ job' = [job EXCEPT ![p] = [j EXCEPT !.pc = "called"]]
  BY <1>j DEF OpenSession, ModifyPlan, ModifyCancel, StripeRefuses, EventFails, SaveUpdate,
     SaveCancel, SaveComplete, SaveCompleted, SavePaid, SaveUpdated, SaveDeleted, Handles,
     HasCustomer, At, AnswerError, stripeVars
<1>2. workspace'.customer = workspace.customer
  <2>1. workspace' = workspace \/ \E plan : workspace' = [workspace EXCEPT !.plan = plan]
    BY DEF OpenSession, ModifyPlan, ModifyCancel, StripeRefuses, EventFails, SaveUpdate,
       SaveCancel, SaveComplete, SaveCompleted, SavePaid, SaveUpdated, SaveDeleted,
       AnswerError, SavePlan, dbVars
  <2>. QED BY <2>1 DEF TypeInv, TypeOK, Workspace
<1>3. PICK n \in Job : job' = [job EXCEPT ![p] = n] /\ n.pc \in {"idle", "called"}
  <2>1. Idle \in Job /\ Idle.pc = "idle"
    BY DEF Idle, Job, Op
  <2>2. [j EXCEPT !.pc = "called"] \in Job
    BY DEF Job
  <2>. QED BY <1>1, <2>1, <2>2 DEF Finish, Job
<1>. QED BY <1>j, <1>1, <1>2, <1>3, CustomerKept

(* get_stripe_customer_id makes one only if there is none.                 *)
LEMMA CustomerStep ==
  ASSUME TypeInv, SerialInv, Serial, CustomerInv, [Next]_vars
  PROVE  CustomerInv'
<1>1. CASE UNCHANGED <<workspace, customers, job>>
  BY <1>1 DEF CustomerInv, CustomerRight
<1>2. CASE UNCHANGED vars \/ Leave \/ \E s \in Subs : Stripe(s)
  BY <1>1, <1>2 DEF vars, Leave, Stripe, PayCheckout, PayFirstInvoice, Renew, RenewFails, Recover,
     End, StripeOnly, dbVars, stripeVars
<1>3. ASSUME NEW p \in Procs, Request(p) \/ Return(p) \/ Claim(p) \/ Step(p) \/ Fault(p)
      PROVE  CustomerInv'
  <2>j. PICK j \in Job : j = job[p] /\ JobOK(j) /\ JobRight(j) /\ CustomerRight(j)
    BY JobFacts DEF SerialInv, CustomerInv
  <2>t. workspace \in Workspace /\ customers \in Nat
    BY DEF TypeInv, TypeOK
  <2>1. CASE CreateCustomer(p)
    <3>1. j.op = "checkout" /\ j.pc = "loaded" /\ j.ws.customer = 0 /\ j.ws \in Workspace
      BY <2>1, <2>j DEF CreateCustomer, At, JobRight, JobOK
    <3> DEFINE n == [j EXCEPT !.pc = "customer", !.ws.customer = 1]
    <3>2. workspace.customer = 0 /\ customers = 0
      BY <2>j, <3>1 DEF CustomerRight
    <3>3. customers' = 1 /\ workspace' = workspace
      BY <2>1, <3>2 DEF CreateCustomer, dbVars
    <3>6. job' = [job EXCEPT ![p] = n]
      BY <2>1, <2>j, <3>3 DEF CreateCustomer
    <3>4. n \in Job /\ n.pc = "customer" /\ n.ws.customer = 1
      BY <3>1 DEF Job, Workspace
    <3>. HIDE DEF n
    <3>5. \A q \in Procs : job'[q] = n
      BY <3>4, <3>6, OneWorkerNext
    <3>. QED BY <3>2, <3>3, <3>4, <3>5 DEF CustomerInv, CustomerRight
  <2>2. CASE SaveCustomer(p)
    <3>1. j.pc = "customer" /\ customers = 1 /\ j.ws.customer = 1
      BY <2>2, <2>j DEF SaveCustomer, At, CustomerRight
    <3> DEFINE n == [j EXCEPT !.pc = "saved"]
    <3>2. n \in Job /\ n.pc = "saved"
      BY DEF Job
    <3>3. customers' = 1 /\ workspace'.customer = 1 /\ job' = [job EXCEPT ![p] = n]
      BY <2>2, <2>j, <2>t, <3>1 DEF SaveCustomer, stripeVars, Workspace
    <3>. HIDE DEF n
    <3>4. \A q \in Procs : job'[q] = n
      BY <3>2, <3>3, OneWorkerNext
    <3>. QED BY <3>2, <3>3, <3>4 DEF CustomerInv, CustomerRight
  <2>. QED BY <1>3, <2>1, <2>2, HazardSteps, BeginCustomer, EndCustomer DEF Step
<1>. QED BY <1>2, <1>3 DEF Next

(* The invariant of the serial case.                                       *)
THEOREM SerialHolds ==
  ASSUME Serial
  PROVE  Spec => [](TypeInv /\ SerialInv /\ CancelsTold /\ CustomerInv)
<1> DEFINE I == TypeInv /\ SerialInv /\ CancelsTold /\ CustomerInv
<1>1. Init => I
  <2>1. Init => CustomerInv
    BY DEF Init, Idle, CustomerInv, CustomerRight
  <2>. QED BY <2>1, TypeInit, SerialInit DEF Init, CancelsTold
<1>2. I /\ [Next]_vars => I'
  BY TypeStep, SerialStep, SerialStutter, CustomerStep
<1>. QED BY <1>1, <1>2, PTL DEF Spec

-----------------------------------------------------------------------------
(* The properties, for requests and events that are taken one after the    *)
(* other.                                                                  *)

(* When every event has been handled, each row agrees with its Stripe      *)
(* subscription column by column, and the workspace is on its plan         *)
(* (handle_event of stripe_task.py and the requests of stripe_service.py). *)
THEOREM RowsMirrorStripe ==
  ASSUME Serial
  PROVE  Spec => []Synchronised
<1>1. ASSUME TypeInv, SerialInv PROVE Synchronised
  <2>1. SUFFICES ASSUME Calm, NEW r \in DOMAIN subscription
                 PROVE  /\ Mirrors(subscription[r], stripe[subscription[r].sid])
                        /\ subscription[r].status # "INCOMPLETE" =>
                             workspace.plan = subscription[r].plan
    BY DEF Synchronised
  <2>2. (\A s, t : ~ Due(s, t)) /\ \A s : ~ Changing(s)
    BY <1>1, <2>1, CalmIsIdle
  <2>3. PICK row \in Row : row = subscription[r]
    BY <1>1, <2>1 DEF TypeInv, TypeOK
  <2>4. LET s == stripe[row.sid] IN
        /\ s.status \in {"active", "canceled"}
        /\ s.status = "active" =>
             /\ row.status = "ACTIVE" /\ row.period = s.period /\ row.cancel = s.cancel
             /\ row.ptype = "NONE" => row.plan = s.plan
             /\ row.ptype = "DOWNGRADE" => row.pplan = s.plan
        /\ s.status = "canceled" => row.status = "CANCELED" /\ row.plan = Free
        /\ row.ptype = "CANCEL_TO_FREE" => s.cancel
        /\ row.period # 0 /\ workspace.plan = row.plan
    BY <1>1, <2>1, <2>2, <2>3, SettledRow
  <2>5. Mirrors(row, stripe[row.sid])
    BY <2>3, <2>4 DEF Mirrors, Row
  <2>. QED BY <2>3, <2>4, <2>5
<1>. QED BY <1>1, SerialHolds, PTL

(* The workspace never has a second row.                                   *)
THEOREM OneRowOnly ==
  ASSUME Serial
  PROVE  Spec => []OneRow
<1>1. SerialInv => OneRow
  BY DEF SerialInv
<1>. QED BY <1>1, SerialHolds, PTL

(* "An active subscription already exists" is said only while one is       *)
(* running at Stripe (create_checkout_session_service).                    *)
THEOREM Refusals ==
  ASSUME Serial
  PROVE  Spec => []RefusalJustified
<1>1. ASSUME TypeInv, SerialInv PROVE RefusalJustified
  <2>1. SUFFICES ASSUME Calm, NEW r \in DOMAIN subscription,
                        CheckoutRefused(subscription[r])
                          \/ ("create" \in Hazards /\ CreateRefused(subscription[r]))
                 PROVE  \E s \in Subs : Running(s) \/ stripe[s].status = "incomplete"
    BY DEF RefusalJustified
  <2>2. (\A s, t : ~ Due(s, t)) /\ \A s : ~ Changing(s)
    BY <1>1, <2>1, CalmIsIdle
  <2>3. PICK row \in Row : row = subscription[r] /\ row.sid \in Subs
    <3>1. PICK row \in Row : row = subscription[r]
      BY <1>1, <2>1 DEF TypeInv, TypeOK
    <3>. QED BY <3>1 DEF Row
  <2>4. row.status # "CANCELED"
    BY <2>1, <2>3 DEF CheckoutRefused, Serial
  <2>5. stripe[row.sid].status = "active"
    BY <1>1, <2>1, <2>2, <2>3, <2>4, SettledRow
  <2>. QED BY <2>3, <2>5 DEF Running
<1>. QED BY <1>1, SerialHolds, PTL

(* A request that answers with an error has left the subscription alone (a *)
(* row that can be cancelled has its period), and at most one customer is  *)
(* ever made at Stripe, which every later request uses, also when the first*)
(* request was refused after committing it (get_stripe_customer_id).       *)
THEOREM FailureIsHarmless ==
  ASSUME Serial
  PROVE  Spec => []FailedRequestIsHarmless
<1>1. ASSUME CancelsTold, CustomerInv PROVE FailedRequestIsHarmless
  <2>1. ASSUME NEW p \in Procs, Calm PROVE workspace.customer = customers
    BY <1>1, <2>1 DEF Calm, CustomerInv, CustomerRight
  <2>. QED BY <1>1, <2>1 DEF FailedRequestIsHarmless, CancelsTold, CustomerInv
<1>. QED BY <1>1, SerialHolds, PTL

(* A downgrade is carried out by the invoice of a later period than the one*)
(* it was scheduled in (update_subscription_service, handle_event).        *)
THEOREM DowngradesWait ==
  ASSUME Serial
  PROVE  Spec => DowngradeNextCycle
<1>1. TypeInv /\ SerialInv /\ [Next]_vars => [LateDowngrade]_vars
  BY SerialStep
<1>. QED BY <1>1, SerialHolds, PTL DEF Spec, DowngradeNextCycle, LateDowngrade

(* The plan of the workspace falls only to what Stripe bills for, or to    *)
(* FREE at the end of a subscription.                                      *)
THEOREM PlanFallsForAReason ==
  ASSUME Serial
  PROVE  Spec => NoSilentLoss
<1>1. TypeInv /\ SerialInv /\ [Next]_vars => [LossJustified]_vars
  BY SerialStep
<1>. QED BY <1>1, SerialHolds, PTL DEF Spec, NoSilentLoss, LossJustified
=============================================================================
