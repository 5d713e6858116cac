------------------------ MODULE BillingContractProofs ------------------------
(***************************************************************************)
(* Taken one after the other, the requests and handlers of Billing         *)
(* implement SubscriptionContract, for any plans, prices, sessions, periods*)
(* and numbers of requests: every change of the plan of the workspace has  *)
(* the cause that the contract names.                                      *)
(***************************************************************************)
EXTENDS BillingSerialProofs

(* The events of a payment come in the first period, and when the invoice  *)
(* was handled before them the row is already that of the session.         *)
PurchaseRight ==
  \A s \in Subs : Due(s, "completed") \/ Due(s, "return") =>
    /\ stripe[s].period = 1
    /\ \/ Due(s, "paid")
       \/ /\ HasRow
          /\ subscription[1].sid = s /\ subscription[1].ptype = "NONE"
          /\ subscription[1].plan = stripe[s].plan

(* The workspace waits for the plan of its row in the first period only.   *)
PlanRight ==
  HasRow => \/ workspace.plan = subscription[1].plan
            \/ /\ stripe[subscription[1].sid].period = 1
               /\ Due(subscription[1].sid, "paid")

(* The end of a subscription comes alone.                                  *)
EndAlone ==
  /\ \A i \in DOMAIN events : events[i].type = "deleted" =>
       DOMAIN events = {i} /\ \A p \in Procs : job[p].op \notin {"complete", "webhook"}
  /\ \A p \in Procs : job[p].op \in {"complete", "webhook"} /\ job[p].ev.type = "deleted" =>
       events = << >>

ContractInv == PurchaseRight /\ PlanRight /\ EndAlone

(* What each step has to be.                                               *)
Keeps == [Contract!Next]_(Contract!contractVars)

-----------------------------------------------------------------------------
(* What the contract sees of a state.                                      *)

(* A step that changes nothing the contract knows of.                      *)
LEMMA Unseen ==
  ASSUME workspace'.plan = workspace.plan, Pending' = Pending, Ripe' = Ripe,
         Bought' = Bought, Over' = Over
  PROVE  Keeps
  BY DEF Keeps, Contract!contractVars

(* The row before a step, and after it.                                    *)
LEMMA RowBefore ==
  ASSUME DOMAIN subscription = {1}, NEW row, row = subscription[1]
  PROVE  /\ HasRow
         /\ Pending = IF row.ptype # "NONE" THEN row.pplan ELSE NoPlan
         /\ Ripe = (row.ptype = "DOWNGRADE" /\ stripe[row.sid].period > scheduled[row.sid])
         /\ Over = Due(row.sid, "deleted")
<1>1. HasRow = TRUE
  BY DEF HasRow
<1>2. Over = Due(row.sid, "deleted")
  BY <1>1 DEF Over, Due
<1>. QED BY <1>1, <1>2 DEF Pending, Ripe

(* What the contract sees after a commit of the one row.                   *)
LEMMA RowAfter ==
  ASSUME DOMAIN subscription' = {1}, NEW row, row = subscription'[1]
  PROVE  /\ HasRow'
         /\ Pending' = IF row.ptype # "NONE" THEN row.pplan ELSE NoPlan
         /\ Ripe' = (row.ptype = "DOWNGRADE" /\ stripe'[row.sid].period > scheduled'[row.sid])
         /\ Over' = (Due(row.sid, "deleted"))'
<1>1. HasRow' = TRUE
  BY DEF HasRow
<1>2. Over' = (Due(row.sid, "deleted"))'
  BY <1>1 DEF Over, Due, Waiting, InHand
<1>. QED BY <1>1, <1>2 DEF Pending, Ripe

(* A row that stays, with its subscription in the same period.             *)
LEMMA RowUnseen ==
  ASSUME subscription' = subscription,
         HasRow => /\ stripe'[subscription[1].sid].period = stripe[subscription[1].sid].period
                   /\ scheduled'[subscription[1].sid] = scheduled[subscription[1].sid]
  PROVE  HasRow' = HasRow /\ Pending' = Pending /\ Ripe' = Ripe
<1>1. HasRow' = HasRow /\ HasRow \in BOOLEAN
  BY DEF HasRow
<1>2. Pending' = Pending
  BY <1>1 DEF Pending
<1>3. Ripe' = Ripe
  BY <1>1 DEF Ripe
<1>. QED BY <1>1, <1>2, <1>3

(* Nothing is bought without an invoice that is due, and nothing is over   *)
(* without an end that is due.                                             *)
LEMMA NoneBought ==
  ASSUME \A s \in Subs : ~ Due(s, "paid")
  PROVE  Bought = {}
<1>1. Settling = {}
  BY DEF Settling
<1>. QED BY <1>1 DEF Bought

(* The same after a step.                                                  *)
LEMMA NoneBoughtNext ==
  ASSUME \A s \in Subs : ~ Due(s, "paid")'
  PROVE  Bought' = {}
<1>1. Settling' = {}
  BY DEF Settling
<1>. QED BY <1>1 DEF Bought

(* Without an end that is due, the contract does not see one.              *)
LEMMA NotOver ==
  ASSUME \A s \in Subs : ~ Due(s, "deleted"), subscription \in Seq(Row)
  PROVE  Over = FALSE
<1>1. HasRow => subscription[1].sid \in Subs
  <2>1. HasRow => 1 \in DOMAIN subscription
    BY DEF HasRow
  <2>2. HasRow => subscription[1] \in Row
    BY <2>1
  <2>. QED BY <2>2 DEF Row
<1>. QED BY <1>1 DEF Over

(* The same after a step.                                                  *)
LEMMA NotOverNext ==
  ASSUME \A s \in Subs : ~ Due(s, "deleted")', subscription' \in Seq(Row)
  PROVE  Over' = FALSE
<1>1. HasRow' => subscription'[1].sid \in Subs
  <2>1. HasRow' => 1 \in DOMAIN subscription'
    BY DEF HasRow
  <2>2. HasRow' => subscription'[1] \in Row
    BY <2>1
  <2>. QED BY <2>2 DEF Row
<1>2. HasRow' => ~ Due(subscription[1].sid, "deleted")'
  BY <1>1 DEF Due, Waiting, InHand
<1>. QED BY <1>2 DEF Over

(* Every event that is due is right.                                       *)
LEMMA DueRight ==
  ASSUME SerialInv, NEW s, NEW t, Due(s, t)
  PROVE  \E e : EventRight(e) /\ e.type = t /\ e.sub = s
<1>1. CASE Waiting(s, t)
  BY <1>1 DEF Waiting, SerialInv
<1>2. CASE InHand(s, t)
  <2>1. PICK p \in Procs : /\ job[p].op \in {"complete", "webhook"}
                           /\ job[p].sub = s /\ job[p].ev.type = t
    BY <1>2 DEF InHand
  <2>2. EventRight(job[p].ev) /\ job[p].ev.sub = job[p].sub
    BY <2>1 DEF SerialInv, JobRight, Handling
  <2>. QED BY <2>1, <2>2
<1>. QED BY <1>1, <1>2 DEF Due

(* Events of a payment are due for a growing subscription only.            *)
LEMMA DuePaid ==
  ASSUME SerialInv, NEW s, NEW t \in Payment, Due(s, t)
  PROVE  Growing(s) /\ stripe[s].status = "active" /\ scheduled[s] < stripe[s].period
<1>1. PICK e : EventRight(e) /\ e.type = t /\ e.sub = s
  BY DueRight
<1>. QED BY <1>1 DEF EventRight, Growing

(* The purchase that is not settled is the one of the subscription that    *)
(* goes on.                                                                *)
LEMMA BoughtIs ==
  ASSUME SerialInv, NEW s \in Subs, Growing(s), stripe[s].period = 1, Due(s, "paid")
  PROVE  Bought = {stripe[s].plan}
<1>1. ASSUME NEW u \in Subs, Due(u, "paid") PROVE u = s
  <2>1. Growing(u)
    BY <1>1, DuePaid DEF Payment
  <2>. QED BY <2>1 DEF SerialInv, Linked
<1>2. Settling = {s}
  BY <1>1 DEF Settling, Growing
<1>. QED BY <1>2 DEF Bought

(* When Stripe stands still, what is handled is no longer to be settled,   *)
LEMMA BoughtLess ==
  ASSUME stripe' = stripe, \A s \in Subs : Due(s, "paid")' => Due(s, "paid")
  PROVE  Bought' \subseteq Bought
<1>1. Settling' \subseteq Settling
  BY DEF Settling
<1>. QED BY <1>1 DEF Bought

(* and what is not handled stays so.                                       *)
LEMMA BoughtSame ==
  ASSUME stripe' = stripe, \A s \in Subs : Due(s, "paid")' <=> Due(s, "paid")
  PROVE  Bought' = Bought
<1>1. Settling' = Settling
  BY DEF Settling
<1>. QED BY <1>1 DEF Bought

-----------------------------------------------------------------------------
(* Steps that write no row.                                                *)

(* The one row, if there is one.                                           *)
LEMMA OnlyRow ==
  ASSUME TypeInv, SerialInv, HasRow
  PROVE  /\ DOMAIN subscription = {1} /\ subscription[1] \in Row
         /\ subscription[1].sid \in Subs /\ RowRight(subscription[1])
<1>1. subscription \in Seq(Row) /\ Len(subscription) <= 1 /\ subscription # << >>
  BY DEF TypeInv, TypeOK, SerialInv, OneRow, HasRow
<1>2. DOMAIN subscription = {1}
  <2>1. PICK n \in Nat : n = Len(subscription) /\ n # 0
    BY <1>1, EmptySeq
  <2>2. Len(subscription) = 1
    BY <1>1, <2>1
  <2>. QED BY <1>1, <2>2
<1>3. subscription[1] \in Row /\ RowRight(subscription[1])
  BY <1>1, <1>2 DEF SerialInv
<1>. QED BY <1>2, <1>3 DEF Row

(* An end that is alone stays so when the worker has finished.             *)
LEMMA FinishedAlone ==
  ASSUME EndAlone, events' = events, \A p \in Procs : job'[p].op \notin {"complete", "webhook"}
  PROVE  EndAlone'
  BY DEF EndAlone

(* Without an end and without a handler, nothing is to be said about ends. *)
LEMMA NoEndAlone ==
  ASSUME \A i \in DOMAIN events' : events'[i].type # "deleted",
         \A p \in Procs : job'[p].op \notin {"complete", "webhook"}
  PROVE  EndAlone'
  BY DEF EndAlone

(* Nothing but "updated" is due, and nothing becomes due but that.         *)
LEMMA SilentContract ==
  ASSUME TypeInv, SerialInv, PlanRight, subscription' = subscription, scheduled' = scheduled,
         workspace'.plan = workspace.plan,
         \A s \in Subs : stripe'[s].period = stripe[s].period,
         \A s \in Subs : ~ Due(s, "paid") /\ ~ Due(s, "deleted"),
         \A s \in Subs : /\ ~ Due(s, "paid")' /\ ~ Due(s, "deleted")'
                         /\ ~ Due(s, "completed")' /\ ~ Due(s, "return")',
         EndAlone'
  PROVE  Keeps /\ ContractInv'
<1>1. subscription \in Seq(Row) /\ subscription' \in Seq(Row)
  BY DEF TypeInv, TypeOK
<1>2. HasRow => subscription[1].sid \in Subs
  BY OnlyRow
<1>3. HasRow' = HasRow /\ Pending' = Pending /\ Ripe' = Ripe
  BY <1>2, RowUnseen
<1>4. Bought = {} /\ Bought' = {} /\ Over = FALSE /\ Over' = FALSE
  BY <1>1, NoneBought, NoneBoughtNext, NotOver, NotOverNext
<1>5. Keeps
  BY <1>3, <1>4, Unseen
<1>6. PurchaseRight'
  BY DEF PurchaseRight
<1>7. PlanRight'
  BY <1>2, <1>3 DEF PlanRight
<1>. QED BY <1>5, <1>6, <1>7 DEF ContractInv

(* The same queue, with a request or nothing in hand.                      *)
LEMMA NothingDueNext ==
  ASSUME events' = << >>, \A p \in Procs : job'[p].op \notin {"complete", "webhook"}
  PROVE  /\ \A s \in Subs : /\ ~ Due(s, "paid")' /\ ~ Due(s, "deleted")'
                            /\ ~ Due(s, "completed")' /\ ~ Due(s, "return")'
         /\ EndAlone'
  BY DEF Due, Waiting, InHand, EndAlone

(* A request that begins is no handler.                                    *)
LEMMA LoadedHand ==
  ASSUME TypeInv, Serial, NEW p \in Procs, NEW op, NEW plan, NEW r, Load(p, op, plan, r)
  PROVE  \A q \in Procs : job'[q].op = op
<1> DEFINE new == [Idle EXCEPT !.pc = "loaded", !.op = op, !.plan = plan,
                               !.row = r, !.old = Loaded(r), !.ws = workspace]
<1>1. new.op = op
  BY DEF Idle
<1>2. job' = [job EXCEPT ![p] = new] /\ job \in [Procs -> Job]
  BY DEF Load, TypeInv, TypeOK
<1>3. \A q \in Procs : q = p
  BY DEF Serial
<1>. HIDE DEF new
<1>. QED BY <1>1, <1>2, <1>3

(* Requests before their call of Stripe, and those it turns down.          *)
LEMMA RequestContract ==
  ASSUME TypeInv, SerialInv, Serial, PlanRight, NEW p \in Procs,
         \/ Request(p) \/ CreateCustomer(p) \/ SaveCustomer(p) \/ OpenSession(p)
         \/ StripeRefuses(p)
  PROVE  Keeps /\ ContractInv'
<1>j. PICK j \in Job : j = job[p] /\ JobOK(j) /\ JobRight(j)
  BY JobFacts DEF SerialInv
<1>t. /\ job \in [Procs -> Job] /\ workspace \in Workspace /\ stripe \in [Subs -> StripeSub]
      /\ \A q \in Procs : q = p
  BY DEF TypeInv, TypeOK, Serial
<1>1. ~ LoadCreate(p) /\ ~ Replay(p)
  <2>1. replays \in Nat /\ ~ (replays < 0)
    BY BoundsAssumption DEF TypeInv, TypeOK
  <2>. QED BY <2>1 DEF LoadCreate, Replay, Serial
<1>2. /\ events = << >> /\ events' = << >> /\ subscription' = subscription
      /\ scheduled' = scheduled /\ \A q \in Procs : job[q].op \notin {"complete", "webhook"}
  <2>1. CASE Request(p)
    <3>1. events' = events /\ subscription' = subscription /\ scheduled' = scheduled /\ Calm
      BY <1>1, <2>1 DEF Request, LoadCheckout, LoadUpdate, LoadCancel, Load,
         MayStart, Serial, dbVars, stripeVars
    <3>2. events = << >> /\ \A q \in Procs : job[q].op = "none"
      BY <3>1, CalmIsIdle
    <3>. QED BY <3>1, <3>2
  <2>2. CASE ~ Request(p)
    <3>1. events' = events /\ subscription' = subscription /\ scheduled' = scheduled
      BY <2>2 DEF CreateCustomer, SaveCustomer, OpenSession, StripeRefuses, AnswerError, dbVars, stripeVars,
         ghostVars
    <3>2. j.op \in {"checkout", "update", "cancel"} /\ j.pc # "called"
      BY <1>j, <2>2 DEF CreateCustomer, SaveCustomer, OpenSession, StripeRefuses, HasCustomer, At, JobRight
    <3>3. events = << >>
      BY <1>j, <3>2 DEF JobRight
    <3>. QED BY <1>j, <1>t, <3>1, <3>2, <3>3
  <2>. QED BY <2>1, <2>2
<1>3. \A q \in Procs : job'[q].op \notin {"complete", "webhook"}
  <2>1. CASE Request(p)
    <3>1. PICK op, r, plan :
            op \in {"checkout", "update", "cancel"} /\ Load(p, op, plan, r)
      BY <1>1, <2>1 DEF Request, LoadCheckout, LoadUpdate, LoadCancel
    <3>. QED BY <3>1, LoadedHand
  <2>2. CASE CreateCustomer(p) \/ SaveCustomer(p)
    <3>1. job'[p].op = j.op
      BY <1>j, <1>t, <2>2 DEF CreateCustomer, SaveCustomer, Job
    <3>. QED BY <1>j, <1>t, <1>2, <3>1
  <2>3. CASE OpenSession(p) \/ StripeRefuses(p)
    <3>1. job'[p] = Idle
      BY <1>t, <2>3 DEF OpenSession, StripeRefuses, AnswerError, Finish
    <3>. QED BY <1>t, <3>1 DEF Idle
  <2>. QED BY <2>1, <2>2, <2>3
<1>4. workspace'.plan = workspace.plan
  <2>1. CASE SaveCustomer(p)
    BY <1>t, <2>1 DEF SaveCustomer, Workspace
  <2>2. CASE ~ SaveCustomer(p)
    BY <1>1, <2>2 DEF Request, LoadCheckout, LoadUpdate, LoadCancel, Load,
       CreateCustomer, OpenSession, StripeRefuses, AnswerError, dbVars
  <2>. QED BY <2>1, <2>2
<1>5. \A s \in Subs : stripe'[s].period = stripe[s].period
  <2>1. CASE OpenSession(p)
    <3>1. PICK s \in Subs : stripe' = [stripe EXCEPT ![s].status = "open", ![s].plan = job[p].plan,
                                                      ![s].meta = job[p].plan]
      BY <2>1 DEF OpenSession
    <3>2. stripe[s] \in StripeSub
      BY <1>t
    <3>3. stripe'[s].period = stripe[s].period /\ \A u \in Subs : u # s => stripe'[u] = stripe[u]
      BY <1>t, <3>1, <3>2 DEF StripeSub
    <3>. QED BY <3>3
  <2>2. CASE ~ OpenSession(p)
    BY <1>1, <2>2 DEF Request, LoadCheckout, LoadUpdate, LoadCancel, Load,
       CreateCustomer, SaveCustomer, StripeRefuses, AnswerError, stripeVars
  <2>. QED BY <2>1, <2>2
<1>6. \A s \in Subs : ~ Due(s, "paid") /\ ~ Due(s, "deleted")
  BY <1>2, NothingDue
<1>. QED BY <1>2, <1>3, <1>4, <1>5, <1>6, NothingDueNext, SilentContract

(* The calls of Stripe of an update and a cancellation.                    *)
LEMMA ModifyContract ==
  ASSUME TypeInv, SerialInv, Serial, PlanRight, NEW p \in Procs, ModifyPlan(p) \/ ModifyCancel(p)
  PROVE  Keeps /\ ContractInv'
<1>j. PICK j \in Job : j = job[p] /\ JobOK(j) /\ JobRight(j)
  BY JobFacts DEF SerialInv
<1>t. /\ job \in [Procs -> Job] /\ stripe \in [Subs -> StripeSub]
      /\ \A q \in Procs : q = p
  BY DEF TypeInv, TypeOK, Serial
<1>1. /\ j.op \in {"update", "cancel"} /\ j.pc = "loaded" /\ j.old \in Row
      /\ UNCHANGED <<subscription, workspace, scheduled>>
      /\ Emit(j.old.sid, <<"updated">>)
  BY <1>j, NoRowIsNone DEF ModifyPlan, ModifyCancel, At, JobOK, Job, dbVars, ghostVars
<1>2. PICK s \in Subs : s = j.old.sid
  BY <1>1 DEF Row
<1>3. events = << >> /\ \A q \in Procs : job[q].op \notin {"complete", "webhook"}
  BY <1>j, <1>t, <1>1 DEF JobRight
<1>4. \A q \in Procs : job'[q].op \notin {"complete", "webhook"}
  <2>1. job' = [job EXCEPT ![p].pc = "called"]
    BY DEF ModifyPlan, ModifyCancel
  <2>2. job'[p].op = j.op
    BY <1>j, <1>t, <2>1 DEF Job
  <2>. QED BY <1>t, <1>1, <2>2
<1>5. \A u \in Subs : stripe'[u].period = stripe[u].period
  <2>1. \/ stripe' = [stripe EXCEPT ![s].plan = job[p].plan]
        \/ stripe' = [stripe EXCEPT ![s].cancel = TRUE]
    BY <1>j, <1>2 DEF ModifyPlan, ModifyCancel
  <2>2. stripe[s] \in StripeSub
    BY <1>t
  <2>3. stripe'[s].period = stripe[s].period /\ \A u \in Subs : u # s => stripe'[u] = stripe[u]
    BY <1>t, <2>1, <2>2 DEF StripeSub
  <2>. QED BY <2>3
<1>6. \A u \in Subs : ~ Due(u, "paid") /\ ~ Due(u, "deleted")
  BY <1>3, NothingDue
<1>7. \A i \in DOMAIN events' : events'[i].type = "updated"
  <2> DEFINE types == <<"updated">>
  <2>1. types \in Seq(EventType) /\ \A i \in DOMAIN types : types[i] = "updated"
    BY EmittedTypes
  <2>2. Emit(s, types)
    BY <1>1, <1>2
  <2>. HIDE DEF types
  <2>. QED BY <1>3, <2>1, <2>2, EmittedFields
<1>8. \A u \in Subs : /\ ~ Due(u, "paid")' /\ ~ Due(u, "deleted")'
                      /\ ~ Due(u, "completed")' /\ ~ Due(u, "return")'
  BY <1>4, <1>7 DEF Due, Waiting, InHand
<1>9. EndAlone'
  BY <1>4, <1>7, NoEndAlone
<1>. QED BY <1>1, <1>5, <1>6, <1>8, <1>9, SilentContract

(* A worker takes an event, or the success page its return: what is due is *)
(* due as before.                                                          *)
LEMMA TakenContract ==
  ASSUME TypeInv, SerialInv, Serial, ContractInv, NEW i \in Deliverable, events' = Without(i),
         NEW p \in Procs, job[p].pc = "idle", NEW n \in Job, job' = [job EXCEPT ![p] = n],
         n.op \in {"complete", "webhook"}, n.sub = events[i].sub, n.ev.type = events[i].type,
         UNCHANGED <<subscription, workspace, stripe, scheduled>>
  PROVE  Keeps /\ ContractInv'
<1>1. i = 1 /\ 1 \in DOMAIN events /\ (\A s, t : Due(s, t) <=> Due(s, t)')
      /\ events' \in Seq(Event) /\ \A q \in Procs : job'[q] = n
  BY DueTaken, TakenQueue, OneWorkerNext
<1>2. \A k \in DOMAIN events' : k + 1 \in DOMAIN events /\ events'[k] = events[k + 1]
  BY FirstTaken
<1>3. HasRow' = HasRow /\ Pending' = Pending /\ Ripe' = Ripe
  BY RowUnseen
<1>4. Bought' = Bought
  <2>1. \A s \in Subs : Due(s, "paid")' <=> Due(s, "paid")
    BY <1>1
  <2>. QED BY <2>1, BoughtSame
<1>5. Over' = Over
  <2>1. PICK sid : sid = subscription[1].sid
    OBVIOUS
  <2>2. Over = (HasRow /\ Due(sid, "deleted"))
    BY <2>1 DEF Over
  <2>3. Over' = (HasRow' /\ Due(sid, "deleted")')
    BY <2>1 DEF Over, Due, Waiting, InHand
  <2>4. Due(sid, "deleted") <=> Due(sid, "deleted")'
    BY <1>1
  <2>. QED BY <1>3, <2>2, <2>3, <2>4
<1>6. PurchaseRight'
  <2>1. ASSUME NEW s \in Subs, Due(s, "completed")' \/ Due(s, "return")'
        PROVE  /\ stripe'[s].period = 1
               /\ \/ Due(s, "paid")'
                  \/ /\ HasRow'
                     /\ subscription'[1].sid = s /\ subscription'[1].ptype = "NONE"
                     /\ subscription'[1].plan = stripe'[s].plan
    <3>1. Due(s, "completed") \/ Due(s, "return")
      BY <1>1, <2>1
    <3>2. Due(s, "paid") <=> Due(s, "paid")'
      BY <1>1
    <3>. QED BY <1>3, <3>1, <3>2 DEF ContractInv, PurchaseRight
  <2>. QED BY <2>1 DEF PurchaseRight
<1>7. PlanRight'
  <2>1. PICK sid : sid = subscription[1].sid
    OBVIOUS
  <2>2. Due(sid, "paid") <=> Due(sid, "paid")'
    BY <1>1
  <2>3. HasRow' => \/ workspace'.plan = subscription'[1].plan
                   \/ stripe'[sid].period = 1 /\ Due(sid, "paid")'
    BY <1>3, <2>1, <2>2 DEF ContractInv, PlanRight
  <2>. QED BY <2>1, <2>3 DEF PlanRight, Due, Waiting, InHand
<1>8. EndAlone'
  <2>1. \A k \in DOMAIN events' : events'[k].type # "deleted"
    <3>. SUFFICES ASSUME NEW k \in DOMAIN events', events'[k].type = "deleted" PROVE FALSE
      OBVIOUS
    <3>1. k + 1 \in DOMAIN events /\ events[k + 1].type = "deleted" /\ k >= 1
      BY <1>1, <1>2
    <3>2. DOMAIN events = {k + 1}
      BY <3>1 DEF ContractInv, EndAlone
    <3>. QED BY <1>1, <3>1, <3>2
  <2>2. ASSUME n.ev.type = "deleted" PROVE events' = << >>
    <3>1. DOMAIN events = {1}
      BY <1>1, <2>2 DEF ContractInv, EndAlone
    <3>2. DOMAIN events' = {}
      BY <1>1, <1>2, <3>1
    <3>. QED BY <1>1, <3>2
  <2>. QED BY <1>1, <2>1, <2>2 DEF EndAlone
<1>. QED BY <1>3, <1>4, <1>5, <1>6, <1>7, <1>8, Unseen DEF ContractInv

(* Taking an event leaves it due.                                          *)
LEMMA ClaimContract ==
  ASSUME TypeInv, TypeInv', SerialInv, Serial, ContractInv, NEW p \in Procs, Claim(p) \/ Return(p)
  PROVE  Keeps /\ ContractInv'
<1>t. job \in [Procs -> Job] /\ job' \in [Procs -> Job]
  BY DEF TypeInv, TypeOK
<1>1. CASE Claim(p)
  <2>1. PICK i \in Deliverable :
          LET e == events[i] IN
          /\ e.type # "return" /\ job[p].pc = "idle"
          /\ events' = Without(i)
          /\ \E r \in IF e.type = "completed" THEN AnyRow ELSE RowOf(e.sub) :
               job' = [job EXCEPT ![p] = [Idle EXCEPT !.pc = "loaded", !.op = "webhook", !.sub = e.sub,
                                          !.ev = e, !.row = r, !.old = Loaded(r), !.ws = workspace]]
          /\ UNCHANGED <<dbVars, stripe, customers, priced, ghostVars>>
    BY <1>1 DEF Claim
  <2>2. PICK e, r :
          /\ e = events[i]
          /\ job' = [job EXCEPT ![p] = [Idle EXCEPT !.pc = "loaded", !.op = "webhook", !.sub = e.sub,
                                        !.ev = e, !.row = r, !.old = Loaded(r), !.ws = workspace]]
    BY <2>1
  <2>3. PICK n \in Job : n = job'[p] /\ job' = [job EXCEPT ![p] = n]
    BY <1>t, <2>2
  <2>4. n.op = "webhook" /\ n.sub = e.sub /\ n.ev = e
    BY <1>t, <2>2, <2>3 DEF Idle
  <2>5. UNCHANGED <<subscription, workspace, stripe, scheduled>>
    BY <2>1 DEF dbVars, ghostVars
  <2>6. /\ events' = Without(i) /\ job[p].pc = "idle"
        /\ n.sub = events[i].sub /\ n.ev.type = events[i].type
    BY <2>1, <2>2, <2>4
  <2>. QED BY <2>3, <2>4, <2>5, <2>6, TakenContract
<1>2. CASE Return(p)
  <2>1. PICK i \in Deliverable :
          /\ events[i].type = "return" /\ events' = Without(i) /\ LoadComplete(p, events[i].sub)
    BY <1>2 DEF Return
  <2>2. PICK s : s = events[i].sub
    OBVIOUS
  <2> DEFINE ev == [type |-> "return", sub |-> s, active |-> TRUE,
                    period |-> stripe[s].period, cancel |-> FALSE]
  <2>3. ev.type = "return"
    OBVIOUS
  <2>4. PICK r :
          job' = [job EXCEPT ![p] = [Idle EXCEPT !.pc = "loaded", !.op = "complete", !.sub = s,
                                     !.ev = ev, !.row = r, !.old = Loaded(r), !.ws = workspace]]
    BY <2>1, <2>2 DEF LoadComplete
  <2>. HIDE DEF ev
  <2>5. PICK n \in Job : n = job'[p] /\ job' = [job EXCEPT ![p] = n]
    BY <1>t, <2>4
  <2>6. n.op = "complete" /\ n.sub = s /\ n.ev = ev
    BY <1>t, <2>4, <2>5 DEF Idle
  <2>7. UNCHANGED <<subscription, workspace, stripe, scheduled>> /\ job[p].pc = "idle"
    BY <2>1 DEF LoadComplete, dbVars
  <2>8. events' = Without(i) /\ n.sub = events[i].sub /\ n.ev.type = events[i].type
    BY <2>1, <2>2, <2>3, <2>6
  <2>. QED BY <2>5, <2>6, <2>7, <2>8, TakenContract
<1>. QED BY <1>1, <1>2

(* The page is closed, or a worker finds no row for an event.              *)
LEMMA LostContract ==
  ASSUME TypeInv, SerialInv, Serial, ContractInv,
         UNCHANGED <<subscription, workspace, stripe, scheduled>>,
         \A s \in Subs : Due(s, "paid")' <=> Due(s, "paid"),
         HasRow => (Due(subscription[1].sid, "deleted") <=> Due(subscription[1].sid, "deleted")'),
         \A s \in Subs : Due(s, "completed")' => Due(s, "completed"),
         \A s \in Subs : Due(s, "return")' => Due(s, "return"),
         EndAlone'
  PROVE  Keeps /\ ContractInv'
<1>1. HasRow' = HasRow /\ Pending' = Pending /\ Ripe' = Ripe
  BY RowUnseen
<1>2. Bought' = Bought
  BY BoughtSame
<1>3. Over' = Over
  BY <1>1 DEF Over, HasRow
<1>4. PurchaseRight'
  <2>1. ASSUME NEW s \in Subs, Due(s, "completed")' \/ Due(s, "return")'
        PROVE  /\ stripe'[s].period = 1
               /\ \/ Due(s, "paid")'
                  \/ /\ HasRow'
                     /\ subscription'[1].sid = s /\ subscription'[1].ptype = "NONE"
                     /\ subscription'[1].plan = stripe'[s].plan
    BY <1>1, <2>1 DEF ContractInv, PurchaseRight
  <2>. QED BY <2>1 DEF PurchaseRight
<1>5. PlanRight'
  <2>1. CASE HasRow
    <3>1. PICK s \in Subs : s = subscription[1].sid
      BY <2>1, OnlyRow
    <3>2. workspace'.plan = subscription'[1].plan \/ (stripe'[s].period = 1 /\ Due(s, "paid")')
      BY <2>1, <3>1 DEF ContractInv, PlanRight
    <3>. QED BY <3>1, <3>2 DEF PlanRight, Due, Waiting, InHand
  <2>2. CASE ~ HasRow
    BY <1>1, <2>2 DEF PlanRight
  <2>. QED BY <2>1, <2>2
<1>. QED BY <1>1, <1>2, <1>3, <1>4, <1>5, Unseen DEF ContractInv

(* A page that is closed before the return.                                *)
LEMMA LeaveContract ==
  ASSUME TypeInv, SerialInv, Serial, ContractInv, Leave
  PROVE  Keeps /\ ContractInv'
<1>1. PICK i \in Deliverable :
        /\ events[i].type = "return" /\ events' = Without(i)
        /\ UNCHANGED <<dbVars, stripe, customers, priced, job, ghostVars>>
  BY DEF Leave
<1>2. UNCHANGED <<subscription, workspace, stripe, scheduled, job>> /\ i = 1 /\ 1 \in DOMAIN events
  BY <1>1, FirstTaken DEF dbVars, ghostVars
<1>3. \A s, t : Waiting(s, t) <=> Waiting(s, t)' \/ (events[1].sub = s /\ events[1].type = t)
  BY <1>1, WaitingTaken
<1>4. \A s, t : /\ Due(s, t)' => Due(s, t)
                /\ t # "return" => (Due(s, t) => Due(s, t)')
  BY <1>1, <1>2, <1>3 DEF Due, InHand
<1>5. \A s \in Subs : Due(s, "paid")' <=> Due(s, "paid")
  BY <1>4
<1>6. \A s \in Subs : (Due(s, "completed")' => Due(s, "completed"))
                      /\ (Due(s, "return")' => Due(s, "return"))
  BY <1>4
<1>7. HasRow => (Due(subscription[1].sid, "deleted") <=> Due(subscription[1].sid, "deleted")')
  <2>1. PICK s : s = subscription[1].sid
    OBVIOUS
  <2>2. Due(s, "deleted") <=> Due(s, "deleted")'
    BY <1>4
  <2>. QED BY <1>2, <2>1, <2>2 DEF Due, Waiting, InHand
<1>8. EndAlone'
  <2>1. \A k \in DOMAIN events' : k + 1 \in DOMAIN events /\ events'[k] = events[k + 1]
    BY <1>1, FirstTaken
  <2>2. events' \in Seq(Event)
    BY <1>1, TakenQueue
  <2>3. ASSUME NEW k \in DOMAIN events', events'[k].type = "deleted" PROVE FALSE
    <3>1. k + 1 \in DOMAIN events /\ events[k + 1].type = "deleted" /\ k \in Nat /\ k >= 1
      BY <2>1, <2>2, <2>3
    <3>2. DOMAIN events = {k + 1}
      BY <3>1 DEF ContractInv, EndAlone
    <3>. QED BY <1>2, <3>1, <3>2
  <2>4. \A p \in Procs : ~ (job'[p].op \in {"complete", "webhook"} /\ job'[p].ev.type = "deleted")
    BY <1>2 DEF ContractInv, EndAlone
  <2>. QED BY <2>3, <2>4 DEF EndAlone
<1>. QED BY <1>2, <1>5, <1>6, <1>7, <1>8, LostContract

(* An event that the handlers turn down changes no row.                    *)
LEMMA EventFailsContract ==
  ASSUME TypeInv, SerialInv, Serial, ContractInv, NEW p \in Procs, EventFails(p)
  PROVE  Keeps /\ ContractInv'
<1>j. PICK j \in Job : j = job[p] /\ JobOK(j) /\ JobRight(j)
  BY JobFacts DEF SerialInv
<1>1. /\ job' = [job EXCEPT ![p] = Idle] /\ events' = events
      /\ UNCHANGED <<subscription, workspace, stripe, scheduled>>
      /\ j.op = "webhook" /\ ~ Applies(j)
  BY <1>j DEF EventFails, Finish, At, dbVars, stripeVars, ghostVars
<1>2. /\ Handling(j) /\ j.ev.sub = j.sub /\ j.ev \in Event /\ EventRight(j.ev)
      /\ \A u, t : Due(u, t) /\ t # j.ev.type => Waiting(u, t)
  BY <1>j, <1>1, HandlerFacts
<1>3. j.ev.type # "completed" /\ j.ev.type # "paid"
  <2>1. j.ev.type # "completed"
    BY <1>1 DEF Applies
  <2>2. ASSUME j.ev.type = "paid" PROVE FALSE
    <3>1. j.row # 0
      BY <1>j, <1>1, <1>2, <2>2, PaidFound
    <3>2. j.old \in Row /\ RowRight(j.old)
      BY <1>j, <3>1, TheRow
    <3>3. j.old.ptype = "DOWNGRADE" => j.old.pplan \in Plans
      BY <3>2 DEF RowRight, Paid
    <3>4. PaidRow(j) \in Row
      BY <1>2, <3>2, <3>3, PaidRowIs DEF Event
    <3>. QED BY <1>1, <2>2, <3>4, PlansAssumption DEF Applies, Row
  <2>. QED BY <2>1, <2>2
<1>4. j.ev.type \in {"updated", "deleted"}
  BY <1>1, <1>2, <1>3 DEF Handling, EventRight, Event, EventType
<1>5. j.row = 0 /\ \A r \in DOMAIN subscription : subscription[r].sid # j.sub
  <2>1. j.row = 0
    BY <1>j, <1>1, <1>4 DEF Applies, JobOK
  <2>. QED BY <1>2, <1>4, <2>1 DEF Handling
<1>6. ASSUME NEW s, NEW t PROVE Due(s, t)' <=> Waiting(s, t)
  BY <1>1, FinishedDue
<1>7. \A s \in Subs : Due(s, "paid")' <=> Due(s, "paid")
  <2>1. ASSUME NEW s \in Subs PROVE Due(s, "paid")' <=> Due(s, "paid")
    BY <1>2, <1>3, <1>6 DEF Due
  <2>. QED BY <2>1
<1>8. \A s \in Subs : (Due(s, "completed")' => Due(s, "completed"))
                      /\ (Due(s, "return")' => Due(s, "return"))
  <2>1. ASSUME NEW s \in Subs
        PROVE  (Due(s, "completed")' => Due(s, "completed")) /\ (Due(s, "return")' => Due(s, "return"))
    BY <1>6 DEF Due
  <2>. QED BY <2>1
<1>9. HasRow => (Due(subscription[1].sid, "deleted") <=> Due(subscription[1].sid, "deleted")')
  <2>. SUFFICES ASSUME HasRow
                PROVE  Due(subscription[1].sid, "deleted") <=> Due(subscription[1].sid, "deleted")'
    OBVIOUS
  <2>1. PICK s \in Subs : s = subscription[1].sid /\ s # j.sub
    BY <1>5, OnlyRow
  <2>2. ~ InHand(s, "deleted")
    BY <1>j, <2>1, OneWorker
  <2>3. Due(s, "deleted") <=> Due(s, "deleted")'
    BY <1>6, <2>2 DEF Due
  <2>. QED BY <1>1, <2>1, <2>3 DEF Due, Waiting, InHand
<1>10. EndAlone'
  <2>1. \A q \in Procs : job'[q] = Idle
    BY <1>1 DEF TypeInv, TypeOK, Serial
  <2>. QED BY <1>1, <2>1, FinishedAlone DEF Idle, ContractInv
<1>. QED BY <1>1, <1>7, <1>8, <1>9, <1>10, LostContract

-----------------------------------------------------------------------------
(* Steps of Stripe.                                                        *)

(* Nothing was due, and no worker has anything in hand, when Stripe acts.  *)
LEMMA StripeFacts ==
  ASSUME TypeInv, SerialInv, ContractInv, Calm, StripeOnly, NEW s \in Subs,
         NEW types \in Seq(EventType), Emit(s, types)
  PROVE  /\ UNCHANGED <<subscription, workspace, scheduled>>
         /\ events = << >> /\ \A q \in Procs : job'[q].op = "none"
         /\ Bought = {} /\ Over = FALSE /\ subscription \in Seq(Row)
         /\ HasRow' = HasRow /\ Pending' = Pending
         /\ HasRow => workspace.plan = subscription[1].plan
<1>1. /\ UNCHANGED <<subscription, workspace, scheduled, job>> /\ subscription \in Seq(Row)
  BY DEF StripeOnly, dbVars, ghostVars, TypeInv, TypeOK
<1>2. events = << >> /\ (\A u, t : ~ Due(u, t)) /\ \A q \in Procs : job[q].op = "none"
  BY CalmIsIdle
<1>3. Bought = {} /\ Over = FALSE
  BY <1>1, <1>2, NoneBought, NotOver
<1>4. HasRow => workspace.plan = subscription[1].plan
  BY <1>2 DEF ContractInv, PlanRight
<1>5. HasRow' = HasRow /\ Pending' = Pending
  BY <1>1 DEF HasRow, Pending
<1>. QED BY <1>1, <1>2, <1>3, <1>4, <1>5

(* What becomes due.                                                       *)
LEMMA StripeDue ==
  ASSUME events = << >>, \A q \in Procs : job'[q].op = "none", NEW s,
         NEW types \in Seq(EventType), Emit(s, types), NEW u, NEW t
  PROVE  Due(u, t)' <=> u = s /\ \E i \in DOMAIN types : types[i] = t
<1>1. Waiting(u, t)' <=> u = s /\ \E i \in DOMAIN types : types[i] = t
  BY EmittedAlone
<1>2. ~ InHand(u, t)'
  BY DEF InHand
<1>. QED BY <1>1, <1>2 DEF Due

(* The workspace already has the plan of its row.                          *)
LEMMA StripePlan ==
  ASSUME UNCHANGED <<subscription, workspace>>, HasRow' = HasRow,
         HasRow => workspace.plan = subscription[1].plan
  PROVE  PlanRight'
  BY DEF PlanRight

(* A checkout is paid.                                                     *)
LEMMA PayContract ==
  ASSUME TypeInv, SerialInv, Serial, ContractInv, NEW s \in Subs, PayCheckout(s)
  PROVE  Keeps /\ ContractInv'
<1>1. /\ stripe \in [Subs -> StripeSub] /\ stripe[s] \in StripeSub /\ stripe[s].status = "open"
      /\ StripeOnly /\ Calm /\ StripeOK(stripe[s])
  BY DEF PayCheckout, MayStart, Serial, TypeInv, TypeOK
<1>2. PICK types \in Seq(EventType) : types \in PaymentOrders /\ Emit(s, types)
  BY EmittedTypes DEF PayCheckout
<1>3. /\ UNCHANGED <<subscription, workspace, scheduled>>
      /\ events = << >> /\ \A q \in Procs : job'[q].op = "none"
      /\ Bought = {} /\ Over = FALSE /\ subscription \in Seq(Row)
      /\ HasRow' = HasRow /\ Pending' = Pending
      /\ HasRow => workspace.plan = subscription[1].plan
  BY <1>1, <1>2, StripeFacts
<1>4. /\ stripe'[s].status = "active" /\ stripe'[s].period = 1 /\ stripe'[s].plan = stripe[s].plan
      /\ \A u \in Subs : u # s => stripe'[u] = stripe[u]
      /\ stripe[s].plan \in Paid
  BY <1>1 DEF PayCheckout, StripeSub, StripeOK
<1>5. /\ \A i \in DOMAIN types : types[i] \in {"paid", "completed", "return"}
      /\ \E i \in DOMAIN types : types[i] = "paid"
  <2>1. \/ types = <<"return", "completed", "paid">>
        \/ types = <<"completed", "return", "paid">>
        \/ types = <<"completed", "paid", "return">>
    BY <1>2 DEF PaymentOrders
  <2>2. DOMAIN types = 1 .. 3
    BY <2>1
  <2>. QED BY <2>1, <2>2
<1>6. ASSUME NEW u, NEW t PROVE Due(u, t)' => u = s /\ t \in {"paid", "completed", "return"}
  BY <1>2, <1>3, <1>5, StripeDue
<1>7. Due(s, "paid")'
  BY <1>2, <1>3, <1>5, StripeDue
<1>8. Bought' = {stripe[s].plan}
  <2>1. \A u \in Subs : Due(u, "paid")' => u = s
    BY <1>6
  <2>2. Settling' = {s}
    BY <1>4, <1>7, <2>1 DEF Settling
  <2>. QED BY <1>4, <2>2 DEF Bought
<1>9. Over' = FALSE
  <2>1. \A u \in Subs : ~ Due(u, "deleted")'
    BY <1>6
  <2>. QED BY <1>3, <2>1, NotOverNext
<1>10. Ripe' = Ripe
  <2>1. HasRow => subscription[1].sid \in Subs \ {s}
    <3>1. HasRow => subscription[1].sid \in Subs /\ RowRight(subscription[1])
      BY OnlyRow
    <3>. QED BY <1>1, <3>1 DEF RowRight
  <2>. QED BY <1>3, <1>4, <2>1, RowUnseen
<1>11. Contract!Buy
  BY <1>3, <1>4, <1>8, <1>9, <1>10 DEF Contract!Buy, Contract!Paid, Paid
<1>12. PurchaseRight'
  <2>1. \A u \in Subs : Due(u, "completed")' \/ Due(u, "return")' => u = s
    BY <1>6
  <2>. QED BY <1>4, <1>7, <2>1 DEF PurchaseRight
<1>13. PlanRight'
  BY <1>3, StripePlan
<1>14. EndAlone'
  <2>1. \A i \in DOMAIN events' : events'[i].type # "deleted"
    BY <1>2, <1>3, <1>5, EmittedFields
  <2>. QED BY <1>3, <2>1, NoEndAlone
<1>. QED BY <1>11, <1>12, <1>13, <1>14 DEF Keeps, Contract!Next, ContractInv

(* A period begins: a downgrade that waits may be carried out now.         *)
LEMMA RenewContract ==
  ASSUME TypeInv, SerialInv, Serial, ContractInv, NEW s \in Subs, Renew(s)
  PROVE  Keeps /\ ContractInv'
<1> DEFINE types == <<"updated", "paid">>
<1>1. /\ stripe \in [Subs -> StripeSub] /\ stripe[s] \in StripeSub /\ stripe[s].status = "active"
      /\ stripe[s].period \in Nat /\ scheduled \in [Subs -> Nat]
      /\ StripeOnly /\ Calm /\ StripeRight(s) /\ Emit(s, types)
  BY DEF Renew, MayStart, Serial, TypeInv, TypeOK, SerialInv, StripeSub
<1>2. /\ types \in Seq(EventType)
      /\ \A i \in DOMAIN types : types[i] \in {"updated", "paid"}
  BY EmittedTypes
<1>3. /\ stripe'[s].period = stripe[s].period + 1
      /\ \A u \in Subs : u # s => stripe'[u] = stripe[u]
      /\ stripe[s].period >= 1 /\ scheduled[s] <= stripe[s].period
  BY <1>1 DEF Renew, StripeSub, StripeRight
<1>. HIDE DEF types
<1>4. /\ UNCHANGED <<subscription, workspace, scheduled>>
      /\ events = << >> /\ \A q \in Procs : job'[q].op = "none"
      /\ Bought = {} /\ Over = FALSE /\ subscription \in Seq(Row)
      /\ HasRow' = HasRow /\ Pending' = Pending
      /\ HasRow => workspace.plan = subscription[1].plan
  BY <1>1, <1>2, StripeFacts
<1>5. ASSUME NEW u, NEW t PROVE Due(u, t)' => u = s /\ t \in {"updated", "paid"}
  BY <1>1, <1>2, <1>4, StripeDue
<1>6. Bought' = {}
  <2>1. \A u \in Subs : Due(u, "paid")' => u = s
    BY <1>5
  <2>2. ~ (stripe'[s].period = 1)
    BY <1>1, <1>3
  <2>3. Settling' = {}
    BY <2>1, <2>2 DEF Settling
  <2>. QED BY <2>3 DEF Bought
<1>7. Over' = FALSE
  <2>1. \A u \in Subs : ~ Due(u, "deleted")'
    BY <1>5
  <2>. QED BY <1>4, <2>1, NotOverNext
<1>8. Keeps
  <2>1. CASE HasRow /\ subscription[1].ptype = "DOWNGRADE" /\ subscription[1].sid = s
    <3>1. PICK row : row = subscription[1]
      OBVIOUS
    <3>2. DOMAIN subscription = {1} /\ RowRight(row)
      BY <2>1, <3>1, OnlyRow
    <3>3. Pending \in Contract!Paid
      BY <2>1, <3>1, <3>2, RowBefore DEF RowRight, Contract!Paid, Paid
    <3>4. stripe'[s].period > scheduled'[s] /\ scheduled[s] \in Nat
      BY <1>1, <1>3, <1>4
    <3>5. Ripe' = TRUE
      BY <1>4, <2>1, <3>1, <3>2, <3>4, RowAfter
    <3>6. Contract!NextPeriod
      BY <1>4, <1>6, <1>7, <3>3, <3>5 DEF Contract!NextPeriod
    <3>. QED BY <3>6 DEF Keeps, Contract!Next
  <2>2. CASE ~ (HasRow /\ subscription[1].ptype = "DOWNGRADE" /\ subscription[1].sid = s)
    <3>1. Ripe' = Ripe
      <4>1. CASE HasRow /\ subscription[1].sid # s
        <5>1. subscription[1].sid \in Subs
          BY <4>1, OnlyRow
        <5>. QED BY <1>3, <1>4, <4>1, <5>1, RowUnseen
      <4>2. CASE ~ (HasRow /\ subscription[1].sid # s)
        <5>1. ~ Ripe /\ ~ Ripe'
          BY <1>4, <2>2, <4>2 DEF Ripe
        <5>. QED BY <5>1 DEF Ripe
      <4>. QED BY <4>1, <4>2
    <3>. QED BY <1>4, <1>6, <1>7, <3>1, Unseen
  <2>. QED BY <2>1, <2>2
<1>9. PurchaseRight'
  <2>1. \A u \in Subs : ~ Due(u, "completed")' /\ ~ Due(u, "return")'
    BY <1>5
  <2>. QED BY <2>1 DEF PurchaseRight
<1>10. PlanRight'
  BY <1>4, StripePlan
<1>11. EndAlone'
  <2>1. ASSUME NEW i \in DOMAIN events' PROVE events'[i].type # "deleted"
    <3>1. events = << >> /\ Emit(s, types) /\ types \in Seq(EventType)
      BY <1>1, <1>2, <1>4
    <3>2. i \in DOMAIN types /\ events'[i].type = types[i]
      BY <3>1, EmittedFields
    <3>. QED BY <1>2, <3>2
  <2>. QED BY <1>4, <2>1, NoEndAlone
<1>. QED BY <1>8, <1>9, <1>10, <1>11 DEF ContractInv

(* The subscription ends.                                                  *)
LEMMA EndContract ==
  ASSUME TypeInv, SerialInv, Serial, ContractInv, NEW s \in Subs, End(s)
  PROVE  Keeps /\ ContractInv'
<1> DEFINE types == <<"deleted">>
<1>1. /\ stripe \in [Subs -> StripeSub] /\ stripe[s] \in StripeSub
      /\ StripeOnly /\ Calm /\ Emit(s, types)
  BY DEF End, MayStart, Serial, TypeInv, TypeOK
<1>2. types \in Seq(EventType) /\ DOMAIN types = {1} /\ types[1] = "deleted"
  BY EmittedTypes
<1>3. \A u \in Subs : stripe'[u].period = stripe[u].period
  BY <1>1 DEF End, StripeSub
<1>. HIDE DEF types
<1>4. /\ UNCHANGED <<subscription, workspace, scheduled>>
      /\ events = << >> /\ \A q \in Procs : job'[q].op = "none"
      /\ Bought = {} /\ Over = FALSE /\ subscription \in Seq(Row)
      /\ HasRow' = HasRow /\ Pending' = Pending
      /\ HasRow => workspace.plan = subscription[1].plan
  BY <1>1, <1>2, StripeFacts
<1>5. ASSUME NEW u, NEW t PROVE Due(u, t)' => t = "deleted"
  BY <1>1, <1>2, <1>4, StripeDue
<1>6. Bought' = {}
  <2>1. \A u \in Subs : ~ Due(u, "paid")'
    BY <1>5
  <2>. QED BY <2>1, NoneBoughtNext
<1>7. Ripe' = Ripe
  <2>1. HasRow => subscription[1].sid \in Subs
    BY OnlyRow
  <2>. QED BY <1>3, <1>4, <2>1, RowUnseen
<1>8. Keeps
  <2>1. Over' = TRUE \/ Over' = FALSE
    BY DEF Over, HasRow
  <2>2. CASE Over' = TRUE
    <3>1. Contract!Expire
      BY <1>4, <1>6, <1>7, <2>2 DEF Contract!Expire
    <3>. QED BY <3>1 DEF Keeps, Contract!Next
  <2>3. CASE Over' = FALSE
    BY <1>4, <1>6, <1>7, <2>3, Unseen
  <2>. QED BY <2>1, <2>2, <2>3
<1>9. PurchaseRight'
  <2>1. \A u \in Subs : ~ Due(u, "completed")' /\ ~ Due(u, "return")'
    BY <1>5
  <2>. QED BY <2>1 DEF PurchaseRight
<1>10. PlanRight'
  BY <1>4, StripePlan
<1>11. EndAlone'
  <2>1. DOMAIN events' = {1}
    BY <1>1, <1>2, <1>4, EmittedAlone
  <2>. QED BY <1>4, <2>1 DEF EndAlone
<1>. QED BY <1>8, <1>9, <1>10, <1>11 DEF ContractInv

-----------------------------------------------------------------------------
(* Steps that commit a row.                                                *)

(* What the contract sees after a commit: the new row, and of the events   *)
(* only those that wait.                                                   *)
LEMMA SavedView ==
  ASSUME TypeInv, SerialInv, Serial, NEW p \in Procs, NEW j \in Job, j = job[p], JobOK(j),
         JobRight(j), NEW new \in Row, SaveRow(j, new), j.row = 0 => subscription = << >>,
         Finish(p), stripe' = stripe, events' = events
  PROVE  /\ DOMAIN subscription' = {1} /\ subscription'[1] = new
         /\ Pending' = IF new.ptype # "NONE" THEN new.pplan ELSE NoPlan
         /\ Ripe' = (new.ptype = "DOWNGRADE" /\ stripe[new.sid].period > scheduled'[new.sid])
         /\ Over' = Waiting(new.sid, "deleted")
         /\ Bought' \subseteq Bought
         /\ \A q \in Procs : job'[q].op = "none"
<1>1. DOMAIN subscription' = {1} /\ subscription'[1] = new
  BY SavedOne
<1>2. /\ Pending' = IF new.ptype # "NONE" THEN new.pplan ELSE NoPlan
      /\ Ripe' = (new.ptype = "DOWNGRADE" /\ stripe[new.sid].period > scheduled'[new.sid])
      /\ Over' = (Due(new.sid, "deleted"))'
  BY <1>1, RowAfter
<1>3. job' = [job EXCEPT ![p] = Idle]
  BY DEF Finish
<1>4. ASSUME NEW s, NEW t PROVE Due(s, t)' <=> Waiting(s, t)
  BY <1>3, FinishedDue
<1>5. Over' = Waiting(new.sid, "deleted")
  <2>1. (Due(new.sid, "deleted"))' <=> Waiting(new.sid, "deleted")
    BY <1>4
  <2>2. (Due(new.sid, "deleted"))' \in BOOLEAN /\ Waiting(new.sid, "deleted") \in BOOLEAN
    BY DEF Due, Waiting
  <2>. QED BY <1>2, <2>1, <2>2
<1>6. Bought' \subseteq Bought
  <2>1. \A s \in Subs : Due(s, "paid")' => Due(s, "paid")
    BY <1>4 DEF Due
  <2>. QED BY <2>1, BoughtLess
<1>7. \A q \in Procs : job'[q].op = "none"
  BY <1>3 DEF TypeInv, TypeOK, Serial, Idle
<1>. QED BY <1>1, <1>2, <1>5, <1>6, <1>7

(* What a commit has to leave right.                                       *)
LEMMA SavedContract ==
  ASSUME TypeInv, SerialInv, Serial, ContractInv, NEW p \in Procs, NEW j \in Job, j = job[p],
         JobOK(j), JobRight(j), NEW new \in Row, SaveRow(j, new),
         j.row = 0 => subscription = << >>,
         Finish(p), stripe' = stripe, events' = events,
         workspace'.plan = new.plan \/ (stripe[new.sid].period = 1 /\ Waiting(new.sid, "paid")),
         \A s \in Subs : Waiting(s, "completed") \/ Waiting(s, "return") =>
           \/ Waiting(s, "paid")
           \/ new.sid = s /\ new.ptype = "NONE" /\ new.plan = stripe[s].plan
  PROVE  ContractInv'
<1>1. /\ DOMAIN subscription' = {1} /\ subscription'[1] = new
      /\ \A q \in Procs : job'[q].op = "none"
  BY SavedView
<1>2. job' = [job EXCEPT ![p] = Idle]
  BY DEF Finish
<1>3. ASSUME NEW s, NEW t PROVE Due(s, t)' <=> Waiting(s, t)
  BY <1>2, FinishedDue
<1>4. HasRow'
  BY <1>1, RowAfter
<1>5. PurchaseRight'
  <2>1. ASSUME NEW s \in Subs, Due(s, "completed")' \/ Due(s, "return")'
        PROVE  /\ stripe'[s].period = 1
               /\ \/ Due(s, "paid")'
                  \/ /\ HasRow'
                     /\ subscription'[1].sid = s /\ subscription'[1].ptype = "NONE"
                     /\ subscription'[1].plan = stripe'[s].plan
    <3>1. Waiting(s, "completed") \/ Waiting(s, "return")
      BY <1>3, <2>1
    <3>2. stripe[s].period = 1
      BY <3>1 DEF ContractInv, PurchaseRight, Due
    <3>3. Due(s, "paid")' <=> Waiting(s, "paid")
      BY <1>3
    <3>. QED BY <1>1, <1>4, <3>1, <3>2, <3>3
  <2>. QED BY <2>1 DEF PurchaseRight
<1>6. PlanRight'
  <2>1. Due(new.sid, "paid")' <=> Waiting(new.sid, "paid")
    BY <1>3
  <2>2. workspace'.plan = new.plan \/ (stripe'[new.sid].period = 1 /\ Due(new.sid, "paid")')
    BY <2>1
  <2>. QED BY <1>1, <2>2 DEF PlanRight, Due, Waiting, InHand
<1>7. EndAlone'
  BY <1>1, FinishedAlone DEF ContractInv
<1>. QED BY <1>5, <1>6, <1>7 DEF ContractInv

(* POST /subscription/update: an upgrade, or a downgrade that waits.       *)
LEMMA SaveUpdateContract ==
  ASSUME TypeInv, SerialInv, Serial, ContractInv, NEW p \in Procs, SaveUpdate(p)
  PROVE  Keeps /\ ContractInv'
<1>j. PICK j \in Job : j = job[p] /\ JobOK(j) /\ JobRight(j)
  BY JobFacts DEF SerialInv
<1>1. /\ j.op = "update" /\ j.pc = "called" /\ Called(j) /\ j.plan \in Paid /\ j.plan \in Plans
      /\ j.row # 0 /\ j.old \in Row /\ j.old.sid \in Subs
      /\ Finish(p) /\ stripe' = stripe /\ events' = events
      /\ scheduled \in [Subs -> Nat] /\ stripe[j.old.sid].period \in Nat
  BY <1>j, NoRowIsNone DEF SaveUpdate, At, JobRight, JobOK, Job, Row, stripeVars, Paid,
     TypeInv, TypeOK, StripeSub
<1>2. \A u, t : t # "updated" => ~ Due(u, t) /\ ~ Waiting(u, t)
  BY <1>j, <1>1, OneWorker DEF Due, Waiting, Called
<1>3. DOMAIN subscription = {1} /\ subscription[1] = j.old /\ subscription \in Seq(Row)
  BY <1>j, <1>1, TheRow DEF TypeInv, TypeOK
<1>4. /\ Pending = IF j.old.ptype # "NONE" THEN j.old.pplan ELSE NoPlan
      /\ Bought = {} /\ Over = FALSE /\ workspace.plan = j.old.plan
  <2>1. HasRow /\ Pending = IF j.old.ptype # "NONE" THEN j.old.pplan ELSE NoPlan
    BY <1>3, RowBefore
  <2>2. Bought = {} /\ Over = FALSE
    BY <1>2, <1>3, NoneBought, NotOver
  <2>3. workspace.plan = j.old.plan
    BY <1>2, <1>3, <2>1 DEF ContractInv, PlanRight
  <2>. QED BY <2>1, <2>2, <2>3
<1>5. CASE Price[j.plan] > Price[j.old.plan]
  <2> DEFINE new == [ClearPending(j.old) EXCEPT !.plan = j.plan]
  <2>1. SaveRow(j, new) /\ SavePlan(j, j.plan)
    BY <1>j, <1>5 DEF SaveUpdate
  <2>2. new \in Row /\ new.plan = j.plan /\ new.ptype = "NONE" /\ new.sid = j.old.sid
    BY <1>1 DEF ClearPending, Row
  <2>. HIDE DEF new
  <2>3. workspace'.plan = j.plan
    BY <1>j, <1>1, <2>1, SavedPlanIs
  <2>4. Pending' = NoPlan /\ Ripe' = FALSE /\ Over' = FALSE /\ Bought' = {}
    <3>1. /\ Pending' = IF new.ptype # "NONE" THEN new.pplan ELSE NoPlan
          /\ Ripe' = (new.ptype = "DOWNGRADE" /\ stripe[new.sid].period > scheduled'[new.sid])
          /\ Over' = Waiting(new.sid, "deleted") /\ Bought' \subseteq Bought
      BY <1>j, <1>1, <2>1, <2>2, SavedView
    <3>2. ~ Waiting(new.sid, "deleted") /\ Waiting(new.sid, "deleted") \in BOOLEAN
      BY <1>2 DEF Waiting
    <3>. QED BY <1>4, <2>2, <3>1, <3>2
  <2>5. Contract!Upgrade
    BY <1>1, <1>4, <1>5, <2>3, <2>4 DEF Contract!Upgrade, Contract!Paid, Paid
  <2>6. ContractInv'
    BY <1>j, <1>1, <1>2, <2>1, <2>2, <2>3, SavedContract
  <2>. QED BY <2>5, <2>6 DEF Keeps, Contract!Next
<1>6. CASE ~ (Price[j.plan] > Price[j.old.plan])
  <2> DEFINE new == [j.old EXCEPT !.pplan = j.plan, !.ptype = "DOWNGRADE"]
  <2>1. /\ SaveRow(j, new) /\ workspace' = workspace
        /\ scheduled' = [scheduled EXCEPT ![j.old.sid] = stripe[j.old.sid].period]
    BY <1>j, <1>6 DEF SaveUpdate
  <2>2. /\ new \in Row /\ new.sid = j.old.sid /\ new.plan = j.old.plan
        /\ new.ptype = "DOWNGRADE" /\ new.pplan = j.plan
    BY <1>1 DEF Row
  <2>. HIDE DEF new
  <2>3. Price[j.plan] <= Price[j.old.plan]
    <3>1. Price[j.plan] \in Nat /\ Price[j.old.plan] \in Nat
      BY <1>1, PlansAssumption DEF Row
    <3>. QED BY <1>6, <3>1
  <2>4. scheduled'[new.sid] = stripe[new.sid].period /\ stripe[new.sid].period \in Nat
    BY <1>1, <2>1, <2>2
  <2>5. Pending' = j.plan /\ Ripe' = FALSE /\ Over' = FALSE /\ Bought' = {}
    <3>1. /\ Pending' = IF new.ptype # "NONE" THEN new.pplan ELSE NoPlan
          /\ Ripe' = (new.ptype = "DOWNGRADE" /\ stripe[new.sid].period > scheduled'[new.sid])
          /\ Over' = Waiting(new.sid, "deleted") /\ Bought' \subseteq Bought
      BY <1>j, <1>1, <2>1, <2>2, SavedView
    <3>2. ~ Waiting(new.sid, "deleted") /\ Waiting(new.sid, "deleted") \in BOOLEAN
      BY <1>2 DEF Waiting
    <3>3. ~ (stripe[new.sid].period > scheduled'[new.sid])
      BY <2>4
    <3>. QED BY <1>4, <2>2, <3>1, <3>2, <3>3
  <2>6. Contract!Schedule
    BY <1>1, <1>4, <2>1, <2>3, <2>5 DEF Contract!Schedule, Contract!Paid, Paid
  <2>7. ContractInv'
    BY <1>j, <1>1, <1>2, <1>4, <2>1, <2>2, SavedContract
  <2>. QED BY <2>6, <2>7 DEF Keeps, Contract!Next
<1>. QED BY <1>5, <1>6

(* POST /subscription/cancel.                                              *)
LEMMA SaveCancelContract ==
  ASSUME TypeInv, SerialInv, Serial, ContractInv, NEW p \in Procs, SaveCancel(p)
  PROVE  Keeps /\ ContractInv'
<1>j. PICK j \in Job : j = job[p] /\ JobOK(j) /\ JobRight(j)
  BY JobFacts DEF SerialInv
<1>1. /\ j.op = "cancel" /\ j.pc = "called" /\ Called(j)
      /\ j.row # 0 /\ j.old \in Row
      /\ Finish(p) /\ stripe' = stripe /\ events' = events /\ workspace' = workspace
  BY <1>j, NoRowIsNone DEF SaveCancel, At, JobRight, JobOK, Job, stripeVars
<1>2. \A u, t : t # "updated" => ~ Due(u, t) /\ ~ Waiting(u, t)
  BY <1>j, <1>1, OneWorker DEF Due, Waiting, Called
<1>3. DOMAIN subscription = {1} /\ subscription[1] = j.old /\ subscription \in Seq(Row)
  BY <1>j, <1>1, TheRow DEF TypeInv, TypeOK
<1>4. Bought = {} /\ Over = FALSE /\ workspace.plan = j.old.plan
  <2>1. HasRow
    BY <1>3, RowBefore
  <2>2. Bought = {} /\ Over = FALSE
    BY <1>2, <1>3, NoneBought, NotOver
  <2>3. workspace.plan = j.old.plan
    BY <1>2, <1>3, <2>1 DEF ContractInv, PlanRight
  <2>. QED BY <2>2, <2>3
<1> DEFINE new == [j.old EXCEPT !.cancel = TRUE, !.pplan = Free, !.ptype = "CANCEL_TO_FREE"]
<1>5. SaveRow(j, new)
  BY <1>j DEF SaveCancel
<1>6. /\ new \in Row /\ new.plan = j.old.plan /\ new.ptype = "CANCEL_TO_FREE" /\ new.pplan = Free
  BY <1>1, PlansAssumption DEF Row
<1>. HIDE DEF new
<1>7. Pending' = Free /\ Ripe' = FALSE /\ Over' = FALSE /\ Bought' = {}
  <2>1. /\ Pending' = IF new.ptype # "NONE" THEN new.pplan ELSE NoPlan
        /\ Ripe' = (new.ptype = "DOWNGRADE" /\ stripe[new.sid].period > scheduled'[new.sid])
        /\ Over' = Waiting(new.sid, "deleted") /\ Bought' \subseteq Bought
    BY <1>j, <1>1, <1>5, <1>6, SavedView
  <2>2. ~ Waiting(new.sid, "deleted") /\ Waiting(new.sid, "deleted") \in BOOLEAN
    BY <1>2 DEF Waiting
  <2>. QED BY <1>4, <1>6, <2>1, <2>2
<1>8. Contract!Cancel
  BY <1>1, <1>4, <1>7 DEF Contract!Cancel
<1>9. ContractInv'
  BY <1>j, <1>1, <1>2, <1>4, <1>5, <1>6, SavedContract
<1>. QED BY <1>8, <1>9 DEF Keeps, Contract!Next

-----------------------------------------------------------------------------
(* Handlers that commit.                                                   *)

(* What the contract knows while a handler runs.                           *)
LEMMA HandlerView ==
  ASSUME TypeInv, SerialInv, Serial, ContractInv, NEW p \in Procs, NEW j \in Job, j = job[p],
         JobOK(j), JobRight(j), j.op \in {"complete", "webhook"}
  PROVE  /\ \A u : ~ Waiting(u, "deleted")
         /\ j.ev.type = "deleted" => events = << >>
         /\ j.ev.type # "deleted" => Over = FALSE
         /\ Due(j.sub, j.ev.type)
<1>1. \A u : ~ Waiting(u, "deleted")
  BY DEF ContractInv, EndAlone, Waiting
<1>2. j.ev.type = "deleted" => events = << >>
  BY DEF ContractInv, EndAlone
<1>3. \A u, t : Due(u, t) /\ t # j.ev.type => Waiting(u, t)
  BY HandlerFacts
<1>4. ASSUME j.ev.type # "deleted" PROVE Over = FALSE
  <2>1. \A u : ~ Due(u, "deleted")
    BY <1>1, <1>3, <1>4
  <2>2. subscription \in Seq(Row)
    BY DEF TypeInv, TypeOK
  <2>. QED BY <2>1, <2>2, NotOver
<1>5. Due(j.sub, j.ev.type)
  BY DEF Due, InHand
<1>. QED BY <1>1, <1>2, <1>4, <1>5

(* The row of a session that was paid.                                     *)
LEMMA SubscribedIs ==
  ASSUME NEW old \in Row \cup {NoRow}, NEW s \in Subs, NEW plan \in Plans, NEW st \in RowStatus
  PROVE  /\ Subscribed(old, s, plan, st) \in Row /\ Subscribed(old, s, plan, st).sid = s
         /\ Subscribed(old, s, plan, st).plan = plan
         /\ Subscribed(old, s, plan, st).ptype = "NONE"
<1>1. CASE old = NoRow
  BY <1>1 DEF Subscribed, NewRow, Row
<1>2. CASE old # NoRow
  <2>1. old \in Row
    BY <1>2
  <2>. QED BY <1>2, <2>1 DEF Subscribed, ClearPending, Row
<1>. QED BY <1>1, <1>2

(* What the page and the event of a paid session find: a purchase that is  *)
(* not settled, or a row that is already that of the session.              *)
LEMMA SessionFacts ==
  ASSUME TypeInv, SerialInv, Serial, ContractInv, NEW p \in Procs, NEW j \in Job, j = job[p],
         JobOK(j), JobRight(j), j.op \in {"complete", "webhook"},
         j.ev.type \in {"completed", "return"}
  PROVE  /\ j.sub \in Subs /\ j.ev.period \in Nat /\ (j.row = 0 => subscription = << >>)
         /\ Growing(j.sub) /\ stripe[j.sub].period = 1
         /\ stripe[j.sub].plan = stripe[j.sub].meta /\ stripe[j.sub].meta \in Plans
         /\ \A u \in Subs : Growing(u) => u = j.sub
         /\ j.ev.type = "completed" => Due(j.sub, "paid")
         /\ Due(j.sub, "paid") => Waiting(j.sub, "paid") /\ Bought = {stripe[j.sub].plan}
         /\ ~ Due(j.sub, "paid") =>
              /\ HasRow /\ workspace.plan = stripe[j.sub].plan
              /\ Pending = NoPlan /\ Ripe = FALSE
<1>1. /\ Handling(j) /\ j.sub \in Subs /\ j.ev.sub = j.sub
      /\ EventRight(j.ev) /\ j.ev.period \in Nat
      /\ stripe[j.sub] \in StripeSub /\ StripeRight(j.sub) /\ StripeOK(stripe[j.sub])
      /\ \A u, t : Due(u, t) /\ t # j.ev.type => Waiting(u, t)
  BY HandlerFacts
<1>2. /\ Growing(j.sub) /\ stripe[j.sub].plan = stripe[j.sub].meta
      /\ stripe[j.sub].meta \in Plans
      /\ j.ev.type = "completed" => Due(j.sub, "paid")
      /\ j.row = 0 => subscription = << >>
  BY <1>1 DEF EventRight, Payment, Growing, StripeRight, StripeOK, Paid, Handling
<1>3. Due(j.sub, j.ev.type)
  BY HandlerView
<1>4. /\ stripe[j.sub].period = 1
      /\ \/ Due(j.sub, "paid")
         \/ /\ HasRow
            /\ subscription[1].sid = j.sub /\ subscription[1].ptype = "NONE"
            /\ subscription[1].plan = stripe[j.sub].plan
  BY <1>1, <1>3 DEF ContractInv, PurchaseRight
<1>5. \A u \in Subs : Growing(u) => u = j.sub
  BY <1>1, <1>2 DEF SerialInv, Linked
<1>6. Due(j.sub, "paid") => Waiting(j.sub, "paid") /\ Bought = {stripe[j.sub].plan}
  BY <1>1, <1>2, <1>4, BoughtIs
<1>7. ASSUME ~ Due(j.sub, "paid")
      PROVE  HasRow /\ workspace.plan = stripe[j.sub].plan /\ Pending = NoPlan /\ Ripe = FALSE
  <2>1. PICK row : row = subscription[1]
    OBVIOUS
  <2>2. /\ HasRow /\ DOMAIN subscription = {1} /\ row.ptype = "NONE" /\ row.sid = j.sub
        /\ row.plan = stripe[j.sub].plan
    BY <1>4, <1>7, <2>1, OnlyRow
  <2>3. workspace.plan = row.plan
    BY <1>7, <2>1, <2>2 DEF ContractInv, PlanRight
  <2>4. Pending = NoPlan /\ Ripe = FALSE
    BY <2>1, <2>2, RowBefore
  <2>. QED BY <2>2, <2>3, <2>4
<1>. QED BY <1>1, <1>2, <1>4, <1>5, <1>6, <1>7

(* POST /subscription/checkout/complete: the plan is granted, or has been. *)
LEMMA SaveCompleteContract ==
  ASSUME TypeInv, SerialInv, Serial, ContractInv, NEW p \in Procs, SaveComplete(p)
  PROVE  Keeps /\ ContractInv'
<1>j. PICK j \in Job : j = job[p] /\ JobOK(j) /\ JobRight(j)
  BY JobFacts DEF SerialInv
<1>1. /\ j.op = "complete" /\ Finish(p)
      /\ stripe' = stripe /\ events' = events
  BY <1>j DEF SaveComplete, At, stripeVars
<1>2. j.ev.type = "return"
  BY <1>1, <1>j DEF JobRight, Handling
<1>3. /\ j.sub \in Subs /\ j.ev.period \in Nat /\ (j.row = 0 => subscription = << >>)
      /\ Growing(j.sub) /\ stripe[j.sub].period = 1
      /\ stripe[j.sub].plan = stripe[j.sub].meta /\ stripe[j.sub].meta \in Plans
      /\ \A u \in Subs : Growing(u) => u = j.sub
      /\ Due(j.sub, "paid") => Waiting(j.sub, "paid") /\ Bought = {stripe[j.sub].plan}
      /\ ~ Due(j.sub, "paid") =>
           /\ HasRow /\ workspace.plan = stripe[j.sub].plan
           /\ Pending = NoPlan /\ Ripe = FALSE
  BY <1>j, <1>1, <1>2, SessionFacts
<1> DEFINE made == Subscribed(j.old, j.sub, stripe[j.sub].meta, "ACTIVE")
<1>4. made \in Row /\ made.sid = j.sub /\ made.plan = stripe[j.sub].meta /\ made.ptype = "NONE"
  <2>1. PICK old \in Row \cup {NoRow}, s \in Subs, plan \in Plans, st \in RowStatus :
          old = j.old /\ s = j.sub /\ plan = stripe[j.sub].meta /\ st = "ACTIVE"
    BY <1>3 DEF Job, RowStatus
  <2>2. /\ Subscribed(old, s, plan, st) \in Row /\ Subscribed(old, s, plan, st).sid = s
        /\ Subscribed(old, s, plan, st).plan = plan
        /\ Subscribed(old, s, plan, st).ptype = "NONE"
    BY SubscribedIs
  <2>. QED BY <2>1, <2>2
<1>. HIDE DEF made
<1> DEFINE row == [made EXCEPT !.period = j.ev.period]
<1>5. SaveRow(j, row) /\ SavePlan(j, stripe[j.sub].meta)
  BY <1>j DEF SaveComplete, made
<1>6. row \in Row /\ row.sid = j.sub /\ row.plan = stripe[j.sub].meta /\ row.ptype = "NONE"
  BY <1>3, <1>4 DEF Row
<1>. HIDE DEF row
<1>7. PICK new \in Row : /\ new = row /\ new.sid = j.sub /\ new.plan = stripe[j.sub].plan
                         /\ new.ptype = "NONE"
  BY <1>3, <1>6
<1>8. workspace'.plan = new.plan
  BY <1>j, <1>1, <1>3, <1>5, <1>7, SavedPlanIs
<1>9. /\ Pending' = NoPlan /\ Ripe' = FALSE /\ Over' = FALSE /\ Over = FALSE
  <2>1. /\ Pending' = IF new.ptype # "NONE" THEN new.pplan ELSE NoPlan
        /\ Ripe' = (new.ptype = "DOWNGRADE" /\ stripe[new.sid].period > scheduled'[new.sid])
        /\ Over' = Waiting(new.sid, "deleted")
    BY <1>j, <1>1, <1>3, <1>5, <1>7, SavedView
  <2>2. ~ Waiting(new.sid, "deleted") /\ Over = FALSE /\ Waiting(new.sid, "deleted") \in BOOLEAN
    BY <1>j, <1>1, <1>2, HandlerView DEF Waiting
  <2>. QED BY <1>7, <2>1, <2>2
<1>10. Bought' = Bought
  <2>1. job' = [job EXCEPT ![p] = Idle]
    BY <1>1 DEF Finish
  <2>2. \A u, t : Due(u, t) /\ t # j.ev.type => Waiting(u, t)
    BY <1>j, <1>1, HandlerFacts
  <2>3. ASSUME NEW u \in Subs PROVE Due(u, "paid")' <=> Due(u, "paid")
    <3>1. Due(u, "paid")' <=> Waiting(u, "paid")
      BY <1>1, <2>1, FinishedDue
    <3>. QED BY <1>2, <2>2, <3>1 DEF Due
  <2>. QED BY <1>1, <2>3, BoughtSame
<1>11. Keeps
  <2>1. CASE Due(j.sub, "paid")
    <3>1. Contract!Grant
      BY <1>3, <1>7, <1>8, <1>9, <1>10, <2>1 DEF Contract!Grant
    <3>. QED BY <3>1 DEF Keeps, Contract!Next
  <2>2. CASE ~ Due(j.sub, "paid")
    BY <1>3, <1>7, <1>8, <1>9, <1>10, <2>2, Unseen
  <2>. QED BY <2>1, <2>2
<1>12. \A s \in Subs : Waiting(s, "completed") \/ Waiting(s, "return") => s = j.sub
  <2>1. ASSUME NEW s \in Subs, Waiting(s, "completed") \/ Waiting(s, "return") PROVE Growing(s)
    BY <2>1, DuePaid DEF Due, Payment
  <2>. QED BY <1>3, <2>1
<1>13. ContractInv'
  BY <1>j, <1>1, <1>3, <1>5, <1>7, <1>8, <1>12, SavedContract
<1>. QED BY <1>11, <1>13

(* checkout.session.completed: the purchase is still to be settled.        *)
LEMMA SaveCompletedContract ==
  ASSUME TypeInv, SerialInv, Serial, ContractInv, NEW p \in Procs, SaveCompleted(p)
  PROVE  Keeps /\ ContractInv'
<1>j. PICK j \in Job : j = job[p] /\ JobOK(j) /\ JobRight(j)
  BY JobFacts DEF SerialInv
<1>1. /\ j.op = "webhook" /\ j.ev.type = "completed" /\ Finish(p)
      /\ stripe' = stripe /\ events' = events /\ workspace' = workspace
  BY <1>j DEF SaveCompleted, Handles, At, stripeVars
<1>2. /\ j.sub \in Subs /\ (j.row = 0 => subscription = << >>)
      /\ stripe[j.sub].period = 1
      /\ stripe[j.sub].plan = stripe[j.sub].meta /\ stripe[j.sub].meta \in Plans
      /\ \A u \in Subs : Growing(u) => u = j.sub
      /\ Waiting(j.sub, "paid") /\ Bought = {stripe[j.sub].plan}
  BY <1>j, <1>1, SessionFacts
<1> DEFINE st == IF j.old # NoRow /\ j.old.status = "ACTIVE" THEN "ACTIVE" ELSE "INCOMPLETE"
           row == Subscribed(j.old, j.sub, stripe[j.sub].meta, st)
<1>3. SaveRow(j, row)
  BY <1>j DEF SaveCompleted
<1>4. PICK new \in Row : /\ new = row /\ new.sid = j.sub /\ new.plan = stripe[j.sub].plan
                         /\ new.ptype = "NONE"
  <2>1. st \in RowStatus /\ j.old \in Row \cup {NoRow}
    BY DEF RowStatus, Job
  <2>. HIDE DEF st
  <2>2. /\ row \in Row /\ row.sid = j.sub /\ row.plan = stripe[j.sub].meta
        /\ row.ptype = "NONE"
    BY <1>2, <2>1, SubscribedIs
  <2>. HIDE DEF row
  <2>. QED BY <1>2, <2>2
<1>. HIDE DEF row, st
<1>5. Pending' = NoPlan /\ Ripe' = FALSE /\ Over' = FALSE /\ Over = FALSE
  <2>1. /\ Pending' = IF new.ptype # "NONE" THEN new.pplan ELSE NoPlan
        /\ Ripe' = (new.ptype = "DOWNGRADE" /\ stripe[new.sid].period > scheduled'[new.sid])
        /\ Over' = Waiting(new.sid, "deleted")
    BY <1>j, <1>1, <1>2, <1>3, <1>4, SavedView
  <2>2. ~ Waiting(new.sid, "deleted") /\ Over = FALSE /\ Waiting(new.sid, "deleted") \in BOOLEAN
    BY <1>j, <1>1, HandlerView DEF Waiting
  <2>. QED BY <1>4, <2>1, <2>2
<1>6. Bought' = Bought
  <2>1. job' = [job EXCEPT ![p] = Idle]
    BY <1>1 DEF Finish
  <2>2. \A u, t : Due(u, t) /\ t # j.ev.type => Waiting(u, t)
    BY <1>j, <1>1, HandlerFacts
  <2>3. ASSUME NEW u \in Subs PROVE Due(u, "paid")' <=> Due(u, "paid")
    <3>1. Due(u, "paid")' <=> Waiting(u, "paid")
      BY <1>1, <2>1, FinishedDue
    <3>. QED BY <1>1, <2>2, <3>1 DEF Due
  <2>. QED BY <1>1, <2>3, BoughtSame
<1>7. Contract!Forget
  BY <1>1, <1>2, <1>5, <1>6 DEF Contract!Forget
<1>8. \A s \in Subs : Waiting(s, "completed") \/ Waiting(s, "return") => s = j.sub
  <2>1. ASSUME NEW s \in Subs, Waiting(s, "completed") \/ Waiting(s, "return") PROVE Growing(s)
    BY <2>1, DuePaid DEF Due, Payment
  <2>. QED BY <1>2, <2>1
<1>9. ContractInv'
  BY <1>j, <1>1, <1>2, <1>3, <1>4, <1>8, SavedContract
<1>. QED BY <1>7, <1>9 DEF Keeps, Contract!Next

(* What a handler finds that goes by the id of the subscription.           *)
LEMMA FoundFacts ==
  ASSUME TypeInv, SerialInv, Serial, ContractInv, NEW p \in Procs, NEW j \in Job, j = job[p],
         JobOK(j), JobRight(j), j.op = "webhook", j.ev.type \in {"paid", "updated", "deleted"},
         j.row # 0
  PROVE  /\ DOMAIN subscription = {1} /\ subscription[1] = j.old
         /\ j.old \in Row /\ RowRight(j.old) /\ j.old.sid = j.sub /\ j.sub \in Subs
         /\ j.ev.period \in Nat /\ j.ev.cancel \in BOOLEAN /\ EventRight(j.ev) /\ j.ev.sub = j.sub
         /\ HasRow /\ Pending = IF j.old.ptype # "NONE" THEN j.old.pplan ELSE NoPlan
         /\ Ripe = (j.old.ptype = "DOWNGRADE" /\ stripe[j.sub].period > scheduled[j.sub])
         /\ Over = Due(j.sub, "deleted")
         /\ workspace.plan = j.old.plan \/ (stripe[j.sub].period = 1 /\ Due(j.sub, "paid"))
<1>1. /\ Handling(j) /\ j.sub \in Subs /\ j.ev.sub = j.sub
      /\ EventRight(j.ev) /\ j.ev.period \in Nat /\ j.ev.cancel \in BOOLEAN
  BY HandlerFacts
<1>2. /\ DOMAIN subscription = {1} /\ subscription[1] = j.old
      /\ j.old \in Row /\ RowRight(j.old)
  BY TheRow
<1>3. j.old.sid = j.sub
  BY <1>1 DEF Handling
<1>4. /\ HasRow /\ Pending = IF j.old.ptype # "NONE" THEN j.old.pplan ELSE NoPlan
      /\ Ripe = (j.old.ptype = "DOWNGRADE" /\ stripe[j.sub].period > scheduled[j.sub])
      /\ Over = Due(j.sub, "deleted")
  BY <1>2, <1>3, RowBefore
<1>5. workspace.plan = j.old.plan \/ (stripe[j.sub].period = 1 /\ Due(j.sub, "paid"))
  BY <1>2, <1>3, <1>4 DEF ContractInv, PlanRight
<1>. QED BY <1>1, <1>2, <1>3, <1>4, <1>5

(* invoice.paid: the first one grants what was bought, a later one carries *)
(* out the downgrade that waits.                                           *)
LEMMA SavePaidContract ==
  ASSUME TypeInv, SerialInv, Serial, ContractInv, NEW p \in Procs, SavePaid(p)
  PROVE  Keeps /\ ContractInv'
<1>j. PICK j \in Job : j = job[p] /\ JobOK(j) /\ JobRight(j)
  BY JobFacts DEF SerialInv
<1>1. /\ j.op = "webhook" /\ j.ev.type = "paid" /\ Finish(p)
      /\ stripe' = stripe /\ events' = events
      /\ SaveRow(j, PaidRow(j)) /\ SavePlan(j, PaidRow(j).plan)
  BY <1>j DEF SavePaid, Handles, At, stripeVars
<1>2. j.row # 0
  BY <1>j, <1>1, PaidFound DEF JobRight
<1>3. /\ DOMAIN subscription = {1} /\ subscription[1] = j.old
      /\ j.old \in Row /\ RowRight(j.old) /\ j.old.sid = j.sub /\ j.sub \in Subs
      /\ j.ev.period \in Nat /\ EventRight(j.ev) /\ j.ev.sub = j.sub
      /\ HasRow /\ Pending = IF j.old.ptype # "NONE" THEN j.old.pplan ELSE NoPlan
      /\ Ripe = (j.old.ptype = "DOWNGRADE" /\ stripe[j.sub].period > scheduled[j.sub])
      /\ workspace.plan = j.old.plan \/ (stripe[j.sub].period = 1 /\ Due(j.sub, "paid"))
  BY <1>j, <1>1, <1>2, FoundFacts
<1>4. /\ Growing(j.sub) /\ stripe[j.sub].status = "active" /\ ~ stripe[j.sub].cancel
      /\ scheduled[j.sub] < stripe[j.sub].period
      /\ stripe[j.sub].period \in Nat /\ scheduled[j.sub] \in Nat
  BY <1>1, <1>3 DEF EventRight, Payment, Growing, TypeInv, TypeOK, StripeSub
<1>5. \A u \in Subs : Growing(u) => u = j.sub
  BY <1>3, <1>4 DEF SerialInv, Linked
<1>6. \A u : ~ Changing(u)
  BY <1>j, <1>1, HandlerFacts
<1>7. /\ j.old.ptype = "DOWNGRADE" => j.old.pplan \in Paid /\ j.old.pplan \in Plans
                                      /\ j.old.pplan = stripe[j.sub].plan
      /\ j.old.ptype = "NONE" => j.old.plan = stripe[j.sub].plan
      /\ j.old.ptype \in {"NONE", "DOWNGRADE"}
  <2>1. j.old.ptype \in {"NONE", "DOWNGRADE", "CANCEL_TO_FREE"}
    BY <1>3 DEF Row
  <2>. QED BY <1>3, <1>4, <1>6, <2>1 DEF RowRight, Paid
<1>8. PICK new \in Row :
        /\ new = PaidRow(j) /\ new.sid = j.sub /\ new.ptype = "NONE"
        /\ new.plan = IF j.old.ptype = "DOWNGRADE" THEN j.old.pplan ELSE j.old.plan
  BY <1>3, <1>7, PaidRowIs
<1>9. SaveRow(j, new) /\ SavePlan(j, new.plan) /\ new.plan \in Plans /\ new.plan = stripe[j.sub].plan
  BY <1>1, <1>7, <1>8 DEF Row
<1>10. workspace'.plan = new.plan
  BY <1>j, <1>1, <1>9, SavedPlanIs
<1>11. Pending' = NoPlan /\ Ripe' = FALSE /\ Over' = FALSE /\ Over = FALSE /\ Bought' \subseteq Bought
  <2>1. /\ Pending' = IF new.ptype # "NONE" THEN new.pplan ELSE NoPlan
        /\ Ripe' = (new.ptype = "DOWNGRADE" /\ stripe[new.sid].period > scheduled'[new.sid])
        /\ Over' = Waiting(new.sid, "deleted") /\ Bought' \subseteq Bought
    BY <1>j, <1>1, <1>2, <1>9, SavedView
  <2>2. ~ Waiting(new.sid, "deleted") /\ Over = FALSE /\ Waiting(new.sid, "deleted") \in BOOLEAN
    BY <1>j, <1>1, HandlerView DEF Waiting
  <2>. QED BY <1>8, <2>1, <2>2
<1>12. Keeps
  <2>1. CASE stripe[j.sub].period = 1
    <3>1. Due(j.sub, "paid")
      BY <1>j, <1>1, HandlerView
    <3>2. Bought = {stripe[j.sub].plan}
      BY <1>3, <1>4, <2>1, <3>1, BoughtIs
    <3>3. Bought' \in {Bought, {}}
      BY <1>11, <3>2
    <3>4. Contract!Grant
      BY <1>9, <1>10, <1>11, <3>2, <3>3 DEF Contract!Grant
    <3>. QED BY <3>4 DEF Keeps, Contract!Next
  <2>2. CASE stripe[j.sub].period # 1
    <3>1. Bought = {}
      <4>1. ASSUME NEW u \in Subs, Due(u, "paid") PROVE u = j.sub
        BY <1>5, <4>1, DuePaid DEF Payment
      <4>2. Settling = {}
        BY <2>2, <4>1 DEF Settling
      <4>. QED BY <4>2 DEF Bought
    <3>2. Bought' = {} /\ workspace.plan = j.old.plan
      BY <1>3, <1>11, <2>2, <3>1
    <3>3. CASE j.old.ptype = "DOWNGRADE"
      <4>1. Ripe = TRUE /\ Pending = j.old.pplan
        BY <1>3, <1>4, <3>3
      <4>2. Contract!CarryOut
        BY <1>7, <1>8, <1>10, <1>11, <3>1, <3>2, <3>3, <4>1 DEF Contract!CarryOut, Contract!Paid, Paid
      <4>. QED BY <4>2 DEF Keeps, Contract!Next
    <3>4. CASE j.old.ptype = "NONE"
      <4>1. Ripe = FALSE /\ Pending = NoPlan
        BY <1>3, <3>4
      <4>2. workspace'.plan = workspace.plan
        BY <1>8, <1>10, <3>2, <3>4
      <4>. QED BY <1>11, <3>1, <3>2, <4>1, <4>2, Unseen
    <3>. QED BY <1>7, <3>3, <3>4
  <2>. QED BY <2>1, <2>2
<1>13. \A s \in Subs : Waiting(s, "completed") \/ Waiting(s, "return") => s = j.sub
  <2>1. ASSUME NEW s \in Subs, Waiting(s, "completed") \/ Waiting(s, "return") PROVE Growing(s)
    BY <2>1, DuePaid DEF Due, Payment
  <2>. QED BY <1>5, <2>1
<1>14. ContractInv'
  BY <1>j, <1>1, <1>2, <1>8, <1>9, <1>10, <1>13, SavedContract
<1>. QED BY <1>12, <1>14

(* customer.subscription.updated: nothing the contract knows of.           *)
LEMMA SaveUpdatedContract ==
  ASSUME TypeInv, SerialInv, Serial, ContractInv, NEW p \in Procs, SaveUpdated(p)
  PROVE  Keeps /\ ContractInv'
<1>j. PICK j \in Job : j = job[p] /\ JobOK(j) /\ JobRight(j)
  BY JobFacts DEF SerialInv
<1>1. /\ j.op = "webhook" /\ j.ev.type = "updated" /\ Finish(p) /\ j.row # 0
      /\ stripe' = stripe /\ events' = events /\ workspace' = workspace /\ scheduled' = scheduled
  BY <1>j DEF SaveUpdated, Handles, Applies, At, JobOK, stripeVars, ghostVars
<1>2. /\ DOMAIN subscription = {1} /\ subscription[1] = j.old
      /\ j.old \in Row /\ j.old.sid = j.sub /\ j.sub \in Subs
      /\ j.ev.period \in Nat /\ j.ev.cancel \in BOOLEAN
      /\ HasRow /\ Pending = IF j.old.ptype # "NONE" THEN j.old.pplan ELSE NoPlan
      /\ Ripe = (j.old.ptype = "DOWNGRADE" /\ stripe[j.sub].period > scheduled[j.sub])
      /\ workspace.plan = j.old.plan \/ (stripe[j.sub].period = 1 /\ Due(j.sub, "paid"))
  BY <1>j, <1>1, FoundFacts
<1>3. \A u, t : Due(u, t) /\ t # j.ev.type => Waiting(u, t)
  BY <1>j, <1>1, HandlerFacts
<1> DEFINE row == [j.old EXCEPT !.status = IF j.ev.active THEN "ACTIVE" ELSE @,
                                !.period = j.ev.period, !.cancel = j.ev.cancel]
<1>4. SaveRow(j, row)
  BY <1>j DEF SaveUpdated
<1>5. PICK new \in Row :
        /\ new = row /\ new.sid = j.sub /\ new.plan = j.old.plan /\ new.ptype = j.old.ptype
        /\ new.pplan = j.old.pplan
  <2>1. /\ row \in Row /\ row.sid = j.sub /\ row.plan = j.old.plan /\ row.ptype = j.old.ptype
        /\ row.pplan = j.old.pplan
    BY <1>2 DEF Row, RowStatus
  <2>. QED BY <2>1
<1>. HIDE DEF row
<1>6. Pending' = Pending /\ Ripe' = Ripe /\ Over' = Over
  <2>1. /\ Pending' = IF new.ptype # "NONE" THEN new.pplan ELSE NoPlan
        /\ Ripe' = (new.ptype = "DOWNGRADE" /\ stripe[new.sid].period > scheduled'[new.sid])
        /\ Over' = Waiting(new.sid, "deleted")
    BY <1>j, <1>1, <1>4, <1>5, SavedView
  <2>2. ~ Waiting(new.sid, "deleted") /\ Over = FALSE /\ Waiting(new.sid, "deleted") \in BOOLEAN
    BY <1>j, <1>1, HandlerView DEF Waiting
  <2>. QED BY <1>1, <1>2, <1>5, <2>1, <2>2
<1>7. Bought' = Bought
  <2>1. job' = [job EXCEPT ![p] = Idle]
    BY <1>1 DEF Finish
  <2>2. ASSUME NEW u \in Subs PROVE Due(u, "paid")' <=> Due(u, "paid")
    <3>1. Due(u, "paid")' <=> Waiting(u, "paid")
      BY <1>1, <2>1, FinishedDue
    <3>. QED BY <1>1, <1>3, <3>1 DEF Due
  <2>. QED BY <1>1, <2>2, BoughtSame
<1>8. Keeps
  BY <1>1, <1>6, <1>7, Unseen
<1>9. \A s \in Subs : Waiting(s, "completed") \/ Waiting(s, "return") =>
        \/ Waiting(s, "paid")
        \/ new.sid = s /\ new.ptype = "NONE" /\ new.plan = stripe[s].plan
  <2>1. ASSUME NEW s \in Subs, Waiting(s, "completed") \/ Waiting(s, "return"), ~ Due(s, "paid")
        PROVE  new.sid = s /\ new.ptype = "NONE" /\ new.plan = stripe[s].plan
    BY <1>2, <1>5, <2>1 DEF ContractInv, PurchaseRight, Due
  <2>. QED BY <1>1, <1>3, <2>1
<1>10. workspace'.plan = new.plan \/ (stripe[new.sid].period = 1 /\ Waiting(new.sid, "paid"))
  BY <1>1, <1>2, <1>3, <1>5
<1>11. ContractInv'
  BY <1>j, <1>1, <1>4, <1>5, <1>9, <1>10, SavedContract
<1>. QED BY <1>8, <1>11

(* customer.subscription.deleted: the workspace is on FREE again.          *)
LEMMA SaveDeletedContract ==
  ASSUME TypeInv, SerialInv, Serial, ContractInv, NEW p \in Procs, SaveDeleted(p)
  PROVE  Keeps /\ ContractInv'
<1>j. PICK j \in Job : j = job[p] /\ JobOK(j) /\ JobRight(j)
  BY JobFacts DEF SerialInv
<1>1. /\ j.op = "webhook" /\ j.ev.type = "deleted" /\ Finish(p) /\ j.row # 0
      /\ stripe' = stripe /\ events' = events
  BY <1>j DEF SaveDeleted, Handles, Applies, At, JobOK, stripeVars
<1>2. /\ j.old \in Row /\ j.sub \in Subs /\ Over = Due(j.sub, "deleted")
  BY <1>j, <1>1, FoundFacts
<1>3. /\ events = << >> /\ Due(j.sub, "deleted")
  BY <1>j, <1>1, HandlerView
<1>4. \A u, t : ~ Waiting(u, t)
  BY <1>3 DEF Waiting
<1> DEFINE row == [ClearPending(j.old) EXCEPT !.status = "CANCELED", !.cancel = FALSE, !.plan = Free]
<1>5. SaveRow(j, row) /\ SavePlan(j, Free)
  BY <1>j DEF SaveDeleted
<1>6. PICK new \in Row : new = row /\ new.plan = Free /\ new.ptype = "NONE"
  <2>1. row \in Row /\ row.plan = Free /\ row.ptype = "NONE"
    BY <1>2, PlansAssumption DEF ClearPending, Row, RowStatus
  <2>. QED BY <2>1
<1>. HIDE DEF row
<1>7. workspace'.plan = Free
  BY <1>j, <1>1, <1>5, PlansAssumption, SavedPlanIs
<1>8. Bought = {} /\ Over = TRUE
  <2>1. \A u, t : Due(u, t) /\ t # j.ev.type => Waiting(u, t)
    BY <1>j, <1>1, HandlerFacts
  <2>2. \A u \in Subs : ~ Due(u, "paid")
    BY <1>1, <1>4, <2>1
  <2>3. Due(j.sub, "deleted") = TRUE
    BY <1>3 DEF Due
  <2>. QED BY <1>2, <2>2, <2>3, NoneBought
<1>9. Pending' = NoPlan /\ Ripe' = FALSE /\ Over' = FALSE /\ Bought' = {}
  <2>1. /\ Pending' = IF new.ptype # "NONE" THEN new.pplan ELSE NoPlan
        /\ Ripe' = (new.ptype = "DOWNGRADE" /\ stripe[new.sid].period > scheduled'[new.sid])
        /\ Over' = Waiting(new.sid, "deleted") /\ Bought' \subseteq Bought
    BY <1>j, <1>1, <1>5, <1>6, SavedView
  <2>2. ~ Waiting(new.sid, "deleted") /\ Waiting(new.sid, "deleted") \in BOOLEAN
    BY <1>4 DEF Waiting
  <2>. QED BY <1>6, <1>8, <2>1, <2>2
<1>10. Contract!GoFree
  BY <1>7, <1>8, <1>9 DEF Contract!GoFree
<1>11. ContractInv'
  BY <1>j, <1>1, <1>4, <1>5, <1>6, <1>7, SavedContract
<1>. QED BY <1>10, <1>11 DEF Keeps, Contract!Next

-----------------------------------------------------------------------------
(* The refinement.                                                         *)

(* A new workspace: on FREE, without a row.                                *)
LEMMA ContractInit == Init => ContractInv /\ Contract!Init
<1>. SUFFICES ASSUME Init PROVE ContractInv /\ Contract!Init
  OBVIOUS
<1>1. /\ events = << >> /\ subscription = << >> /\ workspace.plan = Free
      /\ \A p \in Procs : job[p].op = "none"
  BY DEF Init, Idle
<1>2. ~ HasRow
  BY <1>1 DEF HasRow
<1>3. \A s, t : ~ Due(s, t)
  BY <1>1, NothingDue
<1>4. ContractInv
  BY <1>1, <1>2, <1>3 DEF ContractInv, PurchaseRight, PlanRight, EndAlone
<1>5. Pending = NoPlan /\ Ripe = FALSE /\ Over = FALSE /\ Bought = {}
  BY <1>2, <1>3, NoneBought DEF Pending, Ripe, Over
<1>. QED BY <1>1, <1>4, <1>5 DEF Contract!Init

(* Each step is one of the contract's, or nothing it knows of.             *)
LEMMA ContractStep ==
  ASSUME TypeInv, TypeInv', SerialInv, Serial, ContractInv, Next
  PROVE  Keeps /\ ContractInv'
<1>p. PlanRight
  BY DEF ContractInv
<1>1. ASSUME NEW s \in Subs, Stripe(s) PROVE Keeps /\ ContractInv'
  <2>1. ~ PayFirstInvoice(s) /\ ~ RenewFails(s) /\ ~ Recover(s)
    <3>1. StripeRight(s)
      BY DEF SerialInv
    <3>. QED BY <3>1 DEF PayFirstInvoice, RenewFails, Recover, StripeRight, Serial
  <2>. QED BY <1>1, <2>1, PayContract, RenewContract, EndContract DEF Stripe
<1>2. CASE Leave
  BY <1>2, LeaveContract
<1>3. ASSUME NEW p \in Procs, Request(p) \/ Return(p) \/ Claim(p) \/ Step(p) \/ Fault(p)
      PROVE  Keeps /\ ContractInv'
  <2>1. ~ CreateSubscription(p) /\ ~ SaveCreate(p) /\ ~ SavePaymentFailed(p) /\ ~ Fault(p)
    BY HazardSteps
  <2>2. CASE \/ Request(p) \/ CreateCustomer(p) \/ SaveCustomer(p) \/ OpenSession(p)
             \/ StripeRefuses(p) \/ ModifyPlan(p) \/ ModifyCancel(p)
    BY <1>p, <2>2, RequestContract, ModifyContract
  <2>3. CASE Return(p) \/ Claim(p) \/ EventFails(p)
    BY <2>3, ClaimContract, EventFailsContract
  <2>4. CASE SaveUpdate(p) \/ SaveCancel(p) \/ SaveComplete(p) \/ SaveCompleted(p)
    BY <2>4, SaveUpdateContract, SaveCancelContract, SaveCompleteContract, SaveCompletedContract
  <2>5. CASE SavePaid(p) \/ SaveUpdated(p) \/ SaveDeleted(p)
    BY <2>5, SavePaidContract, SaveUpdatedContract, SaveDeletedContract
  <2>. QED BY <1>3, <2>1, <2>2, <2>3, <2>4, <2>5 DEF Step
<1>. QED BY <1>1, <1>2, <1>3 DEF Next

(* Nothing happens.                                                        *)
LEMMA ContractStutter ==
  ASSUME ContractInv, UNCHANGED vars
  PROVE  Keeps /\ ContractInv'
<1>1. UNCHANGED <<workspace, subscription, stripe, events, job, scheduled>>
  BY DEF vars, dbVars, stripeVars, ghostVars
<1>2. Pending' = Pending /\ Ripe' = Ripe /\ Bought' = Bought /\ Over' = Over
  BY <1>1 DEF Pending, Ripe, Bought, Settling, Over, HasRow, Due, Waiting, InHand
<1>3. ContractInv'
  BY <1>1 DEF ContractInv, PurchaseRight, PlanRight, EndAlone, HasRow, Due, Waiting, InHand
<1>. QED BY <1>1, <1>2, <1>3, Unseen

(* When requests and events are taken one after the other, the plan of the *)
(* workspace changes as SubscriptionContract says: it is granted because it*)
(* was bought or asked for, a downgrade waits for a later period, and FREE *)
(* comes with the end of the subscription (stripe_service.py and           *)
(* handle_event of stripe_task.py).                                        *)
THEOREM ImplementsContract ==
  ASSUME Serial
  PROVE  Spec => KeepsContract
<1>1. Init => TypeInv /\ SerialInv /\ ContractInv /\ Contract!Init
  BY TypeInit, SerialInit, ContractInit
<1>2. TypeInv /\ SerialInv /\ ContractInv /\ [Next]_vars
        => /\ (TypeInv /\ SerialInv /\ ContractInv)'
           /\ [Contract!Next]_(Contract!contractVars)
  <2>. SUFFICES ASSUME TypeInv, SerialInv, ContractInv, [Next]_vars
                PROVE  /\ (TypeInv /\ SerialInv /\ ContractInv)'
                       /\ [Contract!Next]_(Contract!contractVars)
    OBVIOUS
  <2>1. TypeInv' /\ SerialInv'
    BY TypeStep, SerialStep, SerialStutter
  <2>2. Keeps /\ ContractInv'
    BY <2>1, ContractStep, ContractStutter
  <2>. QED BY <2>1, <2>2 DEF Keeps
<1>. QED BY <1>1, <1>2, PTL DEF Spec, KeepsContract, Contract!Spec
=============================================================================
