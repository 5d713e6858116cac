-------------------------- MODULE PlanQuotaProofs --------------------------
(***************************************************************************)
(* Proofs about PlanQuota, for any plans, limits and number of requests.   *)
(***************************************************************************)
EXTENDS PlanQuota, FiniteSetTheorems, TLAPS

(* Requests that have counted and may still insert.                        *)
Pending(k) == {p \in Procs : job[p].pc = "counted" /\ job[p].kind = k}

(* What is there and what may still be inserted on the strength of a count.*)
Margin ==
  \A k \in Kinds : \E q \in past :
    Cardinality(Counted(k)) + Cardinality(Pending(k)) <= Limit(k, q) + Cardinality(Procs) - 1

(* What a request has read is still so, unless it was disturbed.           *)
Fresh(p) ==
  /\ job[p].pc \in {"begun", "counted"} => job[p].plan = plan
  /\ job[p].pc = "counted" => Cardinality(Counted(job[p].kind)) < Limit(job[p].kind, plan)

Inv == TypeOK /\ Margin /\ \A p \in Procs \ disturbed : Fresh(p)

(* The sets that are counted are finite.                                   *)
LEMMA Finite ==
  ASSUME NEW k \in Kinds
  PROVE  /\ IsFiniteSet(Counted(k)) /\ Cardinality(Counted(k)) \in Nat
         /\ IsFiniteSet(Pending(k)) /\ Cardinality(Pending(k)) \in Nat
         /\ Cardinality(Pending(k)) <= Cardinality(Procs)
         /\ Cardinality(Procs) \in Nat \ {0}
<1>1. IsFiniteSet(Ids(k)) /\ Counted(k) \subseteq Ids(k)
  BY ItemsAssumption DEF Ids, Counted
<1>2. IsFiniteSet(Procs) /\ Pending(k) \subseteq Procs
  BY ProcsAssumption DEF Pending
<1>3. Cardinality(Procs) \in Nat \ {0}
  BY <1>2, ProcsAssumption, FS_CardinalityType, FS_EmptySet
<1> QED
  BY <1>1, <1>2, <1>3, FS_Subset, FS_CardinalityType

(* Maxima are numbers.                                                     *)
LEMMA Limits ==
  ASSUME NEW k \in Kinds, NEW q \in Plans
  PROVE  Limit(k, q) \in Nat
BY PlansAssumption DEF Limit

(* A step that makes neither set larger keeps the margin.                  *)
LEMMA MarginShrinks ==
  ASSUME Margin, past \subseteq past', past \subseteq Plans,
         \A k \in Kinds : Counted(k)' \subseteq Counted(k) /\ Pending(k)' \subseteq Pending(k)
  PROVE  Margin'
<1> SUFFICES ASSUME NEW k \in Kinds
             PROVE  \E q \in past' : Cardinality(Counted(k)') + Cardinality(Pending(k)')
                                       <= Limit(k, q) + Cardinality(Procs) - 1
  BY DEF Margin, Limit
<1>1. PICK q \in past : Cardinality(Counted(k)) + Cardinality(Pending(k))
                          <= Limit(k, q) + Cardinality(Procs) - 1
  BY DEF Margin
<1>2. /\ Cardinality(Counted(k)') <= Cardinality(Counted(k)) /\ Cardinality(Counted(k)') \in Nat
      /\ Cardinality(Pending(k)') <= Cardinality(Pending(k)) /\ Cardinality(Pending(k)') \in Nat
  BY Finite, FS_Subset, FS_CardinalityType
<1> QED
  BY <1>1, <1>2, Finite, Limits

(* Initially nothing is there and no request is open.                      *)
LEMMA InitInv == Init => Inv
<1> SUFFICES ASSUME Init
             PROVE  Inv
  OBVIOUS
<1> USE DEF Init
<1>1. TypeOK
  BY PlansAssumption DEF TypeOK, Job, Idle, Kinds
<1>2. \A p \in Procs : Fresh(p)
  BY DEF Fresh, Idle
<1>3. Margin
  <2> SUFFICES ASSUME NEW k \in Kinds
               PROVE  Cardinality(Counted(k)) + Cardinality(Pending(k))
                        <= Limit(k, Free) + Cardinality(Procs) - 1
    BY DEF Margin
  <2>1. Counted(k) = {} /\ Pending(k) = {}
    BY DEF Counted, Pending, Idle, Ids, Items
  <2>2. Limit(k, Free) \in Nat
    BY PlansAssumption, Limits
  <2> QED
    BY <2>1, <2>2, Finite, FS_EmptySet
<1> QED
  BY <1>1, <1>2, <1>3 DEF Inv

-----------------------------------------------------------------------------
(* A request ends or begins, and no row and no plan changes.               *)
LEMMA QuietInv ==
  ASSUME Inv, NEW p \in Procs, NEW j \in Job, job' = [job EXCEPT ![p] = j],
         UNCHANGED <<plan, item, past>>, disturbed' \in {disturbed, disturbed \ {p}},
         j.pc # "counted", j.pc = "begun" => j.plan = plan, j.plan \in past,
         j.pc = "begun" /\ j.kind = "user" => j.item \in Users,
         j.pc = "deleting" => j.item # NoItem /\ item[j.item] # "absent"
  PROVE  Inv'
<1>1. TypeOK
  BY DEF Inv
<1>2. \A r \in Procs : job'[r] = IF r = p THEN j ELSE job[r]
  BY <1>1 DEF TypeOK
<1>3. TypeOK'
  <2>1. job' \in [Procs -> Job]
    BY <1>1 DEF TypeOK
  <2> QED
    BY <1>1, <1>2, <2>1 DEF TypeOK
<1>4. Margin'
  <2>1. \A k \in Kinds : Counted(k)' = Counted(k) /\ Pending(k)' \subseteq Pending(k)
    BY <1>2 DEF Counted, Pending, Ids
  <2> QED
    BY <1>1, <2>1, MarginShrinks DEF Inv, TypeOK
<1>5. \A r \in Procs \ disturbed' : Fresh(r)'
  BY <1>2 DEF Inv, Fresh, Counted, Ids, Limit
<1> QED
  BY <1>3, <1>4, <1>5 DEF Inv

(* A request that has no more to do ends.                                  *)
LEMMA EndInv ==
  ASSUME Inv, NEW p \in Procs, Finish(p), UNCHANGED <<plan, item, past, disturbed>>
  PROVE  Inv'
<1>1. Idle \in Job /\ Idle.plan \in past
  BY PlansAssumption DEF Idle, Job, Kinds, Inv, TypeOK
<1> QED
  BY <1>1, QuietInv DEF Finish, Idle

(* A count below the limit leaves room for every open request but one.     *)
LEMMA CountInv ==
  ASSUME Inv, NEW p \in Procs, Count(p)
  PROVE  Inv'
<1> USE DEF Count
<1>1. TypeOK /\ job[p] \in Job /\ job[p].plan \in past /\ past \subseteq Plans
  BY DEF Inv, TypeOK
<1>2. \A r \in Procs : /\ r # p => job'[r] = job[r]
                       /\ job'[r].kind = job[r].kind
                       /\ job'[r].plan = job[r].plan
                       /\ job'[r].item = job[r].item
                       /\ job'[r].pc = IF r = p THEN "counted" ELSE job[r].pc
  BY <1>1 DEF TypeOK, Job
<1>3. TypeOK'
  <2>1. job' \in [Procs -> Job]
    BY <1>1 DEF TypeOK, Job
  <2> QED
    BY <1>1, <1>2, <2>1 DEF TypeOK
<1>4. \A k \in Kinds : Counted(k)' = Counted(k)
  BY DEF Counted, Ids
<1>5. Margin'
  <2> SUFFICES ASSUME NEW k \in Kinds
               PROVE  \E q \in past : Cardinality(Counted(k)) + Cardinality(Pending(k)')
                                        <= Limit(k, q) + Cardinality(Procs) - 1
    BY <1>4 DEF Margin, Limit
  <2>1. CASE k = job[p].kind
    <3>1. Cardinality(Counted(k)) < Limit(k, job[p].plan)
      BY <2>1 DEF Admitted
    <3>2. Cardinality(Pending(k)') \in Nat /\ Cardinality(Pending(k)') <= Cardinality(Procs)
      <4>1. Pending(k)' \subseteq Procs
        BY DEF Pending
      <4> QED
        BY <4>1, ProcsAssumption, FS_Subset, FS_CardinalityType
    <3>3. Limit(k, job[p].plan) \in Nat
      BY <1>1, Limits
    <3>4. Cardinality(Counted(k)) + Cardinality(Pending(k)')
            <= Limit(k, job[p].plan) + Cardinality(Procs) - 1
      BY <3>1, <3>2, <3>3, Finite
    <3> QED
      BY <1>1, <3>4
  <2>2. CASE k # job[p].kind
    <3>1. Pending(k)' = Pending(k)
      BY <1>2, <2>2 DEF Pending
    <3> QED
      BY <3>1 DEF Inv, Margin
  <2> QED
    BY <2>1, <2>2
<1>6. \A r \in Procs \ disturbed' : Fresh(r)'
  <2> SUFFICES ASSUME NEW r \in Procs \ disturbed
               PROVE  Fresh(r)'
    OBVIOUS
  <2>1. job[r].kind \in Kinds
    BY <1>1 DEF TypeOK, Job
  <2>2. CASE r = p
    <3>1. job[p].plan = plan
      BY <2>2 DEF Inv, Fresh
    <3> QED
      BY <1>2, <1>4, <2>1, <2>2, <3>1 DEF Fresh, Admitted, Limit
  <2>3. CASE r # p
    BY <1>2, <1>4, <2>1, <2>3 DEF Inv, Fresh, Limit
  <2> QED
    BY <2>2, <2>3
<1> QED
  BY <1>3, <1>5, <1>6 DEF Inv

-----------------------------------------------------------------------------
(* One more element is at most one more.                                   *)
LEMMA AddOne ==
  ASSUME NEW S, IsFiniteSet(S), NEW x
  PROVE  /\ Cardinality(S \cup {x}) \in Nat
         /\ Cardinality(S \cup {x}) <= Cardinality(S) + 1
<1>1. Cardinality(S) \in Nat
  BY FS_CardinalityType
<1>2. /\ IsFiniteSet(S \cup {x})
      /\ Cardinality(S \cup {x}) = Cardinality(S) \/ Cardinality(S \cup {x}) = Cardinality(S) + 1
  BY FS_AddElement
<1> QED
  BY <1>1, <1>2

(* What an insertion adds to the set that is counted.                      *)
LEMMA Inserted ==
  ASSUME TypeOK, NEW i \in Items, NEW state \in {"live", "admin"}, NEW k \in Kinds,
         item[i] = "absent", item' = [item EXCEPT ![i] = state]
  PROVE  Counted(k)' = IF state = "live" /\ i \in Ids(k) THEN Counted(k) \cup {i} ELSE Counted(k)
<1>1. \A x \in Items : item'[x] = IF x = i THEN state ELSE item[x]
  BY DEF TypeOK
<1>2. Ids(k) \subseteq Items /\ Ids(k)' = Ids(k)
  BY DEF Ids, Items
<1> QED
  BY <1>1, <1>2 DEF Counted

(* The request that inserts is one less that may insert.                   *)
LEMMA InsertInv ==
  ASSUME Inv, NEW p \in Procs, NEW i \in Ids(job[p].kind), NEW state \in {"live", "admin"},
         Insert(p, i, state)
  PROVE  Inv'
<1> USE DEF Insert
<1>1. TypeOK /\ job[p] \in Job /\ past \subseteq Plans
  BY DEF Inv, TypeOK
<1>2. job[p].kind \in Kinds /\ i \in Items
  BY <1>1 DEF Job, Ids, Items
<1>3. \A r \in Procs : job'[r] = IF r = p THEN Idle ELSE job[r]
  BY <1>1 DEF TypeOK, Finish
<1>4. TypeOK'
  <2>1. Idle \in Job
    BY PlansAssumption DEF Idle, Job, Kinds
  <2>2. job' \in [Procs -> Job]
    BY <1>1, <2>1 DEF TypeOK, Finish
  <2>3. item' \in [Items -> {"absent", "live", "admin", "deleted"}]
    BY <1>1, <1>2 DEF TypeOK
  <2>4. \A x : item[x] # "absent" => item'[x] = item[x]
    BY <1>1, <1>2 DEF TypeOK
  <2>5. Idle.pc = "idle" /\ Idle.plan = Free
    BY DEF Idle
  <2> QED
    BY <1>1, <1>3, <2>2, <2>3, <2>4, <2>5 DEF TypeOK
<1>5. Margin'
  <2> SUFFICES ASSUME NEW k \in Kinds
               PROVE  \E q \in past : Cardinality(Counted(k)') + Cardinality(Pending(k)')
                                        <= Limit(k, q) + Cardinality(Procs) - 1
    BY DEF Margin, Limit
  <2>1. PICK q \in past : Cardinality(Counted(k)) + Cardinality(Pending(k))
                            <= Limit(k, q) + Cardinality(Procs) - 1
    BY DEF Inv, Margin
  <2>2. Limit(k, q) \in Nat
    BY <1>1, Limits
  <2>3. Pending(k)' = Pending(k) \ {p}
    BY <1>3 DEF Pending, Idle
  <2>4. CASE k = job[p].kind
    <3>1. p \in Pending(k)
      BY <2>4 DEF Pending
    <3>2. Cardinality(Pending(k)') = Cardinality(Pending(k)) - 1
      BY <2>3, <3>1, Finite, FS_RemoveElement
    <3>3. Counted(k)' \in {Counted(k), Counted(k) \cup {i}}
      BY <1>1, <1>2, Inserted
    <3>4. Cardinality(Counted(k)') <= Cardinality(Counted(k)) + 1 /\ Cardinality(Counted(k)') \in Nat
      <4>1. IsFiniteSet(Counted(k)) /\ Cardinality(Counted(k)) \in Nat
        BY Finite
      <4>2. CASE Counted(k)' = Counted(k)
        BY <4>1, <4>2
      <4>3. CASE Counted(k)' = Counted(k) \cup {i}
        BY <4>1, <4>3, AddOne
      <4> QED
        BY <3>3, <4>2, <4>3
    <3> QED
      BY <2>1, <2>2, <3>2, <3>4, Finite
  <2>5. CASE k # job[p].kind
    <3>1. i \notin Ids(k)
      BY <1>2, <2>5, ItemsAssumption DEF Ids, Kinds
    <3>2. Counted(k)' = Counted(k)
      BY <1>1, <1>2, <3>1, Inserted
    <3>3. Pending(k)' = Pending(k)
      BY <2>3, <2>5 DEF Pending
    <3> QED
      BY <2>1, <3>2, <3>3
  <2> QED
    BY <2>4, <2>5
<1>6. \A r \in Procs \ disturbed' : Fresh(r)'
  <2> SUFFICES ASSUME NEW r \in Procs, r \notin disturbed'
               PROVE  Fresh(r)'
    OBVIOUS
  <2>1. CASE r = p
    BY <1>3, <2>1 DEF Fresh, Idle
  <2>2. CASE r # p
    <3>1. r \notin disturbed /\ job[r].pc # "counted" /\ job'[r] = job[r]
      BY <1>3, <2>2
    <3> QED
      BY <3>1 DEF Inv, Fresh
  <2> QED
    BY <2>1, <2>2
<1> QED
  BY <1>4, <1>5, <1>6 DEF Inv

(* A deletion makes the count smaller.                                     *)
LEMMA DeleteInv ==
  ASSUME Inv, NEW p \in Procs, Delete(p)
  PROVE  Inv'
<1> USE DEF Delete
<1>1. TypeOK /\ job[p] \in Job /\ job[p].item \in Items
  BY DEF Inv, TypeOK, Job
<1>2. \A r \in Procs : job'[r] = IF r = p THEN Idle ELSE job[r]
  BY <1>1 DEF TypeOK, Finish
<1>3. \A x \in Items : item'[x] = IF x = job[p].item THEN "deleted" ELSE item[x]
  BY <1>1 DEF TypeOK
<1>4. TypeOK'
  <2>1. Idle \in Job
    BY PlansAssumption DEF Idle, Job, Kinds
  <2>2. job' \in [Procs -> Job]
    BY <1>1, <2>1 DEF TypeOK, Finish
  <2>3. item' \in [Items -> {"absent", "live", "admin", "deleted"}]
    BY <1>1 DEF TypeOK
  <2>4. Idle.pc = "idle" /\ Idle.plan = Free
    BY DEF Idle
  <2>5. \A r \in Procs : job[r].item \in Items \cup {NoItem}
    BY <1>1 DEF TypeOK, Job
  <2> QED
    BY <1>1, <1>2, <1>3, <2>2, <2>3, <2>4, <2>5 DEF TypeOK
<1>5. \A k \in Kinds : Counted(k)' \subseteq Counted(k)
  BY <1>3 DEF Counted, Ids, Items
<1>6. Margin'
  <2>1. \A k \in Kinds : Pending(k)' \subseteq Pending(k)
    BY <1>2 DEF Pending, Idle
  <2> QED
    BY <1>1, <1>5, <2>1, MarginShrinks DEF Inv, TypeOK
<1>7. \A r \in Procs \ disturbed' : Fresh(r)'
  <2> SUFFICES ASSUME NEW r \in Procs \ disturbed
               PROVE  Fresh(r)'
    OBVIOUS
  <2>1. CASE r = p
    BY <1>2, <2>1 DEF Fresh, Idle
  <2>2. CASE r # p
    <3>1. job[r].kind \in Kinds /\ job'[r] = job[r] /\ plan \in Plans
      BY <1>1, <1>2, <2>2 DEF TypeOK, Job
    <3>2. Cardinality(Counted(job[r].kind)') \in Nat
          /\ Cardinality(Counted(job[r].kind)') <= Cardinality(Counted(job[r].kind))
      BY <1>5, <3>1, Finite, FS_Subset, FS_CardinalityType
    <3>3. Limit(job[r].kind, plan) \in Nat
      BY <3>1, Limits
    <3> QED
      BY <3>1, <3>2, <3>3, Finite DEF Inv, Fresh, Limit
  <2> QED
    BY <2>1, <2>2
<1> QED
  BY <1>4, <1>6, <1>7 DEF Inv

(* A change of plan disturbs every open request, and the old plan stays    *)
(* among those that explain the count.                                     *)
LEMMA ChangePlanInv ==
  ASSUME Inv, NEW q \in Plans, ChangePlan(q)
  PROVE  Inv'
<1> USE DEF ChangePlan
<1>1. TypeOK
  BY DEF Inv
<1>2. TypeOK'
  BY <1>1 DEF TypeOK
<1>3. Margin'
  <2>1. \A k \in Kinds : Counted(k)' = Counted(k) /\ Pending(k)' = Pending(k)
    BY DEF Counted, Pending, Ids
  <2> QED
    BY <1>1, <2>1, MarginShrinks DEF Inv, TypeOK
<1>4. \A r \in Procs \ disturbed' : Fresh(r)'
  BY DEF Fresh
<1> QED
  BY <1>2, <1>3, <1>4 DEF Inv

-----------------------------------------------------------------------------
(* What the parts of a request that inserts name.                          *)
LEMMA InsertedItems ==
  ASSUME TypeOK, NEW p \in Procs, InsertUser(p) \/ InsertTask(p)
  PROVE  \E i \in Ids(job[p].kind), state \in {"live", "admin"} : Insert(p, i, state)
<1>1. CASE InsertUser(p)
  <2>1. job[p].item \in Ids(job[p].kind)
    BY <1>1 DEF TypeOK, InsertUser, Insert, Ids
  <2> QED
    BY <1>1, <2>1 DEF InsertUser
<1>2. CASE InsertTask(p)
  BY <1>2 DEF InsertTask, Ids
<1> QED
  BY <1>1, <1>2

(* Every step preserves the invariant.                                     *)
LEMMA NextInv ==
  ASSUME Inv, [Next]_vars
  PROVE  Inv'
<1>1. CASE UNCHANGED vars
  BY <1>1 DEF vars, Inv, TypeOK, Margin, Fresh, Counted, Pending, Limit, Ids
<1>2. ASSUME NEW p \in Procs, AddUser(p) \/ AddTask(p)
      PROVE  Inv'
  <2>1. PICK k \in Kinds, i \in Items \cup {NoItem}, role \in {"USER", "ADMIN"} :
          BeginAdd(p, k, i, role) /\ (k = "user" => i \in Users)
    BY <1>2 DEF AddUser, AddTask, Kinds, Items
  <2> DEFINE j == [pc |-> "begun", kind |-> k, plan |-> plan, item |-> i, role |-> role]
  <2>2. j \in Job /\ plan \in past
    BY DEF Inv, TypeOK, Job
  <2> QED
    BY <2>1, <2>2, QuietInv DEF BeginAdd
<1>3. ASSUME NEW p \in Procs, Count(p)
      PROVE  Inv'
  BY <1>3, CountInv
<1>4. ASSUME NEW p \in Procs, Refuse(p) \/ InsertConflict(p) \/ Fail(p)
      PROVE  Inv'
  BY <1>4, EndInv DEF Refuse, InsertConflict, Fail
<1>5. ASSUME NEW p \in Procs, InsertUser(p) \/ InsertTask(p)
      PROVE  Inv'
  BY <1>5, InsertedItems, InsertInv DEF Inv
<1>6. ASSUME NEW p \in Procs, LoadForDeletion(p)
      PROVE  Inv'
  <2>1. PICK i \in Items : /\ item[i] \in {"live", "admin"}
                           /\ job' = [job EXCEPT ![p] = [Idle EXCEPT !.pc = "deleting", !.item = i]]
    BY <1>6 DEF LoadForDeletion
  <2> DEFINE j == [Idle EXCEPT !.pc = "deleting", !.item = i]
  <2>2. j \in Job /\ j.plan \in past /\ i # NoItem /\ j.pc = "deleting" /\ j.item = i
    BY PlansAssumption, ItemsAssumption DEF Idle, Job, Kinds, Inv, TypeOK, Items
  <2> QED
    BY <1>6, <2>1, <2>2, QuietInv DEF LoadForDeletion
<1>7. ASSUME NEW p \in Procs, Delete(p)
      PROVE  Inv'
  BY <1>7, DeleteInv
<1>8. ASSUME NEW q \in Plans, ChangePlan(q)
      PROVE  Inv'
  BY <1>8, ChangePlanInv
<1> QED
  BY <1>1, <1>2, <1>3, <1>4, <1>5, <1>6, <1>7, <1>8 DEF Next

(* Inv holds in every reachable state.                                     *)
THEOREM InvHolds == Spec => []Inv
<1> QED
  BY InitInv, NextInv, PTL DEF Spec

(* Rows and requests keep their types; a deletion names a row that is there*)
(* (delete_user_service, delete_task_service).                             *)
THEOREM TypeCorrect == Spec => []TypeOK
<1>1. Inv => TypeOK
  BY DEF Inv
<1> QED
  BY <1>1, InvHolds, PTL

(* For any number of requests at a time, the overrun of a limit is at most *)
(* that number less one (add_user_service, check_plan).                    *)
THEOREM LimitKept == Spec => []WithinMargin
<1>1. Inv => WithinMargin
  <2> SUFFICES ASSUME Inv, NEW k \in Kinds
               PROVE  \E q \in past :
                        Cardinality(Counted(k)) <= Limit(k, q) + Cardinality(Procs) - 1
    BY DEF WithinMargin
  <2>1. PICK q \in past : Cardinality(Counted(k)) + Cardinality(Pending(k))
                            <= Limit(k, q) + Cardinality(Procs) - 1
    BY DEF Inv, Margin
  <2>2. Limit(k, q) \in Nat
    BY Limits DEF Inv, TypeOK
  <2> QED
    BY <2>1, <2>2, Finite
<1> QED
  BY <1>1, InvHolds, PTL

(* A step that adds a row takes the count above the limit of the present   *)
(* plan only for a request that was disturbed.                             *)
LEMMA InsertCause ==
  ASSUME Inv, NEW p \in Procs, NEW i \in Ids(job[p].kind), NEW state \in {"live", "admin"},
         Insert(p, i, state), p \notin disturbed, NEW k \in Kinds,
         Cardinality(Counted(k)') > Cardinality(Counted(k))
  PROVE  Cardinality(Counted(k)') <= Limit(k, plan)
<1>1. TypeOK /\ job[p].kind \in Kinds /\ i \in Items /\ plan \in Plans
  BY DEF Inv, TypeOK, Job, Ids, Items
<1>2. Counted(k)' = IF state = "live" /\ i \in Ids(k) THEN Counted(k) \cup {i} ELSE Counted(k)
  BY <1>1, Inserted DEF Insert
<1>3. i \in Ids(k) /\ Counted(k)' = Counted(k) \cup {i}
  BY <1>2, Finite
<1>4. k = job[p].kind
  BY <1>1, <1>3, ItemsAssumption DEF Ids, Kinds
<1>5. Cardinality(Counted(k)) < Limit(k, plan)
  BY <1>4 DEF Inv, Fresh, Insert
<1>6. Cardinality(Counted(k)') <= Cardinality(Counted(k)) + 1 /\ Cardinality(Counted(k)') \in Nat
  BY <1>3, Finite, AddOne
<1> QED
  BY <1>1, <1>5, <1>6, Finite, Limits

(* The cause of an overrun, for any number of requests: a request alone    *)
(* with an unchanged plan keeps the limit (add_user_service, check_plan).  *)
THEOREM OverrunExplained == Spec => OverrunHasACause
<1> DEFINE Growth(k) ==
      LET before == Cardinality(Counted(k))
          after == Cardinality(Counted(k)')
      IN  after > before /\ after > Limit(k, plan) =>
            \E p \in disturbed : job[p].pc = "counted" /\ job'[p].pc = "idle"
<1>1. ASSUME Inv, [Next]_vars, NEW k \in Kinds
      PROVE  Growth(k)
  <2> SUFFICES ASSUME Cardinality(Counted(k)') > Cardinality(Counted(k)),
                      Cardinality(Counted(k)') > Limit(k, plan)
               PROVE  \E p \in disturbed : job[p].pc = "counted" /\ job'[p].pc = "idle"
    OBVIOUS
  <2>1. CASE item' = item
    <3>1. Counted(k)' = Counted(k)
      BY <2>1 DEF Counted, Ids
    <3> QED
      BY <3>1, Finite
  <2>2. ASSUME NEW p \in Procs, InsertUser(p) \/ InsertTask(p)
        PROVE  p \in disturbed /\ job[p].pc = "counted" /\ job'[p].pc = "idle"
    <3>1. PICK i \in Ids(job[p].kind), state \in {"live", "admin"} : Insert(p, i, state)
      BY <1>1, <2>2, InsertedItems DEF Inv
    <3>2. job[p].pc = "counted" /\ job'[p].pc = "idle"
      BY <1>1, <3>1 DEF Insert, Finish, Inv, TypeOK, Idle
    <3>3. p \in disturbed
      <4>1. SUFFICES ASSUME p \notin disturbed
                     PROVE  FALSE
        OBVIOUS
      <4>2. Cardinality(Counted(k)') <= Limit(k, plan)
        BY <1>1, <3>1, <4>1, InsertCause
      <4>3. Cardinality(Counted(k)') \in Nat /\ Limit(k, plan) \in Nat
        <5>1. IsFiniteSet(Ids(k)) /\ Counted(k)' \subseteq Ids(k)
          BY ItemsAssumption DEF Ids, Counted
        <5> QED
          BY <1>1, <5>1, FS_Subset, FS_CardinalityType, Limits DEF Inv, TypeOK
      <4> QED
        BY <4>2, <4>3
    <3> QED
      BY <3>2, <3>3
  <2>3. ASSUME NEW p \in Procs, Delete(p)
        PROVE  FALSE
    <3>1. \A x \in Items : item'[x] = IF x = job[p].item THEN "deleted" ELSE item[x]
      BY <1>1, <2>3 DEF Inv, TypeOK, Delete
    <3>2. Counted(k)' \subseteq Counted(k)
      BY <3>1 DEF Counted, Ids, Items
    <3>3. Cardinality(Counted(k)') <= Cardinality(Counted(k)) /\ Cardinality(Counted(k)') \in Nat
      BY <3>2, Finite, FS_Subset, FS_CardinalityType
    <3> QED
      BY <3>3, Finite
  <2> QED
    BY <1>1, <2>1, <2>2, <2>3
       DEF Next, vars, AddUser, AddTask, BeginAdd, Count, Refuse, InsertConflict,
           LoadForDeletion, Fail, ChangePlan
<1>2. ASSUME Inv, [Next]_vars
      PROVE  [\A k \in Kinds : Growth(k)]_vars
  BY <1>1, <1>2
<1> QED
  BY <1>2, InvHolds, PTL DEF Spec, OverrunHasACause
=============================================================================
