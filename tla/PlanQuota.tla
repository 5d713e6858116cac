----------------------------- MODULE PlanQuota -----------------------------
(***************************************************************************)
(* The limits of a plan: max_users and max_tasks against the users and     *)
(* tasks of one workspace (add_user_service, delete_user_service,          *)
(* create_task_service, delete_task_service), while requests overlap and   *)
(* the plan changes (module Billing).                                      *)
(*                                                                         *)
(* A request reads the workspace and its plan when it is authenticated,    *)
(* counts, and inserts, in three steps; nothing locks what it has counted. *)
(***************************************************************************)
EXTENDS Integers, FiniteSets

CONSTANTS
  Plans, Free,   \* the plans, and the one a workspace begins with
  MaxUsers, MaxTasks,
  Users,         \* e-mail addresses, each with its phone number
  Tasks,         \* ids of tasks
  NoItem,        \* what a request that adds a task names: the id comes later
  Procs          \* requests that can be open at the same time

ASSUME PlansAssumption ==
  Free \in Plans /\ MaxUsers \in [Plans -> Nat] /\ MaxTasks \in [Plans -> Nat]
ASSUME ItemsAssumption ==
  /\ IsFiniteSet(Users) /\ IsFiniteSet(Tasks)
  /\ Users \cap Tasks = {} /\ NoItem \notin Users \cup Tasks
ASSUME ProcsAssumption == IsFiniteSet(Procs) /\ Procs # {}

VARIABLES
  plan,       \* workspaces.plan_id
  item,       \* rows of users and tasks; the users of role ADMIN apart
  job,        \* the open requests
  past,       \* history: the plans the workspace has been on
  disturbed   \* history: requests whose plan or count was changed since they read it

vars == <<plan, item, job, past, disturbed>>

Items == Users \cup Tasks
Kinds == {"user", "task"}
Ids(k) == IF k = "user" THEN Users ELSE Tasks
Limit(k, q) == IF k = "user" THEN MaxUsers[q] ELSE MaxTasks[q]

Idle == [pc |-> "idle", kind |-> "user", plan |-> Free, item |-> NoItem, role |-> "USER"]

Job == [pc : {"idle", "begun", "counted", "deleting"}, kind : Kinds, plan : Plans,
        item : Items \cup {NoItem}, role : {"USER", "ADMIN"}]

TypeOK ==
  /\ {plan, Free} \subseteq past /\ past \subseteq Plans
  /\ item \in [Items -> {"absent", "live", "admin", "deleted"}]
  /\ job \in [Procs -> Job]
  /\ disturbed \subseteq Procs
  /\ \A p \in Procs :
       /\ job[p].plan \in past
       /\ job[p].pc \in {"begun", "counted"} /\ job[p].kind = "user" => job[p].item \in Users
       /\ job[p].pc = "deleting" => job[p].item # NoItem /\ item[job[p].item] # "absent"

Init ==
  /\ plan = Free
  /\ item = [i \in Items |-> "absent"]
  /\ job = [p \in Procs |-> Idle]
  /\ past = {Free}
  /\ disturbed = {}

-----------------------------------------------------------------------------
(* Users of role USER, and tasks, that are not deleted.                    *)
Counted(k) == {i \in Ids(k) : item[i] = "live"}

Finish(p) == job' = [job EXCEPT ![p] = Idle]

(* get_current_user loads the workspace with its plan_id.                  *)
BeginAdd(p, k, i, role) ==
  /\ job[p].pc = "idle"
  /\ job' = [job EXCEPT ![p] = [pc |-> "begun", kind |-> k, plan |-> plan, item |-> i, role |-> role]]
  /\ disturbed' = disturbed \ {p}
  /\ UNCHANGED <<plan, item, past>>

AddUser(p) == \E i \in Users, role \in {"USER", "ADMIN"} : BeginAdd(p, "user", i, role)
AddTask(p) == BeginAdd(p, "task", NoItem, "USER")

(* Mutant of Admitted: one more than the maximum is let in.                *)
AdmittedOneMore(j) ==
  /\ j.kind = "user" => item[j.item] = "absent"
  /\ Cardinality(Counted(j.kind)) <= Limit(j.kind, j.plan)

(* Mutant of Admitted: the count is compared with the best of all plans.   *)
AdmittedByAnyPlan(j) ==
  /\ j.kind = "user" => item[j.item] = "absent"
  /\ \E q \in Plans : Cardinality(Counted(j.kind)) < Limit(j.kind, q)

(* The address is not in use, not even by a deleted user, and the count is *)
(* below the maximum of the plan that was loaded.                          *)
Admitted(j) ==
  /\ j.kind = "user" => item[j.item] = "absent"
  /\ Cardinality(Counted(j.kind)) < Limit(j.kind, j.plan)

Count(p) ==
  /\ job[p].pc = "begun" /\ Admitted(job[p])
  /\ job' = [job EXCEPT ![p].pc = "counted"]
  /\ UNCHANGED <<plan, item, past, disturbed>>

Refuse(p) ==
  /\ job[p].pc = "begun" /\ ~ Admitted(job[p])
  /\ Finish(p)
  /\ UNCHANGED <<plan, item, past, disturbed>>

(* The row is inserted: others that have counted already have missed it.   *)
Insert(p, i, state) ==
  /\ job[p].pc = "counted" /\ item[i] = "absent"
  /\ item' = [item EXCEPT ![i] = state]
  /\ disturbed' = disturbed \cup {q \in Procs \ {p} : job[q].pc = "counted"}
  /\ Finish(p)
  /\ UNCHANGED <<plan, past>>

InsertUser(p) ==
  /\ job[p].kind = "user"
  /\ Insert(p, job[p].item, IF job[p].role = "USER" THEN "live" ELSE "admin")

InsertTask(p) == job[p].kind = "task" /\ \E i \in Tasks : Insert(p, i, "live")

(* The unique columns email and phone, when another request was first.     *)
InsertConflict(p) ==
  /\ job[p].pc = "counted" /\ job[p].kind = "user" /\ item[job[p].item] # "absent"
  /\ Finish(p)
  /\ UNCHANGED <<plan, item, past, disturbed>>

-----------------------------------------------------------------------------
LoadForDeletion(p) ==
  /\ job[p].pc = "idle"
  /\ \E i \in Items :
       /\ item[i] \in {"live", "admin"}
       /\ job' = [job EXCEPT ![p] = [Idle EXCEPT !.pc = "deleting", !.item = i]]
  /\ disturbed' = disturbed \ {p}
  /\ UNCHANGED <<plan, item, past>>

(* Mutant of Delete: the row is removed.                                   *)
DeleteRow(p) ==
  /\ job[p].pc = "deleting"
  /\ item' = [item EXCEPT ![job[p].item] = "absent"]
  /\ Finish(p)
  /\ UNCHANGED <<plan, past, disturbed>>

Delete(p) ==
  /\ job[p].pc = "deleting"
  /\ item' = [item EXCEPT ![job[p].item] = "deleted"]
  /\ Finish(p)
  /\ UNCHANGED <<plan, past, disturbed>>

(* An exception, with a rollback.                                          *)
Fail(p) ==
  /\ job[p].pc # "idle"
  /\ Finish(p)
  /\ UNCHANGED <<plan, item, past, disturbed>>

(* Billing changes the plan, without regard to what there is.              *)
ChangePlan(q) ==
  /\ plan # q
  /\ plan' = q
  /\ past' = past \cup {q}
  /\ disturbed' = disturbed \cup {p \in Procs : job[p].pc # "idle"}
  /\ UNCHANGED <<item, job>>

Next ==
  \/ \E p \in Procs : \/ AddUser(p) \/ AddTask(p) \/ Count(p) \/ Refuse(p)
                      \/ InsertUser(p) \/ InsertTask(p) \/ InsertConflict(p)
                      \/ LoadForDeletion(p) \/ Delete(p) \/ Fail(p)
  \/ \E q \in Plans : ChangePlan(q)

Spec == Init /\ [][Next]_vars

-----------------------------------------------------------------------------
(* Users and tasks never exceed the maximum of the best plan the workspace *)
(* has had by more than the requests that can be open, less one: requests  *)
(* that count at the same time overrun the limit, but only once, since a   *)
(* count after them sees the rows (add_user_service, check_plan).          *)
WithinMargin ==
  \A k \in Kinds : \E q \in past :
    Cardinality(Counted(k)) <= Limit(k, q) + Cardinality(Procs) - 1

(* An addition goes beyond the maximum of the present plan only if, since  *)
(* the request read the plan and counted, the plan was changed or another  *)
(* request added something: one request at a time keeps the limit exactly. *)
OverrunHasACause ==
  [][\A k \in Kinds :
       LET before == Cardinality(Counted(k))
           after == Cardinality(Counted(k)') IN
       after > before /\ after > Limit(k, plan) =>
         \E p \in disturbed : job[p].pc = "counted" /\ job'[p].pc = "idle"]_vars
=============================================================================
