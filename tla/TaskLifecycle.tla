---------------------------- MODULE TaskLifecycle ----------------------------
(***************************************************************************)
(* The tasks of a workspace: requests that create, update and delete them  *)
(* and announce what they do (task_service), the job that marks late tasks *)
(* and the job that reminds of tasks due in two days (reminder_task), both *)
(* queued once a day by Celery Beat. Requests overlap, jobs run late and   *)
(* any of them may fail. Whether the plan includes notifications and which *)
(* devices there are is left open: an announcement may go out or not.      *)
(***************************************************************************)
EXTENDS Integers, FiniteSets

CONSTANTS
  Procs,        \* requests that can be open at the same time
  Tasks,        \* ids of tasks
  Users,        \* who a task can be assigned to
  Nobody, None, Null,
  Wishes,       \* tasks that clients want to be created
  Dues,         \* due dates, in days
  Inputs,       \* rows that clients ask to create
  Changes,      \* what an update may set
  Workloads,    \* what there is in a behaviour: tasks, changes, deletes, reminders
  LastDay,      \* bound: the days that are looked at
  MaxRetries,   \* max_retries of a Celery task
  MaxUpdates    \* bound: updates that are asked for

NoDue == -1
Statuses == {"TODO", "IN_PROGRESS", "OVERDUE", "DONE"}
DueDates == Dues \cup {NoDue}
Assignees == Users \cup {Nobody}
Days == 0..LastDay

Row == [state : {"absent", "live", "deleted"}, status : Statuses, due_date : DueDates,
        assignee_id : Assignees]

(* TaskUpdate with exclude_unset: None stands for a field that is not sent. *)
(* One that is sent as null is NoDue, Nobody or, for the status, Null.      *)
Change == [status : Statuses \cup {None, Null}, due_date : DueDates \cup {None},
           assignee_id : Assignees \cup {None}]

ASSUME BoundsAssumption ==
  LastDay \in Nat /\ Dues \subseteq Nat /\ MaxRetries \in Nat /\ MaxUpdates \in Nat
ASSUME InputsAssumption ==
  Changes \subseteq Change /\ Inputs \subseteq {r \in Row : r.state = "live"}
ASSUME WorkloadsAssumption ==
  Workloads \subseteq [tasks : SUBSET Tasks, changes : SUBSET Changes,
                      topics : SUBSET {"delete", "remind"}]
ASSUME NoneAssumption ==
  /\ None \notin Statuses \cup {Null} /\ Null \notin Statuses /\ None \notin DueDates
  /\ None \notin Assignees \cup Tasks \cup Wishes /\ Nobody \notin Users
ASSUME FiniteAssumption == IsFiniteSet(Tasks) /\ IsFiniteSet(Procs)

VARIABLES
  workload,    \* one of Workloads
  today,
  task,        \* rows of tasks
  job,         \* the open requests
  answered,    \* wishes that a client has been told are fulfilled
  updates,     \* updates asked for so far
  run,         \* the reminder job of each day
  wish,        \* history: the wish a task was created for
  unheard,     \* history: how often a task was committed and the answer was an error
  stale,       \* history: requests whose task was changed after they had loaded it
  reminded,    \* history: reminders sent, each with the due date it was for
  irregular    \* history: due dates some late or repeated run was for

clock == <<workload, today>>
rows == <<task, wish>>
requests == <<job, answered, updates, unheard, stale>>
reminders == <<run, reminded, irregular>>
vars == <<clock, rows, requests, reminders>>

NoRow == [state |-> "absent", status |-> "TODO", due_date |-> NoDue, assignee_id |-> Nobody]
NoChange == [status |-> None, due_date |-> None, assignee_id |-> None]

(* "told" is the status a request has announced, and "new" the row it has  *)
(* made of the one it loaded, kept only once it has been flushed.          *)
Job == [pc : {"idle", "loaded", "assigned", "flushed", "deleting", "creating", "created"},
        task : Tasks \cup {None}, loaded : Row, new : Row, change : Change,
        told : Statuses \cup {None}, wish : Wishes \cup {None}]

Idle == [pc |-> "idle", task |-> None, loaded |-> NoRow, new |-> NoRow, change |-> NoChange,
         told |-> None, wish |-> None]

Run == [pc : {"none", "queued", "running", "lost"}, todo : SUBSET (Tasks \X Dues),
        attempt : 0..MaxRetries]

TypeOK ==
  /\ workload \in Workloads
  /\ today \in Days
  /\ task \in [Tasks -> Row]
  /\ wish \in [Tasks -> Wishes \cup {None}]
  /\ \A t \in Tasks : task[t].state = "absent" <=> wish[t] = None
  /\ job \in [Procs -> Job]
  /\ \A p \in Procs : job[p].pc \in {"loaded", "assigned", "flushed", "deleting", "created"} =>
       job[p].task # None /\ task[job[p].task].state # "absent"
  /\ answered \subseteq Wishes /\ unheard \in [Wishes -> Nat]
  /\ updates \in 0..MaxUpdates
  /\ stale \subseteq Procs
  /\ run \in [Days -> Run]
  /\ reminded \subseteq Tasks \X Dues /\ irregular \subseteq Dues

Init ==
  /\ workload \in Workloads
  /\ today = 0
  /\ task = [t \in Tasks |-> NoRow]
  /\ wish = [t \in Tasks |-> None]
  /\ job = [p \in Procs |-> Idle]
  /\ answered = {} /\ unheard = [w \in Wishes |-> 0]
  /\ updates = 0
  /\ stale = {}
  /\ run = [d \in Days |-> [pc |-> IF d = 0 /\ "remind" \in workload.topics THEN "queued" ELSE "none",
                          todo |-> {}, attempt |-> 0]]
  /\ reminded = {} /\ irregular = {}

-----------------------------------------------------------------------------
Late(row) == row.due_date # NoDue /\ row.due_date < today

(* Mutant of ApplyOverdue: a task that is done is marked as well.          *)
ApplyOverdueToDone(row) == IF Late(row) THEN [row EXCEPT !.status = "OVERDUE"] ELSE row

(* Mutant of ApplyOverdue: a task that is due today is late.               *)
ApplyOverdueToday(row) ==
  IF row.due_date # NoDue /\ row.due_date <= today /\ row.status # "DONE"
  THEN [row EXCEPT !.status = "OVERDUE"] ELSE row

ApplyOverdue(row) ==
  IF Late(row) /\ row.status # "DONE" THEN [row EXCEPT !.status = "OVERDUE"] ELSE row

(* setattr of every field that was sent, then apply_overdue_status, which  *)
(* also gives a status to a late task whose status was sent as null.       *)
Updated(row, c) ==
  ApplyOverdue([row EXCEPT
    !.status = IF c.status = None THEN @ ELSE c.status,
    !.due_date = IF c.due_date = None THEN @ ELSE c.due_date,
    !.assignee_id = IF c.assignee_id = None THEN @ ELSE c.assignee_id])

(* Mutant of Flush: all columns are written.                               *)
FlushAll(row, loaded, new) == new

(* The columns that differ from what was loaded are written.               *)
Flush(row, loaded, new) ==
  [state |-> IF new.state # loaded.state THEN new.state ELSE row.state,
   status |-> IF new.status # loaded.status THEN new.status ELSE row.status,
   due_date |-> IF new.due_date # loaded.due_date THEN new.due_date ELSE row.due_date,
   assignee_id |-> IF new.assignee_id # loaded.assignee_id THEN new.assignee_id ELSE row.assignee_id]

(* An UPDATE that is not committed yet keeps others from writing the row.  *)
Locked(t, p) ==
  \E q \in Procs \ {p} : job[q].pc = "flushed" /\ job[q].task = t /\ job[q].new # job[q].loaded

(* Requests that have loaded t.                                            *)
Readers(t) == {q \in Procs : job[q].pc # "idle" /\ job[q].task = t}

Finish(p) == job' = [job EXCEPT ![p] = Idle]

(* Row t is written, at the end of a request.                              *)
Save(p, t, row) ==
  /\ task' = [task EXCEPT ![t] = row]
  /\ stale' = (stale \cup (IF row # task[t] THEN Readers(t) ELSE {})) \ {p}
  /\ Finish(p)

-----------------------------------------------------------------------------
(* create_task_service, after check_plan (module PlanQuota). A client      *)
(* sends a wish again when the answer was an error.                        *)
BeginCreate(p, w) ==
  /\ job[p].pc = "idle"
  /\ w \notin answered /\ \A q \in Procs : job[q].wish # w
  /\ job' = [job EXCEPT ![p] = [Idle EXCEPT !.pc = "creating", !.wish = w]]
  /\ UNCHANGED <<clock, rows, reminders, answered, updates, unheard, stale>>

Create(p) ==
  \E t \in workload.tasks, row \in Inputs :
    /\ job[p].pc = "creating" /\ task[t].state = "absent"
    /\ task' = [task EXCEPT ![t] = ApplyOverdue(row)]
    /\ wish' = [wish EXCEPT ![t] = job[p].wish]
    /\ job' = [job EXCEPT ![p].pc = "created", ![p].task = t]
    /\ UNCHANGED <<clock, reminders, answered, updates, unheard, stale>>

(* Mutant of AnswerCreate: the answer cannot be built.                     *)
AnswerCreateWithError(p) ==
  /\ job[p].pc = "created"
  /\ Finish(p)
  /\ UNCHANGED <<clock, rows, reminders, answered, updates, unheard, stale>>

(* The assignee is told, and the client.                                   *)
AnswerCreate(p) ==
  /\ job[p].pc = "created"
  /\ answered' = answered \cup {job[p].wish}
  /\ Finish(p)
  /\ UNCHANGED <<clock, rows, reminders, updates, unheard, stale>>

-----------------------------------------------------------------------------
(* Mutant of LoadUpdate: that the task was not found is not noticed.       *)
LoadUpdateOfNone(p) ==
  /\ job[p].pc = "idle" /\ updates < MaxUpdates
  /\ updates' = updates + 1
  /\ \E t \in Tasks, c \in workload.changes :
       job' = [job EXCEPT ![p] =
         [Idle EXCEPT !.pc = "loaded", !.task = t, !.loaded = task[t], !.change = c]]
  /\ UNCHANGED <<clock, rows, reminders, answered, unheard, stale>>

(* update_task_service: the task is loaded, deleted or not.                *)
LoadUpdate(p) ==
  /\ job[p].pc = "idle" /\ updates < MaxUpdates
  /\ updates' = updates + 1
  /\ \E t \in Tasks, c \in workload.changes :
       /\ task[t].state # "absent"
       /\ job' = [job EXCEPT ![p] =
            [Idle EXCEPT !.pc = "loaded", !.task = t, !.loaded = task[t], !.change = c]]
  /\ UNCHANGED <<clock, rows, reminders, answered, unheard, stale>>

(* "New Task Assigned" goes out before anything is written.                *)
AnnounceAssignee(p) ==
  /\ job[p].pc = "loaded" /\ job[p].change.assignee_id \in Users
  /\ job' = [job EXCEPT ![p].pc = "assigned"]
  /\ UNCHANGED <<clock, rows, reminders, answered, updates, unheard, stale>>

(* The fields are set next.                                                *)
Ready(p) ==
  \/ job[p].pc = "assigned"
  \/ job[p].pc = "loaded" /\ job[p].change.assignee_id \notin Users

Announces(c, new) == c.status \notin {None, Null} /\ new.status \in {"DONE", "IN_PROGRESS"}

(* Mutant of AnnounceStatus: the status that was sent is announced, not    *)
(* what apply_overdue_status has made of it.                               *)
AnnounceSentStatus(p) ==
  LET new == Updated(job[p].loaded, job[p].change) IN
  /\ Ready(p) /\ job[p].change.status \in {"DONE", "IN_PROGRESS"}
  /\ new # job[p].loaded => ~ Locked(job[p].task, p)
  /\ job' = [job EXCEPT ![p].pc = "flushed", ![p].new = new, ![p].told = job[p].change.status]
  /\ UNCHANGED <<clock, rows, reminders, answered, updates, unheard, stale>>

(* The plan is looked up, which flushes the changes and locks the row, and *)
(* the creator is told "Task Completed" or "Task In Progress".             *)
AnnounceStatus(p) ==
  LET new == Updated(job[p].loaded, job[p].change) IN
  /\ Ready(p) /\ Announces(job[p].change, new)
  /\ new # job[p].loaded => ~ Locked(job[p].task, p)
  /\ job' = [job EXCEPT ![p].pc = "flushed", ![p].new = new, ![p].told = new.status]
  /\ UNCHANGED <<clock, rows, reminders, answered, updates, unheard, stale>>

(* The status is null, which the column does not take.                     *)
Refused(p) == Ready(p) /\ Updated(job[p].loaded, job[p].change).status = Null

(* The commit. The answer is an error if the task is deleted by now.       *)
CommitUpdate(p) ==
  LET t == job[p].task
      new == IF job[p].pc = "flushed" THEN job[p].new
             ELSE Updated(job[p].loaded, job[p].change) IN
  /\ job[p].pc = "flushed" \/ (Ready(p) /\ ~ Announces(job[p].change, new) /\ ~ Refused(p))
  /\ new # job[p].loaded => ~ Locked(t, p)
  /\ Save(p, t, Flush(task[t], job[p].loaded, new))
  /\ UNCHANGED <<clock, wish, reminders, answered, updates, unheard>>

(* The database refuses the commit, and the request ends with an error.    *)
RefuseUpdate(p) ==
  /\ Refused(p)
  /\ stale' = stale \ {p}
  /\ Finish(p)
  /\ UNCHANGED <<clock, rows, reminders, answered, updates, unheard>>

-----------------------------------------------------------------------------
(* delete_task_service; its files are in module Attachments.               *)
LoadDelete(p) ==
  /\ job[p].pc = "idle" /\ "delete" \in workload.topics
  /\ \E t \in Tasks :
       /\ task[t].state = "live"
       /\ job' = [job EXCEPT ![p] = [Idle EXCEPT !.pc = "deleting", !.task = t]]
  /\ UNCHANGED <<clock, rows, reminders, answered, updates, unheard, stale>>

Delete(p) ==
  LET t == job[p].task IN
  /\ job[p].pc = "deleting" /\ ~ Locked(t, p)
  /\ Save(p, t, [task[t] EXCEPT !.state = "deleted"])
  /\ UNCHANGED <<clock, wish, reminders, answered, updates, unheard>>

(* An exception, with a rollback, or the end of the process. A task that   *)
(* was created stays, and so does what was announced.                      *)
Fail(p) ==
  /\ job[p].pc # "idle"
  /\ unheard' = IF job[p].pc = "created" THEN [unheard EXCEPT ![job[p].wish] = @ + 1] ELSE unheard
  /\ stale' = stale \ {p}
  /\ Finish(p)
  /\ UNCHANGED <<clock, rows, reminders, answered, updates>>

-----------------------------------------------------------------------------
(* Mutant of Overdue: only what nobody has begun is marked.                *)
OverdueTodo == {t \in Tasks : task[t].state = "live" /\ Late(task[t]) /\ task[t].status = "TODO"}

(* mark_overdue_tasks_service: one UPDATE, which waits for locked rows.    *)
Overdue ==
  {t \in Tasks : task[t].state = "live" /\ Late(task[t]) /\ task[t].status \notin {"DONE", "OVERDUE"}}

MarkOverdue ==
  /\ Overdue # {} /\ \A t \in Overdue, p \in Procs : ~ Locked(t, p)
  /\ task' = [t \in Tasks |-> IF t \in Overdue THEN [task[t] EXCEPT !.status = "OVERDUE"] ELSE task[t]]
  /\ stale' = stale \cup UNION {Readers(t) : t \in Overdue}
  /\ UNCHANGED <<clock, wish, job, answered, updates, unheard, reminders>>

(* Beat queues the reminder job of the day, unless it is down.             *)
NewDay ==
  /\ today < LastDay
  /\ today' = today + 1
  /\ \/ "remind" \in workload.topics /\ run' = [run EXCEPT ![today'].pc = "queued"]
     \/ UNCHANGED run
  /\ UNCHANGED <<workload, rows, requests, reminded, irregular>>

(* Mutant of DueSoon: the day after counts as well.                        *)
DueSoonOrLater ==
  {x \in Tasks \X Dues :
     /\ task[x[1]].state = "live" /\ task[x[1]].due_date = x[2] /\ x[2] \in {today + 2, today + 3}
     /\ task[x[1]].status # "DONE" /\ task[x[1]].assignee_id # Nobody}

(* Tasks that are due in two days, with their date.                        *)
DueSoon ==
  {x \in Tasks \X Dues :
     /\ task[x[1]].state = "live" /\ task[x[1]].due_date = x[2] /\ x[2] = today + 2
     /\ task[x[1]].status # "DONE" /\ task[x[1]].assignee_id # Nobody}

(* send_reminder loads the tasks once; a worker may take the job late, and *)
(* a retry begins again.                                                   *)
StartRun(d) ==
  /\ run[d].pc = "queued"
  /\ run' = [run EXCEPT ![d].pc = "running", ![d].todo = DueSoon]
  /\ irregular' = irregular \cup
       (IF d # today \/ run[d].attempt > 0 THEN {x[2] : x \in DueSoon} ELSE {})
  /\ UNCHANGED <<clock, rows, requests, reminded>>

(* One task after the other, to each active device.                        *)
Remind(d, x) ==
  /\ run[d].pc = "running" /\ x \in run[d].todo
  /\ run' = [run EXCEPT ![d].todo = @ \ {x}]
  /\ reminded' = reminded \cup {x}
  /\ UNCHANGED <<clock, rows, requests, irregular>>

(* No push notifications in the plan, or no device.                        *)
Skip(d, x) ==
  /\ run[d].pc = "running" /\ x \in run[d].todo
  /\ run' = [run EXCEPT ![d].todo = @ \ {x}]
  /\ UNCHANGED <<clock, rows, requests, reminded, irregular>>

(* autoretry_for, or the last attempt.                                     *)
FailRun(d) ==
  /\ run[d].pc = "queued" \/ run[d].todo # {}
  /\ run' = [run EXCEPT ![d] =
       IF @.attempt < MaxRetries THEN [pc |-> "queued", todo |-> {}, attempt |-> @.attempt + 1]
       ELSE [@ EXCEPT !.pc = "lost", !.todo = {}]]
  /\ UNCHANGED <<clock, rows, requests, reminded, irregular>>

(* The worker dies: the message was acknowledged when it was taken.        *)
CrashRun(d) ==
  /\ run[d].todo # {}
  /\ run' = [run EXCEPT ![d].pc = "lost", ![d].todo = {}]
  /\ UNCHANGED <<clock, rows, requests, reminded, irregular>>

Proceed(p) == AnnounceAssignee(p) \/ AnnounceStatus(p) \/ CommitUpdate(p) \/ RefuseUpdate(p) \/ Delete(p)

Next ==
  \/ \E p \in Procs :
       \/ \E w \in Wishes : BeginCreate(p, w)
       \/ Create(p) \/ AnswerCreate(p) \/ LoadUpdate(p) \/ LoadDelete(p) \/ Proceed(p) \/ Fail(p)
  \/ MarkOverdue \/ NewDay
  \/ \E d \in Days : \/ StartRun(d) \/ FailRun(d) \/ CrashRun(d)
                     \/ \E x \in run[d].todo : Remind(d, x) \/ Skip(d, x)

Spec == Init /\ [][Next]_vars

(* An open request goes on, and the overdue job comes again every day.     *)
FairSpec == Spec /\ WF_vars(MarkOverdue) /\ \A p \in Procs : WF_vars(Proceed(p))

-----------------------------------------------------------------------------
(* The step that commits an update of t, or ends it with an error.         *)
Committing(p, t) ==
  job[p].pc \in {"loaded", "assigned", "flushed"} /\ job[p].task = t /\ job'[p].pc = "idle"

(* A task that is done stays done, whatever its due date and the jobs,     *)
(* except for an update that sends another status, one that sends null for *)
(* it when the date is past, or one that loaded the task before it was     *)
(* done (update_task_service, apply_overdue_status,                        *)
(* mark_overdue_tasks_service).                                            *)
DoneStaysDone ==
  [][\A t \in Tasks : task[t].status = "DONE" /\ task'[t].status # "DONE" =>
       \E p \in Procs : /\ Committing(p, t)
                        /\ \/ job[p].change.status \in Statuses \ {"DONE"}
                           \/ job[p].change.status = Null /\ Late(task'[t])
                           \/ p \in stale]_vars

(* A task becomes OVERDUE when its date is past, by the clock and by the   *)
(* date that is in the row with it, unless a client sends that status or   *)
(* an update writes what it made of an older row (apply_overdue_status,    *)
(* mark_overdue_tasks_service).                                            *)
MarkedIsLate ==
  [][\A t \in Tasks :
       /\ task[t].state # "absent" /\ task[t].status # "OVERDUE" /\ task'[t].status = "OVERDUE"
       /\ ~ Late(task'[t])
       => \E p \in Procs : Committing(p, t) /\ (job[p].change.status = "OVERDUE" \/ p \in stale)]_vars

(* When an update commits, the status and the assignee it has announced    *)
(* are in the row, unless they were what it had loaded, so that it writes  *)
(* nothing, and another request has changed them since                     *)
(* (update_task_service announces before it commits).                      *)
AnnouncedIsCommitted ==
  [][\A p \in Procs : CommitUpdate(p) =>
       LET row == task'[job[p].task]
           loaded == job[p].loaded IN
       /\ \/ job[p].told \in {None, row.status}
          \/ p \in stale /\ loaded.status = job[p].told
       /\ \/ job[p].change.assignee_id \in {None, Nobody, row.assignee_id}
          \/ p \in stale /\ loaded.assignee_id = job[p].change.assignee_id]_vars

(* An update may load a deleted task, or one that is deleted before its    *)
(* commit: it never brings the task back (update_task_service).            *)
DeletedForGood ==
  [][\A t \in Tasks : task[t].state = "deleted" => task'[t].state = "deleted"]_vars

(* A wish is fulfilled once, and once more for each time that a request    *)
(* failed after its commit, when the client could not know                 *)
(* (create_task_service notifies in the same try block).                   *)
OneTaskPerWish ==
  \A w \in Wishes : Cardinality({t \in Tasks : wish[t] = w}) <= 1 + unheard[w]

(* A second reminder of the same task for the same date is the work of a   *)
(* run that was repeated after a failure, or taken on a later day          *)
(* (send_reminder asks for one day exactly).                               *)
SecondReminderHasACause ==
  [][\A d \in Days : \A x \in run[d].todo \cap reminded : Remind(d, x) => x[2] \in irregular]_vars

(* A task that the overdue job is there for.                               *)
Unmarked(t) ==
  task[t].state = "live" /\ Late(task[t]) /\ task[t].status \in {"TODO", "IN_PROGRESS"}

(* A late task is marked, unless it is finished, deleted or put off first  *)
(* (mark_overdue_tasks and Beat).                                          *)
LateIsMarked == \A t \in Tasks : Unmarked(t) ~> ~ Unmarked(t)
=============================================================================
