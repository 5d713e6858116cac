------------------------ MODULE TaskLifecycleProofs ------------------------
(***************************************************************************)
(* Proofs about TaskLifecycle, for any tasks, dates, inputs, requests and  *)
(* days.                                                                   *)
(***************************************************************************)
EXTENDS TaskLifecycle, FiniteSetTheorems, TLAPS

(* A row that is not there is blank.                                       *)
BlankRows == \A t \in Tasks : task[t].state = "absent" => task[t] = NoRow

Updating == {"loaded", "assigned", "flushed"}

(* What an update has made of the row it loaded, once it is flushed.       *)
Kept(j) ==
  /\ j.new.state = j.loaded.state
  /\ j.told = j.new.status /\ j.new.status \in {"DONE", "IN_PROGRESS"}
  /\ j.change.status = "DONE" => j.new.status = "DONE"
  /\ j.change.status \notin {None, Null}
  /\ j.change.assignee_id \in Users => j.new.assignee_id = j.change.assignee_id

(* What an update knows of its row is so, unless the row was changed.      *)
UpdateKnows(p) ==
  job[p].pc \in Updating =>
    /\ job[p].loaded.state # "absent"
    /\ p \notin stale => job[p].loaded = task[job[p].task]
    /\ IF job[p].pc = "flushed" THEN Kept(job[p]) ELSE job[p].told = None

UpdatesKnow == BlankRows /\ \A p \in Procs : UpdateKnows(p)

(* A wish is with one request at a time, and not once it is answered.      *)
WishesApart ==
  /\ \A p \in Procs : job[p].wish # None <=> job[p].pc \in {"creating", "created"}
  /\ \A p \in Procs : job[p].wish # None => job[p].wish \notin answered
  /\ \A p, q \in Procs : job[p].wish # None /\ job[p].wish = job[q].wish => p = q

Made(w) == {t \in Tasks : wish[t] = w}
Known(w) == w \in answered \/ \E p \in Procs : job[p].pc = "created" /\ job[p].wish = w

(* The first task of a wish is there once its request has committed.       *)
WishesCounted ==
  \A w \in Wishes : Cardinality(Made(w)) <= unheard[w] + (IF Known(w) THEN 1 ELSE 0)

WishInv == WishesApart /\ WishesCounted

(* A regular run reminds of one date, two days ahead of its own; a date    *)
(* that was reminded of in a regular way has no regular run left.          *)
RunsAreRegular ==
  /\ \A d \in Days : \A x \in run[d].todo :
       x[2] \in irregular \/ (x[2] = d + 2 /\ x \notin reminded)
  /\ \A x \in reminded : x[2] \in irregular \/
       \E d \in Days : x[2] = d + 2 /\ (run[d].attempt > 0 \/ run[d].pc \in {"running", "lost"})
  /\ \A d \in Days : run[d].pc = "none" => run[d].todo = {}
  /\ \A d \in Days : d > today => run[d].pc = "none"

Inv == TypeOK /\ UpdatesKnow /\ WishInv /\ RunsAreRegular

-----------------------------------------------------------------------------
(* What update_task_service makes of a row.                                *)
LEMMA UpdatedRow ==
  ASSUME NEW row \in Row, NEW c \in Change
  PROVE  /\ Updated(row, c).status # Null => Updated(row, c) \in Row
         /\ c.status = Null => Updated(row, c).status \in {Null, "OVERDUE"}
         /\ Updated(row, c).state = row.state
         /\ c.status = "DONE" => Updated(row, c).status = "DONE"
         /\ c.status = None /\ row.status = "DONE" => Updated(row, c).status = "DONE"
         /\ c.assignee_id \in Users => Updated(row, c).assignee_id = c.assignee_id
         /\ Updated(row, c).status = "OVERDUE" =>
              \/ Late(Updated(row, c)) \/ c.status = "OVERDUE"
              \/ c.status = None /\ row.status = "OVERDUE"
<1> DEFINE set == [row EXCEPT
             !.status = IF c.status = None THEN @ ELSE c.status,
             !.due_date = IF c.due_date = None THEN @ ELSE c.due_date,
             !.assignee_id = IF c.assignee_id = None THEN @ ELSE c.assignee_id]
           AnyStatus == [state : {"absent", "live", "deleted"}, status : Statuses \cup {Null},
                         due_date : DueDates, assignee_id : Assignees]
<1>1. /\ set \in AnyStatus /\ set.state = row.state
      /\ set.status = IF c.status = None THEN row.status ELSE c.status
      /\ c.assignee_id \in Users => set.assignee_id = c.assignee_id
  BY NoneAssumption DEF Row, Change, Assignees
<1>2. Updated(row, c) = ApplyOverdue(set)
  BY DEF Updated
<1> HIDE DEF set
<1>3. /\ ApplyOverdue(set).status # Null => ApplyOverdue(set) \in Row
      /\ ApplyOverdue(set).state = set.state
      /\ ApplyOverdue(set).status \in {set.status, "OVERDUE"}
      /\ ApplyOverdue(set).due_date = set.due_date
      /\ ApplyOverdue(set).assignee_id = set.assignee_id
      /\ set.status = "DONE" => ApplyOverdue(set).status = "DONE"
      /\ ApplyOverdue(set).status = "OVERDUE" => Late(set) \/ set.status = "OVERDUE"
  BY <1>1 DEF ApplyOverdue, Row, Statuses
<1> QED
  BY <1>1, <1>2, <1>3, NoneAssumption DEF Late, Statuses, Change

(* A row that is created.                                                  *)
LEMMA CreatedRow ==
  ASSUME NEW row \in Inputs
  PROVE  ApplyOverdue(row) \in Row /\ ApplyOverdue(row).state = "live"
BY InputsAssumption DEF ApplyOverdue, Row, Statuses

(* Column by column, the new value or the one that is there.               *)
LEMMA FlushedRow ==
  ASSUME NEW row \in Row, NEW loaded \in Row, NEW new \in Row
  PROVE  /\ Flush(row, loaded, new) \in Row
         /\ new.state = loaded.state => Flush(row, loaded, new).state = row.state
         /\ Flush(row, loaded, new).status \in {row.status, new.status}
         /\ loaded = row => Flush(row, loaded, new) = new
         /\ Flush(row, loaded, new).status = new.status \/ loaded.status = new.status
         /\ \/ Flush(row, loaded, new).assignee_id = new.assignee_id
            \/ loaded.assignee_id = new.assignee_id
<1>1. Flush(row, loaded, new) \in Row
  BY DEF Flush, Row
<1>2. loaded = row => Flush(row, loaded, new) = new
  BY <1>1 DEF Flush, Row
<1> QED
  BY <1>1, <1>2 DEF Flush

(* One request moves: the others stay as they are.                         *)
LEMMA JobStep ==
  ASSUME TypeOK, NEW p \in Procs, NEW j \in Job, job' = [job EXCEPT ![p] = j]
  PROVE  /\ job' \in [Procs -> Job]
         /\ \A q \in Procs : job'[q] = IF q = p THEN j ELSE job[q]
BY DEF TypeOK

LEMMA IdleType == Idle \in Job /\ NoRow \in Row /\ NoChange \in Change
BY NoneAssumption
   DEF Idle, Job, NoRow, NoChange, Row, Change, DueDates, NoDue, Assignees, Statuses

-----------------------------------------------------------------------------
(* A request moves, and no row changes.                                    *)
LEMMA QuietType ==
  ASSUME TypeOK, NEW p \in Procs, NEW j \in Job, job' = [job EXCEPT ![p] = j],
         UNCHANGED <<clock, rows, reminders>>,
         answered' \subseteq Wishes, unheard' \in [Wishes -> Nat], updates' \in 0..MaxUpdates,
         stale' \subseteq Procs,
         j.pc \in Updating \cup {"deleting", "created"} =>
           j.task # None /\ task[j.task].state # "absent"
  PROVE  TypeOK'
<1>1. /\ job' \in [Procs -> Job]
      /\ \A q \in Procs : job'[q] = IF q = p THEN j ELSE job[q]
  BY JobStep
<1>2. UNCHANGED <<workload, today, task, wish, run, reminded, irregular>>
  BY DEF clock, rows, reminders
<1> QED
  BY <1>1, <1>2 DEF TypeOK, Updating

(* A row that is there is written, and a request ends.                     *)
LEMMA SaveType ==
  ASSUME TypeOK, NEW p \in Procs, NEW t \in Tasks, NEW row \in Row, Save(p, t, row),
         task[t].state # "absent", row.state # "absent",
         UNCHANGED <<clock, wish, reminders, answered, updates, unheard>>
  PROVE  TypeOK'
<1>1. /\ job' \in [Procs -> Job]
      /\ \A q \in Procs : job'[q] = IF q = p THEN Idle ELSE job[q]
  BY JobStep, IdleType DEF Save, Finish
<1>2. /\ task' \in [Tasks -> Row]
      /\ \A i \in Tasks : task'[i].state # "absent" <=> task[i].state # "absent"
  BY DEF Save, TypeOK
<1>3. stale' \subseteq Procs
  BY DEF Save, Readers, TypeOK
<1>4. UNCHANGED <<workload, today, wish, run, reminded, irregular, answered, updates, unheard>>
  BY DEF clock, reminders
<1>5. \A q \in Procs : job'[q].pc \in {"loaded", "assigned", "flushed", "deleting", "created"} =>
        job'[q].task # None /\ task'[job'[q].task].state # "absent"
  <2> SUFFICES ASSUME NEW q \in Procs,
                      job'[q].pc \in {"loaded", "assigned", "flushed", "deleting", "created"}
               PROVE  job'[q].task # None /\ task'[job'[q].task].state # "absent"
    OBVIOUS
  <2>1. q # p /\ job'[q] = job[q]
    BY <1>1 DEF Idle
  <2>2. job[q].task \in Tasks /\ task[job[q].task].state # "absent"
    BY <2>1 DEF TypeOK, Job
  <2> QED
    BY <1>2, <2>1, <2>2, NoneAssumption
<1>6. \A i \in Tasks : task'[i].state = "absent" <=> wish'[i] = None
  BY <1>2, <1>4 DEF TypeOK
<1> QED
  BY <1>1, <1>2, <1>3, <1>4, <1>5, <1>6 DEF TypeOK

(* The task and the row of a request that is about to commit.              *)
LEMMA Committed ==
  ASSUME TypeOK, UpdatesKnow, NEW p \in Procs, CommitUpdate(p)
  PROVE  \E t \in Tasks, new \in Row :
           /\ t = job[p].task /\ task[t].state # "absent"
           /\ job[p].pc \in Updating
           /\ new = IF job[p].pc = "flushed" THEN job[p].new
                    ELSE Updated(job[p].loaded, job[p].change)
           /\ new.state = job[p].loaded.state
           /\ Flush(task[t], job[p].loaded, new) \in Row
           /\ Flush(task[t], job[p].loaded, new).state = task[t].state
           /\ Save(p, t, Flush(task[t], job[p].loaded, new))
<1> DEFINE t == job[p].task
           new == IF job[p].pc = "flushed" THEN job[p].new
                  ELSE Updated(job[p].loaded, job[p].change)
<1>1. job[p] \in Job /\ job[p].pc \in Updating
  BY DEF TypeOK, CommitUpdate, Ready, Updating
<1>2. t \in Tasks /\ task[t] \in Row /\ task[t].state # "absent"
  BY <1>1 DEF TypeOK, Updating, Job
<1>3. new \in Row /\ new.state = job[p].loaded.state
  <2>1. job[p].pc # "flushed" => new.status # Null
    BY DEF CommitUpdate, Refused
  <2> QED
    BY <1>1, <2>1, UpdatedRow DEF Job, UpdatesKnow, UpdateKnows, Kept
<1>4. job[p].loaded \in Row
  BY <1>1 DEF Job
<1>5. Save(p, t, Flush(task[t], job[p].loaded, new))
  BY DEF CommitUpdate
<1> HIDE DEF t, new
<1>6. /\ Flush(task[t], job[p].loaded, new) \in Row
      /\ Flush(task[t], job[p].loaded, new).state = task[t].state
  BY <1>2, <1>3, <1>4, FlushedRow
<1> QED
  BY <1>1, <1>2, <1>3, <1>5, <1>6 DEF t, new

LEMMA BeginCreateType ==
  ASSUME TypeOK, NEW p \in Procs, NEW w \in Wishes, BeginCreate(p, w)
  PROVE  TypeOK'
<1>1. [Idle EXCEPT !.pc = "creating", !.wish = w] \in Job
  BY IdleType DEF Idle, Job
<1> QED
  BY <1>1, QuietType DEF BeginCreate, TypeOK, Idle, Updating

LEMMA CreateType ==
  ASSUME TypeOK, NEW p \in Procs, Create(p), job[p].wish # None
  PROVE  TypeOK'
<1>1. PICK t \in Tasks, row \in Inputs :
        /\ job[p].pc = "creating" /\ task[t].state = "absent"
        /\ task' = [task EXCEPT ![t] = ApplyOverdue(row)]
        /\ wish' = [wish EXCEPT ![t] = job[p].wish]
        /\ job' = [job EXCEPT ![p].pc = "created", ![p].task = t]
        /\ UNCHANGED <<clock, reminders, answered, updates, unheard, stale>>
  BY WorkloadsAssumption DEF Create, TypeOK
<1> DEFINE j == [job[p] EXCEPT !.pc = "created", !.task = t]
<1>2. job[p] \in Job /\ j \in Job /\ job' = [job EXCEPT ![p] = j]
  BY <1>1 DEF TypeOK, Job
<1>3. /\ job' \in [Procs -> Job]
      /\ \A q \in Procs : job'[q] = IF q = p THEN j ELSE job[q]
  BY <1>2, JobStep
<1>4. task' \in [Tasks -> Row] /\ task'[t].state = "live"
  BY <1>1, CreatedRow DEF TypeOK
<1>5. \A i \in Tasks \ {t} : task'[i] = task[i] /\ wish'[i] = wish[i]
  BY <1>1 DEF TypeOK
<1>6. wish' \in [Tasks -> Wishes \cup {None}] /\ wish'[t] # None
  BY <1>1, <1>2 DEF TypeOK, Job
<1>7. UNCHANGED <<workload, today, run, reminded, irregular, answered, updates, unheard, stale>>
  BY <1>1 DEF clock, reminders
<1>8. j.task = t /\ j.task # None
  BY <1>2, NoneAssumption DEF Job
<1> HIDE DEF j
<1>9. \A q \in Procs : job'[q].pc \in {"loaded", "assigned", "flushed", "deleting", "created"} =>
        job'[q].task # None /\ task'[job'[q].task].state # "absent"
  <2> SUFFICES ASSUME NEW q \in Procs,
                      job'[q].pc \in {"loaded", "assigned", "flushed", "deleting", "created"}
               PROVE  job'[q].task # None /\ task'[job'[q].task].state # "absent"
    OBVIOUS
  <2>1. CASE q = p
    BY <1>3, <1>4, <1>8, <2>1
  <2>2. CASE q # p
    <3>1. job'[q] = job[q] /\ job[q].task \in Tasks /\ task[job[q].task].state # "absent"
      BY <1>3, <2>2 DEF TypeOK, Job
    <3>2. job[q].task # t /\ job[q].task # None
      BY <1>1, <3>1, NoneAssumption
    <3>3. task'[job[q].task] = task[job[q].task]
      BY <1>5, <3>1, <3>2
    <3> QED
      BY <3>1, <3>2, <3>3
  <2> QED
    BY <2>1, <2>2
<1>10. \A i \in Tasks : task'[i].state = "absent" <=> wish'[i] = None
  BY <1>4, <1>5, <1>6 DEF TypeOK
<1> QED
  BY <1>3, <1>4, <1>6, <1>7, <1>9, <1>10 DEF TypeOK

LEMMA LoadUpdateType ==
  ASSUME TypeOK, NEW p \in Procs, LoadUpdate(p)
  PROVE  TypeOK'
<1>1. PICK t \in Tasks, c \in workload.changes :
        /\ task[t].state # "absent"
        /\ job' = [job EXCEPT ![p] =
             [Idle EXCEPT !.pc = "loaded", !.task = t, !.loaded = task[t], !.change = c]]
  BY DEF LoadUpdate
<1> DEFINE j == [Idle EXCEPT !.pc = "loaded", !.task = t, !.loaded = task[t], !.change = c]
<1>2. c \in Change
  BY WorkloadsAssumption, InputsAssumption DEF TypeOK
<1>3. j \in Job /\ j.task = t /\ t # None
  BY <1>2, IdleType, NoneAssumption DEF TypeOK, Job, Idle
<1>4. updates' \in 0..MaxUpdates
  BY BoundsAssumption DEF LoadUpdate, TypeOK
<1>5. UNCHANGED <<clock, rows, reminders, answered, unheard, stale>>
  BY DEF LoadUpdate
<1>6. answered' \subseteq Wishes /\ unheard' \in [Wishes -> Nat] /\ stale' \subseteq Procs
  BY <1>5 DEF TypeOK
<1> HIDE DEF j
<1> QED
  BY <1>1, <1>3, <1>4, <1>5, <1>6, QuietType DEF j

(* A request that has loaded a task goes on with it.                       *)
LEMMA ProceedType ==
  ASSUME TypeOK, NEW p \in Procs, NEW j \in Job, job' = [job EXCEPT ![p] = j],
         j.task = job[p].task, job[p].pc \in Updating,
         UNCHANGED <<clock, rows, reminders, answered, updates, unheard, stale>>
  PROVE  TypeOK'
<1>1. job[p].task # None /\ task[job[p].task].state # "absent"
  BY DEF TypeOK, Updating
<1>2. /\ answered' \subseteq Wishes /\ unheard' \in [Wishes -> Nat] /\ updates' \in 0..MaxUpdates
      /\ stale' \subseteq Procs
  BY DEF TypeOK
<1> QED
  BY <1>1, <1>2, QuietType

LEMMA AnnounceAssigneeType ==
  ASSUME TypeOK, NEW p \in Procs, AnnounceAssignee(p)
  PROVE  TypeOK'
<1> DEFINE j == [job[p] EXCEPT !.pc = "assigned"]
<1>1. j \in Job /\ job' = [job EXCEPT ![p] = j] /\ j.task = job[p].task
  BY DEF AnnounceAssignee, TypeOK, Job
<1> QED
  BY <1>1, ProceedType DEF AnnounceAssignee, Updating

(* The step that flushes, as a step of one request.                        *)
LEMMA AnnounceStatusStep ==
  ASSUME TypeOK, NEW p \in Procs, AnnounceStatus(p)
  PROVE  \E new \in Row, j \in Job :
           /\ new = Updated(job[p].loaded, job[p].change)
           /\ Announces(job[p].change, new)
           /\ job' = [job EXCEPT ![p] = j]
           /\ j = [job[p] EXCEPT !.pc = "flushed", !.new = new, !.told = new.status]
           /\ job[p].pc \in Updating /\ job[p] \in Job
           /\ UNCHANGED <<clock, rows, reminders, answered, updates, unheard, stale>>
<1> DEFINE new == Updated(job[p].loaded, job[p].change)
           j == [job[p] EXCEPT !.pc = "flushed", !.new = new, !.told = new.status]
<1>1. job[p] \in Job
  BY DEF TypeOK
<1>2. new \in Row
  <2>1. new.status \in {"DONE", "IN_PROGRESS"}
    BY DEF AnnounceStatus, Announces
  <2> QED
    BY <1>1, <2>1, UpdatedRow, NoneAssumption DEF Job, Statuses
<1>3. /\ Announces(job[p].change, new) /\ Ready(p)
      /\ job' = [job EXCEPT ![p].pc = "flushed", ![p].new = new, ![p].told = new.status]
      /\ UNCHANGED <<clock, rows, reminders, answered, updates, unheard, stale>>
  BY DEF AnnounceStatus
<1>4. job[p].pc \in Updating
  BY <1>3 DEF Ready, Updating
<1> HIDE DEF new
<1>5. j \in Job
  BY <1>1, <1>2 DEF Job, Row
<1>6. job' = [job EXCEPT ![p] = j]
  BY <1>1, <1>3 DEF TypeOK, Job
<1> QED
  BY <1>1, <1>2, <1>3, <1>4, <1>5, <1>6 DEF new

LEMMA LoadDeleteType ==
  ASSUME TypeOK, NEW p \in Procs, LoadDelete(p)
  PROVE  TypeOK'
<1>1. PICK t \in Tasks :
        /\ task[t].state = "live"
        /\ job' = [job EXCEPT ![p] = [Idle EXCEPT !.pc = "deleting", !.task = t]]
  BY DEF LoadDelete
<1> DEFINE j == [Idle EXCEPT !.pc = "deleting", !.task = t]
<1>2. j \in Job /\ j.task = t /\ t # None
  BY IdleType, NoneAssumption DEF Job, Idle
<1>3. UNCHANGED <<clock, rows, reminders, answered, updates, unheard, stale>>
  BY DEF LoadDelete
<1>4. /\ answered' \subseteq Wishes /\ unheard' \in [Wishes -> Nat] /\ updates' \in 0..MaxUpdates
      /\ stale' \subseteq Procs
  BY <1>3 DEF TypeOK
<1> HIDE DEF j
<1> QED
  BY <1>1, <1>2, <1>3, <1>4, QuietType DEF j

LEMMA DeleteType ==
  ASSUME TypeOK, NEW p \in Procs, Delete(p)
  PROVE  TypeOK'
<1> DEFINE t == job[p].task
<1>1. t \in Tasks /\ task[t] \in Row /\ task[t].state # "absent"
  BY DEF Delete, TypeOK, Job
<1>2. [task[t] EXCEPT !.state = "deleted"] \in Row /\ [task[t] EXCEPT !.state = "deleted"].state # "absent"
  BY <1>1 DEF Row
<1>3. /\ Save(p, t, [task[t] EXCEPT !.state = "deleted"])
      /\ UNCHANGED <<clock, wish, reminders, answered, updates, unheard>>
  BY DEF Delete
<1> HIDE DEF t
<1> QED
  BY <1>1, <1>2, <1>3, SaveType

(* The end of a request that has written nothing, or has written it before.*)
LEMMA EndType ==
  ASSUME TypeOK, NEW p \in Procs, Finish(p), UNCHANGED <<clock, rows, reminders, updates>>,
         answered' \subseteq Wishes, unheard' \in [Wishes -> Nat], stale' \subseteq Procs
  PROVE  TypeOK'
<1>1. Idle.pc = "idle" /\ updates' \in 0..MaxUpdates
  BY DEF Idle, TypeOK
<1> QED
  BY <1>1, IdleType, QuietType DEF Finish, Updating

LEMMA MarkOverdueType ==
  ASSUME TypeOK, MarkOverdue
  PROVE  TypeOK' /\ \A t \in Tasks : task'[t].state = task[t].state
<1>1. /\ task' \in [Tasks -> Row]
      /\ \A t \in Tasks : task'[t].state = task[t].state
  <2>1. \A t \in Tasks : /\ [task[t] EXCEPT !.status = "OVERDUE"] \in Row
                         /\ [task[t] EXCEPT !.status = "OVERDUE"].state = task[t].state
    BY DEF TypeOK, Row, Statuses
  <2> QED
    BY <2>1 DEF MarkOverdue, TypeOK
<1>2. stale' \subseteq Procs
  BY DEF MarkOverdue, Readers, TypeOK
<1>3. UNCHANGED <<workload, today, wish, job, answered, updates, unheard, run, reminded, irregular>>
  BY DEF MarkOverdue, clock, reminders
<1>4. \A q \in Procs : job'[q].pc \in {"loaded", "assigned", "flushed", "deleting", "created"} =>
        job'[q].task # None /\ task'[job'[q].task].state # "absent"
  BY <1>1, <1>3 DEF TypeOK, Job
<1> QED
  BY <1>1, <1>2, <1>3, <1>4 DEF TypeOK

(* The clock and the jobs of Beat.                                         *)
LEMMA RemindersType ==
  ASSUME TypeOK, UNCHANGED <<workload, rows, requests>>,
         today' \in Days, run' \in [Days -> Run],
         reminded' \subseteq Tasks \X Dues, irregular' \subseteq Dues
  PROVE  TypeOK'
BY DEF TypeOK, rows, requests

LEMMA RunType ==
  ASSUME TypeOK, NEW d \in Days,
         \/ NewDay \/ StartRun(d) \/ FailRun(d) \/ CrashRun(d)
         \/ \E x \in run[d].todo : Remind(d, x) \/ Skip(d, x)
  PROVE  TypeOK'
<1> USE DEF TypeOK
<1>1. run[d] \in Run
  OBVIOUS
<1>2. CASE NewDay
  <2>1. today' \in Days
    BY <1>2, BoundsAssumption DEF NewDay, Days
  <2>2. run' \in [Days -> Run]
    BY <1>2, <2>1 DEF NewDay, Run
  <2> QED
    BY <1>2, <2>1, <2>2, RemindersType DEF NewDay
<1>3. CASE StartRun(d)
  <2>1. DueSoon \subseteq Tasks \X Dues /\ {x[2] : x \in DueSoon} \subseteq Dues
    BY DEF DueSoon
  <2>2. run' \in [Days -> Run] /\ irregular' \subseteq Dues
    BY <1>1, <1>3, <2>1 DEF StartRun, Run
  <2> QED
    BY <1>3, <2>2, RemindersType DEF StartRun, clock
<1>4. CASE FailRun(d)
  <2>1. CASE run[d].attempt < MaxRetries
    <3>1. run[d].attempt + 1 \in 0..MaxRetries
      BY <1>1, <2>1, BoundsAssumption DEF Run
    <3>2. [pc |-> "queued", todo |-> {}, attempt |-> run[d].attempt + 1] \in Run
      BY <3>1 DEF Run
    <3>3. run' = [run EXCEPT ![d] =
                   [pc |-> "queued", todo |-> {}, attempt |-> run[d].attempt + 1]]
      BY <1>4, <2>1 DEF FailRun
    <3>4. run' \in [Days -> Run]
      BY <3>2, <3>3
    <3> QED
      BY <1>4, <3>4, RemindersType DEF FailRun, clock
  <2>2. CASE ~ run[d].attempt < MaxRetries
    <3>1. [run[d] EXCEPT !.pc = "lost", !.todo = {}] \in Run
      BY <1>1 DEF Run
    <3>2. run' = [run EXCEPT ![d] = [run[d] EXCEPT !.pc = "lost", !.todo = {}]]
      BY <1>4, <2>2 DEF FailRun
    <3>3. run' \in [Days -> Run]
      BY <3>1, <3>2
    <3> QED
      BY <1>4, <3>3, RemindersType DEF FailRun, clock
  <2> QED
    BY <2>1, <2>2
<1>5. CASE CrashRun(d)
  <2>1. run' \in [Days -> Run]
    BY <1>1, <1>5 DEF CrashRun, Run
  <2> QED
    BY <1>5, <2>1, RemindersType DEF CrashRun, clock
<1>6. CASE \E x \in run[d].todo : Remind(d, x) \/ Skip(d, x)
  <2>1. PICK x \in run[d].todo : Remind(d, x) \/ Skip(d, x)
    BY <1>6
  <2>2. x \in Tasks \X Dues /\ [run[d] EXCEPT !.todo = @ \ {x}] \in Run
    BY <1>1 DEF Run
  <2>3. /\ run' \in [Days -> Run]
        /\ reminded' \subseteq Tasks \X Dues /\ UNCHANGED irregular
    BY <2>1, <2>2 DEF Remind, Skip
  <2> QED
    BY <2>1, <2>3, RemindersType DEF Remind, Skip, clock
<1> QED
  BY <1>2, <1>3, <1>4, <1>5, <1>6

-----------------------------------------------------------------------------
(* What updates know, when a request moves and no row changes.             *)
LEMMA QuietKnows ==
  ASSUME TypeOK, UpdatesKnow, NEW p \in Procs, NEW j \in Job, job' = [job EXCEPT ![p] = j],
         UNCHANGED task, stale' \in {stale, stale \ {p}},
         j.pc \in Updating =>
           /\ j.loaded.state # "absent"
           /\ p \notin stale => j.loaded = task[j.task]
           /\ p \notin stale' => p \notin stale
           /\ IF j.pc = "flushed" THEN Kept(j) ELSE j.told = None
  PROVE  UpdatesKnow'
<1>1. \A q \in Procs : job'[q] = IF q = p THEN j ELSE job[q]
  BY JobStep
<1>2. BlankRows'
  BY DEF UpdatesKnow, BlankRows
<1>3. ASSUME NEW q \in Procs
      PROVE  UpdateKnows(q)'
  <2>1. CASE q = p
    BY <1>1, <2>1 DEF UpdateKnows, Kept
  <2>2. CASE q # p
    <3>1. job'[q] = job[q] /\ (q \notin stale' => q \notin stale)
      BY <1>1, <2>2
    <3>2. UpdateKnows(q)
      BY DEF UpdatesKnow
    <3> QED
      BY <3>1, <3>2 DEF UpdateKnows, Kept
  <2> QED
    BY <2>1, <2>2
<1> QED
  BY <1>2, <1>3 DEF UpdatesKnow

(* The same when a row is written: those who have read it become stale.    *)
LEMMA SaveKnows ==
  ASSUME TypeOK, UpdatesKnow, NEW p \in Procs, NEW t \in Tasks, NEW row \in Row, Save(p, t, row),
         row.state # "absent"
  PROVE  UpdatesKnow'
<1>1. \A q \in Procs : job'[q] = IF q = p THEN Idle ELSE job[q]
  BY JobStep, IdleType DEF Save, Finish
<1>2. \A i \in Tasks : task'[i] = IF i = t THEN row ELSE task[i]
  BY DEF Save, TypeOK
<1>3. BlankRows'
  BY <1>2 DEF UpdatesKnow, BlankRows
<1>4. ASSUME NEW q \in Procs
      PROVE  UpdateKnows(q)'
  <2> SUFFICES ASSUME job'[q].pc \in Updating
               PROVE  UpdateKnows(q)'
    BY DEF UpdateKnows
  <2>1. q # p /\ job'[q] = job[q]
    BY <1>1 DEF Idle, Updating
  <2>2. job[q].task \in Tasks
    BY <2>1 DEF TypeOK, Job, Updating
  <2>3. q \notin stale' => q \notin stale /\ task'[job[q].task] = task[job[q].task]
    <3> SUFFICES ASSUME q \notin stale'
                 PROVE  q \notin stale /\ task'[job[q].task] = task[job[q].task]
      OBVIOUS
    <3>1. q \notin stale /\ (row # task[t] => q \notin Readers(t))
      BY <2>1 DEF Save
    <3>2. job[q].task = t => q \in Readers(t)
      BY <2>1 DEF Readers, Updating
    <3> QED
      BY <1>2, <2>2, <3>1, <3>2
  <2>4. UpdateKnows(q)
    BY DEF UpdatesKnow
  <2> QED
    BY <2>1, <2>3, <2>4 DEF UpdateKnows, Kept
<1> QED
  BY <1>3, <1>4 DEF UpdatesKnow

LEMMA CreateKnows ==
  ASSUME TypeOK, UpdatesKnow, NEW p \in Procs, Create(p)
  PROVE  UpdatesKnow'
<1>1. PICK t \in Tasks, row \in Inputs :
        /\ job[p].pc = "creating" /\ task[t].state = "absent"
        /\ task' = [task EXCEPT ![t] = ApplyOverdue(row)]
        /\ job' = [job EXCEPT ![p].pc = "created", ![p].task = t]
        /\ UNCHANGED <<clock, reminders, answered, updates, unheard, stale>>
  BY WorkloadsAssumption DEF Create, TypeOK
<1>2. /\ \A q \in Procs : q # p => job'[q] = job[q]
      /\ job'[p].pc = "created"
  BY <1>1 DEF TypeOK, Job
<1>3. \A i \in Tasks : task'[i] = IF i = t THEN ApplyOverdue(row) ELSE task[i]
  BY <1>1 DEF TypeOK
<1>4. ApplyOverdue(row).state = "live"
  BY CreatedRow
<1>5. BlankRows'
  BY <1>3, <1>4 DEF UpdatesKnow, BlankRows
<1>6. ASSUME NEW q \in Procs
      PROVE  UpdateKnows(q)'
  <2> SUFFICES ASSUME job'[q].pc \in Updating
               PROVE  UpdateKnows(q)'
    BY DEF UpdateKnows
  <2>1. q # p /\ job'[q] = job[q]
    BY <1>2 DEF Updating
  <2>2. job[q].task \in Tasks /\ task[job[q].task].state # "absent"
    BY <2>1 DEF TypeOK, Job, Updating
  <2>3. task'[job[q].task] = task[job[q].task] /\ stale' = stale
    BY <1>1, <1>3, <2>2
  <2>4. UpdateKnows(q)
    BY DEF UpdatesKnow
  <2> QED
    BY <2>1, <2>3, <2>4 DEF UpdateKnows, Kept
<1> QED
  BY <1>5, <1>6 DEF UpdatesKnow

LEMMA MarkOverdueKnows ==
  ASSUME TypeOK, UpdatesKnow, MarkOverdue
  PROVE  UpdatesKnow'
<1>1. \A i \in Tasks : /\ task'[i].state = task[i].state
                       /\ i \notin Overdue => task'[i] = task[i]
  BY MarkOverdueType DEF MarkOverdue
<1>2. BlankRows'
  BY <1>1 DEF UpdatesKnow, BlankRows, Overdue
<1>3. ASSUME NEW q \in Procs
      PROVE  UpdateKnows(q)'
  <2> SUFFICES ASSUME job[q].pc \in Updating
               PROVE  UpdateKnows(q)'
    BY DEF UpdateKnows, MarkOverdue
  <2>1. job'[q] = job[q] /\ job[q].task \in Tasks
    BY DEF TypeOK, Job, Updating, MarkOverdue
  <2>2. q \notin stale' => q \notin stale /\ job[q].task \notin Overdue
    BY DEF MarkOverdue, Readers, Updating
  <2>3. UpdateKnows(q)
    BY DEF UpdatesKnow
  <2> QED
    BY <1>1, <2>1, <2>2, <2>3 DEF UpdateKnows, Kept
<1> QED
  BY <1>2, <1>3 DEF UpdatesKnow

(* Types and what updates know, for every step.                            *)
LEMMA UpdatesStep ==
  ASSUME TypeOK, UpdatesKnow, WishInv, [Next]_vars
  PROVE  TypeOK' /\ UpdatesKnow'
<1>1. ASSUME NEW p \in Procs, NEW w \in Wishes, BeginCreate(p, w)
      PROVE  TypeOK' /\ UpdatesKnow'
  <2>1. [Idle EXCEPT !.pc = "creating", !.wish = w] \in Job
    BY IdleType DEF Idle, Job
  <2>2. UpdatesKnow'
    BY <1>1, <2>1, QuietKnows DEF BeginCreate, Idle, Updating, rows
  <2> QED
    BY <1>1, <2>2, BeginCreateType
<1>2. ASSUME NEW p \in Procs, Create(p)
      PROVE  TypeOK' /\ UpdatesKnow'
  <2>1. job[p].wish # None
    BY <1>2 DEF WishInv, WishesApart, Create
  <2> QED
    BY <1>2, <2>1, CreateType, CreateKnows
<1>3. ASSUME NEW p \in Procs, AnswerCreate(p) \/ Fail(p) \/ RefuseUpdate(p)
      PROVE  TypeOK' /\ UpdatesKnow'
  <2>1. /\ Finish(p) /\ UNCHANGED <<clock, rows, reminders, updates>>
        /\ stale' \in {stale, stale \ {p}}
    BY <1>3 DEF AnswerCreate, Fail, RefuseUpdate
  <2>2. answered' \subseteq Wishes /\ unheard' \in [Wishes -> Nat]
    <3>1. job[p].pc = "created" => job[p].wish \in Wishes
      BY DEF WishInv, WishesApart, TypeOK, Job
    <3> QED
      BY <1>3, <3>1 DEF AnswerCreate, Fail, RefuseUpdate, TypeOK
  <2>3. TypeOK'
    <3>1. stale' \subseteq Procs
      BY <2>1 DEF TypeOK
    <3> QED
      BY <2>1, <2>2, <3>1, EndType
  <2>4. UpdatesKnow'
    BY <2>1, IdleType, QuietKnows DEF Finish, Idle, Updating, rows
  <2> QED
    BY <2>3, <2>4
<1>4. ASSUME NEW p \in Procs, LoadUpdate(p)
      PROVE  TypeOK' /\ UpdatesKnow'
  <2>1. PICK t \in Tasks, c \in workload.changes :
          /\ task[t].state # "absent"
          /\ job' = [job EXCEPT ![p] =
               [Idle EXCEPT !.pc = "loaded", !.task = t, !.loaded = task[t], !.change = c]]
    BY <1>4 DEF LoadUpdate
  <2> DEFINE j == [Idle EXCEPT !.pc = "loaded", !.task = t, !.loaded = task[t], !.change = c]
  <2>2. c \in Change
    BY WorkloadsAssumption, InputsAssumption DEF TypeOK
  <2>3. j \in Job /\ j.pc = "loaded" /\ j.loaded = task[t] /\ j.task = t /\ j.told = None
    BY <2>2, IdleType DEF TypeOK, Job, Idle
  <2>4. UNCHANGED <<task, stale>>
    BY <1>4 DEF LoadUpdate, rows
  <2> HIDE DEF j
  <2>5. UpdatesKnow'
    BY <2>1, <2>3, <2>4, QuietKnows DEF j
  <2> QED
    BY <1>4, <2>5, LoadUpdateType
<1>5. ASSUME NEW p \in Procs, AnnounceAssignee(p)
      PROVE  TypeOK' /\ UpdatesKnow'
  <2> DEFINE j == [job[p] EXCEPT !.pc = "assigned"]
  <2>0. job[p] \in Job /\ job' = [job EXCEPT ![p].pc = "assigned"]
    BY <1>5 DEF AnnounceAssignee, TypeOK
  <2>1. j \in Job /\ job' = [job EXCEPT ![p] = j]
    BY <2>0 DEF Job
  <2>2. /\ j.pc = "assigned" /\ j.loaded = job[p].loaded /\ j.task = job[p].task
        /\ j.told = job[p].told
    BY DEF TypeOK, Job
  <2>3. UNCHANGED <<task, stale>> /\ job[p].pc = "loaded" /\ UpdateKnows(p)
    BY <1>5 DEF AnnounceAssignee, rows, UpdatesKnow
  <2> HIDE DEF j
  <2>4. UpdatesKnow'
    BY <2>1, <2>2, <2>3, QuietKnows DEF UpdateKnows, Updating
  <2> QED
    BY <1>5, <2>4, AnnounceAssigneeType
<1>6. ASSUME NEW p \in Procs, AnnounceStatus(p)
      PROVE  TypeOK' /\ UpdatesKnow'
  <2>1. PICK new \in Row, j \in Job :
           /\ new = Updated(job[p].loaded, job[p].change)
           /\ Announces(job[p].change, new)
           /\ job' = [job EXCEPT ![p] = j]
           /\ j = [job[p] EXCEPT !.pc = "flushed", !.new = new, !.told = new.status]
           /\ job[p].pc \in Updating /\ job[p] \in Job
           /\ UNCHANGED <<clock, rows, reminders, answered, updates, unheard, stale>>
    BY <1>6, AnnounceStatusStep
  <2>2. /\ j.pc = "flushed" /\ j.loaded = job[p].loaded /\ j.task = job[p].task
        /\ j.new = new /\ j.told = new.status /\ j.change = job[p].change
    BY <2>1 DEF Job
  <2>3. UpdateKnows(p) /\ UNCHANGED task
    BY <2>1 DEF UpdatesKnow, rows
  <2>4. job[p].loaded \in Row /\ job[p].change \in Change
    BY <2>1 DEF Job
  <2>5. Kept(j)
    BY <2>1, <2>2, <2>4, UpdatedRow DEF Kept, Announces
  <2>6. /\ j.loaded.state # "absent"
        /\ p \notin stale => j.loaded = task[j.task]
    BY <2>1, <2>2, <2>3 DEF UpdateKnows
  <2>7. stale' = stale /\ job' = [job EXCEPT ![p] = j]
    BY <2>1
  <2>8. UpdatesKnow'
    BY <2>2, <2>3, <2>5, <2>6, <2>7, QuietKnows
  <2> QED
    BY <2>1, <2>2, <2>8, ProceedType
<1>7. ASSUME NEW p \in Procs, CommitUpdate(p)
      PROVE  TypeOK' /\ UpdatesKnow'
  <2>1. PICK t \in Tasks, new \in Row :
           /\ task[t].state # "absent"
           /\ Flush(task[t], job[p].loaded, new) \in Row
           /\ Flush(task[t], job[p].loaded, new).state = task[t].state
           /\ Save(p, t, Flush(task[t], job[p].loaded, new))
    BY <1>7, Committed
  <2>2. UNCHANGED <<clock, wish, reminders, answered, updates, unheard>>
    BY <1>7 DEF CommitUpdate
  <2> QED
    BY <2>1, <2>2, SaveType, SaveKnows
<1>8. ASSUME NEW p \in Procs, LoadDelete(p)
      PROVE  TypeOK' /\ UpdatesKnow'
  <2>1. PICK t \in Tasks : job' = [job EXCEPT ![p] = [Idle EXCEPT !.pc = "deleting", !.task = t]]
    BY <1>8 DEF LoadDelete
  <2>2. /\ [Idle EXCEPT !.pc = "deleting", !.task = t] \in Job
        /\ [Idle EXCEPT !.pc = "deleting", !.task = t].pc = "deleting"
    BY IdleType DEF Job, Idle
  <2>3. UpdatesKnow'
    BY <1>8, <2>1, <2>2, QuietKnows DEF LoadDelete, rows, Updating
  <2> QED
    BY <1>8, <2>3, LoadDeleteType
<1>9. ASSUME NEW p \in Procs, Delete(p)
      PROVE  TypeOK' /\ UpdatesKnow'
  <2>1. job[p].task \in Tasks
    BY <1>9 DEF Delete, TypeOK, Job
  <2>2. /\ [task[job[p].task] EXCEPT !.state = "deleted"] \in Row
        /\ [task[job[p].task] EXCEPT !.state = "deleted"].state # "absent"
    BY <2>1 DEF TypeOK, Row
  <2> QED
    BY <1>9, <2>1, <2>2, SaveKnows, DeleteType DEF Delete
<1>10. CASE MarkOverdue
  BY <1>10, MarkOverdueType, MarkOverdueKnows
<1>11. ASSUME UNCHANGED <<task, job, stale>>
       PROVE  UpdatesKnow'
  BY <1>11 DEF UpdatesKnow, BlankRows, UpdateKnows, Kept
<1>12. ASSUME NEW d \in Days,
              \/ NewDay \/ StartRun(d) \/ FailRun(d) \/ CrashRun(d)
              \/ \E x \in run[d].todo : Remind(d, x) \/ Skip(d, x)
       PROVE  TypeOK' /\ UpdatesKnow'
  <2>1. UNCHANGED <<task, job, stale>>
    BY <1>12 DEF NewDay, StartRun, FailRun, CrashRun, Remind, Skip, rows, requests
  <2> QED
    BY <1>11, <1>12, <2>1, RunType
<1>13. CASE UNCHANGED vars
  BY <1>11, <1>13 DEF vars, clock, rows, requests, reminders, TypeOK
<1>14. 0 \in Days
  BY BoundsAssumption DEF Days
<1> QED
  BY <1>1, <1>2, <1>3, <1>4, <1>5, <1>6, <1>7, <1>8, <1>9, <1>10, <1>12, <1>13, <1>14
     DEF Next, Proceed

-----------------------------------------------------------------------------
(* Counting: the bound of a wish that nothing happened to.                 *)
LEMMA CountedBefore ==
  ASSUME TypeOK, WishInv, NEW w \in Wishes, Made(w)' = Made(w), unheard'[w] = unheard[w],
         Known(w) => Known(w)'
  PROVE  Cardinality(Made(w)') <= unheard'[w] + (IF Known(w)' THEN 1 ELSE 0)
<1>1. IsFiniteSet(Made(w)) /\ Cardinality(Made(w)) \in Nat /\ unheard[w] \in Nat
  <2>1. IsFiniteSet(Made(w))
    BY FiniteAssumption, FS_Subset DEF Made
  <2> QED
    BY <2>1, FS_CardinalityType DEF TypeOK
<1>2. Cardinality(Made(w)) <= unheard[w] + (IF Known(w) THEN 1 ELSE 0)
  BY DEF WishInv, WishesCounted
<1> QED
  BY <1>1, <1>2

(* A request that is about a wish neither before nor after.                *)
LEMMA WishQuiet ==
  ASSUME TypeOK, WishInv, NEW p \in Procs, NEW j \in Job, job' = [job EXCEPT ![p] = j],
         job[p].pc # "created", j.wish = None, j.pc \notin {"creating", "created"},
         UNCHANGED <<wish, answered, unheard>>
  PROVE  WishInv'
<1>1. \A q \in Procs : job'[q] = IF q = p THEN j ELSE job[q]
  BY JobStep
<1>2. WishesApart'
  BY <1>1 DEF WishInv, WishesApart
<1>3. ASSUME NEW w \in Wishes
      PROVE  Cardinality(Made(w)') <= unheard'[w] + (IF Known(w)' THEN 1 ELSE 0)
  <2>1. Known(w) => Known(w)'
    BY <1>1 DEF Known
  <2>2. Made(w)' = Made(w)
    BY DEF Made
  <2> QED
    BY <2>1, <2>2, CountedBefore
<1> QED
  BY <1>2, <1>3 DEF WishInv, WishesCounted

LEMMA BeginCreateWish ==
  ASSUME TypeOK, WishInv, NEW p \in Procs, NEW w \in Wishes, BeginCreate(p, w)
  PROVE  WishInv'
<1> DEFINE j == [Idle EXCEPT !.pc = "creating", !.wish = w]
<1>1. j \in Job /\ j.pc = "creating" /\ j.wish = w /\ w # None
  BY IdleType, NoneAssumption DEF Idle, Job
<1>2. /\ job' = [job EXCEPT ![p] = j] /\ job[p].pc = "idle"
      /\ w \notin answered /\ \A q \in Procs : job[q].wish # w
      /\ UNCHANGED <<wish, answered, unheard>>
  BY DEF BeginCreate, rows
<1> HIDE DEF j
<1>3. \A q \in Procs : job'[q] = IF q = p THEN j ELSE job[q]
  BY <1>1, <1>2, JobStep
<1>4. WishesApart'
  BY <1>1, <1>2, <1>3 DEF WishInv, WishesApart
<1>5. ASSUME NEW v \in Wishes
      PROVE  Cardinality(Made(v)') <= unheard'[v] + (IF Known(v)' THEN 1 ELSE 0)
  <2>1. Known(v) => Known(v)'
    BY <1>2, <1>3 DEF Known
  <2>2. Made(v)' = Made(v)
    BY <1>2 DEF Made
  <2> QED
    BY <1>2, <2>1, <2>2, CountedBefore
<1> QED
  BY <1>4, <1>5 DEF WishInv, WishesCounted

LEMMA CreateWish ==
  ASSUME TypeOK, WishInv, NEW p \in Procs, Create(p)
  PROVE  WishInv'
<1>1. PICK t \in Tasks :
        /\ job[p].pc = "creating" /\ task[t].state = "absent"
        /\ wish' = [wish EXCEPT ![t] = job[p].wish]
        /\ job' = [job EXCEPT ![p].pc = "created", ![p].task = t]
        /\ UNCHANGED <<answered, unheard>>
  BY WorkloadsAssumption DEF Create, TypeOK
<1>2. PICK w \in Wishes : w = job[p].wish /\ w # None /\ w \notin answered
  BY <1>1 DEF WishInv, WishesApart, TypeOK, Job
<1>3. /\ job'[p].pc = "created" /\ job'[p].wish = w
      /\ \A q \in Procs : q # p => job'[q] = job[q]
  BY <1>1, <1>2 DEF TypeOK, Job
<1>4. ~ Known(w)
  BY <1>1, <1>2 DEF Known, WishInv, WishesApart
<1>5. WishesApart'
  <2>1. /\ \A q \in Procs : job'[q].wish = job[q].wish
        /\ \A q \in Procs : job'[q].wish # None <=> job'[q].pc \in {"creating", "created"}
    BY <1>1, <1>2, <1>3 DEF WishInv, WishesApart
  <2>2. answered' = answered
    BY <1>1
  <2> QED
    BY <2>1, <2>2 DEF WishInv, WishesApart
<1>6. wish[t] = None /\ \A i \in Tasks : wish'[i] = IF i = t THEN w ELSE wish[i]
  BY <1>1, <1>2 DEF TypeOK
<1>7. Cardinality(Made(w)') <= unheard'[w] + (IF Known(w)' THEN 1 ELSE 0)
  <2>1. Made(w)' = Made(w) \cup {t} /\ t \notin Made(w)
    BY <1>2, <1>6 DEF Made
  <2>2. IsFiniteSet(Made(w)) /\ Cardinality(Made(w)) \in Nat
    <3>1. IsFiniteSet(Made(w))
      BY FiniteAssumption, FS_Subset DEF Made
    <3> QED
      BY <3>1, FS_CardinalityType
  <2>3. Cardinality(Made(w)') = Cardinality(Made(w)) + 1
    BY <2>1, <2>2, FS_AddElement
  <2>4. Known(w)' /\ unheard'[w] = unheard[w] /\ unheard[w] \in Nat
    BY <1>1, <1>2, <1>3 DEF Known, TypeOK
  <2>5. Cardinality(Made(w)) <= unheard[w]
    BY <1>2, <1>4, <2>2, <2>4 DEF WishInv, WishesCounted
  <2> QED
    BY <2>2, <2>3, <2>4, <2>5
<1>8. ASSUME NEW v \in Wishes \ {w}
      PROVE  Cardinality(Made(v)') <= unheard'[v] + (IF Known(v)' THEN 1 ELSE 0)
  <2>1. Made(v)' = Made(v)
    BY <1>6, NoneAssumption DEF Made
  <2>2. Known(v) => Known(v)'
    BY <1>1, <1>3 DEF Known
  <2>3. unheard'[v] = unheard[v]
    BY <1>1
  <2> QED
    BY <2>1, <2>2, <2>3, CountedBefore
<1> QED
  BY <1>5, <1>7, <1>8 DEF WishInv, WishesCounted

(* The end of a request for a wish, with an answer or without.             *)
LEMMA EndWish ==
  ASSUME TypeOK, WishInv, NEW p \in Procs, AnswerCreate(p) \/ Fail(p)
  PROVE  WishInv'
<1>1. Idle.pc = "idle" /\ Idle.wish = None /\ Idle \in Job /\ job' = [job EXCEPT ![p] = Idle]
  BY IdleType DEF AnswerCreate, Fail, Finish, Idle
<1>2. \A q \in Procs : job'[q] = IF q = p THEN Idle ELSE job[q]
  BY <1>1, JobStep
<1>3. CASE job[p].pc # "created"
  BY <1>1, <1>3, WishQuiet DEF AnswerCreate, Fail, rows
<1>4. CASE job[p].pc = "created"
  <2>1. PICK w \in Wishes :
          w = job[p].wish /\ w # None /\ w \notin answered /\ wish' = wish
    BY <1>4 DEF WishInv, WishesApart, TypeOK, Job, AnswerCreate, Fail, rows
  <2>2. answered' \subseteq answered \cup {w}
    BY <2>1 DEF AnswerCreate, Fail
  <2>3. \A q \in Procs : q # p /\ job[q].wish # None => job[q].wish # w
    BY <2>1 DEF WishInv, WishesApart
  <2>4. WishesApart'
    BY <1>1, <1>2, <2>2, <2>3 DEF WishInv, WishesApart
  <2>5. \A v \in Wishes : Made(v)' = Made(v)
    BY <2>1 DEF Made
  <2>6. ASSUME NEW v \in Wishes \ {w}
        PROVE  Cardinality(Made(v)') <= unheard'[v] + (IF Known(v)' THEN 1 ELSE 0)
    <3>1. Known(v) => Known(v)'
      <4>1. v \in answered => v \in answered'
        BY DEF AnswerCreate, Fail
      <4> QED
        BY <1>2, <2>1, <4>1 DEF Known
    <3>2. unheard'[v] = unheard[v]
      BY <2>1 DEF AnswerCreate, Fail, TypeOK
    <3> QED
      BY <2>5, <3>1, <3>2, CountedBefore
  <2>7. Cardinality(Made(w)') <= unheard'[w] + (IF Known(w)' THEN 1 ELSE 0)
    <3>1. CASE AnswerCreate(p)
      <4>1. Known(w)' /\ unheard'[w] = unheard[w]
        BY <2>1, <3>1 DEF AnswerCreate, Known
      <4> QED
        BY <2>1, <2>5, <4>1, CountedBefore
    <3>2. CASE Fail(p)
      <4>1. unheard'[w] = unheard[w] + 1 /\ unheard[w] \in Nat
        BY <1>4, <2>1, <3>2 DEF Fail, TypeOK
      <4>2. Cardinality(Made(w)) \in Nat
        <5>1. IsFiniteSet(Made(w))
          BY FiniteAssumption, FS_Subset DEF Made
        <5> QED
          BY <5>1, FS_CardinalityType
      <4>3. Cardinality(Made(w)) <= unheard[w] + 1
        BY <2>1, <4>1, <4>2 DEF WishInv, WishesCounted
      <4> QED
        BY <2>1, <2>5, <4>1, <4>2, <4>3
    <3> QED
      BY <3>1, <3>2
  <2> QED
    BY <2>4, <2>6, <2>7 DEF WishInv, WishesCounted
<1> QED
  BY <1>3, <1>4

(* Nothing about wishes changes.                                           *)
LEMMA WishSame ==
  ASSUME WishInv, UNCHANGED <<job, wish, answered, unheard>>
  PROVE  WishInv'
BY DEF WishInv, WishesApart, WishesCounted, Made, Known

-----------------------------------------------------------------------------
(* The runs of the reminder job.                                           *)
LEMMA RunsSame ==
  ASSUME RunsAreRegular, UNCHANGED <<clock, reminders>>
  PROVE  RunsAreRegular'
BY DEF RunsAreRegular, clock, reminders

LEMMA NewDayRuns ==
  ASSUME TypeOK, RunsAreRegular, NewDay
  PROVE  RunsAreRegular'
<1>1. /\ today' = today + 1 /\ today \in Int /\ Days \subseteq Int
      /\ UNCHANGED <<reminded, irregular>>
  BY DEF NewDay, TypeOK, Days
<1>2. \A d \in Days : run'[d].todo = run[d].todo /\ run'[d].attempt = run[d].attempt
  BY DEF NewDay, TypeOK, Run
<1>3. \A d \in Days : run'[d].pc = run[d].pc \/ (d = today' /\ run'[d].pc = "queued")
  BY DEF NewDay, TypeOK, Run
<1>4. \A d \in Days : run[d].pc \in {"running", "lost"} => run'[d].pc = run[d].pc
  BY <1>1, <1>3 DEF RunsAreRegular
<1>5. ASSUME NEW d \in Days, d > today'
      PROVE  run'[d].pc = "none"
  <2>1. d > today /\ d # today'
    BY <1>1, <1>5
  <2> QED
    BY <1>3, <2>1 DEF RunsAreRegular
<1>6. \A d \in Days : run'[d].pc = "none" => run'[d].todo = {}
  BY <1>2, <1>3 DEF RunsAreRegular
<1>7. \A d \in Days : \A x \in run'[d].todo :
        x[2] \in irregular' \/ (x[2] = d + 2 /\ x \notin reminded')
  BY <1>1, <1>2 DEF RunsAreRegular
<1>8. \A x \in reminded' : x[2] \in irregular' \/
        \E d \in Days : x[2] = d + 2 /\ (run'[d].attempt > 0 \/ run'[d].pc \in {"running", "lost"})
  BY <1>1, <1>2, <1>4 DEF RunsAreRegular
<1> QED
  BY <1>5, <1>6, <1>7, <1>8 DEF RunsAreRegular

LEMMA StartRunRuns ==
  ASSUME TypeOK, RunsAreRegular, NEW d \in Days, StartRun(d)
  PROVE  RunsAreRegular'
<1>1. /\ run[d].pc = "queued" /\ run[d].attempt \in Nat
      /\ run'[d].pc = "running" /\ run'[d].todo = DueSoon /\ run'[d].attempt = run[d].attempt
      /\ \A e \in Days \ {d} : run'[e] = run[e]
      /\ UNCHANGED <<today, reminded>> /\ irregular \subseteq irregular'
      /\ today \in Int /\ Days \subseteq Int
  BY DEF StartRun, TypeOK, Run, clock, Days
<1>2. d # today \/ run[d].attempt > 0 => \A x \in DueSoon : x[2] \in irregular'
  BY DEF StartRun
<1>3. \A x \in DueSoon : x[2] = today + 2
  BY DEF DueSoon
<1>4. ASSUME NEW x \in DueSoon, x[2] \notin irregular'
      PROVE  x[2] = d + 2 /\ x \notin reminded
  <2>1. d = today /\ ~ run[d].attempt > 0
    BY <1>2, <1>4
  <2>2. x[2] = d + 2 /\ x[2] \notin irregular
    BY <1>1, <1>3, <1>4, <2>1
  <2>3. ASSUME NEW e \in Days, x[2] = e + 2
        PROVE  ~ run[e].attempt > 0 /\ run[e].pc \notin {"running", "lost"}
    <3>1. e = d
      BY <1>1, <2>2, <2>3
    <3> QED
      BY <1>1, <2>1, <3>1
  <2> QED
    BY <2>2, <2>3 DEF RunsAreRegular
<1>5. \A e \in Days : \A x \in run'[e].todo :
        x[2] \in irregular' \/ (x[2] = e + 2 /\ x \notin reminded')
  BY <1>1, <1>4 DEF RunsAreRegular
<1>6. \A x \in reminded' : x[2] \in irregular' \/
        \E e \in Days : x[2] = e + 2 /\ (run'[e].attempt > 0 \/ run'[e].pc \in {"running", "lost"})
  <2>1. \A e \in Days : run[e].attempt > 0 \/ run[e].pc \in {"running", "lost"} =>
          run'[e].attempt > 0 \/ run'[e].pc \in {"running", "lost"}
    BY <1>1
  <2> QED
    BY <1>1, <2>1 DEF RunsAreRegular
<1>7. \A e \in Days : run'[e].pc = "none" => run'[e].todo = {}
  BY <1>1 DEF RunsAreRegular
<1>8. \A e \in Days : e > today' => run'[e].pc = "none"
  BY <1>1 DEF RunsAreRegular
<1> QED
  BY <1>5, <1>6, <1>7, <1>8 DEF RunsAreRegular

LEMMA RemindRuns ==
  ASSUME TypeOK, RunsAreRegular, NEW d \in Days, NEW x \in run[d].todo, Remind(d, x) \/ Skip(d, x)
  PROVE  RunsAreRegular'
<1>1. /\ run[d].pc = "running" /\ run'[d].pc = "running"
      /\ run'[d].todo = run[d].todo \ {x} /\ run'[d].attempt = run[d].attempt
      /\ \A e \in Days \ {d} : run'[e] = run[e]
      /\ UNCHANGED <<today, irregular>>
      /\ reminded' \subseteq reminded \cup {x} /\ Days \subseteq Int
  <2>1. /\ run[d].pc = "running" /\ run' = [run EXCEPT ![d].todo = @ \ {x}]
        /\ UNCHANGED <<today, irregular>> /\ reminded' \subseteq reminded \cup {x}
    BY DEF Remind, Skip, clock
  <2>2. run \in [Days -> Run] /\ Days \subseteq Int
    BY DEF TypeOK, Days
  <2> QED
    BY <2>1, <2>2 DEF Run
<1>2. x[2] \in irregular \/ x[2] = d + 2
  BY DEF RunsAreRegular
<1>3. \A e \in Days : run'[e].todo \subseteq run[e].todo /\ (x \in run'[e].todo => e # d)
  BY <1>1
<1>4. ASSUME NEW e \in Days, NEW y \in run'[e].todo, y[2] \notin irregular'
      PROVE  y[2] = e + 2 /\ y \notin reminded'
  <2>1. y[2] = e + 2 /\ y \notin reminded
    BY <1>1, <1>3, <1>4 DEF RunsAreRegular
  <2>2. y # x
    <3> SUFFICES ASSUME y = x
                 PROVE  FALSE
      OBVIOUS
    <3>1. e # d /\ x[2] = d + 2 /\ x[2] = e + 2
      BY <1>1, <1>2, <1>3, <1>4, <2>1
    <3> QED
      BY <1>1, <3>1
  <2> QED
    BY <1>1, <2>1, <2>2
<1>5. \A y \in reminded' : y[2] \in irregular' \/
        \E e \in Days : y[2] = e + 2 /\ (run'[e].attempt > 0 \/ run'[e].pc \in {"running", "lost"})
  <2>1. \A e \in Days : run'[e].attempt = run[e].attempt /\ run'[e].pc = run[e].pc
    BY <1>1
  <2>2. ASSUME NEW y \in reminded', y # x, y[2] \notin irregular'
        PROVE  \E e \in Days : y[2] = e + 2 /\ (run'[e].attempt > 0 \/ run'[e].pc \in {"running", "lost"})
    <3>1. y \in reminded /\ y[2] \notin irregular
      BY <1>1, <2>2
    <3>2. PICK e \in Days : y[2] = e + 2 /\ (run[e].attempt > 0 \/ run[e].pc \in {"running", "lost"})
      BY <3>1 DEF RunsAreRegular
    <3> QED
      BY <2>1, <3>2
  <2> QED
    BY <1>1, <1>2, <2>2
<1>6. \A e \in Days : run'[e].pc = "none" => run'[e].todo = {}
  BY <1>1 DEF RunsAreRegular
<1>7. \A e \in Days : e > today' => run'[e].pc = "none"
  BY <1>1 DEF RunsAreRegular
<1> QED
  BY <1>4, <1>5, <1>6, <1>7 DEF RunsAreRegular

LEMMA FailRunRuns ==
  ASSUME TypeOK, RunsAreRegular, NEW d \in Days, FailRun(d) \/ CrashRun(d)
  PROVE  RunsAreRegular'
<1>1. run[d].pc # "none"
  BY DEF RunsAreRegular, FailRun, CrashRun
<1>2. /\ run'[d].todo = {} /\ (run'[d].attempt > 0 \/ run'[d].pc = "lost") /\ run'[d].pc # "none"
      /\ \A e \in Days \ {d} : run'[e] = run[e]
      /\ UNCHANGED <<today, reminded, irregular>>
  <2>1. run[d].attempt \in Nat /\ run[d] \in Run
    BY DEF TypeOK, Run
  <2>2. CASE FailRun(d)
    BY <2>1, <2>2, BoundsAssumption DEF FailRun, clock, TypeOK, Run
  <2>3. CASE CrashRun(d)
    BY <2>1, <2>3 DEF CrashRun, clock, TypeOK, Run
  <2> QED
    BY <2>2, <2>3
<1>3. \A e \in Days : \A x \in run'[e].todo :
        x[2] \in irregular' \/ (x[2] = e + 2 /\ x \notin reminded')
  BY <1>2 DEF RunsAreRegular
<1>4. \A x \in reminded' : x[2] \in irregular' \/
        \E e \in Days : x[2] = e + 2 /\ (run'[e].attempt > 0 \/ run'[e].pc \in {"running", "lost"})
  <2>1. \A e \in Days : run[e].attempt > 0 \/ run[e].pc \in {"running", "lost"} =>
          run'[e].attempt > 0 \/ run'[e].pc \in {"running", "lost"}
    BY <1>2
  <2> QED
    BY <1>2, <2>1 DEF RunsAreRegular
<1>5. \A e \in Days : run'[e].pc = "none" => run'[e].todo = {}
  BY <1>2 DEF RunsAreRegular
<1>6. \A e \in Days : e > today' => run'[e].pc = "none"
  BY <1>1, <1>2 DEF RunsAreRegular
<1> QED
  BY <1>3, <1>4, <1>5, <1>6 DEF RunsAreRegular

(* Wishes and runs, for every step.                                        *)
LEMMA WishesAndRunsStep ==
  ASSUME TypeOK, UpdatesKnow, WishInv, RunsAreRegular, [Next]_vars
  PROVE  WishInv' /\ RunsAreRegular'
<1>2. ASSUME NEW p \in Procs, NEW w \in Wishes, BeginCreate(p, w)
      PROVE  WishInv' /\ RunsAreRegular'
  BY <1>2, BeginCreateWish, RunsSame DEF BeginCreate
<1>3. ASSUME NEW p \in Procs, Create(p)
      PROVE  WishInv' /\ RunsAreRegular'
  BY <1>3, CreateWish, RunsSame DEF Create
<1>4. ASSUME NEW p \in Procs, AnswerCreate(p) \/ Fail(p)
      PROVE  WishInv' /\ RunsAreRegular'
  BY <1>4, EndWish, RunsSame DEF AnswerCreate, Fail
<1>5. ASSUME NEW p \in Procs, LoadUpdate(p) \/ LoadDelete(p)
      PROVE  WishInv' /\ RunsAreRegular'
  <2>1. \E j \in Job : /\ job' = [job EXCEPT ![p] = j] /\ j.wish = None
                       /\ j.pc \notin {"creating", "created"}
    <3>1. CASE LoadUpdate(p)
      <4>1. PICK t \in Tasks, c \in workload.changes : job' = [job EXCEPT ![p] =
               [Idle EXCEPT !.pc = "loaded", !.task = t, !.loaded = task[t], !.change = c]]
        BY <3>1 DEF LoadUpdate
      <4> DEFINE j == [Idle EXCEPT !.pc = "loaded", !.task = t, !.loaded = task[t], !.change = c]
      <4>2. c \in Change
        BY WorkloadsAssumption, InputsAssumption DEF TypeOK
      <4>3. j \in Job /\ j.pc = "loaded" /\ j.wish = None
        BY <4>2, IdleType DEF TypeOK, Job, Idle
      <4> QED
        BY <4>1, <4>3
    <3>2. CASE LoadDelete(p)
      <4>1. PICK t \in Tasks :
              job' = [job EXCEPT ![p] = [Idle EXCEPT !.pc = "deleting", !.task = t]]
        BY <3>2 DEF LoadDelete
      <4>2. /\ [Idle EXCEPT !.pc = "deleting", !.task = t] \in Job
            /\ [Idle EXCEPT !.pc = "deleting", !.task = t].wish = None
            /\ [Idle EXCEPT !.pc = "deleting", !.task = t].pc = "deleting"
        BY IdleType DEF Job, Idle
      <4> QED
        BY <4>1, <4>2
    <3> QED
      BY <1>5, <3>1, <3>2
  <2>2. /\ job[p].pc # "created" /\ UNCHANGED <<wish, answered, unheard>>
        /\ UNCHANGED <<clock, reminders>>
    BY <1>5 DEF LoadUpdate, LoadDelete, rows
  <2> QED
    BY <2>1, <2>2, WishQuiet, RunsSame
<1>6. ASSUME NEW p \in Procs, AnnounceAssignee(p) \/ AnnounceStatus(p)
      PROVE  WishInv' /\ RunsAreRegular'
  <2>1. /\ job[p].pc \in {"loaded", "assigned"}
        /\ UNCHANGED <<clock, reminders, wish, answered, unheard>>
    BY <1>6 DEF AnnounceAssignee, AnnounceStatus, Ready, rows
  <2>2. job[p].wish = None /\ job[p] \in Job
    BY <2>1 DEF WishInv, WishesApart, TypeOK
  <2>3. \E j \in Job : /\ job' = [job EXCEPT ![p] = j] /\ j.wish = None
                       /\ j.pc \notin {"creating", "created"}
    <3>1. CASE AnnounceAssignee(p)
      <4>1. /\ [job[p] EXCEPT !.pc = "assigned"] \in Job
            /\ [job[p] EXCEPT !.pc = "assigned"].wish = None
            /\ [job[p] EXCEPT !.pc = "assigned"].pc = "assigned"
            /\ job' = [job EXCEPT ![p] = [job[p] EXCEPT !.pc = "assigned"]]
        BY <2>2, <3>1 DEF AnnounceAssignee, Job
      <4> QED
        BY <4>1
    <3>2. CASE AnnounceStatus(p)
      <4>1. PICK new \in Row, j \in Job :
              /\ job' = [job EXCEPT ![p] = j]
              /\ j = [job[p] EXCEPT !.pc = "flushed", !.new = new, !.told = new.status]
        BY <3>2, AnnounceStatusStep
      <4>2. j.wish = None /\ j.pc = "flushed"
        BY <2>2, <4>1 DEF Job
      <4> QED
        BY <4>1, <4>2
    <3> QED
      BY <1>6, <3>1, <3>2
  <2> QED
    BY <2>1, <2>3, WishQuiet, RunsSame
<1>7. ASSUME NEW p \in Procs, CommitUpdate(p) \/ RefuseUpdate(p) \/ Delete(p)
      PROVE  WishInv' /\ RunsAreRegular'
  <2>1. /\ job[p].pc # "created" /\ Finish(p)
        /\ UNCHANGED <<clock, reminders, wish, answered, unheard>>
    BY <1>7 DEF CommitUpdate, RefuseUpdate, Refused, Delete, Save, Ready, rows
  <2>2. Idle.pc = "idle" /\ Idle.wish = None
    BY DEF Idle
  <2> QED
    BY <2>1, <2>2, IdleType, WishQuiet, RunsSame DEF Finish
<1>8. CASE MarkOverdue
  BY <1>8, WishSame, RunsSame DEF MarkOverdue
<1>9. CASE NewDay
  BY <1>9, NewDayRuns, WishSame DEF NewDay, rows, requests
<1>10. ASSUME NEW d \in Days, StartRun(d)
       PROVE  WishInv' /\ RunsAreRegular'
  BY <1>10, StartRunRuns, WishSame DEF StartRun, rows, requests
<1>11. ASSUME NEW d \in Days, FailRun(d) \/ CrashRun(d)
       PROVE  WishInv' /\ RunsAreRegular'
  BY <1>11, FailRunRuns, WishSame DEF FailRun, CrashRun, rows, requests
<1>12. ASSUME NEW d \in Days, NEW x \in run[d].todo, Remind(d, x) \/ Skip(d, x)
       PROVE  WishInv' /\ RunsAreRegular'
  BY <1>12, RemindRuns, WishSame DEF Remind, Skip, rows, requests
<1>13. CASE UNCHANGED vars
  BY <1>13, WishSame, RunsSame DEF vars, rows, requests
<1> QED
  BY <1>2, <1>3, <1>4, <1>5, <1>6, <1>7, <1>8, <1>9, <1>10, <1>11, <1>12, <1>13 DEF Next, Proceed

-----------------------------------------------------------------------------
LEMMA InitInv == Init => Inv
<1> SUFFICES ASSUME Init
             PROVE  Inv
  OBVIOUS
<1>1. 0 \in Days /\ Idle.pc = "idle" /\ Idle.wish = None /\ NoRow.state = "absent"
  BY BoundsAssumption DEF Days, Idle, NoRow
<1>2. TypeOK
  <2>1. \A d \in Days : run[d] \in Run
    BY BoundsAssumption DEF Init, Run
  <2>2. run \in [Days -> Run]
    BY <2>1 DEF Init
  <2> QED
    BY <1>1, <2>2, IdleType, BoundsAssumption DEF Init, TypeOK
<1>3. UpdatesKnow
  BY <1>1 DEF Init, UpdatesKnow, BlankRows, UpdateKnows, Updating
<1>4. WishInv
  <2>1. WishesApart
    BY <1>1 DEF Init, WishesApart
  <2>2. \A w \in Wishes : Made(w) = {} /\ unheard[w] = 0
    BY NoneAssumption DEF Init, Made
  <2> QED
    BY <2>1, <2>2, FS_EmptySet DEF WishInv, WishesCounted
<1>5. RunsAreRegular
  <2>1. \A d \in Days : run[d].todo = {} /\ (d > today => run[d].pc = "none")
    BY DEF Init, Days
  <2> QED
    BY <2>1 DEF Init, RunsAreRegular
<1> QED
  BY <1>2, <1>3, <1>4, <1>5 DEF Inv

LEMMA InvStep == Inv /\ [Next]_vars => Inv'
BY UpdatesStep, WishesAndRunsStep DEF Inv

(* The invariant that the theorems rest on: what an update knows of its    *)
(* row, whose request a wish is, and which reminders a run may still send. *)
THEOREM InvHolds == Spec => []Inv
<1> QED
  BY InitInv, InvStep, PTL DEF Spec

(* Every variable keeps its type, and a request that has loaded a task has *)
(* one that exists (task_service).                                         *)
THEOREM TypeCorrect == Spec => []TypeOK
<1>1. Inv => TypeOK
  BY DEF Inv
<1> QED
  BY <1>1, InvHolds, PTL

(* A client that repeats a request whose answer was an error may create a  *)
(* task again, and in no other way (create_task_service).                  *)
THEOREM WishFulfilledOnce == Spec => []OneTaskPerWish
<1>1. Inv => OneTaskPerWish
  <2> SUFFICES ASSUME Inv, NEW w \in Wishes
               PROVE  Cardinality({t \in Tasks : wish[t] = w}) <= 1 + unheard[w]
    BY DEF OneTaskPerWish
  <2>1. Cardinality(Made(w)) \in Nat /\ unheard[w] \in Nat
    <3>1. IsFiniteSet(Made(w))
      BY FiniteAssumption, FS_Subset DEF Made
    <3> QED
      BY <3>1, FS_CardinalityType DEF Inv, TypeOK
  <2>2. Cardinality(Made(w)) <= unheard[w] + (IF Known(w) THEN 1 ELSE 0)
    BY DEF Inv, WishInv, WishesCounted
  <2> QED
    BY <2>1, <2>2 DEF Made
<1> QED
  BY <1>1, InvHolds, PTL

(* Two regular runs never remind of the same task for the same date        *)
(* (send_reminder).                                                        *)
THEOREM ReminderOnce == Spec => SecondReminderHasACause
<1>1. ASSUME Inv, NEW d \in Days, NEW x \in run[d].todo \cap reminded
      PROVE  x[2] \in irregular
  BY <1>1 DEF Inv, RunsAreRegular
<1>2. Inv /\ [Next]_vars =>
        [\A d \in Days : \A x \in run[d].todo \cap reminded : Remind(d, x) => x[2] \in irregular]_vars
  BY <1>1
<1> QED
  BY <1>2, InvHolds, PTL DEF Spec, SecondReminderHasACause

-----------------------------------------------------------------------------
(* How a row can change in a step.                                         *)
LEMMA RowStep ==
  ASSUME Inv, [Next]_vars, NEW t \in Tasks
  PROVE  \/ task'[t] = task[t]
         \/ task[t].state = "absent"
         \/ \E p \in Procs : CommitUpdate(p) /\ job[p].task = t
         \/ task'[t] = [task[t] EXCEPT !.state = "deleted"]
         \/ t \in Overdue /\ task'[t] = [task[t] EXCEPT !.status = "OVERDUE"]
<1> SUFFICES ASSUME task'[t] # task[t]
             PROVE  \/ task[t].state = "absent"
                    \/ \E p \in Procs : CommitUpdate(p) /\ job[p].task = t
                    \/ task'[t] = [task[t] EXCEPT !.state = "deleted"]
                    \/ t \in Overdue /\ task'[t] = [task[t] EXCEPT !.status = "OVERDUE"]
  OBVIOUS
<1>1. task \in [Tasks -> Row]
  BY DEF Inv, TypeOK
<1>2. ASSUME NEW p \in Procs, Create(p)
      PROVE  task[t].state = "absent"
  BY <1>1, <1>2 DEF Create
<1>3. ASSUME NEW p \in Procs, CommitUpdate(p)
      PROVE  job[p].task = t
  BY <1>1, <1>3 DEF CommitUpdate, Save
<1>4. ASSUME NEW p \in Procs, Delete(p)
      PROVE  task'[t] = [task[t] EXCEPT !.state = "deleted"]
  BY <1>1, <1>4 DEF Delete, Save
<1>5. CASE MarkOverdue
  BY <1>5 DEF MarkOverdue
<1>6. ASSUME NEW p \in Procs,
             \/ \E w \in Wishes : BeginCreate(p, w)
             \/ AnswerCreate(p) \/ LoadUpdate(p) \/ AnnounceAssignee(p) \/ AnnounceStatus(p)
             \/ LoadDelete(p) \/ RefuseUpdate(p) \/ Fail(p)
      PROVE  task' = task
  BY <1>6 DEF BeginCreate, AnswerCreate, LoadUpdate, AnnounceAssignee, AnnounceStatus,
              LoadDelete, RefuseUpdate, Fail, rows
<1>7. ASSUME NEW d \in Days,
             \/ StartRun(d) \/ FailRun(d) \/ CrashRun(d)
             \/ \E x \in run[d].todo : Remind(d, x) \/ Skip(d, x)
      PROVE  task' = task
  BY <1>7 DEF StartRun, FailRun, CrashRun, Remind, Skip, rows
<1>8. CASE NewDay \/ UNCHANGED vars
  BY <1>8 DEF NewDay, rows, vars
<1> QED
  BY <1>2, <1>3, <1>4, <1>5, <1>6, <1>7, <1>8 DEF Next, Proceed

(* What a commit writes, in terms of what the update has loaded.           *)
LEMMA CommitWrites ==
  ASSUME Inv, NEW p \in Procs, CommitUpdate(p)
  PROVE  \E t \in Tasks, new \in Row, loaded \in Row, c \in Change :
           /\ t = job[p].task /\ loaded = job[p].loaded /\ c = job[p].change
           /\ Committing(p, t)
           /\ task'[t] = Flush(task[t], loaded, new)
           /\ p \notin stale => loaded = task[t] /\ task'[t] = new
           /\ new.state = loaded.state
           /\ IF job[p].pc = "flushed" THEN Kept(job[p]) /\ new = job[p].new
              ELSE job[p].told = None /\ new = Updated(loaded, c)
           /\ task[t] \in Row
<1>1. PICK t \in Tasks, new \in Row :
        /\ t = job[p].task /\ job[p].pc \in Updating
        /\ new = IF job[p].pc = "flushed" THEN job[p].new
                 ELSE Updated(job[p].loaded, job[p].change)
        /\ new.state = job[p].loaded.state
        /\ Save(p, t, Flush(task[t], job[p].loaded, new))
  BY Committed DEF Inv
<1>2. job[p] \in Job /\ job[p].loaded \in Row /\ job[p].change \in Change /\ task[t] \in Row
  BY DEF Inv, TypeOK, Job
<1>3. UpdateKnows(p)
  BY DEF Inv, UpdatesKnow
<1>4. job'[p].pc = "idle" /\ task'[t] = Flush(task[t], job[p].loaded, new)
  BY <1>1 DEF Save, Finish, Idle, Inv, TypeOK
<1>5. p \notin stale => job[p].loaded = task[t] /\ task'[t] = new
  BY <1>1, <1>2, <1>3, <1>4, FlushedRow DEF UpdateKnows
<1>6. Committing(p, t)
  BY <1>1, <1>4 DEF Committing, Updating
<1> QED
  BY <1>1, <1>2, <1>3, <1>4, <1>5, <1>6 DEF UpdateKnows

(* No update brings a deleted task back (update_task_service).             *)
THEOREM DeletedStay == Spec => DeletedForGood
<1>1. ASSUME Inv, [Next]_vars, NEW t \in Tasks, task[t].state = "deleted"
      PROVE  task'[t].state = "deleted"
  <2>1. task[t] \in Row
    BY <1>1 DEF Inv, TypeOK
  <2>2. ASSUME NEW p \in Procs, CommitUpdate(p), job[p].task = t
        PROVE  task'[t].state = "deleted"
    <3>1. PICK new \in Row, loaded \in Row :
            task'[t] = Flush(task[t], loaded, new) /\ new.state = loaded.state
      BY <1>1, <2>2, CommitWrites
    <3> QED
      BY <1>1, <3>1 DEF Flush
  <2> QED
    BY <1>1, <2>1, <2>2, RowStep DEF Row
<1>2. Inv /\ [Next]_vars =>
        [\A t \in Tasks : task[t].state = "deleted" => task'[t].state = "deleted"]_vars
  BY <1>1
<1> QED
  BY <1>2, InvHolds, PTL DEF Spec, DeletedForGood

(* No job takes a finished task back, and the date does so only in an      *)
(* update that sends null for the status (apply_overdue_status,            *)
(* mark_overdue_tasks_service).                                            *)
THEOREM DoneStays == Spec => DoneStaysDone
<1>1. ASSUME Inv, [Next]_vars, NEW t \in Tasks, task[t].status = "DONE", task'[t].status # "DONE"
      PROVE  \E p \in Procs : /\ Committing(p, t)
                              /\ \/ job[p].change.status \in Statuses \ {"DONE"}
                                 \/ job[p].change.status = Null /\ Late(task'[t])
                                 \/ p \in stale
  <2>1. task[t] \in Row /\ task[t].state # "absent"
    BY <1>1 DEF Inv, TypeOK, UpdatesKnow, BlankRows, NoRow
  <2>2. PICK p \in Procs : CommitUpdate(p) /\ job[p].task = t
    BY <1>1, <2>1, RowStep DEF Row, Overdue
  <2>3. PICK new \in Row, loaded \in Row, c \in Change :
          /\ loaded = job[p].loaded /\ c = job[p].change /\ Committing(p, t)
          /\ p \notin stale => loaded = task[t] /\ task'[t] = new
          /\ IF job[p].pc = "flushed" THEN Kept(job[p]) /\ new = job[p].new
             ELSE job[p].told = None /\ new = Updated(loaded, c)
    BY <1>1, <2>2, CommitWrites
  <2>4. p \notin stale => c.status \notin {None, "DONE"}
    BY <1>1, <2>3, UpdatedRow DEF Kept
  <2>5. ASSUME p \notin stale, c.status = Null
        PROVE  Late(task'[t])
    <3>1. task'[t] = new /\ new = Updated(loaded, c)
      BY <2>3, <2>5 DEF Kept
    <3>2. new.status # Null
      BY NoneAssumption DEF Row
    <3> QED
      BY <2>5, <3>1, <3>2, UpdatedRow, NoneAssumption DEF Statuses
  <2>6. c.status \in Statuses \cup {None, Null}
    BY DEF Change
  <2> QED
    BY <2>3, <2>4, <2>5, <2>6
<1>2. Inv /\ [Next]_vars =>
        [\A t \in Tasks : task[t].status = "DONE" /\ task'[t].status # "DONE" =>
           \E p \in Procs : /\ Committing(p, t)
                            /\ \/ job[p].change.status \in Statuses \ {"DONE"}
                               \/ job[p].change.status = Null /\ Late(task'[t])
                               \/ p \in stale]_vars
  BY <1>1
<1> QED
  BY <1>2, InvHolds, PTL DEF Spec, DoneStaysDone

(* A task that is not late is not marked (apply_overdue_status,            *)
(* mark_overdue_tasks_service).                                            *)
THEOREM MarkedLate == Spec => MarkedIsLate
<1>1. ASSUME Inv, [Next]_vars, NEW t \in Tasks,
             task[t].state # "absent", task[t].status # "OVERDUE", task'[t].status = "OVERDUE",
             ~ Late(task'[t])
      PROVE  \E p \in Procs : Committing(p, t) /\ (job[p].change.status = "OVERDUE" \/ p \in stale)
  <2>1. task[t] \in Row
    BY <1>1 DEF Inv, TypeOK
  <2>2. task'[t] # [task[t] EXCEPT !.state = "deleted"]
    BY <1>1, <2>1 DEF Row
  <2>3. ~ (t \in Overdue /\ task'[t] = [task[t] EXCEPT !.status = "OVERDUE"])
    BY <1>1, <2>1 DEF Row, Overdue, Late
  <2>4. PICK p \in Procs : CommitUpdate(p) /\ job[p].task = t
    BY <1>1, <2>2, <2>3, RowStep
  <2>5. PICK new \in Row, loaded \in Row, c \in Change :
          /\ loaded = job[p].loaded /\ c = job[p].change /\ Committing(p, t)
          /\ p \notin stale => loaded = task[t] /\ task'[t] = new
          /\ IF job[p].pc = "flushed" THEN Kept(job[p]) /\ new = job[p].new
             ELSE job[p].told = None /\ new = Updated(loaded, c)
    BY <1>1, <2>4, CommitWrites
  <2>6. p \notin stale => c.status = "OVERDUE"
    <3> SUFFICES ASSUME p \notin stale
                 PROVE  c.status = "OVERDUE"
      OBVIOUS
    <3>1. new.status = "OVERDUE" /\ ~ Late(new) /\ loaded.status # "OVERDUE"
      BY <1>1, <2>5
    <3>2. job[p].pc # "flushed" /\ new = Updated(loaded, c)
      BY <2>5, <3>1 DEF Kept
    <3> QED
      BY <3>1, <3>2, UpdatedRow
  <2> QED
    BY <2>5, <2>6
<1>2. Inv /\ [Next]_vars =>
        [\A t \in Tasks :
           /\ task[t].state # "absent" /\ task[t].status # "OVERDUE" /\ task'[t].status = "OVERDUE"
           /\ ~ Late(task'[t])
           => \E p \in Procs : Committing(p, t) /\ (job[p].change.status = "OVERDUE" \/ p \in stale)]_vars
  BY <1>1
<1> QED
  BY <1>2, InvHolds, PTL DEF Spec, MarkedIsLate

(* What an update announces before its commit is what it then writes, or   *)
(* what it had found (update_task_service).                                *)
THEOREM Announced == Spec => AnnouncedIsCommitted
<1> DEFINE AsTold(p) ==
             LET row == task'[job[p].task]
                 loaded == job[p].loaded IN
             /\ \/ job[p].told \in {None, row.status}
                \/ p \in stale /\ loaded.status = job[p].told
             /\ \/ job[p].change.assignee_id \in {None, Nobody, row.assignee_id}
                \/ p \in stale /\ loaded.assignee_id = job[p].change.assignee_id
<1>1. ASSUME Inv, NEW p \in Procs, CommitUpdate(p)
      PROVE  AsTold(p)
  <2>1. PICK t \in Tasks, new \in Row, loaded \in Row, c \in Change :
          /\ t = job[p].task /\ loaded = job[p].loaded /\ c = job[p].change
          /\ task[t] \in Row /\ task'[t] = Flush(task[t], loaded, new)
          /\ p \notin stale => task'[t] = new
          /\ IF job[p].pc = "flushed" THEN Kept(job[p]) /\ new = job[p].new
             ELSE job[p].told = None /\ new = Updated(loaded, c)
    BY <1>1, CommitWrites
  <2>2. /\ task'[t].status = new.status \/ (p \in stale /\ loaded.status = new.status)
        /\ \/ task'[t].assignee_id = new.assignee_id
           \/ p \in stale /\ loaded.assignee_id = new.assignee_id
    BY <2>1, FlushedRow
  <2>3. job[p].told \in {None, new.status}
    BY <2>1 DEF Kept
  <2>4. c.assignee_id \in Users => new.assignee_id = c.assignee_id
    BY <2>1, UpdatedRow DEF Kept
  <2>5. c.assignee_id \in Users \cup {None, Nobody}
    BY DEF Change, Assignees
  <2> QED
    BY <2>1, <2>2, <2>3, <2>4, <2>5
<1>2. Inv /\ [Next]_vars => [\A p \in Procs : CommitUpdate(p) => AsTold(p)]_vars
  BY <1>1
<1> QED
  BY <1>2, InvHolds, PTL DEF Spec, AnnouncedIsCommitted
=============================================================================
