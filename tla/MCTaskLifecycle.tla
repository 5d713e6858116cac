--------------------------- MODULE MCTaskLifecycle ---------------------------
(* TaskLifecycle for TLC. Of the due dates, 0 is past on the last day, and *)
(* 2 and 3 are two days after the days there are. The workloads take a     *)
(* second task only where two of them can meet: in one wish, in one run.   *)
EXTENDS TaskLifecycle, TLC

CONSTANTS ann, t1, t2

Send(s, d, a) == [status |-> s, due_date |-> d, assignee_id |-> a]
Done == Send("DONE", None, None)
Begun == Send("IN_PROGRESS", None, None)
Cleared == Send(Null, None, None)
Reopened == Send("TODO", None, ann)
Earlier == Send(None, 0, None)
Later == Send(None, 3, ann)

MCUsers == {ann}
MCTasks == {t1, t2}
MCChanges == {Done, Begun, Cleared, Reopened, Earlier, Later}
MCInputs == { [state |-> "live", status |-> "TODO", due_date |-> 0, assignee_id |-> Nobody],
              [state |-> "live", status |-> "IN_PROGRESS", due_date |-> 3, assignee_id |-> ann] }

Load(tasks, changes, topics) == [tasks |-> tasks, changes |-> changes, topics |-> topics]
MCWorkloads ==
  { Load(MCTasks, {}, {"remind"}), Load(MCTasks, {Done, Later}, {}),
    Load({t1}, MCChanges, {"delete"}), Load({t1}, {Later}, {"remind"}) }
=============================================================================
