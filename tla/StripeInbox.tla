---------------------------- MODULE StripeInbox ----------------------------
(***************************************************************************)
(* How a Stripe webhook event travels from POST /webhook to its effect on  *)
(* the database.                                                           *)
(*                                                                         *)
(*   webhook_service        verifies the request and dispatches the event  *)
(*   dispatch_stripe_event  a Celery task, or a daemon thread when         *)
(*                          USE_CELERY is false                            *)
(*   process_Stripe_event   the Celery task, retried on any exception      *)
(*   handle_event           one database session per attempt               *)
(*                                                                         *)
(* What handle_event does between recording the event and marking it       *)
(* processed is one effect here; module Billing has its detail.            *)
(***************************************************************************)
EXTENDS Naturals, FiniteSets

CONSTANTS
  Events,       \* ids of Stripe events, the primary keys of stripe_events
  NoEvent,      \* what a job that is not dispatched yet carries
  Tasks,        \* dispatched jobs, one per delivery the webhook accepted
  Modes,        \* the values of settings.use_celery considered
  MaxRetries,   \* max_retries of process_Stripe_event
  MaxFaults     \* bound: exceptions and worker deaths in a behaviour

ASSUME NoEventIsNone == NoEvent \notin Events
ASSUME ModesType == Modes \subseteq BOOLEAN
ASSUME MaxRetriesType == MaxRetries \in Nat
ASSUME MaxFaultsType == MaxFaults \in Nat

VARIABLES
  useCelery,  \* settings.use_celery, read at start-up
  acked,    \* events whose delivery was answered 2xx
  task,     \* the dispatched jobs
  row,      \* table stripe_events: absent, recorded (processed = False), processed
  effects,  \* history: commits of the effect of each event
  faults    \* faults so far, for MaxFaults

vars == <<useCelery, acked, task, row, effects, faults>>

(* The places where an attempt of handle_event can be interrupted.         *)
(*   free     no job has this identity yet                                 *)
(*   queued   dispatched, or retried; the event id is not looked up yet    *)
(*   checked  the SELECT of the event id found no row                      *)
(*   claimed  the row was inserted and committed by this attempt           *)
(*   applied  the final COMMIT succeeded, the refresh is outstanding       *)
(*   done     handle_event returned                                        *)
(*   failed   the last attempt raised, or the process running it died      *)
PC == {"free", "queued", "checked", "claimed", "applied", "done", "failed"}

Running == {"queued", "checked", "claimed", "applied"}

TypeOK ==
  /\ useCelery \in BOOLEAN
  /\ acked \subseteq Events
  /\ task \in [Tasks -> [event : Events \cup {NoEvent}, pc : PC, retries : 0..MaxRetries]]
  /\ \A t \in Tasks : (task[t].pc = "free") <=> (task[t].event = NoEvent)
  /\ row \in [Events -> {"absent", "recorded", "processed"}]
  /\ effects \in [Events -> Nat]
  /\ faults \in Nat

Init ==
  /\ useCelery \in Modes
  /\ acked = {}
  /\ task = [t \in Tasks |-> [event |-> NoEvent, pc |-> "free", retries |-> 0]]
  /\ row = [e \in Events |-> "absent"]
  /\ effects = [e \in Events |-> 0]
  /\ faults = 0

Goto(t, pc) == task' = [task EXCEPT ![t].pc = pc]

(* Mutant of Raised: max_retries is not looked at.                         *)
RaisedWithoutLimit(t) ==
  task' = [task EXCEPT ![t].pc = "queued", ![t].retries = @ + 1]

(* What an exception that leaves handle_event does to the job: Celery puts *)
(* the task back in the queue until max_retries, a thread swallows it.     *)
Raised(t) ==
  IF useCelery /\ task[t].retries < MaxRetries
  THEN task' = [task EXCEPT ![t].pc = "queued", ![t].retries = @ + 1]
  ELSE Goto(t, "failed")

-----------------------------------------------------------------------------
(* Stripe posts the event, for the first time or again, and the endpoint   *)
(* dispatches it. A delivery that is refused changes nothing here.         *)
Deliver(t, e) ==
  /\ task[t].pc = "free"
  /\ task' = [task EXCEPT ![t].pc = "queued", ![t].event = e]
  /\ acked' = acked \cup {e}
  /\ UNCHANGED <<useCelery, row, effects, faults>>

(* Mutant of Lookup: waits while the row is there and not processed.       *)
LookupWaits(t) ==
  /\ task[t].pc = "queued"
  /\ Goto(t, CASE row[task[t].event] = "absent" -> "checked"
               [] row[task[t].event] = "recorded" -> "queued"
               [] OTHER -> "done")
  /\ UNCHANGED <<useCelery, acked, row, effects, faults>>

(* Mutant of Lookup: a row that is not processed is taken up again.        *)
LookupResumes(t) ==
  /\ task[t].pc = "queued"
  /\ Goto(t, CASE row[task[t].event] = "absent" -> "checked"
               [] row[task[t].event] = "recorded" -> "claimed"
               [] OTHER -> "done")
  /\ UNCHANGED <<useCelery, acked, row, effects, faults>>

(* SELECT the event id; a row that exists, whatever its processed flag,    *)
(* ends the attempt.                                                       *)
Lookup(t) ==
  /\ task[t].pc = "queued"
  /\ Goto(t, IF row[task[t].event] = "absent" THEN "checked" ELSE "done")
  /\ UNCHANGED <<useCelery, acked, row, effects, faults>>

(* Mutant of Record: the id is no primary key.                             *)
RecordWithoutKey(t) ==
  /\ task[t].pc = "checked"
  /\ row' = [row EXCEPT ![task[t].event] = "recorded"]
  /\ Goto(t, "claimed")
  /\ UNCHANGED <<useCelery, acked, effects, faults>>

(* INSERT the row and COMMIT, before any of the work.                      *)
Record(t) ==
  /\ task[t].pc = "checked"
  /\ row[task[t].event] = "absent"
  /\ row' = [row EXCEPT ![task[t].event] = "recorded"]
  /\ Goto(t, "claimed")
  /\ UNCHANGED <<useCelery, acked, effects, faults>>

(* The same INSERT when another attempt inserted the row in between: the   *)
(* primary key is violated, the session rolls back and the error is raised.*)
RecordConflict(t) ==
  /\ task[t].pc = "checked"
  /\ row[task[t].event] # "absent"
  /\ Raised(t)
  /\ UNCHANGED <<useCelery, acked, row, effects, faults>>

(* Mutant of Apply: the processed flag is forgotten.                       *)
ApplyWithoutFlag(t) ==
  /\ task[t].pc = "claimed"
  /\ effects' = [effects EXCEPT ![task[t].event] = @ + 1]
  /\ Goto(t, "applied")
  /\ UNCHANGED <<useCelery, acked, row, faults>>

(* The COMMIT at the end: the effect and processed = True together.        *)
Apply(t) ==
  /\ task[t].pc = "claimed"
  /\ effects' = [effects EXCEPT ![task[t].event] = @ + 1]
  /\ row' = [row EXCEPT ![task[t].event] = "processed"]
  /\ Goto(t, "applied")
  /\ UNCHANGED <<useCelery, acked, faults>>

(* The refresh after it, and the return.                                   *)
Return(t) ==
  /\ task[t].pc = "applied"
  /\ Goto(t, "done")
  /\ UNCHANGED <<useCelery, acked, row, effects, faults>>

(* Mutant of Fault: the error handler removes the record of the event.     *)
FaultForgets(t) ==
  /\ task[t].pc \in Running
  /\ faults < MaxFaults
  /\ faults' = faults + 1
  /\ Raised(t)
  /\ row' = [row EXCEPT ![task[t].event] = "absent"]
  /\ UNCHANGED <<useCelery, acked, effects>>

(* Anything in the attempt raises: the database, the Stripe API, a missing *)
(* subscription. The session rolls back what is not committed.             *)
Fault(t) ==
  /\ task[t].pc \in Running
  /\ faults < MaxFaults
  /\ faults' = faults + 1
  /\ Raised(t)
  /\ UNCHANGED <<useCelery, acked, row, effects>>

(* The process dies. Celery acknowledges a message before it runs the      *)
(* task, so no other worker gets it; a daemon thread is gone as well.      *)
Crash(t) ==
  /\ task[t].pc \in Running
  /\ faults < MaxFaults
  /\ faults' = faults + 1
  /\ Goto(t, "failed")
  /\ UNCHANGED <<useCelery, acked, row, effects>>

Work(t) == Lookup(t) \/ Record(t) \/ RecordConflict(t) \/ Apply(t) \/ Return(t)

Next ==
  \E t \in Tasks :
    \/ \E e \in Events : Deliver(t, e)
    \/ Work(t)
    \/ Fault(t)
    \/ Crash(t)

Spec == Init /\ [][Next]_vars

(* A queued message is eventually fetched and a running attempt eventually *)
(* goes on: the worker pool, or the scheduler of threads, is not stuck.    *)
FairSpec == Spec /\ \A t \in Tasks : WF_vars(Work(t))

-----------------------------------------------------------------------------
Owns(t, e) == task[t].event = e /\ task[t].pc = "claimed"

(* A recorded event that no attempt is working on: its effect is lost.     *)
Abandoned == {e \in Events : row[e] = "recorded" /\ ~ \E t \in Tasks : Owns(t, e)}

(* At most one attempt ever works on an event at a time, although the      *)
(* check for the row and its insertion are two transactions and the same   *)
(* event may be in several workers (stripe_task.py, handle_event).         *)
SingleOwner ==
  \A e \in Events : \A t, u \in Tasks : Owns(t, e) /\ Owns(u, e) => t = u

(* An event changes the database at most once, under duplicate deliveries, *)
(* Celery retries (also one after the final COMMIT) and worker deaths.     *)
EffectAtMostOnce == \A e \in Events : effects[e] <= 1

(* The handling of events implements the ledger: once an attempt that      *)
(* recorded an event fails, no retry and no redelivery brings it back.     *)
Ledger == INSTANCE EventLedger WITH
            pending <- {e \in Events : row[e] # "processed"} \ Abandoned,
            abandoned <- Abandoned
LedgerSpec == Ledger!Spec

(* Every dispatched job comes to an end: the retries of process_Stripe_event*)
(* are bounded and a conflict on the primary key does not loop.            *)
JobsEnd ==
  \A t \in Tasks : (task[t].pc = "queued") ~> (task[t].pc \in {"done", "failed"})

(* Without a fault every event the endpoint has answered 2xx for is        *)
(* processed: no order of duplicate deliveries and workers loses it, since *)
(* an attempt only yields to a row that a live attempt has inserted.       *)
AckedIsProcessed ==
  \A e \in Events : (e \in acked) ~> (row[e] = "processed" \/ faults > 0)

(* What "max_retries=3, autoretry_for=(Exception,)" says of the task: one  *)
(* that is retried and then succeeds has handled its event, or has left it *)
(* to another task that is handling it.                                    *)
RetryHandlesEvent ==
  \A t \in Tasks :
    task[t].pc = "done" /\ task[t].retries > 0 =>
      row[task[t].event] = "processed" \/ \E u \in Tasks : Owns(u, task[t].event)
=============================================================================
