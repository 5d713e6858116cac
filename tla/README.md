# A TLA+ verification of the TenantHub backend

TenantHub (`src/`) is a FastAPI backend for workspaces that share tasks and pay
by subscription. This directory holds TLA+ models of the parts of it whose
behaviour depends on the order of steps: webhook events, billing, the files of
attachments, the limits of a plan, codes and sessions, and the life of a task
with what is announced of it. TLC checks them on small instances, TLAPS proves
the theorems at the end of this file for every instance. `PROJECT.json` maps
each definition to the lines it models and lists runs, mutants, hazards,
findings and theorems.

Paths below are relative to `src/app/` unless they start with `src/`.

## The system

| Component | State | Operations | Interacts with |
|---|---|---|---|
| Stripe event inbox (`tasks/stripe_task.py`, `core/task_dispatcher.py`, `services/stripe_service.py:352`) | `stripe_events` (id, processed); Celery's queue or daemon threads | `webhook_service`, `dispatch_stripe_event`, `process_Stripe_event`, `handle_event` | Stripe delivers; the handlers write the billing tables |
| Billing (`services/stripe_service.py`, the handlers of `tasks/stripe_task.py`) | `subscriptions`, `workspaces.plan_id`, `workspaces.stripe_customer_id`; at Stripe: customers, sessions, subscriptions | checkout, complete, create, confirm, update, cancel; five kinds of events | Stripe by call and by event; plans decide quotas and features elsewhere |
| Accounts and quotas (`services/user_service.py`, `services/auth_service.py`) | `users`, `workspaces` | register, add, list, delete users | counts against `plans.max_users`; mails invitations |
| Tasks (`services/task_service.py`) | `tasks` | create, update, delete, list, analytics; the overdue marking | counts against `plans.max_tasks`; sends e-mail and push |
| Attachments (`services/task_service.py:347-461`) | `task_attachments`; files under `uploads/` | attach, open, delete, and deleting a task | the plan's `file_attachments` |
| Codes, invitations and sessions (`services/auth_service.py`) | Redis keys with a life time; `refresh_tokens`, `user_devices`, `users.email_verified` | login, refresh, logout, request and verify codes, reset password, accept invitation | SendGrid, Twilio |
| Reminders and schedule (`tasks/reminder_task.py`, `core/celery.py`) | none of its own | daily reminder, overdue job | reads and updates `tasks`, sends mail and push |
| Delivery (`tasks/email_task.py`, `tasks/notification_task.py`) | none | send | SendGrid, Firebase |
| Routing, dependencies, configuration, schemas, migrations | none | - | - |

What is hard in it. A request runs in one database session, at PostgreSQL's
default isolation (READ COMMITTED), and gives up control at every `await`;
other requests, Celery workers or daemon threads, and Stripe act in between.
Nothing locks a row, and few tables have a unique constraint, so what a request
has read may be out of date when it commits. External effects (a change at
Stripe, a mail, a file) are not undone by the `rollback()` of an error handler.
Events arrive more than once, in any order, and after the requests that caused
them.

What makes each part correct:

- *Inbox*: an event has its effect at most once, one attempt at a time works on
  it, every job ends, and an event that was acknowledged is handled.
- *Billing*: rows and Stripe agree once all is settled; a workspace has one
  subscription row; a plan is granted only if it was billed for, and taken only
  for a reason; a downgrade waits for the next cycle; a request that answers with an
  error has not changed the subscription; an end at Stripe ends the row that names
  the subscription and takes the plan from the workspace.
- *Attachments*: deleted means gone from the disk; what is not deleted can be
  opened and is what was uploaded.
- *Quotas*: users and tasks stay within the plan's maximum, as far as a count
  before an insertion can see to that.
- *Tasks*: a late due date is marked, a notification tells of a committed change,
  a failed request can be sent again.
- *Codes and sessions*: a code or an invitation is used once; a session that was
  logged out or replaced is refused.

## Modules

| Module | Models | Rests on |
|---|---|---|
| `EventLedger` | abstract specification of event handling | - |
| `StripeInbox` | an event from `POST /webhook` to `processed = True` | refines `EventLedger` |
| `StripeInboxProofs` | theorems | `StripeInbox` |
| `Billing` | every request and handler that changes the subscription, and Stripe | takes the at-most-once effect of events from `StripeInbox`; refines `SubscriptionContract` when one worker takes everything in turn |
| `BillingProofs` | theorems | `Billing` |
| `BillingSerialProofs` | theorems about the serial case | `BillingProofs` |
| `SubscriptionContract` | abstract specification of the plan of a workspace | - |
| `BillingContractProofs` | the refinement of `SubscriptionContract` | `BillingSerialProofs` |
| `Attachments` | rows and files | - |
| `AttachmentsProofs` | theorems | `Attachments` |
| `PlanQuota` | adding and deleting users and tasks, and changes of plan | takes from `Billing` that the plan may change at any time |
| `PlanQuotaProofs` | theorems | `PlanQuota` |
| `TaskLifecycle` | tasks, their announcements, the overdue job, the reminder job | takes the limit of tasks from `PlanQuota`, the files from `Attachments` |
| `TaskLifecycleProofs` | theorems | `TaskLifecycle` |
| `Sessions` | codes and invitations in Redis, refresh tokens, devices, the row of one user | takes from `PlanQuota` how a user is added |
| `SessionsProofs` | theorems | `Sessions` |
| `MCStripeInbox`, `MCBilling`, `MCAttachments`, `MCPlanQuota`, `MCTaskLifecycle`, `MCSessions` | constants and symmetry for TLC | - |

Definitions named `...` after "Mutant of" are changed forms of the definition
that follows them. No specification uses them; each shows that some property
notices the change.

### StripeInbox

State: `row` is the table `stripe_events` (absent, recorded, processed); `task`
holds one job per accepted delivery, with the place its attempt has reached and
Celery's retry count; `useCelery` is the setting that decides between a Celery
task and a daemon thread. `effects` (history) counts the commits of an event.

| Action | Code |
|---|---|
| `Deliver` | `webhook_service`, `dispatch_stripe_event`: 2xx answered, job queued |
| `Lookup` | `SELECT` of the event id; any row ends the attempt (`stripe_task.py:30-34`) |
| `Record`, `RecordConflict` | `INSERT` and `COMMIT`, or the violated primary key (36-39) |
| `Apply`, `Return` | the handler's work with `processed = True` in one commit (43-182); the refresh and the return |
| `Fault` | an exception: rollback, then `autoretry_for` up to `max_retries`, or the end of the thread |
| `Crash` | the process dies; Celery has acknowledged the message already (`acks_late` is not set) |

The branches of `handle_event` between 43 and 177 are one effect here; `Billing`
has them one by one.

`EventLedger` is what a reader of the code may rely on: an event that is pending
is either applied, once, or abandoned for good. `StripeInbox` implements it with
`abandoned` = rows that are recorded but not processed and on which no attempt
is working. That abandonment is for good is a property of the code, not a wish:
see the finding `inbox_retry`.

### Billing

One workspace. `workspace` and `subscription` are its rows, `stripe` and
`customers` what Stripe has, `events` what Stripe has sent and no worker has
taken, with the browser's return to the success page among them, `job` what each
of `Procs` concurrent sessions is doing. `priced` (plans that were ever billed for),
`scheduled` and `misreported` (what requests had committed that then answered with an
error) are history.

A job keeps the rows it has loaded. A commit writes the columns that the job has
changed *against what it had loaded* (`Flush`), as SQLAlchemy does, so two jobs
that overlap can leave a row no single one of them would have written.

| Actions | Code |
|---|---|
| `LoadCheckout`, `CreateCustomer`, `SaveCustomer`, `OpenSession` | `create_checkout_session_service`, `get_stripe_customer_id` |
| `LoadCreate`, `CreateSubscription`, `SaveCreate` | `create_subscription_service` |
| `LoadUpdate`, `ModifyPlan`, `SaveUpdate` | `update_subscription_service` |
| `LoadCancel`, `ModifyCancel`, `SaveCancel` | `cancel_subscription_service` |
| `Return`, `Replay`, `Leave`, `SaveComplete` | `complete_checkout_session_service`, called from the success page, again later, or never |
| `Claim`, `SaveCompleted`, `SavePaid`, `SavePaymentFailed`, `SaveUpdated`, `SaveDeleted`, `EventFails` | the branches of `handle_event` |
| `StripeRefuses`, `Fault` (both `AnswerError`) | calls Stripe turns down; an exception at any step |
| `PayCheckout`, `PayFirstInvoice`, `Renew`, `RenewFails`, `Recover`, `End` | Stripe and the paying admin (external) |

`SubscriptionContract` is what this amounts to for the workspace, without rows,
events and jobs: the plan it has, the change that is pending and whether a period
has begun since (`ripe`), a purchase that is not settled, an end it has not noticed.
`Pending`, `Ripe`, `Bought` and `Over` of `Billing` read these off the one row, Stripe
and the events still due; a purchase is settled when its first invoice is handled.

| Step of `Billing` | Step of the contract |
|---|---|
| `PayCheckout` | `Buy` |
| `SaveCompleted` | `Forget`: what was pending before |
| `SaveComplete`, `SavePaid` of the first period | `Grant` |
| `SaveUpdate` | `Upgrade` or `Schedule` |
| `Renew` | `NextPeriod`, if something is scheduled |
| `SavePaid` of a later period | `CarryOut`, if something is scheduled |
| `SaveCancel` | `Cancel` |
| `End`, `SaveDeleted` | `Expire`, `GoFree` |
| everything else | nothing the contract knows of |

What was decided about the code's surroundings:

- The `SELECT`s of one handler are one step; a write between them is seen by the
  next job instead.
- `subscription` is a sequence because rows are inserted and never deleted;
  `first()` without `ORDER BY` may return any of the rows that fit.
- The Stripe price id of FREE is a placeholder in the migration, `price_zero`
  (`src/alembic/versions/fa7cce80ca94_add_data_in_plan_table.py:36-40`), so Stripe
  refuses every request that names FREE (`StripeRefuses`). `update` has written
  nothing by then; a checkout, or `POST /subscription`, may have committed a new
  customer first (`SaveCustomer`).
- How Stripe answers, which events it sends for which change, and in which order
  is not in `src/`. The model has what the handlers rely on, and is marked
  external in the map. Attribute access on Stripe objects
  (`stripe_object.metadata.plan_id`) is taken to work as with the pinned version.
- Some refusals are written `HTTPException(..., details=...)`, which raises a
  `TypeError` and is answered 500. Nothing is written either way, so the model
  does not tell these answers from each other.
- What the environment may do is a constant: `Hazards`. A run states under which
  of them its properties hold.

### Attachments

`row` and `removed` are the `is_deleted` flags of attachments and tasks, `file`
is the disk: which upload wrote the bytes at uploads/workspace/task/name.
An upload reads its task, writes the file, then inserts the row; a deletion, of
an attachment or of a task with all its attachments, reads, removes files, then
commits. Every request may fail at each step and in the middle of its work on
the disk. Writing one file is one step; the check of type and plan is an upload
that may fail before it writes. `start.sh` may start several server processes,
so requests overlap anywhere.

### PlanQuota

`item` is the tables `users` and `tasks` of one workspace, `plan` its `plan_id`.
A request reads the plan when it is authenticated (`BeginAdd`, `get_current_user`),
looks for the address and counts (`Count` or `Refuse`, `add_user_service` and
`check_plan`), and inserts (`InsertUser`, `InsertTask`); for a user the unique
columns can still refuse (`InsertConflict`). Deletions load and then commit.
Users of role ADMIN are apart, because the query counts role USER only. `past`
and `disturbed` are history. The admin who registered the workspace is not a row
of the model; the phone number goes with the address.

### TaskLifecycle

`task` is the table `tasks` of one workspace, `job` the open requests, `run` the
reminder job of each day and `today` the date. `wish` (what a client wanted
created), `answered` and `unheard` follow a client that sends a request again
after an error; `stale`, `reminded` and `irregular` are history.

| Action | Code |
|---|---|
| `BeginCreate`, `Create`, `AnswerCreate` | `create_task_service`: begun, committed, then notified and answered |
| `LoadUpdate` | `update_task_service` reads the task; it does not ask for `is_deleted` |
| `AnnounceAssignee` | "New Task Assigned", before anything is written |
| `AnnounceStatus` | the fields are set, the plan is looked up, "Task Completed" or "Task In Progress" goes out |
| `CommitUpdate` | the commit, with or without a status to announce |
| `RefuseUpdate` | a status sent as null that nothing replaces: the column does not take it |
| `LoadDelete`, `Delete` | `delete_task_service` |
| `Fail` | an exception or the end of the process, at any step of a request |
| `MarkOverdue` | `mark_overdue_tasks_service`, one UPDATE |
| `NewDay` | Beat queues the reminder job, or is down |
| `StartRun`, `Remind`, `Skip`, `FailRun`, `CrashRun` | `send_reminder`, with `autoretry_for` and early acknowledgement |

- An UPDATE names the columns that differ from what was loaded (`Flush`), so an
  update that sets what the row already had writes nothing.
- A field that is sent as null is not a field that is not sent (`exclude_unset`):
  the due date becomes `NoDue`, the assignee `Nobody`, the status `Null`. If the date
  is past, `apply_overdue_status` turns that null into OVERDUE; if not, the database
  refuses the commit.
- The session flushes before a query. The look-up of the plan in the middle of an
  update therefore writes the row and locks it until the commit: whoever else
  writes the row waits (`Locked`).
- The days of the model are those of the database and of the application; due
  dates have the grain of a day. The hour of Beat's schedule is left out, and a
  job may be taken on a later day.
- Whether the plan includes notifications, and which devices there are, is left
  open: an announcement may or may not be delivered. The model keeps the place
  where it is made, which is what it could contradict.
- `title`, `description`, `priority` and the creator are not in the model.

### Sessions

One person. `user` is the row of users, `store` the secrets whose key is in Redis,
`issued` and `mailed` what was generated and sent, `token` the rows of
`refresh_tokens`, `device` the rows of `user_devices` for one device, `job` the
open requests. A secret is a code or an invitation; being random, it is generated
once. Codes of one kind share a key (`Key`), each invitation has its own. The
other variables are history.

| Actions | Code |
|---|---|
| `LoadRegister`, `Register`, `AddUser` | `register_service`; a user added by an admin |
| `Generate`, `MailCode`, `StoreCode` | `verify_email_service`, `forgot_password_service`: mailed, then SET |
| `Generate`, `StoreInvitation`, `MailInvitation` | `invite_user_service`: SET, then mailed |
| `Match`, `VerifyEmail`, `Discard` | `verify_otp_service`: GET and compare, commit, DEL |
| `Match`, `MatchNone`, `ResetPassword`, `Discard` | `reset_password_service`, with and without a code in Redis |
| `Match`, `Revoke`, `SetPassword`, `Discard` | `set_password_service`: the DELETE of the tokens, then the new one with the commit |
| `LoadLogin`, `Login`; `LoadChange`, `ChangePassword` | `login_service`, `change_password_service` |
| `LoadPhone`, `VerifyPhone` | `verify_phone_Service`; the code itself is Twilio's |
| `LoadSave`, `InsertDevice`, `UpdateDevice` | `save_fcm_token_service` |
| `LoadLogout`, `Logout` | `logout_service` |
| `Expire`, `Fail` | a life time is over; a request ends at any step |

- The DELETE of `set_password_service` sees the tokens that are committed when it
  runs (READ COMMITTED); a token inserted between it and the commit stays. It
  locks what it has found, so `Logout` waits for the commit, and an UPDATE of a
  token that is gone raises.
- The key is deleted by name, whatever it holds by then.
- `reset_password_service` compares `str()` of what Redis returns and does not ask
  whether there was a code, as `verify_otp_service` does. `MatchNone` is the reset
  without one: the job holds `None` for its secret.
- Access tokens are not stored; whoever has ever had a refresh token may call what
  needs one (`Authenticated`).
- `refresh_token_service` raises before it changes anything (see the
  observations), so no action rotates a token.

## Runs

| Run | Checks | Bounds and states |
|---|---|---|
| `inbox` | `TypeOK`, `SingleOwner`, `EffectAtMostOnce`, refinement `LedgerSpec`; under fairness `JobsEnd`, `AckedIsProcessed` | 2 events, 3 deliveries, both dispatch modes, 2 retries, 3 faults |
| `inbox_retry` | finding: `RetryHandlesEvent` fails | 1 event, 1 fault, the code's 3 retries |
| `billing_serial` | `Synchronised`, `OneRow`, `RefusalJustified`, `FailedRequestIsHarmless`, `DowngradeNextCycle`, `NoSilentLoss`, refinement `KeepsContract`; under fairness `PaidIsGranted` | 1 worker, no hazard, 2 subscriptions one after the other, 3 periods, 5 requests; 52 541 states |
| `billing_races` | `ItemBelongs`, `GrantedPlanWasPriced` | 2 workers; overlap, reorder, fault, twoPayments; 2 requests, 1 page opened again; 353 571 states |
| `billing_ends` | under fairness `EndIsRecorded` | create, declined, twoPayments; 4 requests; 139 829 states |
| `billing_two_workers` | finding: `Synchronised` fails | 2 workers, one purchase |
| `billing_past_due` | finding: `DowngradeNextCycle` fails | one declined renewal |
| `attachments_disk` | `TypeOK`, `DeletedIsGone`, `ServesOwnBytes` | 2 tasks, 2 names, 3 uploads, 2 deletions; 106 676 states |
| `attachments_names` | finding: `OpenServesUpload` fails | 2 uploads of one name |
| `quota` | `TypeOK`, `WithinMargin`, `OverrunHasACause` | 2 plans, 2 requests at a time, 2 addresses, 4 tasks; 125 378 states |
| `tasks` | `TypeOK`, `OneTaskPerWish`, `DoneStaysDone`, `MarkedIsLate`, `AnnouncedIsCommitted`, `DeletedForGood`, `SecondReminderHasACause`; under fairness `LateIsMarked` | 2 requests at a time, 2 tasks, 2 updates, 2 days, 1 retry, 4 workloads; 86 084 states |
| `sessions` | `TypeOK`, `LatestMailWorks`, `OldSessionHasACause`, `RowsPerDevice`, `ReuseHasACause`, `LostCodeHasACause`, `DeviceFollowsRequest` | 2 requests at a time, 6 secrets, 2 passwords, 2 tokens, 3 rows, 7 workloads; 296 137 states |

What they show:

- `inbox`: although looking for the event and recording it are two transactions,
  duplicates, retries and threads never give an event two effects. The price is
  the other half of the refinement: after a fault past the insertion, the event
  is never handled. Without a fault none is lost.
- `billing_serial`: taken one after the other, the nine handlers add up: through
  purchase, upgrade, downgrade, renewal, cancellation, end and a second purchase
  the row and Stripe agree whenever nothing is pending, in each of the orders of
  return page and events after a payment. Seen from the workspace they do what
  `SubscriptionContract` says (`KeepsContract`). A request that Stripe refuses has
  left at most a customer behind, which the next request uses
  (`FailedRequestIsHarmless`). Late events, overlapping requests and redeliveries
  are not in this run.
- `billing_races`: what survives when everything overlaps, events come in any
  order and jobs die. A plan that was asked for and never billed is not granted, and
  a row never mixes two subscriptions, although two commits can interleave by
  column. `GrantedPlanWasPriced` looks at what was ever billed: that it still goes
  on does not hold here (see the observations).
- `billing_ends`: an end is recorded in every row that names the subscription, and
  the workspace is back on FREE unless a row names one that goes on, also after
  failed renewals and a second purchase. The older endpoint leaves
  `stripe_subscription_id` of an existing row, so no row may name its subscription;
  of the end of such a one only the part about the workspace is claimed. Events
  come in order.
- `attachments_disk`: the order "file first, row last" of a deletion is right: a
  failure leaves a row without a file, never a deleted row with one. The two
  deletions of one attachment, or of it and its task, do not disturb each other.
- `quota`: requests that count at the same time overrun a limit, by at most one
  less than their number, and the overrun does not grow: the next count sees it.
  A request that runs alone under an unchanged plan keeps the limit exactly.

- `tasks`: the announcements made before the commit are true of the row after it,
  with one exception: an update that announces what it had loaded writes nothing,
  and another request may have changed that meanwhile. DONE is left only by an
  update that sends another status, that sends null for it when the date is past, or
  that loaded the row before it changed; OVERDUE is given without cause only by an
  update that sends it or loaded an older row.
  A client that repeats a request gets one task more for each answer it lost, and
  no other. The overdue job reaches every late task. A reminder is repeated only
  by a run that is itself repeated or taken late.
- `sessions`: which of the gaps between Redis and the database matter. Nothing but
  two requests at once, or a failure between commit and DEL, lets a stored code count
  twice; of resets for which none was stored the run says nothing. A code is lost
  to a request for another one only if the key was written in between.
  A session of an earlier password is alive because the change of password does
  not look at sessions, or because a login overlapped with an accepted invitation.

Why the bounds are enough. A duplicate needs two jobs of one event; a third
makes a redelivery after both are over. Three faults use up two retries, or
spend an event and fail both redeliveries. In `Billing` every conflict is one of
two jobs, with the second subscription to tell the rows of two purchases apart;
three periods let a downgrade be scheduled in one, take effect in the next, and
be followed by another. Three prices tell an upgrade from a downgrade and
either from FREE. Two deletions and three uploads cover the two ways to share a
path with a file that is being removed. In `PlanQuota` the limit of tasks is 1 and
then 2, so that one task more exists than `WithinMargin` allows.

`TaskLifecycle` and `Sessions` take a *workload*, a set of topics a behaviour is
about, chosen by `Init`. Topics that touch no common state would only multiply
the states: two kinds of code meet in the row of the user and nowhere else, a
second task meets the first only in one wish and in one reminder run. Each
workload holds topics that do meet, each topic is in one, and the theorems below
hold for any set of workloads. With two updates one can run inside the other; of
the due dates 0 is past on the last day, and 2 and 3 are two days after the two
days there are. Of two codes of one kind one is newer. The third device row is
there for `RowsPerDevice` to fail. `CHECK_DEADLOCK FALSE` stands wherever
the bounded requests, deliveries or uploads run out and the system rests.

Bounds in guards: `MaxFaults` (StripeInbox); `MaxPeriod`, `MaxRequests`,
`MaxReplays`, `MaxEvents` and the finite `Subs` (Billing); the finite `Tasks` of
StripeInbox and `Uploads`, `Deletions` of Attachments, one per request; the
finite `Users`, `Tasks` and `Procs` of PlanQuota; `LastDay`, `MaxUpdates`,
`MaxRetries` (the code's `max_retries`) and the finite `Tasks` and `Procs` of
TaskLifecycle; the finite `Secrets`, `Tokens`, `Rows` and `Procs` of Sessions.

Fairness. `StripeInbox`: weak fairness of each job's own steps: a Celery worker
keeps fetching and a thread keeps being scheduled. `Billing`: some worker takes a
waiting event (or the page is closed), and a job that has begun goes on. Nothing
is assumed of Stripe, the admin, or faults. `TaskLifecycle`: weak fairness of
`MarkOverdue`, which Beat queues again every day whatever became of the last one
(`core/celery.py`), and of the next step of an open update or deletion, since a lock lasts as
long as the request that holds it. `Attachments`, `PlanQuota` and `Sessions` have
no liveness.

## Findings

Each is a run that TLC ends with a counterexample; `PROJECT.json` quotes the line
the code disagrees with.

1. `inbox_retry`: an event whose handler fails after the row was inserted is
   retried in vain: the retry finds the row and reports success.
2. `billing_two_workers`: `checkout.session.completed` and `invoice.paid` of a first
   purchase, in two workers, insert two rows; one stays INCOMPLETE.
3. `billing_past_due`: a downgrade scheduled while the current cycle is unpaid is
   carried out by the payment of that cycle.
4. `attachments_names`: a second attachment of the same name overwrites the first.

### Observations

Found with the same models under other constants, and not among the runs:

- With `overlap`, `Synchronised`, `NoSilentLoss`, `DowngradeNextCycle` and
  `FailedRequestIsHarmless` fail even with one worker: a success page that
  comes after an upgrade undoes it; a cancellation before `current_period_end` is
  known is committed and answered 500; a late first `invoice.paid` carries out a
  downgrade scheduled meanwhile. As long as each page is opened once, `OneRow`, `RefusalJustified`, `EndIsRecorded`,
  `ItemBelongs` and `GrantedPlanWasPriced` still hold with one worker in order.
- A success page that is opened again after a second purchase (`MaxReplays = 1`)
  gives the row back to the session it was opened for: `complete_checkout_session_service`
  looks neither at the age of the session nor at its subscription. The next invoice
  of the running subscription then finds no row of its own and inserts a second one,
  even with one worker and nothing else out of order, so `OneRow` fails.
- A success page that is opened again after the subscription was cancelled and has
  ended gives the workspace its plan back: `complete_checkout_session_service` does
  not look at the status of the subscription (`services/stripe_service.py:252-277`).
  `GrantedPlanWasPriced` does not exclude it, since that plan was billed for once.
- A checkout that names FREE, in a workspace without a customer, creates one at Stripe
  and commits its id (`services/stripe_service.py:35-42`) before Stripe refuses
  `price_zero`: the answer is an error after a write. The next request uses that
  customer. Two requests that overlap can each create one.
- With `declined`, cancelling a past-due subscription, subscribing again and then
  paying the old one leaves two rows. With `reorder`, an updated event after
  deleted makes a CANCELED row ACTIVE again. With `twoPayments`, a workspace pays
  for two subscriptions and knows of one.
- With `create`, the older `POST /subscription` gives an existing row the item of
  a new subscription and keeps the id of the old one, so `ItemBelongs` fails; and
  it refuses a workspace whose row is CANCELED (`services/stripe_service.py:74-76`),
  which the checkout endpoint does not. Together with overlap or declined
  payments this also breaks `GrantedPlanWasPriced`.
- A file can be attached to a task that is deleted: the row is live, and no
  request can open or remove it. No document promises otherwise.
- Two additions at a time exceed `max_users` or `max_tasks` (`WithinMargin` is
  tight), and a downgrade leaves what there is. An address stays in use after its
  user is deleted (`services/user_service.py:22` does not ask for `is_deleted`), and
  users added with the role ADMIN are never counted.
- A task marked OVERDUE stays so when its due date moves to the future, unless the
  same update sends a status (`services/task_service.py:49` only ever sets it).
- An update that sends `"status": null` takes a task that is DONE and late to OVERDUE,
  since `exclude_unset` keeps the null and `apply_overdue_status` only asks whether
  the status is DONE (`services/task_service.py:49`, `177`). If the date is not past,
  the commit fails.
- An update that fails after it has announced, for example in its commit, has told
  of a change that never came.
- An update of a deleted task is committed, announced, and then answered with an
  error, because the reload excludes what is deleted
  (`services/task_service.py:180`).
- A logout without a row of the device raises before its commit, so the token
  stays valid. A password that is reset or changed leaves every session alive.
- `reset_password_service` has no check that a code was stored (`verify_otp_service`
  has one, `services/auth_service.py:126`), so a missing code compares as the text of
  `None`.
- Two saves of one device at a time insert two rows; a logout silences one.
- By reading: `refresh_token_service` uses `existing_token.workspace_id`
  (`services/auth_service.py:221`), an attribute `RefreshToken` does not have, so
  a refresh always raises; `login` and `get_current_user` do not look at
  `users.is_deleted`.

## Proofs

TLAPS proves the following for every value of the constants that satisfies the
named assumptions (`NoEventIsNone`, `ModesType`, ...; TLC evaluates them in the
runs).

*StripeInbox*: `TypeCorrect`, `OneOwnerPerEvent`, `AtMostOnce`,
`ImplementsLedger`. The inductive invariant is
`TypeOK /\ ClaimedIsRecorded /\ EffectIsProcessed /\ SingleOwner`. `SingleOwner`
alone is not inductive: a second `Record` is excluded only because an owner's row
is there (`ClaimedIsRecorded`); `EffectAtMostOnce` needs that an event with an
effect is processed and hence owned by nobody. The refinement follows action by
action: `Apply` is the ledger's `Apply`, a fault or crash of the owner is
`Abandon`, everything else stutters.

*Billing*: `TypeCorrect`; and, assuming `"create" \notin Hazards`,
`PlansArePriced` (`GrantedPlanWasPriced`) and `ItemsBelong` (`ItemBelongs`), under
every other hazard. Types need `TypeInv`: a commit is well-typed only if the job
holds a row that exists and the input its guards have checked. The other two need
`FineInv`: not only the rows but all that could still be written to them (the
copies in jobs, the metadata of paid sessions, the input of an update Stripe has
taken) names billed plans and keeps item and subscription together. The central
lemma is about `Flush`: if the row as it is now, the copy loaded, and the copy
changed all keep the item with the subscription, so does the mixture, since a job
that changes one of the two changes both.

*Billing, one after the other*: under `Serial` (no hazard, one worker, each success
page opened once), `SerialHolds`, and from it `RowsMirrorStripe` (`Synchronised`),
`OneRowOnly`, `Refusals`, `FailureIsHarmless`, `DowngradesWait`,
`PlanFallsForAReason`: every safety property of the run `billing_serial`, for any
number of plans, sessions, periods and requests. `Serial` restricts the environment:
the admin and Stripe act when what came before has been handled, and a second
session is paid only after a cancellation. The findings and observations above show
what breaks without it. Left open are the orders of page and events after a payment
(`PaymentOrders`), a page that is never opened, events the handlers turn down, and
any sequence of purchases, changes, renewals, cancellations and ends.
`Synchronised` speaks of settled states only, so `SerialInv` says what holds on the
way:

- `RowRight`: whatever column of the row is not as at Stripe, the event that puts it
  right is still due, or the update that caused it is about to commit. Each handler
  then has to show that it repairs what its event stood for, since the event is gone.
- `EventRight` and `InOrder`: an event that is due tells what Stripe has now, and
  "completed" is handled before "paid", so no event writes an old value.
- `Linked`: at most one subscription goes on beyond its period, and the row is of
  that one or will be. `OneRow` alone is not inductive; a second row is excluded
  because the session that could insert it finds the row it has to take over.
- `JobRight`: what the worker has read is still so. This is where `Serial` enters.
- `CustomerRight` and `CancelsTold`, for `FailureIsHarmless`: the workspace knows the
  one customer, or the request that made it is about to commit it; and no cancellation
  was committed and then answered 500, since a row that can be cancelled in turn has
  a period.

*The contract*: `ImplementsContract`, `Spec => KeepsContract` under `Serial`, with the
correspondence in the table above. Beside `SerialInv` it needs `ContractInv`:
the page and the event "completed" are of the first period, and once its invoice is
handled the row is already that of the session (`PurchaseRight`), so neither can undo
a later change; the plan of workspace and row differ only until that first
invoice (`PlanRight`); an end is never due together with anything else (`EndAlone`).

*Attachments*: `InvHolds`, and from it `TypeCorrect`, `DeletionRemovesFiles`,
`LossHasACause`. The strengthening says where a deletion is: between the removal
and the commit none of its files is there, and the requests that may still write
are those without a row, which no deletion knows. For `ServesOwnBytes` the claim
starts at the write, since the row is inserted later.

*PlanQuota*: `InvHolds`, and from it `TypeCorrect`, `LimitKept`, `OverrunExplained`,
for any number of requests. `WithinMargin` is not inductive, since a request that
has counted still inserts; `Margin` adds those requests to what is there. A count
below the limit makes room for all of them at once, an insertion moves one from
the second summand to the first, and everything else makes both smaller. `Fresh`
says that an undisturbed request still sees what it has read.

*TaskLifecycle*: `InvHolds`, and from it `TypeCorrect`, `WishFulfilledOnce`,
`ReminderOnce`, `DeletedStay`, `DoneStays`, `MarkedLate`, `Announced`: every safety
property of the run `tasks`, for any number of requests, tasks and days, without
fairness. `Inv` has three parts. `UpdatesKnow`: the row an update has loaded is the
row in the table as long as the update is not stale, and what it has flushed is
what it makes of that row; without it nothing relates the commit to what is there
now. `WishInv`: a wish has at most `unheard` tasks, and one more only if its client
knows of it or a request that has created it is about to answer; `OneTaskPerWish`
alone does not exclude a second `Create` by a client that could know. `RunsAreRegular`: what a first, punctual run
of day `d` still has to send is due on `d + 2` and has not been sent for that date.

*Sessions*: `InvHolds`, and from it `TypeCorrect`, `LatestCode`, `OldSession`,
`DeviceRows`, `Reuse`, `LostCode`, `DeviceFollows`: every property of the
run `sessions`. `Inv` joins three independent parts. `RedisInv` says that a key holds
one secret, that two requests never issue the same one, that a secret once granted is
gone from Redis unless some request still holds it or it is excused (a reset without
a stored code spends none), and that an
undisturbed holder sees its own secret or none under the key. `SessionInv` says
that what an undisturbed login has read of the password is still true.
`DeviceInv` adds to the rows of the device the requests that are about to insert
one, as `Margin` does in `PlanQuota`.

Only model-checked: all liveness (`JobsEnd`, `AckedIsProcessed`, `PaidIsGranted`,
`EndIsRecorded`, `LateIsMarked`), which is out of the prover's reach. Every safety
property and both refinements of the passing runs are theorems.

## Not modelled

- E-mail, push and SMS delivery (`tasks/email_task.py`, `tasks/notification_task.py`)
  keep no state; the models have the places from which they are called.
- Routing, dependencies, schemas, templates, configuration and clients decide nothing
  that a later step depends on; what `get_current_user` checks is in the guards.
- The plan list, the task list, the list of users and the analytics only read.
- Migrations describe tables; of their content the models use the unique columns
  and the data of the plans.
- Across components: each module leaves to the others' state any value it may
  have (a plan that changes at any time, a user that is added at any time), which
  contains what their composition can do. A composition would matter only to
  properties about two of them, of which we know none worth a run.
