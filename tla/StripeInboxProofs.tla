------------------------- MODULE StripeInboxProofs -------------------------
(***************************************************************************)
(* Theorems about StripeInbox, for any number of events, deliveries and    *)
(* retries: the invariants that the run "inbox" checks, and that the       *)
(* handling of events implements EventLedger.                              *)
(***************************************************************************)
EXTENDS StripeInbox, TLAPS

(* An attempt that has claimed an event finds it recorded: nobody else can *)
(* have finished or removed it.                                            *)
ClaimedIsRecorded ==
  \A t \in Tasks : task[t].pc = "claimed" => row[task[t].event] = "recorded"

(* The effect and the processed flag are one transaction.                  *)
EffectIsProcessed ==
  \A e \in Events : effects[e] = IF row[e] = "processed" THEN 1 ELSE 0

(* The inductive invariant. SingleOwner alone is not inductive: that the   *)
(* second INSERT fails depends on the first owner's row being there.       *)
IInv == TypeOK /\ ClaimedIsRecorded /\ EffectIsProcessed /\ SingleOwner

-----------------------------------------------------------------------------
(* The places an exception or a retry can take a job to.                   *)
LEMMA RaisedType ==
  ASSUME TypeOK, NEW t \in Tasks, task[t].pc # "free", Raised(t)
  PROVE  /\ task' \in [Tasks -> [event : Events \cup {NoEvent}, pc : PC, retries : 0..MaxRetries]]
         /\ \A u \in Tasks : u # t => task'[u] = task[u]
         /\ task'[t].event = task[t].event
         /\ task'[t].pc \in {"queued", "failed"}
  BY MaxRetriesType DEF TypeOK, Raised, Goto, PC

LEMMA GotoType ==
  ASSUME TypeOK, NEW t \in Tasks, NEW pc \in PC, Goto(t, pc)
  PROVE  /\ task' \in [Tasks -> [event : Events \cup {NoEvent}, pc : PC, retries : 0..MaxRetries]]
         /\ \A u \in Tasks : u # t => task'[u] = task[u]
         /\ task'[t].event = task[t].event
         /\ task'[t].pc = pc
  BY DEF TypeOK, Goto

(* A job that was dispatched has an event.                                 *)
LEMMA HasEvent ==
  ASSUME TypeOK, NEW t \in Tasks, task[t].pc # "free"
  PROVE  task[t].event \in Events
  BY DEF TypeOK

(* Every variable keeps its type.                                          *)
LEMMA TypeStep == TypeOK /\ [Next]_vars => TypeOK'
<1> SUFFICES ASSUME TypeOK, [Next]_vars PROVE TypeOK'
  OBVIOUS
<1>0. CASE UNCHANGED vars
  BY <1>0 DEF vars, TypeOK
<1>1. ASSUME NEW t \in Tasks, NEW e \in Events, Deliver(t, e) PROVE TypeOK'
  BY <1>1, NoEventIsNone DEF Deliver, TypeOK, PC
<1>2. ASSUME NEW t \in Tasks, Lookup(t) PROVE TypeOK'
  <2>1. PICK pc \in {"checked", "done"} : Goto(t, pc)
    BY <1>2 DEF Lookup
  <2>2. pc \in PC
    BY DEF PC
  <2>. QED BY <1>2, <2>1, <2>2, GotoType DEF Lookup, TypeOK
<1>3. ASSUME NEW t \in Tasks, Record(t) PROVE TypeOK'
  <2>1. "claimed" \in PC /\ Goto(t, "claimed")
    BY <1>3 DEF PC, Record
  <2>2. task[t].event \in Events
    BY <1>3, HasEvent DEF Record
  <2>. QED BY <1>3, <2>1, <2>2, GotoType DEF Record, TypeOK
<1>4. ASSUME NEW t \in Tasks, RecordConflict(t) PROVE TypeOK'
  BY <1>4, RaisedType DEF RecordConflict, TypeOK
<1>5. ASSUME NEW t \in Tasks, Apply(t) PROVE TypeOK'
  <2>1. "applied" \in PC /\ Goto(t, "applied")
    BY <1>5 DEF PC, Apply
  <2>2. task[t].event \in Events
    BY <1>5, HasEvent DEF Apply
  <2>. QED BY <1>5, <2>1, <2>2, GotoType DEF Apply, TypeOK
<1>6. ASSUME NEW t \in Tasks, Return(t) PROVE TypeOK'
  <2>1. "done" \in PC /\ Goto(t, "done")
    BY <1>6 DEF PC, Return
  <2>. QED BY <1>6, <2>1, GotoType DEF Return, TypeOK
<1>7. ASSUME NEW t \in Tasks, Fault(t) PROVE TypeOK'
  BY <1>7, RaisedType DEF Fault, Running, TypeOK
<1>8. ASSUME NEW t \in Tasks, Crash(t) PROVE TypeOK'
  <2>1. "failed" \in PC /\ Goto(t, "failed")
    BY <1>8 DEF PC, Crash
  <2>. QED BY <1>8, <2>1, GotoType DEF Crash, Running, TypeOK
<1>. QED
  BY <1>0, <1>1, <1>2, <1>3, <1>4, <1>5, <1>6, <1>7, <1>8 DEF Next, Work

(* A running job's event stays, and nobody but the job itself moves it, so *)
(* a step that neither claims nor writes a row keeps what is known of the  *)
(* owners.                                                                 *)
LEMMA QuietStep ==
  ASSUME IInv, TypeOK', NEW t \in Tasks,
         \A u \in Tasks : u # t => task'[u] = task[u],
         task'[t].pc # "claimed",
         row' = row, effects' = effects
  PROVE  IInv'
<1>1. ClaimedIsRecorded' /\ EffectIsProcessed'
  BY DEF IInv, TypeOK, ClaimedIsRecorded, EffectIsProcessed
<1>2. SingleOwner'
  BY DEF IInv, TypeOK, SingleOwner, Owns
<1>. QED BY <1>1, <1>2 DEF IInv

LEMMA InvStep == IInv /\ [Next]_vars => IInv'
<1> SUFFICES ASSUME IInv, [Next]_vars PROVE IInv'
  OBVIOUS
<1> USE DEF Running
<1>t. TypeOK /\ TypeOK'
  BY TypeStep DEF IInv
<1>0. CASE UNCHANGED vars
  BY <1>0, <1>t DEF vars, IInv, ClaimedIsRecorded, EffectIsProcessed, SingleOwner, Owns
<1>1. ASSUME NEW t \in Tasks, NEW e \in Events, Deliver(t, e) PROVE IInv'
  <2>1. task'[t].pc = "queued" /\ \A u \in Tasks : u # t => task'[u] = task[u]
    BY <1>1, <1>t DEF Deliver, TypeOK
  <2>. QED BY <1>1, <1>t, <2>1, QuietStep DEF Deliver
<1>2. ASSUME NEW t \in Tasks, Lookup(t) PROVE IInv'
  <2>1. PICK pc \in {"checked", "done"} : Goto(t, pc)
    BY <1>2 DEF Lookup
  <2>. QED BY <1>2, <1>t, <2>1, GotoType, QuietStep DEF Lookup, PC
<1>3. ASSUME NEW t \in Tasks, Record(t) PROVE IInv'
  <2> DEFINE e == task[t].event
  <2>1. e \in Events /\ row[e] = "absent" /\ row' = [row EXCEPT ![e] = "recorded"]
    BY <1>3, <1>t, HasEvent DEF Record
  <2>2. /\ task'[t].event = e /\ task'[t].pc = "claimed"
        /\ \A u \in Tasks : u # t => task'[u] = task[u]
    BY <1>3, <1>t, GotoType DEF Record, PC
  <2>3. \A u \in Tasks : Owns(u, e) => FALSE
    BY <2>1 DEF IInv, ClaimedIsRecorded, Owns
  <2>4. row' \in [Events -> {"absent", "recorded", "processed"}] /\ row'[e] = "recorded"
        /\ \A d \in Events : d # e => row'[d] = row[d]
    BY <1>t, <2>1 DEF TypeOK
  <2>5. ClaimedIsRecorded'
    BY <1>t, <2>2, <2>4, HasEvent DEF IInv, ClaimedIsRecorded
  <2>6. EffectIsProcessed'
    BY <1>3, <2>1, <2>4 DEF Record, IInv, EffectIsProcessed
  <2>7. SingleOwner'
    BY <2>2, <2>3 DEF IInv, SingleOwner, Owns
  <2>. QED BY <1>t, <2>5, <2>6, <2>7 DEF IInv
<1>4. ASSUME NEW t \in Tasks, RecordConflict(t) PROVE IInv'
  BY <1>4, <1>t, RaisedType, QuietStep DEF RecordConflict
<1>5. ASSUME NEW t \in Tasks, Apply(t) PROVE IInv'
  <2> DEFINE e == task[t].event
  <2>1. e \in Events /\ row[e] = "recorded" /\ Owns(t, e)
    BY <1>5, <1>t, HasEvent DEF Apply, IInv, ClaimedIsRecorded, Owns
  <2>2. /\ task'[t].event = e /\ task'[t].pc = "applied"
        /\ \A u \in Tasks : u # t => task'[u] = task[u]
    BY <1>5, <1>t, GotoType DEF Apply, PC
  <2>3. /\ row'[e] = "processed" /\ \A d \in Events : d # e => row'[d] = row[d]
        /\ effects'[e] = effects[e] + 1 /\ \A d \in Events : d # e => effects'[d] = effects[d]
    BY <1>5, <1>t, <2>1 DEF Apply, TypeOK
  <2>4. \A u \in Tasks : u # t => ~ Owns(u, e)
    BY <2>1 DEF IInv, SingleOwner
  <2>5. ClaimedIsRecorded'
    BY <1>t, <2>2, <2>3, <2>4, HasEvent DEF IInv, ClaimedIsRecorded, Owns
  <2>6. EffectIsProcessed'
    BY <2>1, <2>3 DEF IInv, EffectIsProcessed
  <2>7. SingleOwner'
    BY <2>2 DEF IInv, SingleOwner, Owns
  <2>. QED BY <1>t, <2>5, <2>6, <2>7 DEF IInv
<1>6. ASSUME NEW t \in Tasks, Return(t) PROVE IInv'
  BY <1>6, <1>t, GotoType, QuietStep DEF Return, PC
<1>7. ASSUME NEW t \in Tasks, Fault(t) PROVE IInv'
  BY <1>7, <1>t, RaisedType, QuietStep DEF Fault
<1>8. ASSUME NEW t \in Tasks, Crash(t) PROVE IInv'
  BY <1>8, <1>t, GotoType, QuietStep DEF Crash, PC
<1>. QED
  BY <1>0, <1>1, <1>2, <1>3, <1>4, <1>5, <1>6, <1>7, <1>8 DEF Next, Work

LEMMA InvInit == Init => IInv
  BY ModesType, MaxRetriesType
  DEF Init, IInv, TypeOK, PC, ClaimedIsRecorded, EffectIsProcessed, SingleOwner, Owns

(* The inductive invariant holds.                                          *)
THEOREM Invariance == Spec => []IInv
  BY InvInit, InvStep, PTL DEF Spec

(* Type correctness, whatever is delivered, retried or lost.               *)
THEOREM TypeCorrect == Spec => []TypeOK
<1>1. IInv => TypeOK
  BY DEF IInv
<1>. QED BY <1>1, Invariance, PTL

(* One attempt at a time works on an event, for any number of workers      *)
(* (stripe_task.py, handle_event).                                         *)
THEOREM OneOwnerPerEvent == Spec => []SingleOwner
<1>1. IInv => SingleOwner
  BY DEF IInv
<1>. QED BY <1>1, Invariance, PTL

(* No event changes the database twice, for any number of duplicate        *)
(* deliveries and any max_retries.                                         *)
THEOREM AtMostOnce == Spec => []EffectAtMostOnce
<1>1. IInv => EffectAtMostOnce
  BY DEF IInv, EffectIsProcessed, EffectAtMostOnce
<1>. QED BY <1>1, Invariance, PTL

-----------------------------------------------------------------------------
(* Refinement: each step of the inbox is a step of the ledger or changes   *)
(* nothing there.                                                          *)
Pending == {e \in Events : row[e] # "processed"} \ Abandoned

(* A step after which the same attempts own the same events, and which     *)
(* writes no row, is none of the ledger's business.                        *)
LEMMA LedgerStutter ==
  ASSUME NEW t \in Tasks,
         \A u \in Tasks : u # t => task'[u] = task[u],
         task[t].pc # "claimed", task'[t].pc # "claimed",
         row' = row, effects' = effects
  PROVE  UNCHANGED <<Pending, Abandoned, effects>>
<1>1. \A u \in Tasks, e \in Events : Owns(u, e)' <=> Owns(u, e)
  BY DEF Owns
<1>2. Abandoned' = Abandoned
  BY <1>1 DEF Abandoned
<1>. QED BY <1>2 DEF Pending

(* The owner of an event lets go of it without having committed.           *)
LEMMA LedgerAbandon ==
  ASSUME IInv, NEW t \in Tasks, NEW e \in Events, Owns(t, e),
         \A u \in Tasks : u # t => task'[u] = task[u],
         task'[t].pc # "claimed",
         row' = row, effects' = effects
  PROVE  Ledger!Abandon(e)
<1>1. row[e] = "recorded"
  BY DEF IInv, ClaimedIsRecorded, Owns
<1>2. \A u \in Tasks : u # t => ~ Owns(u, e)
  BY DEF IInv, SingleOwner
<1>3. \A u \in Tasks : ~ Owns(u, e)'
  BY <1>2 DEF Owns
<1>4. \A d \in Events : d # e => \A u \in Tasks : Owns(u, d)' <=> Owns(u, d)
  BY DEF Owns
<1>5. e \notin Abandoned /\ Abandoned' = Abandoned \cup {e}
  BY <1>1, <1>3, <1>4 DEF Abandoned
<1>6. e \in Pending /\ Pending' = Pending \ {e}
  BY <1>1, <1>5 DEF Pending
<1>. QED BY <1>5, <1>6 DEF Ledger!Abandon, Pending

LEMMA LedgerStep == IInv /\ [Next]_vars => [Ledger!Next]_(Ledger!ledgerVars)
<1> SUFFICES ASSUME IInv, [Next]_vars
             PROVE  Ledger!Next \/ UNCHANGED <<Pending, Abandoned, effects>>
  BY DEF Ledger!ledgerVars, Pending
<1>t. TypeOK
  BY DEF IInv
<1>0. CASE UNCHANGED vars
  BY <1>0 DEF vars, Pending, Abandoned, Owns
<1>1. ASSUME NEW t \in Tasks, NEW e \in Events, Deliver(t, e)
      PROVE  UNCHANGED <<Pending, Abandoned, effects>>
  <2>1. task'[t].pc = "queued" /\ \A u \in Tasks : u # t => task'[u] = task[u]
    BY <1>1, <1>t DEF Deliver, TypeOK
  <2>. QED BY <1>1, <2>1, LedgerStutter DEF Deliver
<1>2. ASSUME NEW t \in Tasks, Lookup(t) PROVE UNCHANGED <<Pending, Abandoned, effects>>
  <2>1. PICK pc \in {"checked", "done"} : Goto(t, pc)
    BY <1>2 DEF Lookup
  <2>. QED BY <1>2, <1>t, <2>1, GotoType, LedgerStutter DEF Lookup, PC
<1>3. ASSUME NEW t \in Tasks, Record(t) PROVE UNCHANGED <<Pending, Abandoned, effects>>
  <2>0. PICK e \in Events : e = task[t].event
    BY <1>3, <1>t, HasEvent DEF Record
  <2>1. row[e] = "absent" /\ row'[e] = "recorded"
        /\ \A d \in Events : d # e => row'[d] = row[d]
    BY <1>3, <1>t, <2>0 DEF Record, TypeOK
  <2>2. /\ task'[t].event = e /\ task'[t].pc = "claimed"
        /\ \A u \in Tasks : u # t => task'[u] = task[u]
    BY <1>3, <1>t, <2>0, GotoType DEF Record, PC
  <2>3. Owns(t, e)' /\ \A d \in Events : d # e => \A u \in Tasks : Owns(u, d)' <=> Owns(u, d)
    BY <1>3, <2>0, <2>2 DEF Owns, Record
  <2>4. e \notin Abandoned /\ e \notin Abandoned'
    BY <2>1, <2>3 DEF Abandoned
  <2>5. \A d \in Events : d # e => (d \in Abandoned' <=> d \in Abandoned)
    BY <2>1, <2>3 DEF Abandoned
  <2>6. Abandoned' = Abandoned
    BY <2>4, <2>5 DEF Abandoned
  <2>. QED BY <1>3, <2>1, <2>6 DEF Pending, Record
<1>4. ASSUME NEW t \in Tasks, RecordConflict(t) PROVE UNCHANGED <<Pending, Abandoned, effects>>
  BY <1>4, <1>t, RaisedType, LedgerStutter DEF RecordConflict
<1>5. ASSUME NEW t \in Tasks, Apply(t) PROVE Ledger!Next
  <2>0. PICK e \in Events : e = task[t].event
    BY <1>5, <1>t, HasEvent DEF Apply
  <2>1. row[e] = "recorded" /\ Owns(t, e)
    BY <1>5, <2>0 DEF Apply, IInv, ClaimedIsRecorded, Owns
  <2>2. /\ task'[t].event = e /\ task'[t].pc = "applied"
        /\ \A u \in Tasks : u # t => task'[u] = task[u]
    BY <1>5, <1>t, <2>0, GotoType DEF Apply, PC
  <2>3. row'[e] = "processed" /\ \A d \in Events : d # e => row'[d] = row[d]
    BY <1>5, <1>t, <2>0 DEF Apply, TypeOK
  <2>4. \A d \in Events : d # e => \A u \in Tasks : Owns(u, d)' <=> Owns(u, d)
    BY <2>0, <2>2 DEF Owns
  <2>5. e \notin Abandoned /\ Abandoned' = Abandoned
    BY <2>1, <2>3, <2>4 DEF Abandoned
  <2>6. e \in Pending /\ Pending' = Pending \ {e}
    BY <2>1, <2>3, <2>5 DEF Pending
  <2>7. Ledger!Apply(e)
    BY <1>5, <2>0, <2>5, <2>6 DEF Ledger!Apply, Apply, Pending
  <2>. QED BY <2>7 DEF Ledger!Next
<1>6. ASSUME NEW t \in Tasks, Return(t) PROVE UNCHANGED <<Pending, Abandoned, effects>>
  BY <1>6, <1>t, GotoType, LedgerStutter DEF Return, PC
<1>7. ASSUME NEW t \in Tasks, Fault(t) \/ Crash(t)
      PROVE  Ledger!Next \/ UNCHANGED <<Pending, Abandoned, effects>>
  <2>1. /\ task[t].pc # "free" /\ task'[t].pc # "claimed" /\ row' = row /\ effects' = effects
        /\ \A u \in Tasks : u # t => task'[u] = task[u]
    BY <1>7, <1>t, RaisedType, GotoType DEF Fault, Crash, Running, PC
  <2>2. PICK e \in Events : e = task[t].event
    BY <1>t, <2>1, HasEvent
  <2>3. CASE task[t].pc = "claimed"
    <3>1. Ledger!Abandon(e)
      BY <2>1, <2>2, <2>3, LedgerAbandon DEF Owns
    <3>. QED BY <3>1 DEF Ledger!Next
  <2>4. CASE task[t].pc # "claimed"
    BY <2>1, <2>4, LedgerStutter
  <2>. QED BY <2>3, <2>4
<1>. QED
  BY <1>0, <1>1, <1>2, <1>3, <1>4, <1>5, <1>6, <1>7 DEF Next, Work

LEMMA LedgerInit == Init => Ledger!Init
  BY DEF Init, Ledger!Init, Abandoned, Owns

(* The handling of events implements the ledger: every event has its       *)
(* effect at most once, and one whose handler failed never has it.         *)
THEOREM ImplementsLedger == Spec => LedgerSpec
  BY LedgerInit, LedgerStep, Invariance, PTL DEF Spec, LedgerSpec, Ledger!Spec
=============================================================================
