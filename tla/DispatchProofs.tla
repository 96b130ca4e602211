---------------------------- MODULE DispatchProofs ----------------------------
(***************************************************************************)
(* Theorems about Dispatch, for every number of orders, workers, sessions   *)
(* and jobs.                                                                *)
(*                                                                         *)
(* BookingInv: who books and who records is bound to the order's row lock,  *)
(* and every accepted invoice's number is recorded, in the hands of the     *)
(* lock's holder, or lost.  From it follow the properties of a booking, and *)
(* that Dispatch implements CarrierBooking.                                 *)
(*                                                                         *)
(* QueueInv: until staff retry twice, a job at work is in one worker's      *)
(* hands, and its attempts are those the worker knows of; a queued order    *)
(* has a job that waits or a worker that will see to it.                    *)
(***************************************************************************)
EXTENDS Dispatch, TLAPS

USE DispatchAssumption

LEMMA StatusNames ==
  /\ "paid" \in Statuses /\ "dispatch_queued" \in Statuses
  /\ "sent_to_carrier" \in Statuses /\ "dispatch_failed" \in Statuses
  /\ "cancelled" \in Statuses
BY DEF Statuses, AllowedTransitions

LEMMA InitTypeOK == Init => TypeOK
BY StatusNames DEF Init, TypeOK, RowsOK, WorkersOK, SessionsOK, CarrierOK, BoundsOK,
   JobRecords, NoJob, JobStates, Waybills, NoWaybill,
   WorkerRecords, IdleWorker, WorkerAt, WorkerPcs, SessionRecords, IdleSession,
   SessionAt, Slots

\* A worker's record may be replaced by any well-formed one.
WorkerOK(r) ==
  /\ r \in WorkerRecords
  /\ r.pc # "idle" => r.ord \in Orders
  /\ r.pc \notin {"idle", "retry"} => r.slot \in Slots
  /\ r.pc = "retry" /\ r.jseen \in {"failed", "queued"} => r.slot \in Slots

LEMMA WorkerUpdate ==
  ASSUME WorkersOK, NEW w \in Workers, NEW r, WorkerOK(r),
         wk' = [wk EXCEPT ![w] = r]
  PROVE  WorkersOK'
BY DEF WorkersOK, WorkerOK, RetryResets

LEMMA WorkerField ==
  ASSUME WorkersOK, NEW w \in Workers
  PROVE  WorkerOK(wk[w])
BY DEF WorkersOK, WorkerOK, RetryResets

LEMMA IdleWorkerOK == WorkerOK(IdleWorker)
BY DEF WorkerOK, IdleWorker, WorkerAt, WorkerRecords, WorkerPcs, Waybills, NoWaybill

LEMMA WorkerAtOK ==
  ASSUME NEW pc \in WorkerPcs, NEW o \in Orders, NEW i \in Slots
  PROVE  WorkerOK(WorkerAt(pc, o, i))
BY DEF WorkerOK, WorkerAt, WorkerRecords, Waybills, NoWaybill, Slots

JobTable == [Orders -> [Slots -> JobRecords]]

LEMMA JobUpdate ==
  ASSUME job \in JobTable, NEW o \in Orders, NEW i \in Slots, NEW r \in JobRecords
  PROVE  [job EXCEPT ![o][i] = r] \in JobTable
BY DEF JobTable

LEMMA JobStatus ==
  ASSUME job \in JobTable, NEW o \in Orders, NEW i \in Slots, NEW st \in JobStates
  PROVE  [job EXCEPT ![o][i].st = st] \in JobTable
<1>1. [job[o][i] EXCEPT !.st = st] \in JobRecords
  BY DEF JobTable, JobRecords
<1>2. [job EXCEPT ![o][i].st = st] = [job EXCEPT ![o][i] = [job[o][i] EXCEPT !.st = st]]
  BY DEF JobTable
<1>. QED BY <1>1, <1>2, JobUpdate

LEMMA ClaimTypeOK == ASSUME TypeOK, NEW w \in Workers, Claim(w) PROVE TypeOK'
<1>1. RowsOK'
  <2>1. CASE job[wk[w].ord][wk[w].slot].st = "queued"
    <3> DEFINE r == [st |-> "processing",
                      attempts |-> job[wk[w].ord][wk[w].slot].attempts + 1,
                      due |-> job[wk[w].ord][wk[w].slot].due]
    <3>1. wk[w].ord \in Orders /\ wk[w].slot \in Slots
      BY DEF TypeOK, WorkersOK, Claim
    <3>2. r \in JobRecords
      BY <3>1 DEF TypeOK, RowsOK, JobRecords, JobStates
    <3>3. job' = [job EXCEPT ![wk[w].ord][wk[w].slot] = r]
      BY <2>1 DEF Claim
    <3>. QED BY <3>1, <3>2, <3>3, JobUpdate DEF TypeOK, RowsOK, JobTable, Claim
  <2>2. CASE job[wk[w].ord][wk[w].slot].st # "queued"
    BY <2>2 DEF Claim, TypeOK, RowsOK
  <2>. QED BY <2>1, <2>2
<1>2. WorkersOK'
  <2>1. WorkerOK([wk[w] EXCEPT !.pc = "claimed"]) 
    BY WorkerField DEF TypeOK, WorkerOK, Claim, WorkerRecords, WorkerPcs
  <2>. QED BY <2>1, IdleWorkerOK, WorkerUpdate DEF TypeOK, Claim
<1>3. SessionsOK' /\ CarrierOK' /\ BoundsOK'
  BY DEF TypeOK, SessionsOK, CarrierOK, BoundsOK, Claim, CarrierVars, Bounds
<1>. QED BY <1>1, <1>2, <1>3 DEF TypeOK

\* A worker at work stays well formed when it learns something and moves on.
LEMMA WorkerMoves ==
  ASSUME NEW r \in WorkerRecords, r.ord \in Orders, r.slot \in Slots,
         NEW pc \in WorkerPcs
  PROVE  /\ WorkerOK([r EXCEPT !.pc = pc])
         /\ \A got \in Waybills : WorkerOK([r EXCEPT !.pc = pc, !.got = got])
         /\ \A perm \in BOOLEAN : WorkerOK([r EXCEPT !.pc = pc, !.perm = perm])
         /\ \A seen \in Statuses : WorkerOK([r EXCEPT !.pc = pc, !.seen = seen])
         /\ \A seen \in Statuses, jseen \in JobStates \cup {"none"}, att \in Nat :
              WorkerOK([r EXCEPT !.pc = pc, !.seen = seen, !.jseen = jseen, !.att = att])
<1>. USE DEF WorkerRecords, WorkerOK
<1>1. WorkerOK([r EXCEPT !.pc = pc])
  OBVIOUS
<1>2. ASSUME NEW got \in Waybills PROVE WorkerOK([r EXCEPT !.pc = pc, !.got = got])
  OBVIOUS
<1>3. ASSUME NEW perm \in BOOLEAN PROVE WorkerOK([r EXCEPT !.pc = pc, !.perm = perm])
  OBVIOUS
<1>4. ASSUME NEW seen \in Statuses PROVE WorkerOK([r EXCEPT !.pc = pc, !.seen = seen])
  OBVIOUS
<1>5. ASSUME NEW seen \in Statuses, NEW jseen \in JobStates \cup {"none"}, NEW att \in Nat
      PROVE  WorkerOK([r EXCEPT !.pc = pc, !.seen = seen, !.jseen = jseen, !.att = att])
  <2> DEFINE q == [r EXCEPT !.pc = pc, !.seen = seen, !.jseen = jseen, !.att = att]
  <2>1. q \in WorkerRecords
    BY <1>5
  <2>2. q.ord = r.ord /\ q.slot = r.slot
    OBVIOUS
  <2>. QED BY <2>1, <2>2
<1>. HIDE DEF WorkerRecords, WorkerOK
<1>. QED BY <1>1, <1>2, <1>3, <1>4, <1>5

\* What TypeOK says of a worker that is at work.
LEMMA WorkerFields ==
  ASSUME TypeOK, NEW w \in Workers
  PROVE  /\ wk[w] \in WorkerRecords
         /\ wk[w].got \in Waybills /\ wk[w].att \in Nat
         /\ wk[w].pc # "idle" => wk[w].ord \in Orders
         /\ wk[w].pc \notin {"idle", "retry"} => wk[w].slot \in Slots
         /\ wk[w].pc = "retry" /\ RetryResets(w) => wk[w].slot \in Slots
BY DEF TypeOK, WorkersOK, WorkerRecords

LEMMA PickTypeOK ==
  ASSUME TypeOK, NEW w \in Workers, NEW o \in Orders, NEW i \in Slots, Pick(w, o, i)
  PROVE  TypeOK'
<1>1. WorkersOK'
  <2>1. WorkerOK(WorkerAt("picked", o, i))
    BY WorkerAtOK DEF WorkerPcs
  <2>. QED BY <2>1, WorkerUpdate DEF TypeOK, Pick
<1>2. RowsOK' /\ SessionsOK' /\ CarrierOK' /\ BoundsOK'
  BY DEF TypeOK, RowsOK, SessionsOK, CarrierOK, BoundsOK, Pick, DbVars, CarrierVars, Bounds
<1>. QED BY <1>1, <1>2 DEF TypeOK

LEMMA LockOrderTypeOK ==
  ASSUME TypeOK, NEW w \in Workers, LockOrder(w) PROVE TypeOK'
<1>. wk[w].ord \in Orders /\ wk[w].slot \in Slots
  BY WorkerFields DEF LockOrder
<1>1. RowsOK'
  <2>1. job \in JobTable /\ "cancelled" \in JobStates
    BY DEF TypeOK, RowsOK, JobTable, JobStates
  <2>2. job' \in JobTable
    BY <2>1, JobStatus DEF LockOrder
  <2>. QED BY <2>2 DEF TypeOK, RowsOK, JobTable, LockOrder
<1>2. WorkersOK'
  <2> DEFINE pc == IF waybill[wk[w].ord] # NoWaybill THEN "completing" ELSE "calling"
             r == [wk[w] EXCEPT !.pc = pc, !.got = waybill[wk[w].ord]]
  <2>1. WorkerOK(r)
    <3>1. waybill[wk[w].ord] \in Waybills
      BY DEF TypeOK, RowsOK
    <3>2. pc \in WorkerPcs
      BY DEF WorkerPcs
    <3> HIDE DEF pc
    <3>. QED BY <3>1, <3>2, WorkerFields, WorkerMoves
  <2>2. wk' = [wk EXCEPT ![w] = r] \/ wk' = [wk EXCEPT ![w] = IdleWorker]
    BY DEF TypeOK, WorkersOK, LockOrder
  <2>. QED BY <2>1, <2>2, IdleWorkerOK, WorkerUpdate DEF TypeOK
<1>3. SessionsOK' /\ CarrierOK' /\ BoundsOK'
  BY DEF TypeOK, SessionsOK, CarrierOK, BoundsOK, LockOrder, CarrierVars, Bounds
<1>. QED BY <1>1, <1>2, <1>3 DEF TypeOK

LEMMA BookTypeOK ==
  ASSUME CarrierOK, NEW o \in Orders, Book(o)
  PROVE  /\ booked' \in [Orders -> 0..MaxBookings]
         /\ alive' \in [Orders -> SUBSET (1..MaxBookings)]
         /\ booked[o] + 1 \in 1..MaxBookings
BY DEF CarrierOK, Book

LEMMA CarrierAcceptsTypeOK ==
  ASSUME TypeOK, NEW w \in Workers, NEW numbered \in BOOLEAN,
         CarrierAccepts(w, numbered)
  PROVE  TypeOK'
<1>. wk[w].ord \in Orders
  BY WorkerFields DEF CarrierAccepts
<1>1. CarrierOK' /\ booked[wk[w].ord] + 1 \in 1..MaxBookings
  BY BookTypeOK DEF TypeOK, CarrierOK, CarrierAccepts
<1>2. WorkersOK'
  <2> DEFINE r == [wk[w] EXCEPT !.pc = "completing",
        !.got = IF numbered THEN booked[wk[w].ord] + 1 ELSE NoWaybill]
  <2>1. WorkerOK(r)
    <3>1. booked[wk[w].ord] + 1 \in Waybills /\ NoWaybill \in Waybills
      BY <1>1 DEF Waybills, NoWaybill
    <3>2. wk[w].slot \in Slots
      BY WorkerFields DEF CarrierAccepts
    <3>. QED BY <3>1, <3>2, WorkerFields, WorkerMoves DEF WorkerPcs
  <2>2. wk' = [wk EXCEPT ![w] = r]
    BY DEF TypeOK, WorkersOK, CarrierAccepts
  <2>. QED BY <2>1, <2>2, WorkerUpdate DEF TypeOK
<1>3. RowsOK' /\ SessionsOK' /\ BoundsOK'
  BY DEF TypeOK, RowsOK, SessionsOK, BoundsOK, CarrierAccepts, DbVars, Bounds
<1>. QED BY <1>1, <1>2, <1>3 DEF TypeOK

LEMMA CarrierAcceptsAndRaisesTypeOK ==
  ASSUME TypeOK, NEW w \in Workers, CarrierAcceptsAndRaises(w) PROVE TypeOK'
<1>. wk[w].ord \in Orders
  BY WorkerFields DEF CarrierAcceptsAndRaises
<1>1. CarrierOK'
  BY BookTypeOK DEF TypeOK, CarrierOK, CarrierAcceptsAndRaises
<1>2. WorkersOK'
  <2>1. WorkerOK([wk[w] EXCEPT !.pc = "failing"])
    BY WorkerFields DEF WorkerOK, CarrierAcceptsAndRaises, WorkerRecords, WorkerPcs
  <2>2. wk' = [wk EXCEPT ![w] = [wk[w] EXCEPT !.pc = "failing"]]
    BY DEF TypeOK, WorkersOK, CarrierAcceptsAndRaises
  <2>. QED BY <2>1, <2>2, WorkerUpdate DEF TypeOK
<1>3. RowsOK' /\ SessionsOK' /\ BoundsOK'
  BY DEF TypeOK, RowsOK, SessionsOK, BoundsOK, CarrierAcceptsAndRaises, DbVars, Bounds
<1>. QED BY <1>1, <1>2, <1>3 DEF TypeOK

LEMMA CarrierRefusesTypeOK ==
  ASSUME TypeOK, NEW w \in Workers, NEW perm \in BOOLEAN, CarrierRefuses(w, perm)
  PROVE  TypeOK'
<1>1. WorkersOK'
  <2> DEFINE r == [wk[w] EXCEPT !.pc = "failing", !.perm = perm]
  <2>1. WorkerOK(r)
    <3>1. wk[w].ord \in Orders /\ wk[w].slot \in Slots
      BY WorkerFields DEF CarrierRefuses
    <3>. QED BY <3>1, WorkerFields, WorkerMoves DEF WorkerPcs
  <2>2. wk' = [wk EXCEPT ![w] = r]
    BY DEF TypeOK, WorkersOK, CarrierRefuses
  <2>. QED BY <2>1, <2>2, WorkerUpdate DEF TypeOK
<1>2. RowsOK' /\ SessionsOK' /\ CarrierOK' /\ BoundsOK'
  BY DEF TypeOK, RowsOK, SessionsOK, CarrierOK, BoundsOK, CarrierRefuses,
         DbVars, CarrierVars, Bounds
<1>. QED BY <1>1, <1>2 DEF TypeOK

LEMMA WorkerRecordsFailure ==
  ASSUME NEW r \in WorkerRecords, r.ord \in Orders, r.slot \in Slots,
         NEW seen \in Statuses, NEW jseen \in JobStates \cup {"none"}, NEW att \in Nat
  PROVE  WorkerOK([r EXCEPT !.pc = "recording", !.seen = seen, !.jseen = jseen,
                            !.att = att])
BY WorkerMoves DEF WorkerPcs

LEMMA ReadFailureTypeOK ==
  ASSUME TypeOK, NEW w \in Workers, ReadFailure(w) PROVE TypeOK'
<1>1. WorkersOK'
  <2> DEFINE j == job[wk[w].ord][wk[w].slot]
             r == [wk[w] EXCEPT !.pc = "recording", !.seen = status[wk[w].ord],
                                !.jseen = j.st, !.att = j.attempts]
  <2>1. wk[w].ord \in Orders /\ wk[w].slot \in Slots
    BY WorkerFields DEF ReadFailure
  <2>2. /\ status[wk[w].ord] \in Statuses
        /\ j.st \in JobStates \cup {"none"} /\ j.attempts \in Nat
    BY <2>1 DEF TypeOK, RowsOK, JobRecords
  <2>3. wk' = [wk EXCEPT ![w] = r]
    BY DEF TypeOK, WorkersOK, ReadFailure
  <2> HIDE DEF j
  <2>4. wk[w] \in WorkerRecords
    BY WorkerFields
  <2>5. WorkerOK(r)
    BY <2>1, <2>2, <2>4, WorkerRecordsFailure
  <2>. QED BY <2>3, <2>5, WorkerUpdate DEF TypeOK
<1>2. RowsOK' /\ SessionsOK' /\ CarrierOK' /\ BoundsOK'
  BY DEF TypeOK, RowsOK, SessionsOK, CarrierOK, BoundsOK, ReadFailure,
         DbVars, CarrierVars, Bounds
<1>. QED BY <1>1, <1>2 DEF TypeOK

LEMMA WriteFailureTypeOK ==
  ASSUME TypeOK, NEW w \in Workers, WriteFailure(w) PROVE TypeOK'
<1>. wk[w].ord \in Orders /\ wk[w].slot \in Slots
  BY WorkerFields DEF WriteFailure
<1>1. job' \in JobTable
  <2> DEFINE o == wk[w].ord
             i == wk[w].slot
             again == ~wk[w].perm /\ wk[w].att < MaxAttempts
             st == IF again THEN "queued" ELSE "failed"
             r == [st |-> IF wk[w].jseen = st THEN job[o][i].st ELSE st,
                   attempts |-> job[o][i].attempts,
                   due |-> job[o][i].due /\ ~again]
  <2>1. job[o][i] \in JobRecords /\ job \in JobTable
    BY DEF TypeOK, RowsOK, JobTable
  <2>2. job' = [job EXCEPT ![o][i] = r]
    BY DEF WriteFailure
  <2>3. st \in JobStates
    BY DEF JobStates
  <2> HIDE DEF st
  <2>4. (IF wk[w].jseen = st THEN job[o][i].st ELSE st) \in JobStates \cup {"none"}
    BY <2>1, <2>3 DEF JobRecords
  <2>5. (job[o][i].due /\ ~again) \in BOOLEAN
    BY <2>1 DEF JobRecords
  <2> HIDE DEF again
  <2>6. r \in JobRecords
    BY <2>1, <2>4, <2>5 DEF JobRecords
  <2> HIDE DEF r
  <2>. QED BY <2>1, <2>2, <2>6, JobUpdate
<1>2. status' \in [Orders -> Statuses]
  BY StatusNames DEF TypeOK, RowsOK, WriteFailure
<1>3. WorkersOK'
  BY IdleWorkerOK, WorkerUpdate DEF TypeOK, WriteFailure
<1>4. RowsOK' /\ SessionsOK' /\ CarrierOK' /\ BoundsOK'
  BY <1>1, <1>2 DEF TypeOK, RowsOK, JobTable, SessionsOK, CarrierOK, BoundsOK,
     WriteFailure, CarrierVars, Bounds
<1>. QED BY <1>3, <1>4 DEF TypeOK

LEMMA CompleteTypeOK ==
  ASSUME TypeOK, NEW w \in Workers, Complete(w) PROVE TypeOK'
<1>. wk[w].ord \in Orders /\ wk[w].slot \in Slots
  BY WorkerFields DEF Complete
<1>1. job' \in JobTable
  BY JobStatus DEF TypeOK, RowsOK, JobTable, JobStates, Complete
<1>2. status' \in [Orders -> Statuses] /\ waybill' \in [Orders -> Waybills]
  BY StatusNames, WorkerFields DEF TypeOK, RowsOK, Complete
<1>3. WorkersOK'
  BY IdleWorkerOK, WorkerUpdate DEF TypeOK, Complete
<1>4. RowsOK' /\ SessionsOK' /\ CarrierOK' /\ BoundsOK'
  BY <1>1, <1>2 DEF TypeOK, RowsOK, JobTable, SessionsOK, CarrierOK, BoundsOK,
     Complete, CarrierVars, Bounds
<1>. QED BY <1>3, <1>4 DEF TypeOK

LEMMA CompleteFailsTypeOK ==
  ASSUME TypeOK, NEW w \in Workers, CompleteFails(w) PROVE TypeOK'
<1>. wk[w].ord \in Orders /\ wk[w].slot \in Slots
  BY WorkerFields DEF CompleteFails
<1>1. job' \in JobTable
  BY JobStatus DEF TypeOK, RowsOK, JobTable, JobStates, CompleteFails
<1>2. WorkersOK'
  <2>1. WorkerOK([wk[w] EXCEPT !.pc = "posting"])
    BY WorkerFields, WorkerMoves DEF WorkerPcs
  <2>2. wk' = [wk EXCEPT ![w] = [wk[w] EXCEPT !.pc = "posting"]]
    BY DEF TypeOK, WorkersOK, CompleteFails
  <2>. QED BY <2>1, <2>2, WorkerUpdate DEF TypeOK
<1>3. CarrierOK'
  BY DEF TypeOK, CarrierOK, CompleteFails
<1>4. RowsOK' /\ SessionsOK' /\ BoundsOK'
  BY <1>1 DEF TypeOK, RowsOK, JobTable, SessionsOK, BoundsOK, CompleteFails, Bounds
<1>. QED BY <1>2, <1>3, <1>4 DEF TypeOK

LEMMA ReadPostingTypeOK ==
  ASSUME TypeOK, NEW w \in Workers, ReadPosting(w) PROVE TypeOK'
<1>1. WorkersOK'
  <2> DEFINE r == [wk[w] EXCEPT !.pc = "persisting", !.seen = status[wk[w].ord]]
  <2>1. wk[w].ord \in Orders /\ wk[w].slot \in Slots
    BY WorkerFields DEF ReadPosting
  <2>2. status[wk[w].ord] \in Statuses
    BY <2>1 DEF TypeOK, RowsOK
  <2>3. WorkerOK(r)
    BY <2>1, <2>2, WorkerFields, WorkerMoves DEF WorkerPcs
  <2>4. wk' = [wk EXCEPT ![w] = r]
    BY DEF TypeOK, WorkersOK, ReadPosting
  <2>. QED BY <2>3, <2>4, WorkerUpdate DEF TypeOK
<1>2. RowsOK' /\ SessionsOK' /\ CarrierOK' /\ BoundsOK'
  BY DEF TypeOK, RowsOK, SessionsOK, CarrierOK, BoundsOK, ReadPosting,
         DbVars, CarrierVars, Bounds
<1>. QED BY <1>1, <1>2 DEF TypeOK

LEMMA PersistTypeOK ==
  ASSUME TypeOK, NEW w \in Workers, Persist(w) \/ PersistFails(w) PROVE TypeOK'
<1>. wk[w].ord \in Orders
  BY WorkerFields DEF Persist, PersistFails
<1>1. status' \in [Orders -> Statuses] /\ waybill' \in [Orders -> Waybills]
  BY StatusNames, WorkerFields DEF TypeOK, RowsOK, Persist, PersistFails, DbVars
<1>2. WorkersOK'
  BY IdleWorkerOK, WorkerUpdate DEF TypeOK, Persist, PersistFails
<1>3. RowsOK' /\ SessionsOK' /\ CarrierOK' /\ BoundsOK'
  BY <1>1 DEF TypeOK, RowsOK, SessionsOK, CarrierOK, BoundsOK, Persist, PersistFails,
     DbVars, CarrierVars, Bounds
<1>. QED BY <1>2, <1>3 DEF TypeOK

LEMMA RetryReadTypeOK ==
  ASSUME TypeOK, NEW w \in Workers, NEW o \in Orders, RetryRead(w, o) PROVE TypeOK'
<1>1. WorkersOK'
  <2>1. ASSUME NEW i \in 0..MaxJobs, NEW j \in JobRecords, i = 0 => j.st = "none"
        PROVE  WorkerOK(Retrying(o, i, j))
    <3>1. status[o] \in Statuses
      BY DEF TypeOK, RowsOK
    <3>. QED BY <2>1, <3>1 DEF WorkerOK, Retrying, WorkerRecords, WorkerPcs, Waybills,
                               NoWaybill, Slots, JobRecords
  <2>2. CASE wk' = [wk EXCEPT ![w] = Retrying(o, 0, NoJob)]
    <3>1. NoJob \in JobRecords /\ NoJob.st = "none"
      BY DEF NoJob, JobRecords
    <3> DEFINE r == Retrying(o, 0, NoJob)
    <3>2. wk' = [wk EXCEPT ![w] = r] /\ WorkerOK(r)
      BY <2>1, <2>2, <3>1
    <3> HIDE DEF r
    <3>. QED BY <3>2, WorkerUpdate DEF TypeOK
  <2>3. ASSUME NEW i \in Slots, wk' = [wk EXCEPT ![w] = Retrying(o, i, job[o][i])]
        PROVE  WorkersOK'
    <3>1. job[o][i] \in JobRecords /\ i \in 0..MaxJobs /\ i # 0
      BY DEF TypeOK, RowsOK, Slots
    <3>2. WorkerOK(Retrying(o, i, job[o][i]))
      BY <2>1, <3>1
    <3> DEFINE r == Retrying(o, i, job[o][i])
    <3>3. wk' = [wk EXCEPT ![w] = r] /\ WorkerOK(r)
      BY <2>3, <3>2
    <3> HIDE DEF r
    <3>. QED BY <3>3, WorkerUpdate DEF TypeOK
  <2>. QED BY <2>2, <2>3 DEF RetryRead
<1>2. RowsOK' /\ SessionsOK' /\ CarrierOK' /\ BoundsOK'
  BY DEF TypeOK, RowsOK, SessionsOK, CarrierOK, BoundsOK, RetryRead, DbVars, CarrierVars
<1>. QED BY <1>1, <1>2 DEF TypeOK

LEMMA RetryClaimTypeOK ==
  ASSUME TypeOK, NEW w \in Workers, RetryClaim(w) PROVE TypeOK'
<1> DEFINE o == wk[w].ord
<1>1. o \in Orders /\ (RetryResets(w) => wk[w].slot \in Slots)
  BY WorkerFields DEF RetryClaim
<1>2. job \in JobTable
  BY DEF TypeOK, RowsOK, JobTable
<1>3. status' \in [Orders -> Statuses]
  BY <1>1, StatusNames DEF TypeOK, RowsOK, RetryClaim
<1>4. job' \in JobTable /\ WorkersOK'
  <2>1. ASSUME NEW i \in Slots, NEW n \in Nat,
               job' = [job EXCEPT ![o][i] = [st |-> "processing",
                                             attempts |-> n, due |-> TRUE]],
               wk' = [wk EXCEPT ![w] = WorkerAt("claimed", o, i)]
        PROVE  job' \in JobTable /\ WorkersOK'
    <3> DEFINE r == [st |-> "processing", attempts |-> n, due |-> TRUE]
    <3>1. r \in JobRecords
      BY DEF JobRecords, JobStates
    <3>2. job' = [job EXCEPT ![o][i] = r]
      BY <2>1
    <3>3. WorkerOK(WorkerAt("claimed", o, i))
      BY <1>1, WorkerAtOK DEF WorkerPcs
    <3> HIDE DEF r
    <3>4. job' \in JobTable
      BY <1>1, <1>2, <3>1, <3>2, JobUpdate
    <3>5. WorkersOK'
      BY <2>1, <3>3, WorkerUpdate DEF TypeOK
    <3>. QED BY <3>4, <3>5
  <2>2. CASE RetryResets(w) /\ RetryRequeues(w)
    <3> DEFINE n == (IF wk[w].att # 0 THEN 0 ELSE job[o][wk[w].slot].attempts) + 1
    <3>1. n \in Nat
      BY <1>1, <2>2 DEF TypeOK, RowsOK, JobRecords
    <3>2. /\ job' = [job EXCEPT ![o][wk[w].slot] = [st |-> "processing",
                                                   attempts |-> n, due |-> TRUE]]
          /\ wk' = [wk EXCEPT ![w] = WorkerAt("claimed", o, wk[w].slot)]
      BY <2>2 DEF RetryClaim
    <3> HIDE DEF n
    <3>. QED BY <1>1, <2>1, <2>2, <3>1, <3>2
  <2>3. CASE ~RetryResets(w)
    BY <2>1, <2>3 DEF RetryClaim
  <2>4. CASE RetryResets(w) /\ ~RetryRequeues(w)
    BY <1>2, <2>4, IdleWorkerOK, WorkerUpdate DEF RetryClaim, TypeOK
  <2>. QED BY <2>2, <2>3, <2>4
<1>5. RowsOK' /\ SessionsOK' /\ CarrierOK' /\ BoundsOK'
  BY <1>3, <1>4 DEF TypeOK, RowsOK, JobTable, SessionsOK, CarrierOK, BoundsOK,
     RetryClaim, CarrierVars, Bounds
<1>. QED BY <1>4, <1>5 DEF TypeOK

LEMMA CrashTypeOK ==
  ASSUME TypeOK, NEW w \in Workers, Crash(w) PROVE TypeOK'
<1>1. wk[w].ord \in Orders
  BY WorkerFields DEF Crash
<1>2. WorkersOK'
  BY IdleWorkerOK, WorkerUpdate DEF TypeOK, Crash
<1>3. lost' \in [Orders -> BOOLEAN]
  BY <1>1 DEF TypeOK, CarrierOK, Crash
<1>4. RowsOK' /\ SessionsOK' /\ CarrierOK' /\ BoundsOK'
  BY <1>1, <1>3 DEF TypeOK, RowsOK, SessionsOK, CarrierOK, BoundsOK, Crash, DbVars
<1>. QED BY <1>2, <1>4 DEF TypeOK

LEMMA ComesDueTypeOK ==
  ASSUME TypeOK, NEW o \in Orders, NEW i \in Slots, ComesDue(o, i) PROVE TypeOK'
<1> DEFINE r == [job[o][i] EXCEPT !.due = TRUE]
<1>1. r \in JobRecords
  <2>1. job[o][i] \in JobRecords
    BY DEF TypeOK, RowsOK
  <2>. QED BY <2>1 DEF JobRecords
<1>2. job' = [job EXCEPT ![o][i] = r]
  BY DEF TypeOK, RowsOK, ComesDue
<1>3. job' \in JobTable
  <2> HIDE DEF r
  <2>. QED BY <1>1, <1>2, JobUpdate DEF TypeOK, RowsOK, JobTable
<1>. QED BY <1>3 DEF TypeOK, RowsOK, JobTable, WorkersOK, RetryResets, SessionsOK,
            CarrierOK, BoundsOK, ComesDue, CarrierVars, Bounds

LEMMA RescheduleTypeOK ==
  ASSUME TypeOK, NEW o \in Orders, Reschedule(o) PROVE TypeOK'
<1>1. CarrierOK'
  BY DEF TypeOK, CarrierOK, Reschedule
<1>. QED BY <1>1 DEF TypeOK, RowsOK, WorkersOK, RetryResets, SessionsOK,
            CarrierOK, BoundsOK, Reschedule, DbVars, Bounds

\* The same for sessions: a session's record, and what a request leaves alone.
SessionOK(r) ==
  /\ r \in SessionRecords
  /\ r.pc # "idle" => r.ord \in Orders
  /\ r.pc = "override" => r.target \in OverrideTargets

LEMMA SessionUpdate ==
  ASSUME SessionsOK, NEW s \in Sessions, NEW r, SessionOK(r),
         se' = [se EXCEPT ![s] = r]
  PROVE  SessionsOK'
BY DEF SessionsOK, SessionOK

LEMMA SessionRecordsOK ==
  /\ SessionOK(IdleSession)
  /\ \A pc \in {"cancel", "mark", "enqueue"}, o \in Orders, seen \in Statuses :
       SessionOK(SessionAt(pc, o, seen))
  /\ \A o \in Orders, seen \in Statuses, jobs \in SUBSET Slots :
       SessionOK([SessionAt("cancel", o, seen) EXCEPT !.jobs = jobs])
  /\ \A o \in Orders, seen \in Statuses, target \in OverrideTargets :
       SessionOK([SessionAt("override", o, seen) EXCEPT !.target = target])
BY DEF SessionOK, SessionAt, IdleSession, SessionRecords

LEMMA SessionFields ==
  ASSUME TypeOK, NEW s \in Sessions
  PROVE  /\ se[s].pc # "idle" => se[s].ord \in Orders
         /\ se[s].pc = "override" => se[s].target \in OverrideTargets
         /\ se[s].jobs \in SUBSET Slots
BY DEF TypeOK, SessionsOK, SessionRecords

LEMMA ReadsTypeOK ==
  ASSUME TypeOK, NEW s \in Sessions, NEW o \in Orders,
         \/ EnqueueRead(s, o) \/ CancelRead(s, o) \/ MarkRead(s, o)
         \/ \E target \in OverrideTargets : OverrideRead(s, o, target)
  PROVE  TypeOK'
<1>. status[o] \in Statuses
  BY DEF TypeOK, RowsOK
<1>1. SessionsOK'
  <2>1. CASE EnqueueRead(s, o) \/ MarkRead(s, o)
    BY <2>1, SessionRecordsOK, SessionUpdate DEF TypeOK, EnqueueRead, MarkRead
  <2>2. CASE CancelRead(s, o)
    <3> DEFINE jobs == {i \in Slots : /\ status[o] \in QueueStatuses
                                     /\ job[o][i].st \in {"queued", "failed"}}
               r == [SessionAt("cancel", o, status[o]) EXCEPT !.jobs = jobs]
    <3>1. jobs \in SUBSET Slots
      OBVIOUS
    <3>2. se' = [se EXCEPT ![s] = r]
      BY <2>2 DEF CancelRead
    <3> HIDE DEF jobs
    <3>3. SessionOK(r)
      BY <3>1, SessionRecordsOK
    <3> HIDE DEF r
    <3>. QED BY <3>2, <3>3, SessionUpdate DEF TypeOK
  <2>3. ASSUME NEW target \in OverrideTargets, OverrideRead(s, o, target)
        PROVE  SessionsOK'
    <3> DEFINE r == [SessionAt("override", o, status[o]) EXCEPT !.target = target]
    <3>1. SessionOK(r) /\ se' = [se EXCEPT ![s] = r]
      BY <2>3, SessionRecordsOK DEF OverrideRead
    <3> HIDE DEF r
    <3>. QED BY <3>1, SessionUpdate DEF TypeOK
  <2>. QED BY <2>1, <2>2, <2>3
<1>2. UNCHANGED <<DbVars, lock, wk, CarrierVars, Bounds>>
  BY DEF EnqueueRead, CancelRead, MarkRead, OverrideRead
<1>. QED BY <1>1, <1>2 DEF TypeOK, RowsOK, WorkersOK, RetryResets, CarrierOK, BoundsOK,
            DbVars, CarrierVars, Bounds

LEMMA WritesTypeOK ==
  ASSUME TypeOK, NEW s \in Sessions,
         EnqueueWrite(s) \/ CancelAtCarrier(s) \/ CancelWrite(s) \/ MarkWrite(s)
           \/ OverrideWrite(s) \/ Abandon(s)
  PROVE  TypeOK'
<1>. se[s].ord \in Orders
  BY SessionFields DEF EnqueueWrite, CancelAtCarrier, CancelWrite, MarkWrite, OverrideWrite, Abandon
<1>1. job \in JobTable
  BY DEF TypeOK, RowsOK, JobTable
<1>2. job' \in JobTable
  <2>1. CASE EnqueueWrite(s)
    <3>1. NewJob \in JobRecords
      BY DEF NewJob, JobRecords, JobStates
    <3>2. PICK i \in Slots : job' = [job EXCEPT ![se[s].ord][i] = NewJob]
      BY <2>1 DEF EnqueueWrite
    <3>. QED BY <1>1, <3>1, <3>2, JobUpdate
  <2>2. CASE CancelWrite(s)
    <3>1. \A i \in Slots : job[se[s].ord][i] \in JobRecords
      BY <1>1 DEF JobTable
    <3>2. \A i \in Slots : [job[se[s].ord][i] EXCEPT !.st = "cancelled"] \in JobRecords
      BY <3>1 DEF JobRecords, JobStates
    <3>. QED BY <1>1, <2>2, <3>1, <3>2 DEF CancelWrite, JobTable
  <2>. QED BY <1>1, <2>1, <2>2 DEF CancelAtCarrier, MarkWrite, OverrideWrite, Abandon, DbVars
<1>3. status' \in [Orders -> Statuses]
  <2>1. OverrideWrite(s) => se[s].target \in Statuses
    BY SessionFields DEF OverrideWrite
  <2>. QED BY <2>1, StatusNames DEF TypeOK, RowsOK, EnqueueWrite, CancelAtCarrier,
              CancelWrite, MarkWrite, OverrideWrite, Abandon, DbVars
<1>4. waybill' \in [Orders -> Waybills]
  <2>1. ManualWaybill \in Waybills
    BY DEF ManualWaybill, Waybills
  <2>. QED BY <2>1 DEF TypeOK, RowsOK, EnqueueWrite, CancelAtCarrier, CancelWrite,
              MarkWrite, OverrideWrite, Abandon, DbVars
<1>5. SessionsOK'
  BY SessionRecordsOK, SessionUpdate
  DEF TypeOK, SessionsOK, EnqueueWrite, CancelAtCarrier, CancelWrite, MarkWrite, OverrideWrite, Abandon
<1>6. CarrierOK'
  BY DEF TypeOK, CarrierOK, EnqueueWrite, CancelAtCarrier, CancelWrite, MarkWrite,
         OverrideWrite, Abandon, CarrierVars
<1>7. UNCHANGED <<lock, wk, Bounds>>
  BY DEF EnqueueWrite, CancelAtCarrier, CancelWrite, MarkWrite, OverrideWrite, Abandon
<1>. QED BY <1>2, <1>3, <1>4, <1>5, <1>6, <1>7
         DEF TypeOK, RowsOK, JobTable, WorkersOK, RetryResets, BoundsOK, Bounds

LEMMA NextTypeOK == TypeOK /\ [Next]_vars => TypeOK'
<1> SUFFICES ASSUME TypeOK, [Next]_vars PROVE TypeOK'
  OBVIOUS
<1>1. ASSUME NEW w \in Workers, WorkerStep(w) PROVE TypeOK'
  <2>1. CASE Progress(w)
    BY <2>1, ClaimTypeOK, LockOrderTypeOK, CarrierAcceptsTypeOK,
       CarrierAcceptsAndRaisesTypeOK, CarrierRefusesTypeOK, ReadFailureTypeOK,
       WriteFailureTypeOK, CompleteTypeOK, CompleteFailsTypeOK, ReadPostingTypeOK,
       PersistTypeOK, RetryClaimTypeOK DEF Progress
  <2>. QED BY <1>1, <2>1, CrashTypeOK, RetryReadTypeOK, PickTypeOK
           DEF WorkerStep, PollPick, StreamPick
<1>2. ASSUME NEW s \in Sessions, SessionStep(s) PROVE TypeOK'
  BY <1>2, ReadsTypeOK, WritesTypeOK DEF SessionStep
<1>3. CASE UNCHANGED vars
  BY <1>3 DEF vars, TypeOK, RowsOK, WorkersOK, RetryResets, SessionsOK, CarrierOK, BoundsOK
<1>. QED BY <1>1, <1>2, <1>3, RescheduleTypeOK, ComesDueTypeOK DEF Next

\* Every reachable state is well typed, and a busy worker or session has an
\* order: no handler of dispatch/service.py leaves a record half filled.
THEOREM TypeCorrect == Spec => []TypeOK
BY InitTypeOK, NextTypeOK, PTL DEF Spec

-----------------------------------------------------------------------------
(* The booking invariant.                                                   *)

Booking == /\ CallUnderLock /\ OpenWhileCalling /\ NumberRecordedHeldOrLost
           /\ DuplicateOnlyAfterLoss /\ NumbersHaveOrigin /\ SentWasBooked

\* The steps that neither enter nor leave the part of a worker that holds a
\* lock or a number.
QuietMove ==
  \A v \in Workers :
    \/ wk'[v] = wk[v]
    \/ /\ wk[v].pc \notin {"calling", "completing"}
       /\ wk'[v].pc \notin {"calling", "completing", "posting", "persisting"}

LEMMA InitBooking == Init => Booking
BY DEF Init, Booking, CallUnderLock, OpenWhileCalling, NumberRecordedHeldOrLost,
   DuplicateOnlyAfterLoss, NumbersHaveOrigin, SentWasBooked, IdleWorker, WorkerAt,
   NoWaybill

\* A quiet step that writes no order row.
LEMMA QuietStep ==
  ASSUME Booking, TypeOK, QuietMove, UNCHANGED <<status, waybill, lock, booked, lost>>
  PROVE  Booking'
<1>1. CallUnderLock' /\ OpenWhileCalling' /\ NumbersHaveOrigin'
  BY DEF Booking, QuietMove, CallUnderLock, OpenWhileCalling, NumbersHaveOrigin
<1>2. NumberRecordedHeldOrLost'
  BY DEF Booking, QuietMove, NumberRecordedHeldOrLost
<1>3. DuplicateOnlyAfterLoss' /\ SentWasBooked'
  BY DEF Booking, DuplicateOnlyAfterLoss, SentWasBooked
<1>. QED BY <1>1, <1>2, <1>3 DEF Booking

\* A quiet step that writes an order row nobody has locked.
LEMMA RowWrite ==
  ASSUME Booking, TypeOK, QuietMove, UNCHANGED <<lock, booked, lost>>,
         NEW o \in Orders, lock[o] = Free, NEW x, NEW y \in Int,
         status' = [status EXCEPT ![o] = x], waybill' = [waybill EXCEPT ![o] = y],
         waybill[o] # NoWaybill => y # NoWaybill,
         y > 0 => booked[o] >= 1,
         x = "sent_to_carrier" => \/ booked[o] >= 1 \/ y = ManualWaybill
                                  \/ "sent_to_carrier" \in OverrideTargets
  PROVE  Booking'
<1>. /\ status \in [Orders -> Statuses] /\ waybill \in [Orders -> Waybills]
     /\ \A v \in Workers : wk[v].pc # "idle" => wk[v].ord \in Orders
  BY DEF TypeOK, RowsOK, WorkersOK
<1>1. \A v \in Workers : wk[v].pc \in {"calling", "completing"} => wk[v].ord # o
  BY DEF Booking, CallUnderLock
<1>2. CallUnderLock' /\ OpenWhileCalling'
  BY <1>1 DEF Booking, QuietMove, CallUnderLock, OpenWhileCalling
<1>3. NumbersHaveOrigin'
  BY DEF Booking, QuietMove, NumbersHaveOrigin
<1>4. NumberRecordedHeldOrLost'
  BY DEF Booking, QuietMove, NumberRecordedHeldOrLost
<1>5. DuplicateOnlyAfterLoss' /\ SentWasBooked'
  BY DEF Booking, DuplicateOnlyAfterLoss, SentWasBooked
<1>. QED BY <1>2, <1>3, <1>4, <1>5 DEF Booking

\* A worker's own record after a step that replaces it.
LEMMA WorkerRecord ==
  ASSUME TypeOK, NEW w \in Workers, NEW r, wk' = [wk EXCEPT ![w] = r]
  PROVE  wk'[w] = r /\ \A v \in Workers \ {w} : wk'[v] = wk[v]
BY DEF TypeOK, WorkersOK

LEMMA IdlePc == IdleWorker.pc = "idle"
BY DEF IdleWorker, WorkerAt

LEMMA WorkerAtPc == \A pc, o, i : WorkerAt(pc, o, i).pc = pc
BY DEF WorkerAt

\* The steps of a worker outside the lock move quietly.
LEMMA WorkerQuiet ==
  ASSUME TypeOK, NEW w \in Workers,
         \/ Claim(w) \/ ReadFailure(w) \/ WriteFailure(w)
         \/ Persist(w) \/ PersistFails(w) \/ RetryClaim(w)
         \/ \E o \in Orders : RetryRead(w, o)
         \/ \E o \in Orders, i \in Slots : Pick(w, o, i)
  PROVE  QuietMove
<1>1. CASE Claim(w)
  <2>1. wk'[w].pc \in {"claimed", "idle"} /\ \A v \in Workers \ {w} : wk'[v] = wk[v]
    BY <1>1, IdlePc DEF TypeOK, WorkersOK, WorkerRecords, Claim
  <2>. QED BY <1>1, <2>1 DEF QuietMove, Claim
<1>2. CASE ReadFailure(w)
  <2>1. wk'[w].pc = "recording" /\ \A v \in Workers \ {w} : wk'[v] = wk[v]
    BY <1>2 DEF TypeOK, WorkersOK, WorkerRecords, ReadFailure
  <2>. QED BY <1>2, <2>1 DEF QuietMove, ReadFailure
<1>3. CASE WriteFailure(w) \/ Persist(w) \/ PersistFails(w)
  BY <1>3, IdlePc, WorkerRecord DEF QuietMove, WriteFailure, Persist, PersistFails
<1>4. CASE RetryClaim(w)
  <2>1. \/ wk' = [wk EXCEPT ![w] = IdleWorker]
        \/ \E i : wk' = [wk EXCEPT ![w] = WorkerAt("claimed", wk[w].ord, i)]
    BY <1>4 DEF RetryClaim
  <2>2. wk'[w].pc \in {"idle", "claimed"} /\ \A v \in Workers \ {w} : wk'[v] = wk[v]
    BY <2>1, IdlePc, WorkerAtPc, WorkerRecord
  <2>. QED BY <1>4, <2>2 DEF QuietMove, RetryClaim
<1>5. ASSUME NEW o \in Orders, RetryRead(w, o) PROVE QuietMove
  <2>1. wk'[w].pc = "retry" /\ \A v \in Workers \ {w} : wk'[v] = wk[v]
    BY <1>5 DEF TypeOK, WorkersOK, RetryRead, Retrying
  <2>. QED BY <1>5, <2>1 DEF QuietMove, RetryRead
<1>6. ASSUME NEW o \in Orders, NEW i \in Slots, Pick(w, o, i) PROVE QuietMove
  <2> DEFINE r == WorkerAt("picked", o, i)
  <2>1. wk' = [wk EXCEPT ![w] = r] /\ wk[w].pc = "idle"
    BY <1>6 DEF Pick
  <2>2. r.pc = "picked"
    BY WorkerAtPc
  <2> HIDE DEF r
  <2>3. wk'[w].pc = "picked" /\ \A v \in Workers \ {w} : wk'[v] = wk[v]
    BY <2>1, <2>2, WorkerRecord
  <2>. QED BY <2>1, <2>3 DEF QuietMove
<1>. QED BY <1>1, <1>2, <1>3, <1>4, <1>5, <1>6

\* Those of them that write no order row.
LEMMA QuietBooking ==
  ASSUME TypeOK, Booking, NEW w \in Workers,
         \/ Claim(w) \/ ReadFailure(w) \/ PersistFails(w)
         \/ \E o \in Orders : RetryRead(w, o)
         \/ \E o \in Orders, i \in Slots : Pick(w, o, i)
  PROVE  Booking'
<1>1. QuietMove
  BY WorkerQuiet
<1>. QED BY <1>1, QuietStep
         DEF Claim, ReadFailure, PersistFails, RetryRead, Pick, DbVars, CarrierVars

LEMMA WriteFailureBooking ==
  ASSUME TypeOK, Booking, NEW w \in Workers, WriteFailure(w) PROVE Booking'
<1>1. QuietMove
  BY WorkerQuiet
<1>2. CASE UNCHANGED status
  BY <1>1, <1>2, QuietStep DEF WriteFailure, CarrierVars
<1>3. CASE ~UNCHANGED status
  <2> DEFINE o == wk[w].ord
  <2>1. o \in Orders
    BY WorkerFields DEF WriteFailure
  <2>2. lock[o] = Free /\ status' = [status EXCEPT ![o] = "dispatch_failed"]
    BY <1>3 DEF WriteFailure
  <2>3. waybill' = [waybill EXCEPT ![o] = waybill[o]] /\ waybill[o] \in Int
    BY <2>1 DEF WriteFailure, TypeOK, RowsOK, Waybills
  <2>4. waybill[o] > 0 => booked[o] >= 1
    BY <2>1 DEF Booking, NumbersHaveOrigin
  <2>5. UNCHANGED <<lock, booked, lost>>
    BY DEF WriteFailure, CarrierVars
  <2> HIDE DEF o
  <2>. QED BY <1>1, <2>1, <2>2, <2>3, <2>4, <2>5, RowWrite
<1>. QED BY <1>2, <1>3

LEMMA RetryClaimBooking ==
  ASSUME TypeOK, Booking, NEW w \in Workers, RetryClaim(w) PROVE Booking'
<1>1. QuietMove
  BY WorkerQuiet
<1>2. CASE UNCHANGED status
  BY <1>1, <1>2, QuietStep DEF RetryClaim, CarrierVars
<1>3. CASE ~UNCHANGED status
  <2> DEFINE o == wk[w].ord
  <2>1. o \in Orders
    BY WorkerFields DEF RetryClaim
  <2>2. lock[o] = Free /\ status' = [status EXCEPT ![o] = "dispatch_queued"]
    BY <1>3 DEF RetryClaim
  <2>3. waybill' = [waybill EXCEPT ![o] = waybill[o]] /\ waybill[o] \in Int
    BY <2>1 DEF RetryClaim, TypeOK, RowsOK, Waybills
  <2>4. waybill[o] > 0 => booked[o] >= 1
    BY <2>1 DEF Booking, NumbersHaveOrigin
  <2>5. UNCHANGED <<lock, booked, lost>>
    BY DEF RetryClaim, CarrierVars
  <2> HIDE DEF o
  <2>. QED BY <1>1, <2>1, <2>2, <2>3, <2>4, <2>5, RowWrite
<1>. QED BY <1>2, <1>3

LEMMA PersistBooking ==
  ASSUME TypeOK, Booking, NEW w \in Workers, Persist(w) PROVE Booking'
<1> DEFINE o == wk[w].ord
           x == IF wk[w].seen = "dispatch_queued" THEN "dispatch_failed" ELSE status[o]
           y == IF wk[w].got # NoWaybill THEN wk[w].got ELSE waybill[o]
<1>1. QuietMove
  BY WorkerQuiet
<1>2. o \in Orders /\ lock[o] = Free /\ UNCHANGED <<lock, booked, lost>>
  BY WorkerFields DEF Persist, CarrierVars
<1>3. status' = [status EXCEPT ![o] = x] /\ waybill' = [waybill EXCEPT ![o] = y]
  BY DEF Persist
<1>4. y \in Int /\ (waybill[o] # NoWaybill => y # NoWaybill)
  BY <1>2, WorkerFields DEF TypeOK, RowsOK, Waybills
<1>5. y > 0 => booked[o] >= 1
  BY <1>2 DEF Persist, Booking, NumbersHaveOrigin
<1>6. x = "sent_to_carrier" => \/ booked[o] >= 1 \/ y = ManualWaybill
                               \/ "sent_to_carrier" \in OverrideTargets
  <2>1. wk[w].got \in Int /\ (wk[w].got # NoWaybill => wk[w].got > 0 \/ wk[w].got = ManualWaybill)
    BY WorkerFields DEF Waybills, NoWaybill, ManualWaybill
  <2>. QED BY <1>2, <1>5, <2>1 DEF Booking, SentWasBooked
<1> HIDE DEF o, x, y
<1>. QED BY <1>1, <1>2, <1>3, <1>4, <1>5, <1>6, RowWrite

\* What the row lock gives: a worker that calls or completes is alone on its
\* order.
LEMMA AloneOnOrder ==
  ASSUME TypeOK, Booking, NEW w \in Workers, wk[w].pc \in {"calling", "completing"}
  PROVE  /\ lock[wk[w].ord] = w /\ status[wk[w].ord] = "dispatch_queued"
         /\ \A v \in Workers : wk[v].pc \in {"calling", "completing"}
                                /\ wk[v].ord = wk[w].ord => v = w
BY DEF Booking, CallUnderLock

LEMMA LockOrderBooking ==
  ASSUME TypeOK, Booking, NEW w \in Workers, LockOrder(w) PROVE Booking'
<1> DEFINE o == wk[w].ord
<1>1. o \in Orders /\ lock[o] = Free
  BY WorkerFields DEF LockOrder
<1>2. CASE status[o] # "dispatch_queued"
  <2>1. QuietMove
    BY <1>2, IdlePc, WorkerRecord DEF QuietMove, LockOrder
  <2>. QED BY <1>2, <2>1, QuietStep DEF LockOrder, CarrierVars
<1>3. CASE status[o] = "dispatch_queued"
  <2>1. /\ \A v \in Workers \ {w} : wk'[v] = wk[v]
        /\ wk'[w].ord = o /\ wk'[w].got = waybill[o]
        /\ wk'[w].pc = IF waybill[o] # NoWaybill THEN "completing" ELSE "calling"
    BY <1>3 DEF TypeOK, WorkersOK, WorkerRecords, LockOrder
  <2>2. /\ lock' = [lock EXCEPT ![o] = w]
        /\ UNCHANGED <<status, waybill, booked, lost>>
    BY <1>3 DEF LockOrder, CarrierVars
  <2>3. /\ wk[w].pc = "claimed" /\ waybill[o] \in Waybills
        /\ lock \in [Orders -> Workers \cup {Free}]
        /\ \A v \in Workers : wk[v].pc # "idle" => wk[v].ord \in Orders
    BY <1>1 DEF LockOrder, TypeOK, RowsOK, WorkersOK
  <2>4. \A v \in Workers : wk[v].pc \in {"calling", "completing"} => wk[v].ord # o
    BY <1>1 DEF Booking, CallUnderLock
  <2> HIDE DEF o
  <2>5. CallUnderLock' /\ OpenWhileCalling'
    BY <1>1, <1>3, <2>1, <2>2, <2>3, <2>4 DEF Booking, CallUnderLock, OpenWhileCalling
  <2>6. NumbersHaveOrigin'
    BY <1>1, <2>1, <2>2, <2>3 DEF Booking, NumbersHaveOrigin
  <2>7. NumberRecordedHeldOrLost'
    BY <2>1, <2>2, <2>3 DEF Booking, NumberRecordedHeldOrLost
  <2>8. DuplicateOnlyAfterLoss' /\ SentWasBooked'
    BY <2>2 DEF Booking, DuplicateOnlyAfterLoss, SentWasBooked
  <2>. QED BY <2>5, <2>6, <2>7, <2>8 DEF Booking
<1>. QED BY <1>2, <1>3

LEMMA CarrierAcceptsBooking ==
  ASSUME TypeOK, Booking, NEW w \in Workers, NEW numbered \in BOOLEAN,
         CarrierAccepts(w, numbered)
  PROVE  Booking'
<1> DEFINE o == wk[w].ord
<1>1. /\ o \in Orders /\ wk[w].pc = "calling"
      /\ waybill[o] = NoWaybill /\ booked[o] \in Nat
      /\ booked \in [Orders -> 0..MaxBookings] /\ lost \in [Orders -> BOOLEAN]
  BY WorkerFields DEF CarrierAccepts, Booking, OpenWhileCalling, TypeOK, CarrierOK
<1>2. /\ \A v \in Workers \ {w} : wk'[v] = wk[v]
      /\ wk'[w].ord = o /\ wk'[w].pc = "completing"
      /\ wk'[w].got = IF numbered THEN booked[o] + 1 ELSE NoWaybill
  BY DEF TypeOK, WorkersOK, WorkerRecords, CarrierAccepts
<1>3. /\ UNCHANGED <<status, waybill, lock>>
      /\ booked' = [booked EXCEPT ![o] = @ + 1]
      /\ lost' = [lost EXCEPT ![o] = @ \/ ~numbered]
  BY DEF CarrierAccepts, Book, DbVars
<1>4. \A v \in Workers : wk[v].pc \in {"calling", "completing"} /\ wk[v].ord = o => v = w
  BY <1>1, AloneOnOrder
<1>5. booked[o] >= 1 => lost[o]
  BY <1>1, <1>4 DEF Booking, NumberRecordedHeldOrLost
<1>6. \A v \in Workers : wk[v].pc # "idle" => wk[v].ord \in Orders
  BY DEF TypeOK, WorkersOK
<1> HIDE DEF o
<1>7. CallUnderLock' /\ OpenWhileCalling'
  BY <1>1, <1>2, <1>3 DEF Booking, CallUnderLock, OpenWhileCalling, o
<1>8. NumbersHaveOrigin' /\ SentWasBooked' /\ DuplicateOnlyAfterLoss'
  <2>1. \A p \in Orders : booked'[p] >= booked[p] /\ (p # o => booked'[p] = booked[p])
    BY <1>1, <1>3
  <2>2. booked'[o] = booked[o] + 1 /\ (lost[o] => lost'[o])
        /\ \A p \in Orders : p # o => lost'[p] = lost[p]
    BY <1>1, <1>3
  <2>3. \A p \in Orders : booked[p] \in Nat /\ booked'[p] \in Nat
    BY <1>1, <1>3
  <2>4. DuplicateOnlyAfterLoss'
    BY <1>1, <1>5, <2>1, <2>2, <2>3 DEF Booking, DuplicateOnlyAfterLoss
  <2>5. SentWasBooked'
    BY <1>3, <2>1, <2>3 DEF Booking, SentWasBooked
  <2>6. NumbersHaveOrigin'
    BY <1>1, <1>2, <1>3, <1>6, <2>1, <2>2, <2>3 DEF Booking, NumbersHaveOrigin
  <2>. QED BY <2>4, <2>5, <2>6
<1>9. NumberRecordedHeldOrLost'
  <2>1. ASSUME NEW p \in Orders, p # o, booked'[p] >= 1
        PROVE  \/ lost'[p] \/ waybill'[p] # NoWaybill
               \/ \E v \in Workers : /\ wk'[v].pc = "completing" /\ wk'[v].ord = p
                                     /\ wk'[v].got # NoWaybill
    BY <1>1, <1>2, <1>3, <2>1 DEF Booking, NumberRecordedHeldOrLost, o
  <2>2. lost'[o] \/ wk'[w].got # NoWaybill
    <3>1. CASE numbered
      BY <1>1, <1>2, <3>1 DEF NoWaybill
    <3>2. CASE ~numbered
      BY <1>1, <1>3, <3>2
    <3>. QED BY <3>1, <3>2
  <2>. QED BY <1>2, <2>1, <2>2 DEF NumberRecordedHeldOrLost
<1>. QED BY <1>7, <1>8, <1>9 DEF Booking

\* The worker leaves "calling" without a number: the lock is released.
LEMMA CallFailsBooking ==
  ASSUME TypeOK, Booking, NEW w \in Workers,
         CarrierAcceptsAndRaises(w) \/ \E perm \in BOOLEAN : CarrierRefuses(w, perm)
  PROVE  Booking'
<1> DEFINE o == wk[w].ord
<1>1. /\ o \in Orders /\ wk[w].pc = "calling"
      /\ booked \in [Orders -> 0..MaxBookings] /\ lost \in [Orders -> BOOLEAN]
      /\ lock \in [Orders -> Workers \cup {Free}]
  BY WorkerFields DEF CarrierAcceptsAndRaises, CarrierRefuses, TypeOK, RowsOK, CarrierOK
<1>2. /\ \A v \in Workers \ {w} : wk'[v] = wk[v]
      /\ wk'[w].pc = "failing"
  BY DEF TypeOK, WorkersOK, WorkerRecords, CarrierAcceptsAndRaises, CarrierRefuses
<1>3. /\ UNCHANGED <<status, waybill>>
      /\ lock' = [lock EXCEPT ![o] = Free]
  BY DEF CarrierAcceptsAndRaises, CarrierRefuses, DbVars
<1>4. \/ UNCHANGED <<booked, lost>>
      \/ /\ booked' = [booked EXCEPT ![o] = @ + 1]
         /\ lost' = [lost EXCEPT ![o] = TRUE]
  BY DEF CarrierAcceptsAndRaises, CarrierRefuses, Book, CarrierVars
<1>5. \A p \in Orders : /\ booked[p] \in Nat /\ booked'[p] \in Nat
                        /\ booked'[p] >= booked[p] /\ (lost[p] => lost'[p])
                        /\ booked'[p] = booked[p] \/ lost'[p]
  BY <1>1, <1>4
<1>6. \A v \in Workers \ {w} :
        wk[v].pc \in {"calling", "completing"} => wk[v].ord # o /\ wk[v].ord \in Orders
  BY <1>1, AloneOnOrder DEF TypeOK, WorkersOK
<1>7. \A v \in Workers : wk[v].pc # "idle" => wk[v].ord \in Orders
  BY DEF TypeOK, WorkersOK
<1> HIDE DEF o
<1>8. CallUnderLock' /\ OpenWhileCalling'
  BY <1>1, <1>2, <1>3, <1>6 DEF Booking, CallUnderLock, OpenWhileCalling
<1>9. NumberRecordedHeldOrLost'
  BY <1>1, <1>2, <1>3, <1>5 DEF Booking, NumberRecordedHeldOrLost
<1>10. DuplicateOnlyAfterLoss'
  BY <1>5 DEF Booking, DuplicateOnlyAfterLoss
<1>11. SentWasBooked'
  BY <1>3, <1>5 DEF Booking, SentWasBooked
<1>12. NumbersHaveOrigin'
  BY <1>2, <1>3, <1>5, <1>7 DEF Booking, NumbersHaveOrigin
<1>. QED BY <1>8, <1>9, <1>10, <1>11, <1>12 DEF Booking

LEMMA CompleteBooking ==
  ASSUME TypeOK, Booking, NEW w \in Workers, Complete(w) PROVE Booking'
<1> DEFINE o == wk[w].ord
           y == IF wk[w].got # NoWaybill THEN wk[w].got ELSE waybill[o]
<1>1. /\ o \in Orders /\ wk[w].pc = "completing"
      /\ status \in [Orders -> Statuses] /\ waybill \in [Orders -> Waybills]
      /\ lock \in [Orders -> Workers \cup {Free}]
      /\ wk[w].got \in Int /\ (wk[w].got # NoWaybill => wk[w].got > 0 \/ wk[w].got = ManualWaybill)
  <2>1. wk[w].pc = "completing"
    BY DEF Complete
  <2>2. wk[w].ord \in Orders /\ wk[w].got \in Waybills
    BY <2>1, WorkerFields
  <2>3. \A n \in Waybills : n \in Int /\ (n # NoWaybill => n > 0 \/ n = ManualWaybill)
    BY DEF Waybills, NoWaybill, ManualWaybill
  <2>. QED BY <2>1, <2>2, <2>3 DEF TypeOK, RowsOK
<1>2. /\ \A v \in Workers \ {w} : wk'[v] = wk[v]
      /\ wk'[w].pc = "idle"
  BY IdlePc, WorkerRecord DEF Complete
<1>3. /\ status' = [status EXCEPT ![o] = "sent_to_carrier"]
      /\ waybill' = [waybill EXCEPT ![o] = y]
      /\ lock' = [lock EXCEPT ![o] = Free] /\ UNCHANGED <<booked, lost>>
  BY DEF Complete, CarrierVars
<1>4. \A v \in Workers \ {w} :
        wk[v].pc \in {"calling", "completing"} => wk[v].ord # o /\ wk[v].ord \in Orders
  BY <1>1, AloneOnOrder DEF TypeOK, WorkersOK
<1>5. booked[o] >= 1 \/ y = ManualWaybill
  BY <1>1 DEF Booking, NumbersHaveOrigin
<1>6. y > 0 => booked[o] >= 1
  BY <1>1 DEF Booking, NumbersHaveOrigin
<1>7. waybill[o] # NoWaybill \/ wk[w].got # NoWaybill => y # NoWaybill
  OBVIOUS
<1>8. \A v \in Workers : wk[v].pc # "idle" => wk[v].ord \in Orders
  BY DEF TypeOK, WorkersOK
<1>9. CallUnderLock' /\ OpenWhileCalling'
  <2> HIDE DEF o, y
  <2>. QED BY <1>1, <1>2, <1>3, <1>4 DEF Booking, CallUnderLock, OpenWhileCalling
<1>10. NumberRecordedHeldOrLost'
  <2> HIDE DEF y
  <2>. QED BY <1>1, <1>2, <1>3, <1>7 DEF Booking, NumberRecordedHeldOrLost
<1> HIDE DEF o, y
<1>11. DuplicateOnlyAfterLoss' /\ SentWasBooked'
  BY <1>1, <1>3, <1>5 DEF Booking, DuplicateOnlyAfterLoss, SentWasBooked
<1>12. NumbersHaveOrigin'
  BY <1>1, <1>2, <1>3, <1>6, <1>8 DEF Booking, NumbersHaveOrigin
<1>. QED BY <1>9, <1>10, <1>11, <1>12 DEF Booking

\* The worker leaves "completing" with nothing recorded.
LEMMA GiveUpBooking ==
  ASSUME TypeOK, Booking, NEW w \in Workers, wk[w].pc \in {"calling", "completing"},
         \A v \in Workers \ {w} : wk'[v] = wk[v],
         \/ wk'[w].pc = "idle"
         \/ /\ wk[w].pc = "completing" /\ wk'[w].pc = "posting"
            /\ wk'[w].got = wk[w].got /\ wk'[w].ord = wk[w].ord,
         lock' = [lock EXCEPT ![wk[w].ord] = Free],
         UNCHANGED <<status, waybill, booked>>,
         \A p \in Orders : lost[p] => lost'[p],
         wk[w].pc = "completing" /\ waybill[wk[w].ord] = NoWaybill => lost'[wk[w].ord]
  PROVE  Booking'
<1> DEFINE o == wk[w].ord
<1>1. o \in Orders /\ lock \in [Orders -> Workers \cup {Free}]
  BY WorkerFields DEF TypeOK, RowsOK
<1>2. \A v \in Workers \ {w} :
        wk[v].pc \in {"calling", "completing"} => wk[v].ord # o /\ wk[v].ord \in Orders
  BY <1>1, AloneOnOrder DEF TypeOK, WorkersOK
<1>3. CallUnderLock' /\ OpenWhileCalling'
  BY <1>1, <1>2 DEF Booking, CallUnderLock, OpenWhileCalling
<1>4. NumberRecordedHeldOrLost'
  BY <1>1 DEF Booking, NumberRecordedHeldOrLost
<1>5. DuplicateOnlyAfterLoss' /\ SentWasBooked'
  BY DEF Booking, DuplicateOnlyAfterLoss, SentWasBooked
<1>6. NumbersHaveOrigin'
  BY <1>1 DEF Booking, NumbersHaveOrigin
<1>. QED BY <1>3, <1>4, <1>5, <1>6 DEF Booking

LEMMA CompleteFailsBooking ==
  ASSUME TypeOK, Booking, NEW w \in Workers, CompleteFails(w) PROVE Booking'
<1>1. wk[w].pc = "completing" /\ wk[w].ord \in Orders /\ lost \in [Orders -> BOOLEAN]
  BY WorkerFields DEF CompleteFails, TypeOK, CarrierOK
<1>2. /\ \A v \in Workers \ {w} : wk'[v] = wk[v]
      /\ wk'[w].pc = "posting" /\ wk'[w].got = wk[w].got /\ wk'[w].ord = wk[w].ord
  BY DEF TypeOK, WorkersOK, WorkerRecords, CompleteFails
<1>3. /\ \A p \in Orders : lost[p] => lost'[p]
      /\ waybill[wk[w].ord] = NoWaybill => lost'[wk[w].ord]
  BY <1>1 DEF CompleteFails
<1>4. /\ lock' = [lock EXCEPT ![wk[w].ord] = Free]
      /\ UNCHANGED <<status, waybill, booked>>
  BY DEF CompleteFails
<1>. QED BY <1>1, <1>2, <1>3, <1>4, GiveUpBooking

LEMMA CrashBooking ==
  ASSUME TypeOK, Booking, NEW w \in Workers, Crash(w) PROVE Booking'
<1>1. wk'[w].pc = "idle" /\ \A v \in Workers \ {w} : wk'[v] = wk[v]
  BY IdlePc, WorkerRecord DEF Crash
<1>2. UNCHANGED <<status, waybill, booked>>
  BY DEF Crash, DbVars
<1>3. CASE wk[w].pc \in {"calling", "completing"}
  <2>1. wk[w].ord \in Orders /\ lost \in [Orders -> BOOLEAN]
    BY WorkerFields DEF Crash, TypeOK, CarrierOK
  <2>2. /\ \A p \in Orders : lost[p] => lost'[p]
        /\ wk[w].pc = "completing" /\ waybill[wk[w].ord] = NoWaybill => lost'[wk[w].ord]
    BY <2>1 DEF Crash
  <2>3. lock' = [lock EXCEPT ![wk[w].ord] = Free]
    BY <1>3 DEF Crash
  <2>. QED BY <1>1, <1>2, <1>3, <2>2, <2>3, GiveUpBooking
<1>4. CASE wk[w].pc \notin {"calling", "completing"}
  <2>1. QuietMove
    BY <1>1, <1>4 DEF QuietMove
  <2>. QED BY <1>2, <1>4, <2>1, QuietStep DEF Crash
<1>. QED BY <1>3, <1>4

LEMMA ReadPostingBooking ==
  ASSUME TypeOK, Booking, NEW w \in Workers, ReadPosting(w) PROVE Booking'
<1>1. /\ \A v \in Workers \ {w} : wk'[v] = wk[v]
      /\ wk[w].pc = "posting" /\ wk'[w].pc = "persisting"
      /\ wk'[w].got = wk[w].got /\ wk'[w].ord = wk[w].ord
  BY DEF TypeOK, WorkersOK, WorkerRecords, ReadPosting
<1>2. UNCHANGED <<status, waybill, lock, booked, lost>>
  BY DEF ReadPosting, DbVars, CarrierVars
<1>3. CallUnderLock' /\ OpenWhileCalling' /\ NumbersHaveOrigin'
  BY <1>1, <1>2 DEF Booking, CallUnderLock, OpenWhileCalling, NumbersHaveOrigin
<1>4. NumberRecordedHeldOrLost'
  BY <1>1, <1>2 DEF Booking, NumberRecordedHeldOrLost
<1>5. DuplicateOnlyAfterLoss' /\ SentWasBooked'
  BY <1>2 DEF Booking, DuplicateOnlyAfterLoss, SentWasBooked
<1>. QED BY <1>3, <1>4, <1>5 DEF Booking

LEMMA WritesBooking ==
  ASSUME TypeOK, Booking, NEW s \in Sessions,
         EnqueueWrite(s) \/ CancelWrite(s) \/ MarkWrite(s) \/ OverrideWrite(s)
  PROVE  Booking'
<1> DEFINE o == se[s].ord
<1>1. o \in Orders /\ lock[o] = Free
  BY SessionFields DEF EnqueueWrite, CancelWrite, MarkWrite, OverrideWrite
<1>2. UNCHANGED <<lock, booked, lost>> /\ QuietMove
  BY DEF EnqueueWrite, CancelWrite, MarkWrite, OverrideWrite, CarrierVars, QuietMove
<1>3. /\ waybill[o] \in Int /\ (waybill[o] > 0 => booked[o] >= 1)
      /\ waybill = [waybill EXCEPT ![o] = waybill[o]]
  BY <1>1 DEF TypeOK, RowsOK, Waybills, Booking, NumbersHaveOrigin
<1>4. CASE EnqueueWrite(s)
  <2>1. status' = [status EXCEPT ![o] = "dispatch_queued"] /\ waybill' = waybill
    BY <1>4 DEF EnqueueWrite
  <2> HIDE DEF o
  <2>. QED BY <1>1, <1>2, <1>3, <2>1, RowWrite
<1>5. CASE CancelWrite(s)
  <2>1. status' = [status EXCEPT ![o] = "cancelled"] /\ waybill' = waybill
    BY <1>5 DEF CancelWrite
  <2> HIDE DEF o
  <2>. QED BY <1>1, <1>2, <1>3, <2>1, RowWrite
<1>6. CASE MarkWrite(s)
  <2>1. /\ status' = [status EXCEPT ![o] = "sent_to_carrier"]
        /\ waybill' = [waybill EXCEPT ![o] = ManualWaybill]
    BY <1>6 DEF MarkWrite
  <2>2. ManualWaybill \in Int /\ ~(ManualWaybill > 0) /\ ManualWaybill # NoWaybill
    BY DEF ManualWaybill, NoWaybill
  <2> HIDE DEF o
  <2>. QED BY <1>1, <1>2, <2>1, <2>2, RowWrite
<1>7. CASE OverrideWrite(s)
  <2> DEFINE x == IF se[s].seen = se[s].target THEN status[o] ELSE se[s].target
  <2>1. status' = [status EXCEPT ![o] = x] /\ waybill' = waybill
    BY <1>7 DEF OverrideWrite
  <2>2. x = "sent_to_carrier" => \/ booked[o] >= 1 \/ waybill[o] = ManualWaybill
                                 \/ "sent_to_carrier" \in OverrideTargets
    BY <1>1, <1>7, SessionFields DEF OverrideWrite, Booking, SentWasBooked
  <2> HIDE DEF o, x
  <2>. QED BY <1>1, <1>2, <1>3, <2>1, <2>2, RowWrite
<1>. QED BY <1>4, <1>5, <1>6, <1>7

LEMMA OtherStepsBooking ==
  ASSUME TypeOK, Booking,
         UNCHANGED <<status, waybill, lock, wk, booked, lost>>
  PROVE  Booking'
BY QuietStep DEF QuietMove

LEMMA NextBooking == TypeOK /\ Booking /\ [Next]_vars => Booking'
<1> SUFFICES ASSUME TypeOK, Booking, [Next]_vars PROVE Booking'
  OBVIOUS
<1>1. ASSUME NEW w \in Workers, WorkerStep(w) PROVE Booking'
  <2>1. CASE Progress(w)
    BY <2>1, LockOrderBooking, CarrierAcceptsBooking, CallFailsBooking,
       WriteFailureBooking, CompleteBooking, CompleteFailsBooking,
       ReadPostingBooking, PersistBooking, RetryClaimBooking, QuietBooking
    DEF Progress
  <2>. QED BY <1>1, <2>1, CrashBooking, QuietBooking
           DEF WorkerStep, PollPick, StreamPick
<1>2. ASSUME NEW s \in Sessions, SessionStep(s) PROVE Booking'
  <2>1. CASE EnqueueWrite(s) \/ CancelWrite(s) \/ MarkWrite(s) \/ OverrideWrite(s)
    BY <2>1, WritesBooking
  <2>2. CASE CancelAtCarrier(s) \/ Abandon(s)
    BY <2>2, OtherStepsBooking DEF CancelAtCarrier, Abandon, DbVars, CarrierVars
  <2>3. ASSUME NEW o \in Orders,
               \/ EnqueueRead(s, o) \/ CancelRead(s, o) \/ MarkRead(s, o)
               \/ \E target \in OverrideTargets : OverrideRead(s, o, target)
        PROVE  Booking'
    BY <2>3, OtherStepsBooking
    DEF EnqueueRead, CancelRead, MarkRead, OverrideRead, DbVars, CarrierVars
  <2>. QED BY <1>2, <2>1, <2>2, <2>3 DEF SessionStep
<1>3. ASSUME NEW o \in Orders, Reschedule(o) PROVE Booking'
  BY <1>3, OtherStepsBooking DEF Reschedule, DbVars
<1>4. ASSUME NEW o \in Orders, NEW i \in Slots, ComesDue(o, i) PROVE Booking'
  BY <1>4, OtherStepsBooking DEF ComesDue, CarrierVars
<1>5. CASE UNCHANGED vars
  BY <1>5, OtherStepsBooking DEF vars
<1>. QED BY <1>1, <1>2, <1>3, <1>4, <1>5 DEF Next

\* The booking invariant holds in every reachable state: the row lock, the
\* waybill guard and the numbers in workers' hands account for every invoice.
THEOREM BookingCorrect == Spec => []BookingInv
<1>1. Init => TypeOK /\ Booking
  BY InitTypeOK, InitBooking
<1>2. TypeOK /\ Booking /\ [Next]_vars => (TypeOK /\ Booking)'
  BY NextTypeOK, NextBooking
<1>3. TypeOK /\ Booking => BookingInv
  BY DEF Booking, BookingInv
<1>. QED BY <1>1, <1>2, <1>3, PTL DEF Spec

\* The carrier is never called for an order that has left the queue, however
\* customers, staff and other workers interleave (SELECT ... FOR UPDATE held
\* across the call in _process_job).
THEOREM CallsAreLocked == Spec => []CallUnderLock
<1>1. BookingInv => CallUnderLock
  BY DEF BookingInv
<1>. QED BY <1>1, BookingCorrect, PTL

\* No order is booked twice at the carrier unless the number of an earlier
\* invoice was lost before it was recorded.
THEOREM NoNeedlessDuplicate == Spec => []DuplicateOnlyAfterLoss
<1>1. BookingInv => DuplicateOnlyAfterLoss
  BY DEF BookingInv
<1>. QED BY <1>1, BookingCorrect, PTL

\* An order in sent_to_carrier has an invoice or a number typed in by staff.
THEOREM SentOrdersAreBooked == Spec => []SentWasBooked
<1>1. BookingInv => SentWasBooked
  BY DEF BookingInv
<1>. QED BY <1>1, BookingCorrect, PTL

-----------------------------------------------------------------------------
(* Dispatch implements CarrierBooking under the refinement mapping phase:   *)
(* every step of the interleaved workers, requests and crashes is a step of  *)
(* the abstract booking of one order, or leaves it alone.                    *)

\* The number of the order is in the hands of a worker that holds its lock.
Held(o) ==
  \E w \in Workers : /\ wk[w].pc = "completing" /\ wk[w].ord = o
                     /\ wk[w].got # NoWaybill

PhaseOf(o) ==
  IF waybill[o] # NoWaybill THEN "recorded"
  ELSE IF Held(o) THEN "held" ELSE IF lost[o] THEN "lost" ELSE "open"

LEMMA PhaseValue ==
  /\ phase = [o \in Orders |-> PhaseOf(o)]
  /\ phase' = [o \in Orders |-> PhaseOf(o)']
BY DEF phase, PhaseOf, Held

\* What the abstract module allows, order by order.
Stutter == UNCHANGED <<phase, booked>>

LEMMA PhaseUpdate ==
  ASSUME NEW o \in Orders, NEW x, PhaseOf(o)' = x,
         \A p \in Orders : p # o => PhaseOf(p)' = PhaseOf(p)
  PROVE  phase' = [phase EXCEPT ![o] = x]
<1>1. \A p \in Orders : phase'[p] = [phase EXCEPT ![o] = x][p]
  BY PhaseValue
<1>. QED BY <1>1, PhaseValue

LEMMA InitRefines == Init => CB!Init
<1> SUFFICES ASSUME Init PROVE CB!Init
  OBVIOUS
<1>1. \A o \in Orders : waybill[o] = NoWaybill /\ ~lost[o]
  BY DEF Init
<1>2. \A w \in Workers : wk[w].pc = "idle"
  BY IdlePc DEF Init
<1>3. \A o \in Orders : PhaseOf(o) = "open"
  BY <1>1, <1>2 DEF PhaseOf, Held
<1>4. booked = [o \in Orders |-> 0]
  BY DEF Init
<1>. QED BY <1>3, <1>4, PhaseValue DEF CB!Init

\* Steps in which no worker takes or drops a number and nothing is recorded.
LEMMA QuietRefines ==
  ASSUME QuietMove, UNCHANGED <<waybill, lost, booked>>
  PROVE  Stutter
<1>1. \A o \in Orders : Held(o)' <=> Held(o)
  BY DEF QuietMove, Held
<1>2. \A o \in Orders : PhaseOf(o)' = PhaseOf(o)
  BY <1>1 DEF PhaseOf
<1>. QED BY <1>2, PhaseValue DEF Stutter

\* A quiet step that stores a number: Record, or a stutter if there was one.
LEMMA RecordRefines ==
  ASSUME TypeOK, QuietMove, UNCHANGED <<lost, booked>>, NEW o \in Orders, NEW y,
         waybill' = [waybill EXCEPT ![o] = y],
         waybill[o] # NoWaybill => y # NoWaybill
  PROVE  CB!Record(o) \/ Stutter
<1>1. waybill \in [Orders -> Waybills]
  BY DEF TypeOK, RowsOK
<1>2. \A p \in Orders : Held(p)' <=> Held(p)
  BY DEF QuietMove, Held
<1>3. \A p \in Orders : p # o => PhaseOf(p)' = PhaseOf(p)
  BY <1>1, <1>2 DEF PhaseOf
<1>4. CASE PhaseOf(o)' = PhaseOf(o)
  BY <1>3, <1>4, PhaseValue DEF Stutter
<1>5. CASE PhaseOf(o)' # PhaseOf(o)
  <2>1. PhaseOf(o)' = "recorded" /\ PhaseOf(o) # "recorded"
    BY <1>1, <1>2, <1>5 DEF PhaseOf
  <2>. QED BY <1>3, <2>1, PhaseUpdate, PhaseValue DEF CB!Record
<1>. QED BY <1>4, <1>5

LEMMA CarrierAcceptsRefines ==
  ASSUME TypeOK, Booking, NEW w \in Workers, NEW numbered \in BOOLEAN,
         CarrierAccepts(w, numbered)
  PROVE  CB!Book(wk[w].ord)
<1>0. PICK o \in Orders : o = wk[w].ord
  BY WorkerFields DEF CarrierAccepts, CarrierAcceptsAndRaises, CarrierRefuses
<1>1. /\ wk[w].pc = "calling" /\ waybill[o] = NoWaybill
      /\ booked \in [Orders -> 0..MaxBookings] /\ lost \in [Orders -> BOOLEAN]
  BY <1>0 DEF CarrierAccepts, Booking, OpenWhileCalling, TypeOK, CarrierOK
<1>2. /\ \A v \in Workers \ {w} : wk'[v] = wk[v]
      /\ wk'[w].ord = o /\ wk'[w].pc = "completing"
      /\ wk'[w].got = IF numbered THEN booked[o] + 1 ELSE NoWaybill
  BY <1>0 DEF TypeOK, WorkersOK, WorkerRecords, CarrierAccepts
<1>3. /\ waybill' = waybill /\ booked' = [booked EXCEPT ![o] = @ + 1]
      /\ lost' = [lost EXCEPT ![o] = @ \/ ~numbered]
  BY <1>0 DEF CarrierAccepts, Book, DbVars
<1>4. \A v \in Workers : wk[v].pc \in {"calling", "completing"} /\ wk[v].ord = o => v = w
  BY <1>0, <1>1, AloneOnOrder
<1>5. PhaseOf(o) \in {"open", "lost"}
  BY <1>1, <1>4 DEF PhaseOf, Held
<1>6. PhaseOf(o)' \in {"held", "lost"}
  <2>1. CASE numbered
    <3>1. wk'[w].got # NoWaybill
      BY <1>1, <1>2, <2>1 DEF NoWaybill
    <3>2. Held(o)'
      BY <1>2, <3>1 DEF Held
    <3>. QED BY <1>1, <1>3, <3>2 DEF PhaseOf
  <2>2. CASE ~numbered
    <3>1. lost'[o]
      BY <1>1, <1>3, <2>2
    <3>. QED BY <1>1, <1>3, <3>1 DEF PhaseOf
  <2>. QED BY <2>1, <2>2
<1>7. \A p \in Orders : p # o => PhaseOf(p)' = PhaseOf(p)
  <2>1. \A p \in Orders : p # o => (Held(p)' <=> Held(p))
    BY <1>0, <1>1, <1>2 DEF Held
  <2>. QED BY <1>1, <1>3, <2>1 DEF PhaseOf
<1>8. phase' = [phase EXCEPT ![o] = PhaseOf(o)'] /\ phase[o] = PhaseOf(o)
  BY <1>1, <1>7, PhaseUpdate, PhaseValue
<1>. QED BY <1>0, <1>3, <1>5, <1>6, <1>8 DEF CB!Book

LEMMA CallFailsRefines ==
  ASSUME TypeOK, Booking, NEW w \in Workers,
         CarrierAcceptsAndRaises(w) \/ \E perm \in BOOLEAN : CarrierRefuses(w, perm)
  PROVE  CB!Book(wk[w].ord) \/ Stutter
<1>0. PICK o \in Orders : o = wk[w].ord
  BY WorkerFields DEF CarrierAccepts, CarrierAcceptsAndRaises, CarrierRefuses
<1>1. /\ wk[w].pc = "calling" /\ waybill[o] = NoWaybill
      /\ booked \in [Orders -> 0..MaxBookings] /\ lost \in [Orders -> BOOLEAN]
  BY <1>0
  DEF CarrierAcceptsAndRaises, CarrierRefuses, Booking, OpenWhileCalling, TypeOK, CarrierOK
<1>2. /\ \A v \in Workers \ {w} : wk'[v] = wk[v]
      /\ wk'[w].pc = "failing"
  BY DEF TypeOK, WorkersOK, WorkerRecords, CarrierAcceptsAndRaises, CarrierRefuses
<1>3. waybill' = waybill
  BY DEF CarrierAcceptsAndRaises, CarrierRefuses, DbVars
<1>4. \A p \in Orders : Held(p)' <=> Held(p)
  BY <1>1, <1>2 DEF Held
<1>5. CASE UNCHANGED <<booked, lost>>
  <2>1. \A p \in Orders : PhaseOf(p)' = PhaseOf(p)
    BY <1>3, <1>4, <1>5 DEF PhaseOf
  <2>. QED BY <1>5, <2>1, PhaseValue DEF Stutter
<1>6. CASE booked' = [booked EXCEPT ![o] = @ + 1] /\ lost' = [lost EXCEPT ![o] = TRUE]
  <2>1. \A v \in Workers : wk[v].pc \in {"calling", "completing"} /\ wk[v].ord = o => v = w
    BY <1>0, <1>1, AloneOnOrder
  <2>2. ~Held(o)
    BY <1>1, <2>1 DEF Held
  <2>3. PhaseOf(o) \in {"open", "lost"} /\ PhaseOf(o)' = "lost"
    BY <1>1, <1>3, <1>4, <1>6, <2>2 DEF PhaseOf
  <2>4. \A p \in Orders : p # o => PhaseOf(p)' = PhaseOf(p)
    BY <1>1, <1>3, <1>4, <1>6 DEF PhaseOf
  <2>5. phase' = [phase EXCEPT ![o] = "lost"] /\ phase[o] = PhaseOf(o)
    BY <1>1, <2>3, <2>4, PhaseUpdate, PhaseValue
  <2>. QED BY <1>0, <1>6, <2>3, <2>5 DEF CB!Book
<1>. QED BY <1>0, <1>5, <1>6 DEF CarrierAcceptsAndRaises, CarrierRefuses, Book, CarrierVars

LEMMA LockOrderRefines ==
  ASSUME TypeOK, NEW w \in Workers, LockOrder(w) PROVE Stutter
<1>0. PICK o \in Orders : o = wk[w].ord
  BY WorkerFields DEF LockOrder
<1>1. UNCHANGED <<waybill, lost, booked>> /\ wk[w].pc = "claimed"
  BY DEF LockOrder, CarrierVars
<1>2. CASE status[o] # "dispatch_queued"
  <2>1. QuietMove
    BY <1>0, <1>2, IdlePc, WorkerRecord DEF QuietMove, LockOrder
  <2>. QED BY <1>1, <2>1, QuietRefines
<1>3. CASE status[o] = "dispatch_queued"
  <2>1. /\ \A v \in Workers \ {w} : wk'[v] = wk[v]
        /\ wk'[w].ord = o
        /\ wk'[w].pc = IF waybill[o] # NoWaybill THEN "completing" ELSE "calling"
    BY <1>0, <1>3 DEF TypeOK, WorkersOK, WorkerRecords, LockOrder
  <2>2. \A p \in Orders : p # o \/ waybill[o] = NoWaybill => (Held(p)' <=> Held(p))
    BY <1>0, <1>1, <2>1 DEF Held
  <2>3. \A p \in Orders : PhaseOf(p)' = PhaseOf(p)
    BY <1>1, <2>2 DEF PhaseOf
  <2>. QED BY <1>1, <2>3, PhaseValue DEF Stutter
<1>. QED BY <1>2, <1>3

LEMMA CompleteRefines ==
  ASSUME TypeOK, Booking, NEW w \in Workers, Complete(w)
  PROVE  CB!Record(wk[w].ord) \/ Stutter
<1>0. PICK o \in Orders : o = wk[w].ord
  BY WorkerFields DEF Complete
<1>1. /\ wk[w].pc = "completing" /\ UNCHANGED <<booked, lost>>
      /\ waybill \in [Orders -> Waybills]
      /\ waybill' = [waybill EXCEPT ![o] = IF wk[w].got # NoWaybill THEN wk[w].got ELSE @]
  BY <1>0 DEF Complete, CarrierVars, TypeOK, RowsOK
<1>2. /\ \A v \in Workers \ {w} : wk'[v] = wk[v]
      /\ wk'[w].pc = "idle"
  BY IdlePc, WorkerRecord DEF Complete
<1>3. \A v \in Workers : wk[v].pc \in {"calling", "completing"} /\ wk[v].ord = o => v = w
  BY <1>0, <1>1, AloneOnOrder
<1>4. \A p \in Orders : p # o => (Held(p)' <=> Held(p)) /\ waybill'[p] = waybill[p]
  BY <1>0, <1>1, <1>2 DEF Held
<1>5. \A p \in Orders : p # o => PhaseOf(p)' = PhaseOf(p)
  BY <1>1, <1>4 DEF PhaseOf
<1>6. CASE waybill'[o] = waybill[o] /\ (waybill[o] # NoWaybill \/ wk[w].got = NoWaybill)
  <2>1. waybill[o] = NoWaybill => ~Held(o) /\ ~Held(o)'
    BY <1>2, <1>3, <1>6 DEF Held
  <2>2. PhaseOf(o)' = PhaseOf(o)
    BY <1>1, <1>6, <2>1 DEF PhaseOf
  <2>. QED BY <1>1, <1>5, <2>2, PhaseValue DEF Stutter
<1>7. CASE wk[w].got # NoWaybill
  <2>1. PhaseOf(o)' = "recorded"
    BY <1>1, <1>7 DEF PhaseOf
  <2>2. CASE PhaseOf(o) = "recorded"
    BY <1>1, <1>5, <2>1, <2>2, PhaseValue DEF Stutter
  <2>3. CASE PhaseOf(o) # "recorded"
    BY <1>0, <1>1, <1>5, <2>1, <2>3, PhaseUpdate, PhaseValue DEF CB!Record
  <2>. QED BY <2>2, <2>3
<1>. QED BY <1>1, <1>6, <1>7

\* A worker that holds the lock gives up: Lose, if it held a number that was
\* not stored.
LEMMA GiveUpRefines ==
  ASSUME TypeOK, Booking, NEW w \in Workers, wk[w].pc \in {"calling", "completing"},
         \A v \in Workers \ {w} : wk'[v] = wk[v],
         wk'[w].pc \notin {"calling", "completing"},
         UNCHANGED <<waybill, booked>>, NEW o \in Orders, o = wk[w].ord,
         \A p \in Orders : p # o => lost'[p] = lost[p],
         wk[w].pc = "calling" => lost' = lost,
         wk[w].pc = "completing" => lost'[o] = (lost[o] \/ waybill[o] = NoWaybill)
  PROVE  CB!Lose(o) \/ Stutter
<1>1. \A v \in Workers : wk[v].pc \in {"calling", "completing"} /\ wk[v].ord = o => v = w
  BY AloneOnOrder
<1>2. \A p \in Orders : p # o => (Held(p)' <=> Held(p))
  BY DEF Held
<1>3. \A p \in Orders : p # o => PhaseOf(p)' = PhaseOf(p)
  BY <1>2 DEF PhaseOf
<1>4. ~Held(o)'
  BY <1>1 DEF Held
<1>5. CASE waybill[o] # NoWaybill
  <2>1. PhaseOf(o)' = PhaseOf(o)
    BY <1>5 DEF PhaseOf
  <2>. QED BY <1>3, <2>1, PhaseValue DEF Stutter
<1>6. CASE waybill[o] = NoWaybill /\ wk[w].pc = "calling"
  <2>1. ~Held(o)
    BY <1>1, <1>6 DEF Held
  <2>2. PhaseOf(o)' = PhaseOf(o)
    BY <1>4, <1>6, <2>1 DEF PhaseOf
  <2>. QED BY <1>3, <2>2, PhaseValue DEF Stutter
<1>7. CASE waybill[o] = NoWaybill /\ wk[w].pc = "completing"
  <2>1. lost'[o] /\ PhaseOf(o)' = "lost"
    BY <1>4, <1>7 DEF PhaseOf
  <2>2. CASE Held(o)
    <3>1. PhaseOf(o) = "held"
      BY <1>7, <2>2 DEF PhaseOf
    <3>. QED BY <1>3, <2>1, <3>1, PhaseUpdate, PhaseValue DEF CB!Lose
  <2>3. CASE ~Held(o)
    <3>1. wk[w].got = NoWaybill
      BY <1>7, <2>3 DEF Held
    <3>2. lost[o]
      BY <1>7, <2>3, <3>1 DEF Booking, NumbersHaveOrigin, NumberRecordedHeldOrLost, Held
    <3>3. PhaseOf(o)' = PhaseOf(o)
      BY <1>7, <2>1, <2>3, <3>2 DEF PhaseOf
    <3>. QED BY <1>3, <3>3, PhaseValue DEF Stutter
  <2>. QED BY <2>2, <2>3
<1>. QED BY <1>5, <1>6, <1>7

LEMMA CompleteFailsRefines ==
  ASSUME TypeOK, Booking, NEW w \in Workers, CompleteFails(w)
  PROVE  CB!Lose(wk[w].ord) \/ Stutter
<1>0. PICK o \in Orders : o = wk[w].ord
  BY WorkerFields DEF CompleteFails
<1>1. /\ wk'[w].pc = "posting" /\ \A v \in Workers \ {w} : wk'[v] = wk[v]
      /\ wk[w].pc = "completing" /\ UNCHANGED <<waybill, booked>>
  BY DEF TypeOK, WorkersOK, WorkerRecords, CompleteFails
<1>2. /\ lost'[o] = (lost[o] \/ waybill[o] = NoWaybill)
      /\ \A p \in Orders : p # o => lost'[p] = lost[p]
  BY <1>0 DEF CompleteFails, TypeOK, CarrierOK
<1>. QED BY <1>0, <1>1, <1>2, GiveUpRefines

LEMMA CrashRefines ==
  ASSUME TypeOK, Booking, NEW w \in Workers, Crash(w)
  PROVE  CB!Lose(wk[w].ord) \/ Stutter
<1>0. PICK o \in Orders : o = wk[w].ord
  BY WorkerFields DEF Crash
<1>1. /\ wk'[w].pc = "idle" /\ \A v \in Workers \ {w} : wk'[v] = wk[v]
      /\ UNCHANGED <<waybill, booked>>
  BY IdlePc, WorkerRecord DEF Crash, DbVars
<1>2. CASE wk[w].pc \in {"calling", "completing"}
  <2>1. /\ wk[w].pc = "calling" => lost' = lost
        /\ wk[w].pc = "completing" => lost'[o] = (lost[o] \/ waybill[o] = NoWaybill)
        /\ \A p \in Orders : p # o => lost'[p] = lost[p]
    BY <1>0 DEF Crash, TypeOK, CarrierOK
  <2>. QED BY <1>0, <1>1, <1>2, <2>1, GiveUpRefines
<1>3. CASE wk[w].pc \notin {"calling", "completing"}
  <2>1. QuietMove /\ lost' = lost
    BY <1>1, <1>3 DEF QuietMove, Crash
  <2>. QED BY <1>1, <2>1, QuietRefines
<1>. QED BY <1>2, <1>3

LEMMA ReadPostingRefines ==
  ASSUME TypeOK, NEW w \in Workers, ReadPosting(w) PROVE Stutter
<1>1. /\ \A v \in Workers \ {w} : wk'[v] = wk[v]
      /\ wk[w].pc = "posting" /\ wk'[w].pc = "persisting"
  BY DEF TypeOK, WorkersOK, WorkerRecords, ReadPosting
<1>2. UNCHANGED <<waybill, booked, lost>>
  BY DEF ReadPosting, DbVars, CarrierVars
<1>3. \A p \in Orders : Held(p)' <=> Held(p)
  BY <1>1 DEF Held
<1>4. \A p \in Orders : PhaseOf(p)' = PhaseOf(p)
  BY <1>2, <1>3 DEF PhaseOf
<1>. QED BY <1>2, <1>4, PhaseValue DEF Stutter

LEMMA PersistRefines ==
  ASSUME TypeOK, NEW w \in Workers, Persist(w)
  PROVE  CB!Record(wk[w].ord) \/ Stutter
<1>0. PICK o \in Orders : o = wk[w].ord
  BY WorkerFields DEF Persist
<1> DEFINE y == IF wk[w].got # NoWaybill THEN wk[w].got ELSE waybill[o]
<1>1. /\ waybill' = [waybill EXCEPT ![o] = y] /\ (waybill[o] # NoWaybill => y # NoWaybill)
      /\ UNCHANGED <<lost, booked>>
  BY <1>0 DEF Persist, CarrierVars
<1>2. QuietMove
  BY WorkerQuiet
<1>3. CB!Record(o) \/ Stutter
  <2> HIDE DEF y
  <2>. QED BY <1>1, <1>2, RecordRefines
<1>. QED BY <1>0, <1>3

LEMMA SessionRefines ==
  ASSUME TypeOK, NEW s \in Sessions, SessionStep(s)
  PROVE  Stutter \/ \E o \in Orders : CB!Record(o)
<1>1. QuietMove /\ UNCHANGED <<lost, booked>>
  BY DEF SessionStep, EnqueueRead, EnqueueWrite, CancelRead, CancelAtCarrier, CancelWrite,
         MarkRead, MarkWrite, OverrideRead, OverrideWrite, Abandon, QuietMove, CarrierVars
<1>2. CASE MarkWrite(s)
  <2>1. se[s].ord \in Orders
    BY <1>2, SessionFields DEF MarkWrite
  <2>2. /\ waybill' = [waybill EXCEPT ![se[s].ord] = ManualWaybill]
        /\ ManualWaybill # NoWaybill
    BY <1>2 DEF MarkWrite, ManualWaybill, NoWaybill
  <2>. QED BY <1>1, <2>1, <2>2, RecordRefines
<1>3. CASE ~MarkWrite(s)
  <2>1. waybill' = waybill
    BY <1>3 DEF SessionStep, EnqueueRead, EnqueueWrite, CancelRead, CancelAtCarrier,
                CancelWrite, MarkRead, OverrideRead, OverrideWrite, Abandon, DbVars
  <2>. QED BY <1>1, <2>1, QuietRefines
<1>. QED BY <1>2, <1>3

LEMMA NextRefines ==
  TypeOK /\ Booking /\ [Next]_vars => CB!Next \/ Stutter
<1> SUFFICES ASSUME TypeOK, Booking, [Next]_vars PROVE CB!Next \/ Stutter
  OBVIOUS
<1>1. ASSUME NEW w \in Workers, WorkerStep(w) PROVE CB!Next \/ Stutter
  <2>1. CASE \/ LockOrder(w) \/ ReadPosting(w)
    BY <2>1, LockOrderRefines, ReadPostingRefines
  <2>2. CASE \/ \E numbered \in BOOLEAN : CarrierAccepts(w, numbered)
             \/ CarrierAcceptsAndRaises(w)
             \/ \E perm \in BOOLEAN : CarrierRefuses(w, perm)
    <3>1. wk[w].ord \in Orders
      BY <2>2, WorkerFields DEF CarrierAccepts, CarrierAcceptsAndRaises, CarrierRefuses
    <3>. QED BY <2>2, <3>1, CarrierAcceptsRefines, CallFailsRefines DEF CB!Next
  <2>3. CASE Complete(w) \/ CompleteFails(w) \/ Crash(w) \/ Persist(w)
    <3>1. wk[w].ord \in Orders
      BY <2>3, WorkerFields DEF Complete, CompleteFails, Crash, Persist
    <3>. QED BY <2>3, <3>1, CompleteRefines, CompleteFailsRefines, CrashRefines,
                PersistRefines DEF CB!Next
  <2>4. CASE \/ Claim(w) \/ ReadFailure(w) \/ WriteFailure(w)
             \/ PersistFails(w) \/ RetryClaim(w)
             \/ \E o \in Orders : RetryRead(w, o)
             \/ \E o \in Orders, i \in Slots : Pick(w, o, i)
    <3>1. QuietMove
      BY <2>4, WorkerQuiet
    <3>2. UNCHANGED <<waybill, lost, booked>>
      BY <2>4 DEF Claim, ReadFailure, WriteFailure, PersistFails, RetryClaim, RetryRead,
                  Pick, DbVars, CarrierVars
    <3>. QED BY <3>1, <3>2, QuietRefines
  <2>. QED BY <1>1, <2>1, <2>2, <2>3, <2>4 DEF WorkerStep, Progress, PollPick, StreamPick
<1>2. ASSUME NEW s \in Sessions, SessionStep(s) PROVE CB!Next \/ Stutter
  BY <1>2, SessionRefines DEF CB!Next
<1>3. CASE \/ \E o \in Orders : Reschedule(o)
           \/ \E o \in Orders, i \in Slots : ComesDue(o, i)
           \/ UNCHANGED vars
  <2>1. QuietMove /\ UNCHANGED <<waybill, lost, booked>>
    BY <1>3 DEF Reschedule, ComesDue, vars, DbVars, CarrierVars, QuietMove
  <2>. QED BY <2>1, QuietRefines
<1>. QED BY <1>1, <1>2, <1>3 DEF Next

\* The interleaved dispatcher implements the abstract booking: an order is
\* booked at most once unless a number is lost (the promise in the docstring
\* of DispatchWorker._process_job).
THEOREM DispatchImplementsBooking == Spec => BooksOnce
<1>1. Spec => [](TypeOK /\ Booking)
  <2>1. TypeOK /\ Booking /\ [Next]_vars => (TypeOK /\ Booking)'
    BY NextTypeOK, NextBooking
  <2>. QED BY InitTypeOK, InitBooking, <2>1, PTL DEF Spec
<1>2. TypeOK /\ Booking /\ [Next]_vars => [CB!Next]_<<phase, booked>>
  BY NextRefines DEF Stutter
<1>. QED BY InitRefines, <1>1, <1>2, PTL DEF Spec, BooksOnce, CB!Spec

-----------------------------------------------------------------------------
(* The attempts of a job, and the job of an order in the queue.             *)

\* Worker w runs job i of order o: it will write what becomes of the job.
Active == {"claimed", "calling", "completing", "failing", "recording"}
On(w, o, i) == wk[w].pc \in Active /\ wk[w].ord = o /\ wk[w].slot = i

JobOK(j) ==
  /\ j.attempts <= MaxAttempts
  /\ j.st = "failed" => j.attempts # 0
  /\ j.st = "queued" => j.attempts < MaxAttempts

JobsOK == \A o \in Orders, i \in Slots : JobOK(job[o][i])

\* A job that is run is processing, unless a cancellation wrote it; its
\* counter is what the worker that records a failure has read.
AtWork ==
  \A w \in Workers, o \in Orders, i \in Slots : On(w, o, i) =>
    /\ job[o][i].st \in {"processing", "cancelled"} /\ job[o][i].attempts # 0
    /\ wk[w].pc = "recording" => /\ wk[w].att = job[o][i].attempts
                                 /\ wk[w].jseen \in {"processing", "cancelled"}

Alone ==
  \A v, w \in Workers, o \in Orders, i \in Slots : On(v, o, i) /\ On(w, o, i) => v = w

\* Worker w, in an admin's request, has read job i of order o as failed.
ReadFailed(w, o, i) ==
  wk[w].pc = "retry" /\ wk[w].jseen = "failed" /\ wk[w].ord = o /\ wk[w].slot = i

\* What a retry read as failed nobody runs, as long as it is the only retry.
RetriesOK ==
  /\ \A w \in Workers : wk[w].pc = "retry" => retries # 0
  /\ \A v, w \in Workers : wk[v].pc = "retry" /\ wk[w].pc = "retry" => v = w
  /\ \A w \in Workers, o \in Orders, i \in Slots : ReadFailed(w, o, i) =>
       /\ wk[w].att # 0 /\ job[o][i].st \in {"failed", "cancelled"}
       /\ \A v \in Workers : ~On(v, o, i)

JobInv == retries <= 1 => JobsOK /\ AtWork /\ Alone /\ RetriesOK

\* Worker w has order o in hand, and will surface a failure on it.
Mindful(w, o) ==
  /\ wk[w].ord = o
  /\ \/ wk[w].pc \in {"claimed", "calling", "completing", "failing", "posting"}
     \/ wk[w].pc \in {"recording", "persisting"} /\ wk[w].seen = "dispatch_queued"

Cared(o) ==
  \/ \E i \in Slots : job[o][i].st = "queued"
  \/ \E w \in Workers : Mindful(w, o)
  \/ o \in stranded \/ retries > 1 \/ "dispatch_queued" \in OverrideTargets

InHand == \A o \in Orders : status[o] = "dispatch_queued" => Cared(o)

\* Only worker w's record changes.
Only(w) == \A v \in Workers \ {w} : wk'[v] = wk[v]

\* A worker moves on and writes no job.
LEMMA MovesOn ==
  ASSUME TypeOK, JobInv, NEW w \in Workers, Only(w), UNCHANGED <<job, retries>>,
         \/ wk'[w].pc \notin Active \cup {"retry"}
         \/ /\ wk[w].pc \in Active /\ wk'[w].pc \in Active
            /\ wk'[w].ord = wk[w].ord /\ wk'[w].slot = wk[w].slot
            /\ wk'[w].pc = "recording" =>
                 /\ wk'[w].att = job[wk[w].ord][wk[w].slot].attempts
                 /\ wk'[w].jseen = job[wk[w].ord][wk[w].slot].st
  PROVE  JobInv'
<1> SUFFICES ASSUME retries <= 1 PROVE (JobsOK /\ AtWork /\ Alone /\ RetriesOK)'
  BY DEF JobInv
<1>1. \A v \in Workers, o \in Orders, i \in Slots : On(v, o, i)' => On(v, o, i)
  BY DEF On, Only
<1>2. \A v \in Workers : wk'[v].pc = "retry" => wk'[v] = wk[v]
  BY DEF Active, Only
<1>3. JobsOK'
  BY DEF JobInv, JobsOK, JobOK
<1>4. AtWork'
  <2> SUFFICES ASSUME NEW v \in Workers, NEW o \in Orders, NEW i \in Slots, On(v, o, i)'
               PROVE  /\ job[o][i].st \in {"processing", "cancelled"} /\ job[o][i].attempts # 0
                      /\ wk'[v].pc = "recording" =>
                           /\ wk'[v].att = job[o][i].attempts
                           /\ wk'[v].jseen \in {"processing", "cancelled"}
    BY DEF AtWork
  <2>1. On(v, o, i)
    BY <1>1
  <2>2. CASE v # w
    BY <2>1, <2>2 DEF JobInv, AtWork, Only
  <2>3. CASE v = w
    BY <2>1, <2>3 DEF JobInv, AtWork, On
  <2>4. QED BY <2>2, <2>3
<1>5. Alone'
  BY <1>1 DEF JobInv, Alone
<1>6. RetriesOK'
  BY <1>1, <1>2 DEF JobInv, RetriesOK, ReadFailed
<1>7. QED BY <1>3, <1>4, <1>5, <1>6

\* Worker w writes job i of order o, which no other worker runs.
LEMMA JobWritten ==
  ASSUME TypeOK, JobInv, NEW w \in Workers, Only(w), UNCHANGED retries,
         NEW o \in Orders, NEW i \in Slots, NEW j, job' = [job EXCEPT ![o][i] = j],
         retries <= 1 =>
           /\ JobOK(j)
           /\ \A v \in Workers \ {w} : ~On(v, o, i) /\ ~ReadFailed(v, o, i),
         \/ wk'[w].pc \notin Active \cup {"retry"}
         \/ /\ wk'[w].pc = "claimed" /\ wk'[w].ord = o /\ wk'[w].slot = i
            /\ j.st = "processing" /\ j.attempts # 0
  PROVE  JobInv'
<1> SUFFICES ASSUME retries <= 1 PROVE (JobsOK /\ AtWork /\ Alone /\ RetriesOK)'
  BY DEF JobInv
<1>0. /\ job'[o][i] = j
      /\ \A p \in Orders, k \in Slots : p # o \/ k # i => job'[p][k] = job[p][k]
  BY DEF TypeOK, RowsOK
<1>1. \A v \in Workers, p \in Orders, k \in Slots : On(v, p, k)' =>
        \/ v # w /\ On(v, p, k) /\ (p # o \/ k # i)
        \/ v = w /\ p = o /\ k = i /\ wk'[w].pc = "claimed"
  BY DEF On, Only
<1>2. \A v \in Workers : wk'[v].pc = "retry" => v # w /\ wk'[v] = wk[v]
  BY DEF Active, Only
<1>3. JobsOK'
  BY <1>0 DEF JobInv, JobsOK, JobOK
<1>4. AtWork'
  <2> SUFFICES ASSUME NEW v \in Workers, NEW p \in Orders, NEW k \in Slots, On(v, p, k)'
               PROVE  /\ job'[p][k].st \in {"processing", "cancelled"} /\ job'[p][k].attempts # 0
                      /\ wk'[v].pc = "recording" =>
                           /\ wk'[v].att = job'[p][k].attempts
                           /\ wk'[v].jseen \in {"processing", "cancelled"}
    BY DEF AtWork
  <2>1. CASE v # w /\ On(v, p, k) /\ (p # o \/ k # i)
    BY <1>0, <2>1 DEF JobInv, AtWork, Only
  <2>2. CASE v = w /\ p = o /\ k = i /\ wk'[w].pc = "claimed"
    BY <1>0, <2>2 DEF Active
  <2>3. QED BY <1>1, <2>1, <2>2
<1>5. Alone'
  BY <1>1 DEF JobInv, Alone
<1>6. RetriesOK'
  <2>1. \A v \in Workers, p \in Orders, k \in Slots : ReadFailed(v, p, k)' =>
          ReadFailed(v, p, k) /\ (p # o \/ k # i)
    BY <1>2 DEF ReadFailed
  <2>2. \A v \in Workers, p \in Orders, k \in Slots : ReadFailed(v, p, k)' =>
          \A u \in Workers : ~On(u, p, k)'
    BY <1>1, <2>1 DEF JobInv, RetriesOK
  <2>3. \A v \in Workers, p \in Orders, k \in Slots : ReadFailed(v, p, k)' =>
          wk'[v].att # 0 /\ job'[p][k].st \in {"failed", "cancelled"}
    BY <1>0, <1>2, <2>1 DEF JobInv, RetriesOK, ReadFailed
  <2>4. /\ \A v \in Workers : wk'[v].pc = "retry" => retries' # 0
        /\ \A v, u \in Workers : wk'[v].pc = "retry" /\ wk'[u].pc = "retry" => v = u
    BY <1>2 DEF JobInv, RetriesOK
  <2>5. QED BY <2>2, <2>3, <2>4 DEF RetriesOK
<1>7. QED BY <1>3, <1>4, <1>5, <1>6

\* Who may write job i of order o has it to himself.
LEMMA Sole ==
  ASSUME TypeOK, JobInv, retries <= 1, NEW w \in Workers, NEW o \in Orders, NEW i \in Slots,
         \/ On(w, o, i)
         \/ job[o][i].st \in {"none", "queued"}
         \/ ReadFailed(w, o, i)
  PROVE  \A v \in Workers \ {w} : ~On(v, o, i) /\ ~ReadFailed(v, o, i)
<1>1. CASE On(w, o, i)
  BY <1>1 DEF JobInv, Alone, RetriesOK
<1>2. CASE job[o][i].st \in {"none", "queued"}
  BY <1>2 DEF JobInv, AtWork, RetriesOK
<1>3. CASE ReadFailed(w, o, i)
  BY <1>3 DEF JobInv, RetriesOK, ReadFailed
<1>4. QED BY <1>1, <1>2, <1>3

\* Requests cancel jobs that they have read, and make new ones.
LEMMA JobsWrittenByOthers ==
  ASSUME TypeOK, JobInv, UNCHANGED <<wk, retries>>,
         \A o \in Orders, i \in Slots :
           \/ /\ job'[o][i].attempts = job[o][i].attempts
              /\ job'[o][i].st \in {job[o][i].st, "cancelled"}
           \/ job[o][i].st = "none" /\ job'[o][i] = NewJob
  PROVE  JobInv'
<1> SUFFICES ASSUME retries <= 1 PROVE (JobsOK /\ AtWork /\ Alone /\ RetriesOK)'
  BY DEF JobInv
<1>1. \A v \in Workers, o \in Orders, i \in Slots :
        (On(v, o, i)' <=> On(v, o, i)) /\ (ReadFailed(v, o, i)' <=> ReadFailed(v, o, i))
  BY DEF On, ReadFailed
<1>2. JobOK(NewJob)
  BY DEF JobOK, NewJob
<1>3. JobsOK'
  <2> SUFFICES ASSUME NEW o \in Orders, NEW i \in Slots PROVE JobOK(job'[o][i])
    BY DEF JobsOK, JobOK
  <2>1. JobOK(job[o][i])
    BY DEF JobInv, JobsOK
  <2>2. QED BY <1>2, <2>1 DEF JobOK
<1>4. \A v \in Workers, o \in Orders, i \in Slots : On(v, o, i) \/ ReadFailed(v, o, i) =>
        job[o][i].st # "none"
  BY DEF JobInv, AtWork, RetriesOK
<1>5. AtWork'
  BY <1>1, <1>4 DEF JobInv, AtWork
<1>6. Alone'
  BY <1>1 DEF JobInv, Alone
<1>7. RetriesOK'
  BY <1>1, <1>4 DEF JobInv, RetriesOK
<1>8. QED BY <1>3, <1>5, <1>6, <1>7

\* A worker's fields after it has moved on.
LEMMA StillOn ==
  ASSUME TypeOK, NEW w \in Workers, NEW pc \in WorkerPcs, wk[w].pc # "idle",
         \/ wk' = [wk EXCEPT ![w].pc = pc]
         \/ \E got \in Waybills : wk' = [wk EXCEPT ![w].pc = pc, ![w].got = got]
         \/ \E perm \in BOOLEAN : wk' = [wk EXCEPT ![w].pc = pc, ![w].perm = perm]
         \/ \E seen \in Statuses : wk' = [wk EXCEPT ![w].pc = pc, ![w].seen = seen]
  PROVE  /\ Only(w) /\ wk'[w].pc = pc /\ wk'[w].ord = wk[w].ord /\ wk'[w].slot = wk[w].slot
         /\ \A seen \in Statuses : wk' = [wk EXCEPT ![w].pc = pc, ![w].seen = seen] =>
              wk'[w].seen = seen
<1>1. wk[w] \in WorkerRecords /\ DOMAIN wk = Workers
  BY WorkerFields DEF TypeOK, WorkersOK
<1>2. QED BY <1>1 DEF Only, WorkerRecords

LEMMA GoesIdle ==
  ASSUME TypeOK, NEW w \in Workers, wk' = [wk EXCEPT ![w] = IdleWorker]
  PROVE  Only(w) /\ wk'[w].pc = "idle"
BY WorkerRecord, IdlePc DEF Only

LEMMA GoesTo ==
  ASSUME TypeOK, NEW w \in Workers, NEW pc, NEW o, NEW i,
         wk' = [wk EXCEPT ![w] = WorkerAt(pc, o, i)]
  PROVE  Only(w) /\ wk'[w].pc = pc /\ wk'[w].ord = o /\ wk'[w].slot = i
<1> DEFINE r == WorkerAt(pc, o, i)
<1>1. r.pc = pc /\ r.ord = o /\ r.slot = i
  BY DEF WorkerAt
<1> HIDE DEF r
<1>2. QED BY <1>1, WorkerRecord DEF Only, r

\* Orders that worker w does not work on are cared for as before.
LEMMA OtherOrders ==
  ASSUME TypeOK, InHand, NEW w \in Workers, Only(w), NEW o \in Orders,
         \A p \in Orders \ {o} :
           status'[p] = status[p] /\ job'[p] = job[p] /\ ~Mindful(w, p),
         stranded \subseteq stranded', retries' \in Nat, retries' >= retries,
         status'[o] = "dispatch_queued" => Cared(o)'
  PROVE  InHand'
<1> SUFFICES ASSUME NEW p \in Orders, status'[p] = "dispatch_queued", p # o PROVE Cared(p)'
  BY DEF InHand
<1>1. Cared(p)
  BY DEF InHand
<1>2. \A v \in Workers : Mindful(v, p) => Mindful(v, p)'
  BY DEF Mindful, Only
<1>3. retries \in Nat
  BY DEF TypeOK, BoundsOK
<1>4. QED BY <1>1, <1>2, <1>3 DEF Cared

\* The order of a worker that is not mindful of it is cared for as before.
LEMMA OrderStays ==
  ASSUME TypeOK, InHand, NEW w \in Workers, Only(w), NEW o \in Orders, ~Mindful(w, o),
         status'[o] = "dispatch_queued" => status[o] = "dispatch_queued",
         retries <= 1 => \A i \in Slots : job[o][i].st = "queued" => job'[o][i].st = "queued",
         stranded \subseteq stranded', retries' \in Nat, retries' >= retries
  PROVE  status'[o] = "dispatch_queued" => Cared(o)'
<1> SUFFICES ASSUME status'[o] = "dispatch_queued" PROVE Cared(o)'
  OBVIOUS
<1>1. Cared(o)
  BY DEF InHand
<1>2. \A v \in Workers : Mindful(v, o) => Mindful(v, o)'
  BY DEF Mindful, Only
<1>3. retries \in Nat
  BY DEF TypeOK, BoundsOK
<1>4. QED BY <1>1, <1>2, <1>3 DEF Cared

\* Requests keep what is queued, or take the order out of the queue.
LEMMA OthersKeepInHand ==
  ASSUME InHand, UNCHANGED <<wk, stranded, retries>>,
         \A o \in Orders : status'[o] = "dispatch_queued" =>
           \/ \E i \in Slots : job'[o][i].st = "queued"
           \/ "dispatch_queued" \in OverrideTargets
           \/ /\ status[o] = "dispatch_queued"
              /\ \A i \in Slots : job[o][i].st = "queued" => job'[o][i].st = "queued"
  PROVE  InHand'
<1> SUFFICES ASSUME NEW o \in Orders, status'[o] = "dispatch_queued" PROVE Cared(o)'
  BY DEF InHand
<1>1. CASE \/ \E i \in Slots : job'[o][i].st = "queued"
           \/ "dispatch_queued" \in OverrideTargets
  BY <1>1 DEF Cared
<1>2. CASE /\ status[o] = "dispatch_queued"
           /\ \A i \in Slots : job[o][i].st = "queued" => job'[o][i].st = "queued"
  <2>1. Cared(o)
    BY <1>2 DEF InHand
  <2>2. \A v \in Workers : Mindful(v, o) => Mindful(v, o)'
    BY DEF Mindful
  <2>3. QED BY <1>2, <2>1, <2>2 DEF Cared
<1>3. QED BY <1>1, <1>2

\* What holds of the queue, and is inductive.
QueueInv == TypeOK /\ JobInv /\ InHand

\* Workers that take a job, or move on without writing one.
LEMMA PickKeepsQueue ==
  ASSUME QueueInv, NEW w \in Workers, NEW o \in Orders, NEW i \in Slots, Pick(w, o, i)
  PROVE  (JobInv /\ InHand)'
<1>1. Only(w) /\ wk'[w].pc = "picked" /\ wk[w].pc = "idle"
      /\ UNCHANGED <<status, job, stranded, retries>>
  BY GoesTo DEF QueueInv, Pick, DbVars, Bounds
<1>2. JobInv'
  BY <1>1, MovesOn DEF QueueInv, Active
<1>3. retries \in Nat /\ \A p \in Orders : ~Mindful(w, p)
  BY <1>1 DEF QueueInv, TypeOK, BoundsOK, Mindful
<1>4. QED BY <1>1, <1>2, <1>3, OrderStays, OtherOrders DEF QueueInv

\* A worker in the midst of its work goes on with its order in hand.
LEMMA WorkKeepsQueue ==
  ASSUME QueueInv, NEW w \in Workers, wk[w].pc \in Active, Only(w),
         wk'[w].pc \in Active \cup {"posting"},
         wk'[w].ord = wk[w].ord, wk'[w].slot = wk[w].slot,
         UNCHANGED <<status, job, stranded, retries>>,
         wk'[w].pc = "recording" =>
           /\ wk'[w].att = job[wk[w].ord][wk[w].slot].attempts
           /\ wk'[w].jseen = job[wk[w].ord][wk[w].slot].st
           /\ wk'[w].seen = status[wk[w].ord]
  PROVE  (JobInv /\ InHand)'
<1>1. PICK o \in Orders : o = wk[w].ord
  BY WorkerFields DEF QueueInv, Active
<1>2. JobInv'
  BY MovesOn DEF QueueInv, Active
<1>3. status'[o] = "dispatch_queued" => Cared(o)'
  <2>1. status'[o] = "dispatch_queued" => Mindful(w, o)'
    BY <1>1 DEF Mindful, Active
  <2>2. QED BY <2>1 DEF Cared
<1>4. retries \in Nat /\ \A p \in Orders \ {o} : ~Mindful(w, p)
  BY <1>1 DEF Mindful, QueueInv, TypeOK, BoundsOK
<1>5. QED BY <1>2, <1>3, <1>4, OtherOrders DEF QueueInv

LEMMA CarrierCallKeepsQueue ==
  ASSUME QueueInv, NEW w \in Workers,
         \/ \E numbered \in BOOLEAN : CarrierAccepts(w, numbered)
         \/ CarrierAcceptsAndRaises(w)
         \/ \E perm \in BOOLEAN : CarrierRefuses(w, perm)
  PROVE  (JobInv /\ InHand)'
<1>0. wk[w].pc = "calling" /\ UNCHANGED <<status, job, stranded, retries>>
  BY DEF CarrierAccepts, CarrierAcceptsAndRaises, CarrierRefuses, DbVars, Bounds
<1>1. wk[w].ord \in Orders /\ booked[wk[w].ord] \in 0..MaxBookings
  BY <1>0, WorkerFields DEF QueueInv, TypeOK, CarrierOK
<1>2. PICK pc \in {"completing", "failing"} :
        \/ wk' = [wk EXCEPT ![w].pc = pc]
        \/ \E got \in Waybills : wk' = [wk EXCEPT ![w].pc = pc, ![w].got = got]
        \/ \E perm \in BOOLEAN : wk' = [wk EXCEPT ![w].pc = pc, ![w].perm = perm]
  <2>1. ASSUME NEW numbered \in BOOLEAN, CarrierAccepts(w, numbered)
        PROVE  \E got \in Waybills : wk' = [wk EXCEPT ![w].pc = "completing", ![w].got = got]
    <3> DEFINE got == IF numbered THEN booked[wk[w].ord] + 1 ELSE NoWaybill
    <3>1. got \in Waybills
      BY <1>1, <2>1 DEF CarrierAccepts, Book, Waybills, NoWaybill
    <3>2. wk' = [wk EXCEPT ![w].pc = "completing", ![w].got = got]
      BY <2>1 DEF CarrierAccepts
    <3> HIDE DEF got
    <3>3. QED BY <3>1, <3>2
  <2>2. CASE CarrierAcceptsAndRaises(w)
    BY <2>2 DEF CarrierAcceptsAndRaises
  <2>3. ASSUME NEW perm \in BOOLEAN, CarrierRefuses(w, perm)
        PROVE  wk' = [wk EXCEPT ![w].pc = "failing", ![w].perm = perm]
    BY <2>3 DEF CarrierRefuses
  <2>4. QED BY <2>1, <2>2, <2>3
<1>3. Only(w) /\ wk'[w].pc = pc /\ wk'[w].ord = wk[w].ord /\ wk'[w].slot = wk[w].slot
  <2>1. pc \in WorkerPcs /\ wk[w].pc # "idle" /\ TypeOK
    BY <1>0 DEF QueueInv, WorkerPcs
  <2>2. QED BY <1>2, <2>1, StillOn
<1>4. QED BY <1>0, <1>3, WorkKeepsQueue DEF Active

LEMMA ReadFailureKeepsQueue ==
  ASSUME QueueInv, NEW w \in Workers, ReadFailure(w)
  PROVE  (JobInv /\ InHand)'
<1> DEFINE o == wk[w].ord
           j == job[o][wk[w].slot]
<1>1. wk[w].pc = "failing" /\ UNCHANGED <<status, job, stranded, retries>>
  BY DEF ReadFailure, DbVars, Bounds
<1>2. wk' = [wk EXCEPT ![w].pc = "recording", ![w].seen = status[o],
                       ![w].jseen = j.st, ![w].att = j.attempts]
  BY DEF ReadFailure
<1>3. wk[w] \in WorkerRecords /\ DOMAIN wk = Workers
  BY WorkerFields DEF QueueInv, TypeOK, WorkersOK
<1>4. /\ Only(w) /\ wk'[w].pc = "recording" /\ wk'[w].ord = wk[w].ord
      /\ wk'[w].slot = wk[w].slot /\ wk'[w].seen = status[o] /\ wk'[w].jseen = j.st
      /\ wk'[w].att = j.attempts
  BY <1>2, <1>3 DEF Only, WorkerRecords
<1>5. QED BY <1>1, <1>4, WorkKeepsQueue DEF Active

\* The claim of a job, by the compare-and-set of a worker.
LEMMA ClaimKeepsQueue ==
  ASSUME QueueInv, NEW w \in Workers, Claim(w)
  PROVE  (JobInv /\ InHand)'
<1>a. PICK o \in Orders, i \in Slots : o = wk[w].ord /\ i = wk[w].slot
  BY WorkerFields DEF QueueInv, Claim
<1> DEFINE j == [st |-> "processing", attempts |-> job[o][i].attempts + 1, due |-> job[o][i].due]
<1>0. /\ wk[w].pc = "picked" /\ retries \in Nat
      /\ UNCHANGED <<status, stranded, retries>> /\ job[o][i].attempts \in Nat
  BY WorkerFields DEF QueueInv, TypeOK, RowsOK, JobRecords, BoundsOK, Claim, Bounds
<1>1. \A p \in Orders : ~Mindful(w, p)
  BY <1>0 DEF Mindful
<1>2. CASE job[o][i].st = "queued"
  <2>1. job' = [job EXCEPT ![o][i] = j] /\ wk' = [wk EXCEPT ![w].pc = "claimed"]
    BY <1>a, <1>2 DEF Claim
  <2>2. Only(w) /\ wk'[w].pc = "claimed" /\ wk'[w].ord = o /\ wk'[w].slot = i
    BY <1>a, <1>0, <2>1, StillOn DEF QueueInv, WorkerPcs
  <2>3. j.st = "processing" /\ j.attempts # 0 /\ j.attempts = job[o][i].attempts + 1
    BY <1>0
  <2>4. retries <= 1 => JobOK(j)
    BY <1>0, <1>2, <2>3 DEF QueueInv, JobInv, JobsOK, JobOK
  <2>5. retries <= 1 => \A v \in Workers \ {w} : ~On(v, o, i) /\ ~ReadFailed(v, o, i)
    BY <1>0, <1>2, Sole DEF QueueInv
  <2>6. Cared(o)' /\ \A p \in Orders \ {o} : job'[p] = job[p]
    <3>1. \A p \in Orders \ {o} : job'[p] = job[p]
      BY <1>0, <2>1 DEF QueueInv, TypeOK, RowsOK
    <3>2. Mindful(w, o)'
      BY <2>2 DEF Mindful
    <3>3. QED BY <3>1, <3>2 DEF Cared
  <2> HIDE DEF j
  <2>7. JobInv'
    <3>1. TypeOK /\ JobInv /\ UNCHANGED retries /\ j.st = "processing" /\ j.attempts # 0
      BY <1>0, <2>3 DEF QueueInv
    <3>2. job' = [job EXCEPT ![o][i] = j]
      BY <2>1
    <3>3. QED BY <2>2, <2>4, <2>5, <3>1, <3>2, JobWritten
  <2>8. InHand'
    BY <1>0, <1>1, <2>2, <2>6, OtherOrders DEF QueueInv
  <2>9. QED BY <2>7, <2>8
<1>3. CASE job[o][i].st # "queued"
  <2>1. UNCHANGED job /\ Only(w) /\ wk'[w].pc = "idle"
    BY <1>a, <1>3, GoesIdle DEF QueueInv, Claim
  <2>2. JobInv'
    BY <1>0, <2>1, MovesOn DEF QueueInv, Active
  <2>3. QED BY <1>0, <1>1, <2>1, <2>2, OrderStays, OtherOrders DEF QueueInv
<1>4. QED BY <1>2, <1>3

\* A worker writes the job it runs, and leaves it.
LEMMA LeavesJob ==
  ASSUME QueueInv, NEW w \in Workers, NEW o \in Orders, NEW i \in Slots, On(w, o, i), Only(w),
         wk'[w].pc \in {"idle", "posting"}, UNCHANGED <<stranded, retries>>,
         NEW j, job' = [job EXCEPT ![o][i] = j],
         j.attempts = job[o][i].attempts,
         retries <= 1 /\ j.st = "queued" => j.attempts < MaxAttempts,
         \A p \in Orders \ {o} : status'[p] = status[p],
         status'[o] = "dispatch_queued" => Cared(o)'
  PROVE  (JobInv /\ InHand)'
<1>1. retries <= 1 => JobOK(j)
  BY DEF QueueInv, JobInv, JobsOK, AtWork, JobOK
<1>2. retries <= 1 => \A v \in Workers \ {w} : ~On(v, o, i) /\ ~ReadFailed(v, o, i)
  BY Sole DEF QueueInv
<1>3. JobInv'
  BY <1>1, <1>2, JobWritten DEF QueueInv, Active
<1>4. /\ retries \in Nat /\ \A p \in Orders \ {o} : ~Mindful(w, p)
      /\ \A p \in Orders \ {o} : job'[p] = job[p]
  BY DEF On, Mindful, QueueInv, TypeOK, BoundsOK, RowsOK
<1>5. QED BY <1>3, <1>4, OtherOrders DEF QueueInv

LEMMA StatusWritten ==
  ASSUME TypeOK, NEW o \in Orders, NEW i \in Slots, NEW st \in JobStates
  PROVE  \E j : /\ [job EXCEPT ![o][i].st = st] = [job EXCEPT ![o][i] = j]
                /\ j.st = st /\ j.attempts = job[o][i].attempts
<1> DEFINE j == [job[o][i] EXCEPT !.st = st]
<1>1. job[o][i] \in JobRecords
  BY DEF TypeOK, RowsOK
<1>2. [job EXCEPT ![o][i].st = st] = [job EXCEPT ![o][i] = j]
  BY DEF TypeOK, RowsOK
<1>3. j.st = st /\ j.attempts = job[o][i].attempts
  BY <1>1 DEF JobRecords
<1> HIDE DEF j
<1>4. QED BY <1>2, <1>3

LEMMA LockOrderKeepsQueue ==
  ASSUME QueueInv, NEW w \in Workers, LockOrder(w)
  PROVE  (JobInv /\ InHand)'
<1>1. PICK o \in Orders, i \in Slots : o = wk[w].ord /\ i = wk[w].slot
  BY WorkerFields DEF QueueInv, LockOrder
<1>2. wk[w].pc = "claimed" /\ On(w, o, i) /\ UNCHANGED <<status, stranded, retries>>
  BY <1>1 DEF LockOrder, On, Active, Bounds
<1>3. CASE status[o] # "dispatch_queued"
  <2>1. PICK j : job' = [job EXCEPT ![o][i] = j] /\ j.st = "cancelled"
                 /\ j.attempts = job[o][i].attempts
    <3>1. job' = [job EXCEPT ![o][i].st = "cancelled"] /\ "cancelled" \in JobStates
      BY <1>1, <1>3 DEF LockOrder, JobStates
    <3>2. PICK j : /\ [job EXCEPT ![o][i].st = "cancelled"] = [job EXCEPT ![o][i] = j]
                   /\ j.st = "cancelled" /\ j.attempts = job[o][i].attempts
      BY <3>1, StatusWritten DEF QueueInv
    <3>3. QED BY <3>1, <3>2
  <2>2. Only(w) /\ wk'[w].pc = "idle"
    BY <1>1, <1>3, GoesIdle DEF QueueInv, LockOrder
  <2>3. QED BY <1>2, <1>3, <2>1, <2>2, LeavesJob
<1>4. CASE status[o] = "dispatch_queued"
  <2>1. PICK pc \in {"calling", "completing"} :
          wk' = [wk EXCEPT ![w].pc = pc, ![w].got = waybill[o]]
    BY <1>1, <1>4 DEF LockOrder
  <2>2. pc \in WorkerPcs /\ wk[w].pc # "idle" /\ waybill[o] \in Waybills /\ UNCHANGED job
    BY <1>1, <1>2, <1>4 DEF WorkerPcs, QueueInv, TypeOK, RowsOK, LockOrder
  <2>3. Only(w) /\ wk'[w].pc = pc /\ wk'[w].ord = wk[w].ord /\ wk'[w].slot = wk[w].slot
    BY <2>1, <2>2, StillOn DEF QueueInv
  <2>4. QED BY <1>2, <2>2, <2>3, WorkKeepsQueue DEF Active
<1>5. QED BY <1>3, <1>4

\* A failure is recorded: the job is queued again, or the order leaves the
\* queue, or the worker had read that it had left it.
LEMMA WriteFailureKeepsQueue ==
  ASSUME QueueInv, NEW w \in Workers, WriteFailure(w)
  PROVE  (JobInv /\ InHand)'
<1>1. PICK o \in Orders, i \in Slots : o = wk[w].ord /\ i = wk[w].slot
  BY WorkerFields DEF QueueInv, WriteFailure
<1> DEFINE again == ~wk[w].perm /\ wk[w].att < MaxAttempts
           st == IF again THEN "queued" ELSE "failed"
           surfaces == ~again /\ wk[w].seen = "dispatch_queued"
           j == [st |-> IF wk[w].jseen = st THEN job[o][i].st ELSE st,
                 attempts |-> job[o][i].attempts,
                 due |-> job[o][i].due /\ ~again]
<1>2. /\ wk[w].pc = "recording" /\ On(w, o, i) /\ UNCHANGED <<stranded, retries>>
      /\ job' = [job EXCEPT ![o][i] = j]
      /\ status' = IF surfaces THEN [status EXCEPT ![o] = "dispatch_failed"] ELSE status
  BY <1>1 DEF WriteFailure, On, Active, Bounds
<1>3. Only(w) /\ wk'[w].pc = "idle"
  BY GoesIdle DEF QueueInv, WriteFailure
<1>4. /\ retries \in Nat /\ status \in [Orders -> Statuses]
      /\ \A p \in Orders, k \in Slots : job'[p][k] = IF p = o /\ k = i THEN j ELSE job[p][k]
  BY <1>2 DEF QueueInv, TypeOK, RowsOK, BoundsOK
<1>5. retries <= 1 => j.st = st /\ job[o][i].st # "queued" /\ wk[w].att = job[o][i].attempts
  BY <1>2 DEF QueueInv, JobInv, AtWork
<1>6. j.attempts = job[o][i].attempts /\ (retries <= 1 /\ j.st = "queued" => j.attempts < MaxAttempts)
  BY <1>5
<1>7. status'[o] = "dispatch_queued" => Cared(o)'
  <2>1. CASE again
    <3>1. retries <= 1 => job'[o][i].st = "queued"
      BY <1>4, <1>5, <2>1
    <3>2. QED BY <1>2, <1>4, <3>1 DEF Cared
  <2>2. CASE surfaces
    BY <1>2, <1>4, <2>2
  <2>3. CASE ~again /\ ~surfaces
    <3>1. UNCHANGED status /\ ~Mindful(w, o)
      BY <1>2, <2>3 DEF Mindful
    <3>2. retries <= 1 => \A k \in Slots : job[o][k].st = "queued" => job'[o][k].st = "queued"
      BY <1>4, <1>5
    <3> HIDE DEF j, again, surfaces, st
    <3>3. QED BY <1>2, <1>3, <1>4, <3>1, <3>2, OrderStays DEF QueueInv
  <2>4. QED BY <2>1, <2>2, <2>3
<1>8. \A p \in Orders \ {o} : status'[p] = status[p]
  BY <1>2, <1>4
<1> HIDE DEF j, again, surfaces, st
<1>9. QED BY <1>2, <1>3, <1>6, <1>7, <1>8, LeavesJob

LEMMA CompletesKeepsQueue ==
  ASSUME QueueInv, NEW w \in Workers, Complete(w) \/ CompleteFails(w)
  PROVE  (JobInv /\ InHand)'
<1>1. PICK o \in Orders, i \in Slots : o = wk[w].ord /\ i = wk[w].slot
  BY WorkerFields DEF QueueInv, Complete, CompleteFails
<1>2. wk[w].pc = "completing" /\ On(w, o, i) /\ UNCHANGED <<stranded, retries>>
  BY <1>1 DEF Complete, CompleteFails, On, Active, Bounds
<1>3. PICK j : job' = [job EXCEPT ![o][i] = j] /\ j.st # "queued"
               /\ j.attempts = job[o][i].attempts
  <2>1. PICK st \in {"completed", "failed"} : job' = [job EXCEPT ![o][i].st = st]
    BY <1>1 DEF Complete, CompleteFails
  <2>2. st \in JobStates
    BY DEF JobStates
  <2>3. PICK j : /\ [job EXCEPT ![o][i].st = st] = [job EXCEPT ![o][i] = j]
                 /\ j.st = st /\ j.attempts = job[o][i].attempts
    BY <2>2, StatusWritten DEF QueueInv
  <2>4. QED BY <2>1, <2>3
<1>4. status \in [Orders -> Statuses]
  BY DEF QueueInv, TypeOK, RowsOK
<1>5. CASE Complete(w)
  <2>1. status' = [status EXCEPT ![o] = "sent_to_carrier"]
    BY <1>1, <1>5 DEF Complete
  <2>2. Only(w) /\ wk'[w].pc = "idle"
    BY <1>5, GoesIdle DEF QueueInv, Complete
  <2>3. QED BY <1>2, <1>3, <1>4, <2>1, <2>2, LeavesJob
<1>6. CASE CompleteFails(w)
  <2>1. wk' = [wk EXCEPT ![w].pc = "posting"] /\ UNCHANGED status
    BY <1>6 DEF CompleteFails
  <2>2. Only(w) /\ wk'[w].pc = "posting" /\ wk'[w].ord = o
    BY <1>1, <1>2, <2>1, StillOn DEF QueueInv, WorkerPcs
  <2>3. Mindful(w, o)'
    BY <2>2 DEF Mindful
  <2>4. Cared(o)'
    BY <2>3 DEF Cared
  <2>5. QED BY <1>2, <1>3, <2>1, <2>2, <2>4, LeavesJob
<1>7. QED BY <1>5, <1>6

\* A worker that is done with its job, or writes none.
LEMMA NoJobKeepsQueue ==
  ASSUME QueueInv, NEW w \in Workers, NEW o \in Orders, o = wk[w].ord, Only(w),
         UNCHANGED <<job, retries>>, stranded \subseteq stranded',
         wk'[w].pc \in {"idle", "persisting"},
         \A p \in Orders \ {o} : status'[p] = status[p],
         status'[o] = "dispatch_queued" => Cared(o)'
  PROVE  (JobInv /\ InHand)'
<1>1. JobInv'
  BY MovesOn DEF QueueInv, Active
<1>2. retries \in Nat /\ \A p \in Orders \ {o} : ~Mindful(w, p)
  BY DEF Mindful, QueueInv, TypeOK, BoundsOK
<1>3. QED BY <1>1, <1>2, OtherOrders DEF QueueInv

LEMMA PostingKeepsQueue ==
  ASSUME QueueInv, NEW w \in Workers, ReadPosting(w) \/ Persist(w) \/ PersistFails(w)
  PROVE  (JobInv /\ InHand)'
<1>1. PICK o \in Orders : o = wk[w].ord
  BY WorkerFields DEF QueueInv, ReadPosting, Persist, PersistFails
<1>2. UNCHANGED <<job, retries>> /\ status \in [Orders -> Statuses] /\ retries \in Nat
  BY DEF ReadPosting, Persist, PersistFails, DbVars, Bounds, QueueInv, TypeOK, RowsOK, BoundsOK
<1>3. CASE ReadPosting(w)
  <2>1. /\ wk[w].pc = "posting" /\ UNCHANGED <<status, stranded>>
        /\ wk' = [wk EXCEPT ![w].pc = "persisting", ![w].seen = status[o]]
    BY <1>1, <1>3 DEF ReadPosting, DbVars, Bounds
  <2>2. Only(w) /\ wk'[w].pc = "persisting" /\ wk'[w].ord = o /\ wk'[w].seen = status[o]
    <3>1. "persisting" \in WorkerPcs /\ status[o] \in Statuses
      BY <1>2 DEF WorkerPcs
    <3>2. QED BY <1>1, <2>1, <3>1, StillOn DEF QueueInv
  <2>3. status'[o] = "dispatch_queued" => Mindful(w, o)'
    BY <2>1, <2>2 DEF Mindful
  <2>4. status'[o] = "dispatch_queued" => Cared(o)'
    BY <2>3 DEF Cared
  <2>5. QED BY <1>1, <1>2, <2>1, <2>2, <2>4, NoJobKeepsQueue
<1>4. CASE Persist(w)
  <2>1. /\ wk[w].pc = "persisting" /\ UNCHANGED stranded
        /\ status' = [status EXCEPT ![o] = IF wk[w].seen = "dispatch_queued"
                                             THEN "dispatch_failed" ELSE status[o]]
    BY <1>1, <1>2, <1>4 DEF Persist, Bounds
  <2>2. Only(w) /\ wk'[w].pc = "idle"
    BY <1>4, GoesIdle DEF QueueInv, Persist
  <2>3. status'[o] = "dispatch_queued" => status[o] = "dispatch_queued" /\ ~Mindful(w, o)
    BY <1>2, <2>1 DEF Mindful
  <2>4. status'[o] = "dispatch_queued" => Cared(o)'
    BY <1>2, <2>1, <2>2, <2>3, OrderStays DEF QueueInv
  <2>5. \A p \in Orders \ {o} : status'[p] = status[p]
    BY <1>2, <2>1
  <2>6. QED BY <1>1, <1>2, <2>1, <2>2, <2>4, <2>5, NoJobKeepsQueue
<1>5. CASE PersistFails(w)
  <2>1. stranded' = stranded \cup {o} /\ UNCHANGED status
    BY <1>1, <1>5 DEF PersistFails, DbVars
  <2>2. Only(w) /\ wk'[w].pc = "idle"
    BY <1>5, GoesIdle DEF QueueInv, PersistFails
  <2>3. Cared(o)'
    BY <2>1 DEF Cared
  <2>4. QED BY <1>1, <1>2, <2>1, <2>2, <2>3, NoJobKeepsQueue
<1>6. QED BY <1>3, <1>4, <1>5

LEMMA CrashKeepsQueue ==
  ASSUME QueueInv, NEW w \in Workers, Crash(w)
  PROVE  (JobInv /\ InHand)'
<1>1. PICK o \in Orders : o = wk[w].ord
  BY WorkerFields DEF QueueInv, Crash
<1>2. UNCHANGED <<job, retries, status>> /\ stranded' = stranded \cup {o}
  BY <1>1 DEF Crash, DbVars
<1>3. Only(w) /\ wk'[w].pc = "idle"
  BY GoesIdle DEF QueueInv, Crash
<1>4. Cared(o)'
  BY <1>2 DEF Cared
<1>5. QED BY <1>1, <1>2, <1>3, <1>4, NoJobKeepsQueue

\* An admin's retry reads the order and its latest job.
LEMMA RetryReads ==
  ASSUME TypeOK, NEW w \in Workers, NEW o \in Orders, RetryRead(w, o)
  PROVE  /\ Only(w) /\ wk'[w].pc = "retry"
         /\ \A p \in Orders, i \in Slots : ReadFailed(w, p, i)' =>
              /\ p = o /\ job[o][i].st = "failed" /\ wk'[w].att = job[o][i].attempts
<1> USE DEF Retrying
<1>1. ASSUME NEW i \in Slots, wk' = [wk EXCEPT ![w] = Retrying(o, i, job[o][i])]
      PROVE  /\ Only(w) /\ wk'[w].pc = "retry"
             /\ \A p \in Orders, k \in Slots : ReadFailed(w, p, k)' =>
                  /\ p = o /\ job[o][k].st = "failed" /\ wk'[w].att = job[o][k].attempts
  <2> DEFINE r == Retrying(o, i, job[o][i])
  <2>1. r.pc = "retry" /\ r.ord = o /\ r.slot = i /\ r.jseen = job[o][i].st
        /\ r.att = job[o][i].attempts
    OBVIOUS
  <2> HIDE DEF r
  <2>2. wk'[w] = r /\ Only(w)
    BY <1>1, WorkerRecord DEF Only, r
  <2>3. QED BY <2>1, <2>2 DEF ReadFailed
<1>2. ASSUME wk' = [wk EXCEPT ![w] = Retrying(o, 0, NoJob)]
      PROVE  /\ Only(w) /\ wk'[w].pc = "retry"
             /\ \A p \in Orders, k \in Slots : ~ReadFailed(w, p, k)'
  <2> DEFINE r == Retrying(o, 0, NoJob)
  <2>1. r.pc = "retry" /\ r.jseen = "none"
    BY DEF NoJob
  <2> HIDE DEF r
  <2>2. wk'[w] = r /\ Only(w)
    BY <1>2, WorkerRecord DEF Only, r
  <2>3. QED BY <2>1, <2>2 DEF ReadFailed
<1>3. QED BY <1>1, <1>2 DEF RetryRead

LEMMA RetryReadKeepsQueue ==
  ASSUME QueueInv, NEW w \in Workers, NEW o \in Orders, RetryRead(w, o)
  PROVE  (JobInv /\ InHand)'
<1>1. /\ wk[w].pc = "idle" /\ UNCHANGED <<status, job, stranded>> /\ retries' = retries + 1
      /\ retries \in Nat
  BY DEF RetryRead, DbVars, QueueInv, TypeOK, BoundsOK
<1>2. /\ Only(w) /\ wk'[w].pc = "retry"
      /\ \A p \in Orders, i \in Slots : ReadFailed(w, p, i)' =>
           /\ p = o /\ job[o][i].st = "failed" /\ wk'[w].att = job[o][i].attempts
  BY RetryReads DEF QueueInv
<1>3. ASSUME retries' <= 1 PROVE (JobsOK /\ AtWork /\ Alone /\ RetriesOK)'
  <2>1. retries = 0 /\ JobsOK /\ AtWork /\ Alone /\ RetriesOK
    BY <1>1, <1>3 DEF QueueInv, JobInv
  <2>2. \A v \in Workers, p \in Orders, i \in Slots : On(v, p, i)' => v # w /\ On(v, p, i)
    BY <1>2 DEF On, Active, Only
  <2>3. \A v \in Workers : wk'[v].pc = "retry" => v = w
    BY <1>2, <2>1 DEF Only, RetriesOK
  <2>4. JobsOK' /\ Alone'
    BY <1>1, <2>1, <2>2 DEF JobsOK, JobOK, Alone
  <2>5. AtWork'
    BY <1>1, <1>2, <2>1, <2>2 DEF AtWork, Only
  <2>6. RetriesOK'
    <3>1. \A v \in Workers, p \in Orders, i \in Slots : ReadFailed(v, p, i)' =>
            v = w /\ p = o /\ job[p][i].st = "failed" /\ wk'[w].att = job[p][i].attempts
      BY <1>2, <2>3 DEF ReadFailed
    <3>2. \A p \in Orders, i \in Slots : job[p][i].st = "failed" =>
            job[p][i].attempts # 0 /\ \A v \in Workers : ~On(v, p, i)
      BY <2>1 DEF JobsOK, JobOK, AtWork
    <3>3. QED BY <1>1, <2>2, <2>3, <3>1, <3>2 DEF RetriesOK
  <2>7. QED BY <2>4, <2>5, <2>6
<1>4. JobInv'
  BY <1>3 DEF JobInv
<1>5. \A p \in Orders : ~Mindful(w, p)
  BY <1>1 DEF Mindful
<1>6. retries' \in Nat /\ retries' >= retries
  BY <1>1
<1>7. status'[o] = "dispatch_queued" => Cared(o)'
  BY <1>1, <1>2, <1>5, <1>6, OrderStays DEF QueueInv
<1>8. QED BY <1>1, <1>2, <1>4, <1>5, <1>6, <1>7, OtherOrders DEF QueueInv

\* ... and claims a job, the one it has read or a new one.
LEMMA RetryClaimsJob ==
  ASSUME QueueInv, NEW w \in Workers, NEW o \in Orders, NEW i \in Slots, NEW j,
         wk[w].pc = "retry", wk[w].ord = o,
         job' = [job EXCEPT ![o][i] = j], j.st = "processing", j.attempts # 0,
         retries <= 1 => j.attempts <= MaxAttempts,
         retries <= 1 => ReadFailed(w, o, i) \/ job[o][i].st \in {"none", "queued"},
         wk' = [wk EXCEPT ![w] = WorkerAt("claimed", o, i)],
         UNCHANGED <<stranded, retries>>, \A p \in Orders \ {o} : status'[p] = status[p]
  PROVE  (JobInv /\ InHand)'
<1>1. Only(w) /\ wk'[w].pc = "claimed" /\ wk'[w].ord = o /\ wk'[w].slot = i
  <2> DEFINE r == WorkerAt("claimed", o, i)
  <2>1. r.pc = "claimed" /\ r.ord = o /\ r.slot = i
    BY DEF WorkerAt
  <2> HIDE DEF r
  <2>2. wk'[w] = r /\ Only(w)
    BY WorkerRecord DEF QueueInv, Only, r
  <2>3. QED BY <2>1, <2>2
<1>2. retries <= 1 => JobOK(j)
  BY DEF JobOK
<1>3. ASSUME retries <= 1 PROVE \A v \in Workers \ {w} : ~On(v, o, i) /\ ~ReadFailed(v, o, i)
  BY <1>3, Sole DEF QueueInv
<1>4. JobInv'
  BY <1>1, <1>2, <1>3, JobWritten DEF QueueInv
<1>5. Mindful(w, o)'
  BY <1>1 DEF Mindful
<1>6. Cared(o)'
  BY <1>5 DEF Cared
<1>7. /\ retries \in Nat /\ \A p \in Orders \ {o} : ~Mindful(w, p)
      /\ \A p \in Orders \ {o} : job'[p] = job[p]
  BY DEF Mindful, QueueInv, TypeOK, BoundsOK, RowsOK
<1>8. QED BY <1>1, <1>4, <1>6, <1>7, OtherOrders DEF QueueInv

LEMMA RetryClaimKeepsQueue ==
  ASSUME QueueInv, NEW w \in Workers, RetryClaim(w)
  PROVE  (JobInv /\ InHand)'
<1>1. PICK o \in Orders : o = wk[w].ord
  BY WorkerFields DEF QueueInv, RetryClaim
<1>2. wk[w].pc = "retry" /\ UNCHANGED <<stranded, retries>>
  BY DEF RetryClaim, Bounds
<1>3. \A p \in Orders \ {o} : status'[p] = status[p]
  <2>1. status' = status \/ status' = [status EXCEPT ![o] = "dispatch_queued"]
    BY <1>1 DEF RetryClaim
  <2>2. QED BY <2>1 DEF QueueInv, TypeOK, RowsOK
<1>4. CASE RetryResets(w) /\ RetryRequeues(w)
  <2>1. PICK i \in Slots : i = wk[w].slot
    BY <1>2, <1>4, WorkerFields DEF QueueInv
  <2> DEFINE base == IF wk[w].att # 0 THEN 0 ELSE job[o][i].attempts
             j == [st |-> "processing", attempts |-> base + 1, due |-> TRUE]
  <2>2. job' = [job EXCEPT ![o][i] = j] /\ wk' = [wk EXCEPT ![w] = WorkerAt("claimed", o, i)]
    BY <1>1, <1>4, <2>1 DEF RetryClaim
  <2>3. job[o][i].attempts \in Nat
    BY DEF QueueInv, TypeOK, RowsOK, JobRecords
  <2>4. j.st = "processing" /\ j.attempts = base + 1 /\ j.attempts # 0
    BY <2>3
  <2>5. ReadFailed(w, o, i) \/ job[o][i].st = "queued"
    BY <1>1, <1>2, <1>4, <2>1 DEF ReadFailed, RetryResets, RetryRequeues
  <2>6. ASSUME retries <= 1 PROVE base + 1 <= MaxAttempts
    <3>1. ReadFailed(w, o, i) => wk[w].att # 0
      BY <2>6 DEF QueueInv, JobInv, RetriesOK
    <3>2. job[o][i].st = "queued" => job[o][i].attempts < MaxAttempts
      BY <2>6 DEF QueueInv, JobInv, JobsOK, JobOK
    <3>3. QED BY <2>3, <2>5, <3>1, <3>2
  <2> HIDE DEF base, j
  <2>7. QED BY <1>1, <1>2, <1>3, <2>2, <2>4, <2>5, <2>6, RetryClaimsJob
<1>5. CASE ~RetryResets(w)
  <2> DEFINE j == [st |-> "processing", attempts |-> 1, due |-> TRUE]
  <2>1. PICK i \in Slots : /\ job[o][i].st = "none" /\ job' = [job EXCEPT ![o][i] = j]
                           /\ wk' = [wk EXCEPT ![w] = WorkerAt("claimed", o, i)]
    BY <1>1, <1>5 DEF RetryClaim, IsNewSlot
  <2>2. j.st = "processing" /\ j.attempts # 0 /\ j.attempts <= MaxAttempts
    OBVIOUS
  <2> HIDE DEF j
  <2>3. QED BY <1>1, <1>2, <1>3, <2>1, <2>2, RetryClaimsJob
<1>6. CASE RetryResets(w) /\ ~RetryRequeues(w)
  <2>1. UNCHANGED <<job, status>> /\ Only(w) /\ wk'[w].pc = "idle"
    BY <1>6, GoesIdle DEF QueueInv, RetryClaim
  <2>2. ~Mindful(w, o) /\ retries \in Nat
    BY <1>2 DEF Mindful, QueueInv, TypeOK, BoundsOK
  <2>3. status'[o] = "dispatch_queued" => Cared(o)'
    BY <1>2, <2>1, <2>2, OrderStays DEF QueueInv
  <2>4. QED BY <1>1, <1>2, <2>1, <2>3, NoJobKeepsQueue
<1>7. QED BY <1>4, <1>5, <1>6

\* Requests of customers and staff, and the clock.
LEMMA SessionKeepsQueue ==
  ASSUME QueueInv, NEW s \in Sessions,
         EnqueueWrite(s) \/ CancelWrite(s) \/ MarkWrite(s) \/ OverrideWrite(s)
  PROVE  (JobInv /\ InHand)'
<1>1. PICK o \in Orders : o = se[s].ord
  BY DEF QueueInv, TypeOK, SessionsOK, EnqueueWrite, CancelWrite, MarkWrite, OverrideWrite
<1>2. /\ UNCHANGED <<wk, stranded, retries>> /\ status \in [Orders -> Statuses]
      /\ job \in [Orders -> [Slots -> JobRecords]]
  BY DEF EnqueueWrite, CancelWrite, MarkWrite, OverrideWrite, Bounds, QueueInv, TypeOK, RowsOK
<1>3. CASE EnqueueWrite(s)
  <2>1. PICK i \in Slots : job[o][i].st = "none" /\ job' = [job EXCEPT ![o][i] = NewJob]
    BY <1>1, <1>3 DEF EnqueueWrite, IsNewSlot
  <2>2. status' = [status EXCEPT ![o] = "dispatch_queued"]
    BY <1>1, <1>3 DEF EnqueueWrite
  <2>3. \A p \in Orders, k \in Slots :
          job'[p][k] = IF p = o /\ k = i THEN NewJob ELSE job[p][k]
    BY <1>2, <2>1
  <2>4. JobInv'
    BY <1>2, <2>1, <2>3, JobsWrittenByOthers DEF QueueInv
  <2>5. NewJob.st = "queued"
    BY DEF NewJob
  <2>6. InHand'
    BY <1>2, <2>1, <2>2, <2>3, <2>5, OthersKeepInHand DEF QueueInv
  <2>7. QED BY <2>4, <2>6
<1>4. CASE CancelWrite(s)
  <2>1. status' = [status EXCEPT ![o] = "cancelled"]
    BY <1>1, <1>4 DEF CancelWrite
  <2>2. job' = [job EXCEPT ![o] = [i \in Slots |->
           IF i \in se[s].jobs THEN [job[o][i] EXCEPT !.st = "cancelled"] ELSE job[o][i]]]
    BY <1>1, <1>4 DEF CancelWrite
  <2>3. \A j \in JobRecords : /\ [j EXCEPT !.st = "cancelled"].attempts = j.attempts
                              /\ [j EXCEPT !.st = "cancelled"].st = "cancelled"
    BY DEF JobRecords
  <2>4. \A p \in Orders, i \in Slots : /\ job'[p][i].attempts = job[p][i].attempts
                                       /\ job'[p][i].st \in {job[p][i].st, "cancelled"}
                                       /\ p # o => job'[p] = job[p]
    BY <1>2, <2>2, <2>3
  <2>5. JobInv'
    BY <1>2, <2>4, JobsWrittenByOthers DEF QueueInv
  <2>6. InHand'
    BY <1>2, <2>1, <2>4, OthersKeepInHand DEF QueueInv
  <2>7. QED BY <2>5, <2>6
<1>5. CASE MarkWrite(s) \/ OverrideWrite(s)
  <2>1. UNCHANGED job
    BY <1>5 DEF MarkWrite, OverrideWrite
  <2>2. JobInv'
    BY <1>2, <2>1, JobsWrittenByOthers DEF QueueInv
  <2>3. /\ \A p \in Orders \ {o} : status'[p] = status[p]
        /\ status'[o] = "dispatch_queued" =>
             status[o] = "dispatch_queued" \/ "dispatch_queued" \in OverrideTargets
    <3>1. CASE MarkWrite(s)
      <4>1. status' = [status EXCEPT ![o] = "sent_to_carrier"]
        BY <1>1, <3>1 DEF MarkWrite
      <4>2. QED BY <1>2, <4>1
    <3>2. CASE OverrideWrite(s)
      <4>1. status' = [status EXCEPT ![o] = IF se[s].seen = se[s].target
                                              THEN status[o] ELSE se[s].target]
        BY <1>1, <3>2 DEF OverrideWrite
      <4>2. se[s].target \in OverrideTargets
        BY <3>2 DEF OverrideWrite, QueueInv, TypeOK, SessionsOK
      <4>3. QED BY <1>2, <4>1, <4>2
    <3>3. QED BY <1>5, <3>1, <3>2
  <2>4. InHand'
    BY <1>2, <2>1, <2>3, OthersKeepInHand DEF QueueInv
  <2>5. QED BY <2>2, <2>4
<1>6. QED BY <1>3, <1>4, <1>5

LEMMA OtherStepsKeepQueue ==
  ASSUME QueueInv, UNCHANGED <<status, wk, stranded, retries>>,
         \/ UNCHANGED job
         \/ \E o \in Orders, i \in Slots : job' = [job EXCEPT ![o][i].due = TRUE]
  PROVE  (JobInv /\ InHand)'
<1>1. \A p \in Orders, k \in Slots : /\ job'[p][k].attempts = job[p][k].attempts
                                     /\ job'[p][k].st = job[p][k].st
  <2>1. job \in [Orders -> [Slots -> JobRecords]]
    BY DEF QueueInv, TypeOK, RowsOK
  <2>2. ASSUME NEW o \in Orders, NEW i \in Slots, job' = [job EXCEPT ![o][i].due = TRUE],
               NEW p \in Orders, NEW k \in Slots
        PROVE  job'[p][k].attempts = job[p][k].attempts /\ job'[p][k].st = job[p][k].st
    <3> DEFINE j == [job[o][i] EXCEPT !.due = TRUE]
    <3>1. j.attempts = job[o][i].attempts /\ j.st = job[o][i].st
      BY <2>1 DEF JobRecords
    <3>2. job'[p][k] = IF p = o /\ k = i THEN j ELSE job[p][k]
      BY <2>1, <2>2
    <3> HIDE DEF j
    <3>3. QED BY <3>1, <3>2
  <2>3. QED BY <2>2
<1>2. JobInv'
  BY <1>1, JobsWrittenByOthers DEF QueueInv
<1>3. InHand'
  BY <1>1, OthersKeepInHand DEF QueueInv
<1>4. QED BY <1>2, <1>3

LEMMA QueueStep ==
  ASSUME QueueInv, [Next]_vars
  PROVE  QueueInv'
<1>0. TypeOK'
  BY NextTypeOK DEF QueueInv
<1>1. ASSUME NEW w \in Workers, WorkerStep(w) PROVE (JobInv /\ InHand)'
  <2>1. CASE Progress(w)
    BY <2>1, ClaimKeepsQueue, LockOrderKeepsQueue, CarrierCallKeepsQueue,
       ReadFailureKeepsQueue, WriteFailureKeepsQueue, CompletesKeepsQueue,
       PostingKeepsQueue, RetryClaimKeepsQueue
    DEF Progress
  <2>2. QED BY <1>1, <2>1, CrashKeepsQueue, RetryReadKeepsQueue, PickKeepsQueue
            DEF WorkerStep, PollPick, StreamPick
<1>2. ASSUME NEW s \in Sessions, SessionStep(s) PROVE (JobInv /\ InHand)'
  <2>1. CASE EnqueueWrite(s) \/ CancelWrite(s) \/ MarkWrite(s) \/ OverrideWrite(s)
    BY <2>1, SessionKeepsQueue
  <2>2. CASE CancelAtCarrier(s) \/ Abandon(s)
    BY <2>2, OtherStepsKeepQueue DEF CancelAtCarrier, Abandon, DbVars, Bounds
  <2>3. ASSUME NEW o \in Orders,
               \/ EnqueueRead(s, o) \/ CancelRead(s, o) \/ MarkRead(s, o)
               \/ \E target \in OverrideTargets : OverrideRead(s, o, target)
        PROVE  (JobInv /\ InHand)'
    BY <2>3, OtherStepsKeepQueue
    DEF EnqueueRead, CancelRead, MarkRead, OverrideRead, DbVars, Bounds
  <2>4. QED BY <1>2, <2>1, <2>2, <2>3 DEF SessionStep
<1>3. ASSUME NEW o \in Orders, Reschedule(o) PROVE (JobInv /\ InHand)'
  BY <1>3, OtherStepsKeepQueue DEF Reschedule, DbVars, Bounds
<1>4. ASSUME NEW o \in Orders, NEW i \in Slots, ComesDue(o, i) PROVE (JobInv /\ InHand)'
  BY <1>4, OtherStepsKeepQueue DEF ComesDue, Bounds
<1>5. CASE UNCHANGED vars
  BY <1>0, <1>5, OtherStepsKeepQueue DEF vars, QueueInv
<1>6. QED BY <1>0, <1>1, <1>2, <1>3, <1>4, <1>5 DEF Next, QueueInv

LEMMA QueueInit == Init => QueueInv
<1> SUFFICES ASSUME Init PROVE QueueInv
  OBVIOUS
<1>1. TypeOK
  BY InitTypeOK
<1>2. \A w \in Workers : wk[w].pc = "idle"
  BY IdlePc DEF Init
<1>3. JobsOK
  BY DEF Init, JobsOK, JobOK, NoJob
<1>4. AtWork /\ Alone /\ RetriesOK
  BY <1>2 DEF AtWork, Alone, RetriesOK, On, ReadFailed, Active
<1>5. InHand
  BY DEF Init, InHand
<1>6. QED BY <1>1, <1>3, <1>4, <1>5 DEF QueueInv, JobInv

\* No job is attempted more often than max_attempts between two resets, however
\* workers, cancellations and one retry interleave (the compare-and-set of the
\* claim, and the failure handler's own reading of the counter).
THEOREM AttemptsAreBounded == Spec => []AttemptsBounded
<1>1. QueueInv => AttemptsBounded
  BY DEF QueueInv, JobInv, JobsOK, JobOK, AttemptsBounded
<1>2. QueueInv /\ [Next]_vars => QueueInv'
  BY QueueStep
<1>3. QED BY <1>1, <1>2, QueueInit, PTL DEF Spec

\* An order in the queue has a job to be run, or a worker at work on it that
\* will surface its failure, unless a worker died or could not record.
THEOREM QueuedOrdersHaveJobs == Spec => []QueuedOrderHasJob
<1>1. QueueInv => QueuedOrderHasJob
  BY DEF QueueInv, InHand, Cared, Mindful, QueuedOrderHasJob
<1>2. QueueInv /\ [Next]_vars => QueueInv'
  BY QueueStep
<1>3. QED BY <1>1, <1>2, QueueInit, PTL DEF Spec
=============================================================================
