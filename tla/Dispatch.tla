------------------------------- MODULE Dispatch -------------------------------
(***************************************************************************)
(* Dispatching paid orders to a carrier: DispatchWorker and the handlers   *)
(* that race with it (backend/app/modules/dispatch/service.py, the stream  *)
(* consumer and the poller of backend/workers, the admin endpoints of      *)
(* api/v1/admin_orders.py and the closing step of a cancellation).         *)
(*                                                                         *)
(* One step is one database transaction or one call to the carrier.  A     *)
(* handler that reads, then writes at its commit is two steps, and what it *)
(* read is in its record: the ORM writes by primary key, without comparing.*)
(* lock[o] is the row lock of SELECT ... FOR UPDATE on the order; a write  *)
(* to the order, or an insert that references it, waits for that lock.     *)
(***************************************************************************)
EXTENDS Integers, FiniteSets, OrderStatus

CONSTANTS
  Orders,           \* the paid orders
  Workers,          \* threads that run _process_job: consumer, poller, admin retry
  Sessions,         \* requests of customers and staff that write orders
  Free,             \* the order row is not locked
  NoOrder,          \* an idle worker or session has no order
  MaxAttempts,      \* DispatchJob.max_attempts
  OverrideTargets,  \* statuses the admin override sets
  MaxJobs,          \* bound: jobs per order
  MaxBookings,      \* bound: invoices the carrier accepts per order
  MaxCrashes,       \* bound: worker deaths
  MaxRetries        \* bound: admin clicks on "retry dispatch"

ASSUME DispatchAssumption ==
  /\ Free \notin Workers /\ NoOrder \notin Orders
  /\ MaxAttempts \in Nat \ {0} /\ MaxJobs \in Nat \ {0}
  /\ MaxBookings \in Nat /\ MaxCrashes \in Nat /\ MaxRetries \in Nat
  /\ OverrideTargets \subseteq Statuses

VARIABLES
  status,     \* order_drafts.status
  job,        \* dispatch_jobs: one record per order and slot, oldest slot first
  waybill,    \* shipments.carrier_tracking_number: 0 when NULL
  lock,       \* holder of the order row lock
  wk,         \* what each worker is doing and what it has read
  se,         \* what each session is doing and what it has read
  booked,     \* invoices the carrier has accepted for the order
  alive,      \* those of them the carrier has not cancelled
  lost,       \* some accepted invoice's number left its worker unrecorded
  stranded,   \* orders whose worker died or could not record its failure
  crashes, retries

vars == <<status, job, waybill, lock, wk, se, booked, alive, lost, stranded,
          crashes, retries>>

Slots == 1..MaxJobs
JobStates == {"queued", "processing", "completed", "failed", "cancelled"}
NoWaybill == 0
ManualWaybill == -1       \* a number typed in by the admin (mark_dispatched)
Waybills == -1..MaxBookings

JobRecords == [st: JobStates \cup {"none"}, attempts: Nat, due: BOOLEAN]
NoJob == [st |-> "none", attempts |-> 0, due |-> FALSE]
\* Mutant of NewJob: a status the enum does not have.
NewJob_UnknownStatus == [st |-> "pending", attempts |-> 0, due |-> TRUE]

NewJob == [st |-> "queued", attempts |-> 0, due |-> TRUE]

WorkerPcs == {"idle", "picked", "retry", "claimed", "calling", "completing",
              "failing", "recording", "posting", "persisting"}
WorkerRecords ==
  [pc: WorkerPcs, ord: Orders \cup {NoOrder}, slot: 0..MaxJobs, got: Waybills,
   perm: BOOLEAN, seen: Statuses \cup {"none"}, jseen: JobStates \cup {"none"},
   att: Nat]
WorkerAt(pc, o, i) ==
  [pc |-> pc, ord |-> o, slot |-> i, got |-> NoWaybill,
   perm |-> FALSE, seen |-> "none", jseen |-> "none", att |-> 0]
IdleWorker == WorkerAt("idle", NoOrder, 0)

SessionRecords ==
  [pc: {"idle", "cancel", "mark", "override", "enqueue"}, ord: Orders \cup {NoOrder},
   seen: Statuses \cup {"none"}, jobs: SUBSET Slots, target: Statuses \cup {"none"}]
SessionAt(pc, o, seen) ==
  [pc |-> pc, ord |-> o, seen |-> seen, jobs |-> {}, target |-> "none"]
IdleSession == SessionAt("idle", NoOrder, "none")

\* The statuses a customer's cancellation, an admin's retry and a reschedule accept.
Cancellable == {"paid", "dispatch_queued", "dispatch_failed", "pending_manual",
                "pending_manual_dispatch", "sent_to_carrier"}
QueueStatuses == {"dispatch_queued", "dispatch_failed", "pending_manual",
                  "pending_manual_dispatch"}
Reschedulable == {"dispatch_queued", "sent_to_carrier", "dispatch_failed"}

Init ==
  /\ status = [o \in Orders |-> "paid"]
  /\ job = [o \in Orders |-> [i \in Slots |-> NoJob]]
  /\ waybill = [o \in Orders |-> NoWaybill]
  /\ lock = [o \in Orders |-> Free]
  /\ wk = [w \in Workers |-> IdleWorker]
  /\ se = [s \in Sessions |-> IdleSession]
  /\ booked = [o \in Orders |-> 0]
  /\ alive = [o \in Orders |-> {}]
  /\ lost = [o \in Orders |-> FALSE]
  /\ stranded = {}
  /\ crashes = 0 /\ retries = 0

\* The next unused slot, and the slot of the latest job of the order.
IsNewSlot(o, i) == job[o][i].st = "none" /\ \A k \in 1..(i-1) : job[o][k].st # "none"
IsLatest(o, i) == job[o][i].st # "none" /\ \A k \in (i+1)..MaxJobs : job[o][k].st = "none"

DbVars == <<status, job, waybill>>
CarrierVars == <<booked, alive, lost>>
Bounds == <<stranded, crashes, retries>>

-----------------------------------------------------------------------------
(* Creating the job: create_dispatch_job, in the transaction of the payment *)
(* confirmation, whose session holds the order it read as paid.             *)

EnqueueRead(s, o) ==
  /\ se[s].pc = "idle" /\ status[o] = "paid"
  /\ se' = [se EXCEPT ![s] = SessionAt("enqueue", o, status[o])]
  /\ UNCHANGED <<DbVars, lock, wk, CarrierVars, Bounds>>

EnqueueWrite(s) ==
  LET o == se[s].ord IN
  /\ se[s].pc = "enqueue" /\ lock[o] = Free
  /\ CanTransition(se[s].seen, "dispatch_queued")
  /\ \E i \in Slots :
       /\ IsNewSlot(o, i)
       /\ job' = [job EXCEPT ![o][i] = NewJob]
  /\ status' = [status EXCEPT ![o] = "dispatch_queued"]
  /\ se' = [se EXCEPT ![s] = IdleSession]
  /\ UNCHANGED <<waybill, lock, wk, CarrierVars, Bounds>>

-----------------------------------------------------------------------------
(* The worker: _process_job and its callers.                                *)

Pick(w, o, i) ==
  /\ wk[w].pc = "idle" /\ job[o][i].st = "queued"
  /\ wk' = [wk EXCEPT ![w] = WorkerAt("picked", o, i)]
  /\ UNCHANGED <<DbVars, lock, se, CarrierVars, Bounds>>

\* run_once selects queued jobs whose next_retry_at has passed.
PollPick(w, o, i) == job[o][i].due /\ Pick(w, o, i)

\* The stream consumer takes the job its message names, due or not.
StreamPick(w, o, i) == Pick(w, o, i)

\* The clock passes next_retry_at.
ComesDue(o, i) ==
  /\ job[o][i].st = "queued" /\ ~job[o][i].due
  /\ job' = [job EXCEPT ![o][i].due = TRUE]
  /\ UNCHANGED <<status, waybill, lock, wk, se, CarrierVars, Bounds>>

\* UPDATE ... WHERE status = QUEUED: the loser finds no row and leaves.
Claim(w) ==
  LET o == wk[w].ord
      i == wk[w].slot IN
  /\ wk[w].pc = "picked"
  /\ \/ /\ job[o][i].st = "queued"
        /\ job' = [job EXCEPT ![o][i] =
                     [st |-> "processing", attempts |-> job[o][i].attempts + 1,
                      due |-> job[o][i].due]]
        /\ wk' = [wk EXCEPT ![w].pc = "claimed"]
     \/ /\ job[o][i].st # "queued"
        /\ wk' = [wk EXCEPT ![w] = IdleWorker]
        /\ UNCHANGED job
  /\ UNCHANGED <<status, waybill, lock, se, CarrierVars, Bounds>>

\* Mutants of LockOrder: SELECT without FOR UPDATE, and no check of the status.
LockOrder_NoRowLock(w) ==
  LET o == wk[w].ord IN
  /\ wk[w].pc = "claimed" /\ status[o] = "dispatch_queued"
  /\ wk' = [wk EXCEPT ![w].pc = IF waybill[o] # NoWaybill THEN "completing" ELSE "calling",
                      ![w].got = waybill[o]]
  /\ UNCHANGED <<DbVars, lock, se, CarrierVars, Bounds>>

LockOrder_NoStatusCheck(w) ==
  LET o == wk[w].ord IN
  /\ wk[w].pc = "claimed" /\ lock[o] = Free
  /\ lock' = [lock EXCEPT ![o] = w]
  /\ wk' = [wk EXCEPT ![w].pc = IF waybill[o] # NoWaybill THEN "completing" ELSE "calling",
                      ![w].got = waybill[o]]
  /\ UNCHANGED <<DbVars, se, CarrierVars, Bounds>>

\* Mutant of LockOrder: no idempotency guard on the recorded waybill.
LockOrder_NoGuard(w) ==
  LET o == wk[w].ord IN
  /\ wk[w].pc = "claimed" /\ lock[o] = Free /\ status[o] = "dispatch_queued"
  /\ lock' = [lock EXCEPT ![o] = w]
  /\ wk' = [wk EXCEPT ![w].pc = "calling"]
  /\ UNCHANGED <<DbVars, se, CarrierVars, Bounds>>

\* The order row is locked and re-read: a job whose order has moved is
\* cancelled (and the lock released by that commit); a recorded waybill
\* replaces the carrier call.
LockOrder(w) ==
  LET o == wk[w].ord
      i == wk[w].slot IN
  /\ wk[w].pc = "claimed" /\ lock[o] = Free
  /\ \/ /\ status[o] # "dispatch_queued"
        /\ job' = [job EXCEPT ![o][i].st = "cancelled"]
        /\ wk' = [wk EXCEPT ![w] = IdleWorker]
        /\ UNCHANGED lock
     \/ /\ status[o] = "dispatch_queued"
        /\ lock' = [lock EXCEPT ![o] = w]
        /\ wk' = [wk EXCEPT ![w].pc = IF waybill[o] # NoWaybill
                                        THEN "completing" ELSE "calling",
                            ![w].got = waybill[o]]
        /\ UNCHANGED job
  /\ UNCHANGED <<status, waybill, se, CarrierVars, Bounds>>

\* What the carrier does with an invoice it accepts.
Book(o) ==
  /\ booked[o] < MaxBookings
  /\ booked' = [booked EXCEPT ![o] = @ + 1]
  /\ alive' = [alive EXCEPT ![o] = @ \cup {booked[o] + 1}]

\* The call returns, with a number or (webhook push) possibly without one.
CarrierAccepts(w, numbered) ==
  LET o == wk[w].ord IN
  /\ wk[w].pc = "calling" /\ Book(o)
  /\ lost' = [lost EXCEPT ![o] = @ \/ ~numbered]
  /\ wk' = [wk EXCEPT ![w].pc = "completing",
                      ![w].got = IF numbered THEN booked[o] + 1 ELSE NoWaybill]
  /\ UNCHANGED <<DbVars, lock, se, Bounds>>

\* The carrier has accepted, but the call raises: the answer is lost, or the
\* integration log or the waybill document cannot be written.
CarrierAcceptsAndRaises(w) ==
  LET o == wk[w].ord IN
  /\ wk[w].pc = "calling" /\ Book(o)
  /\ lost' = [lost EXCEPT ![o] = TRUE]
  /\ lock' = [lock EXCEPT ![o] = Free]
  /\ wk' = [wk EXCEPT ![w].pc = "failing"]
  /\ UNCHANGED <<DbVars, se, Bounds>>

\* Mutant of CarrierRefuses: the error is swallowed and phase 2 runs.
CarrierRefuses_Swallowed(w, perm) ==
  /\ wk[w].pc = "calling"
  /\ wk' = [wk EXCEPT ![w].pc = "completing", ![w].perm = perm]
  /\ UNCHANGED <<DbVars, lock, se, CarrierVars, Bounds>>

\* The carrier refuses, or cannot be reached; some errors are permanent.
CarrierRefuses(w, perm) ==
  /\ wk[w].pc = "calling"
  /\ lock' = [lock EXCEPT ![wk[w].ord] = Free]
  /\ wk' = [wk EXCEPT ![w].pc = "failing", ![w].perm = perm]
  /\ UNCHANGED <<DbVars, se, CarrierVars, Bounds>>

\* _handle_retryable_failure has rolled back (no lock) and reads the job and
\* the order again.
ReadFailure(w) ==
  LET o == wk[w].ord
      j == job[o][wk[w].slot] IN
  /\ wk[w].pc = "failing"
  /\ wk' = [wk EXCEPT ![w].pc = "recording", ![w].seen = status[o],
                      ![w].jseen = j.st, ![w].att = j.attempts]
  /\ UNCHANGED <<DbVars, lock, se, CarrierVars, Bounds>>

\* Mutants of WriteFailure: one attempt too many, and the final failure is
\* not surfaced on the order.
WriteFailure_OneMore(w) ==
  LET again == ~wk[w].perm /\ wk[w].att <= MaxAttempts IN
  /\ wk[w].pc = "recording" /\ lock[wk[w].ord] = Free
  /\ job' = [job EXCEPT ![wk[w].ord][wk[w].slot].st = IF again THEN "queued" ELSE "failed",
                        ![wk[w].ord][wk[w].slot].due = ~again]
  /\ status' = IF again THEN status ELSE [status EXCEPT ![wk[w].ord] = "dispatch_failed"]
  /\ wk' = [wk EXCEPT ![w] = IdleWorker]
  /\ UNCHANGED <<waybill, lock, se, CarrierVars, Bounds>>

WriteFailure_NotSurfaced(w) ==
  LET again == ~wk[w].perm /\ wk[w].att < MaxAttempts IN
  /\ wk[w].pc = "recording"
  /\ job' = [job EXCEPT ![wk[w].ord][wk[w].slot].st = IF again THEN "queued" ELSE "failed",
                        ![wk[w].ord][wk[w].slot].due = ~again]
  /\ wk' = [wk EXCEPT ![w] = IdleWorker]
  /\ UNCHANGED <<status, waybill, lock, se, CarrierVars, Bounds>>

WriteFailure(w) ==
  LET o == wk[w].ord
      i == wk[w].slot
      again == ~wk[w].perm /\ wk[w].att < MaxAttempts
      st == IF again THEN "queued" ELSE "failed"
      surfaces == ~again /\ wk[w].seen = "dispatch_queued" IN
  /\ wk[w].pc = "recording"
  /\ surfaces => lock[o] = Free
  /\ job' = [job EXCEPT ![o][i] =
               [st |-> IF wk[w].jseen = st THEN job[o][i].st ELSE st,
                attempts |-> job[o][i].attempts,
                due |-> job[o][i].due /\ ~again]]
  /\ status' = IF surfaces THEN [status EXCEPT ![o] = "dispatch_failed"] ELSE status
  /\ wk' = [wk EXCEPT ![w] = IdleWorker]
  /\ UNCHANGED <<waybill, lock, se, CarrierVars, Bounds>>

\* Mutant of Complete: the carrier's number is not stored.
Complete_Unrecorded(w) ==
  LET o == wk[w].ord IN
  /\ wk[w].pc = "completing" /\ CanTransition(status[o], "sent_to_carrier")
  /\ status' = [status EXCEPT ![o] = "sent_to_carrier"]
  /\ job' = [job EXCEPT ![o][wk[w].slot].st = "completed"]
  /\ lock' = [lock EXCEPT ![o] = Free]
  /\ wk' = [wk EXCEPT ![w] = IdleWorker]
  /\ UNCHANGED <<waybill, se, CarrierVars, Bounds>>

\* _complete_dispatch: one commit, which releases the order.
Complete(w) ==
  LET o == wk[w].ord IN
  /\ wk[w].pc = "completing" /\ CanTransition(status[o], "sent_to_carrier")
  /\ waybill' = [waybill EXCEPT ![o] = IF wk[w].got # NoWaybill THEN wk[w].got ELSE @]
  /\ status' = [status EXCEPT ![o] = "sent_to_carrier"]
  /\ job' = [job EXCEPT ![o][wk[w].slot].st = "completed"]
  /\ lock' = [lock EXCEPT ![o] = Free]
  /\ wk' = [wk EXCEPT ![w] = IdleWorker]
  /\ UNCHANGED <<se, CarrierVars, Bounds>>

\* The commit fails: _handle_post_dispatch_failure rolls back and saves the
\* failed job alone.  From here the number is in this worker's memory only.
CompleteFails(w) ==
  LET o == wk[w].ord IN
  /\ wk[w].pc = "completing"
  /\ job' = [job EXCEPT ![o][wk[w].slot].st = "failed"]
  /\ lock' = [lock EXCEPT ![o] = Free]
  /\ lost' = [lost EXCEPT ![o] = @ \/ waybill[o] = NoWaybill]
  /\ wk' = [wk EXCEPT ![w].pc = "posting"]
  /\ UNCHANGED <<status, waybill, se, booked, alive, Bounds>>

ReadPosting(w) ==
  /\ wk[w].pc = "posting"
  /\ wk' = [wk EXCEPT ![w].pc = "persisting", ![w].seen = status[wk[w].ord]]
  /\ UNCHANGED <<DbVars, lock, se, CarrierVars, Bounds>>

\* The second commit stores the number and surfaces the failure, or fails too.
Persist(w) ==
  LET o == wk[w].ord IN
  /\ wk[w].pc = "persisting" /\ lock[o] = Free
  /\ waybill' = [waybill EXCEPT ![o] = IF wk[w].got # NoWaybill THEN wk[w].got ELSE @]
  /\ status' = [status EXCEPT ![o] = IF wk[w].seen = "dispatch_queued"
                                       THEN "dispatch_failed" ELSE @]
  /\ wk' = [wk EXCEPT ![w] = IdleWorker]
  /\ UNCHANGED <<job, lock, se, CarrierVars, Bounds>>

PersistFails(w) ==
  /\ wk[w].pc = "persisting"
  /\ stranded' = stranded \cup {wk[w].ord}
  /\ wk' = [wk EXCEPT ![w] = IdleWorker]
  /\ UNCHANGED <<DbVars, lock, se, CarrierVars, crashes, retries>>

\* retry_for_order, run in an admin's request: the order and its latest job
\* are read, a failed or queued job is reset, any other gets a successor, and
\* the writes commit together with _process_job's claim or roll back with it.
Retrying(o, i, j) ==
  [pc |-> "retry", ord |-> o, slot |-> i, got |-> NoWaybill, perm |-> FALSE,
   seen |-> status[o], jseen |-> j.st, att |-> j.attempts]

RetryRead(w, o) ==
  /\ wk[w].pc = "idle" /\ retries < MaxRetries
  /\ status[o] \in QueueStatuses
  /\ \/ \E i \in Slots :
          /\ IsLatest(o, i)
          /\ wk' = [wk EXCEPT ![w] = Retrying(o, i, job[o][i])]
     \/ /\ \A i \in Slots : job[o][i].st = "none"
        /\ wk' = [wk EXCEPT ![w] = Retrying(o, 0, NoJob)]
  /\ retries' = retries + 1
  /\ UNCHANGED <<DbVars, lock, se, CarrierVars, stranded, crashes>>

RetryResets(w) == wk[w].jseen \in {"failed", "queued"}

\* The status column is written only when it was read as something else.
RetryRequeues(w) ==
  wk[w].jseen = "queued" => job[wk[w].ord][wk[w].slot].st = "queued"

RetryClaim(w) ==
  LET o == wk[w].ord
      moves == wk[w].seen # "dispatch_queued" IN
  /\ wk[w].pc = "retry"
  /\ (moves \/ ~RetryResets(w)) => lock[o] = Free
  /\ \/ /\ RetryResets(w) /\ RetryRequeues(w)
        /\ LET i == wk[w].slot
               base == IF wk[w].att # 0 THEN 0 ELSE job[o][i].attempts IN
           job' = [job EXCEPT ![o][i] = [st |-> "processing",
                                         attempts |-> base + 1, due |-> TRUE]]
        /\ wk' = [wk EXCEPT ![w] = WorkerAt("claimed", o, wk[w].slot)]
        /\ status' = IF moves THEN [status EXCEPT ![o] = "dispatch_queued"] ELSE status
     \/ /\ ~RetryResets(w)
        /\ \E i \in Slots :
             /\ IsNewSlot(o, i)
             /\ job' = [job EXCEPT ![o][i] = [st |-> "processing",
                                              attempts |-> 1, due |-> TRUE]]
             /\ wk' = [wk EXCEPT ![w] = WorkerAt("claimed", o, i)]
        /\ status' = IF moves THEN [status EXCEPT ![o] = "dispatch_queued"] ELSE status
     \/ /\ RetryResets(w) /\ ~RetryRequeues(w)
        /\ wk' = [wk EXCEPT ![w] = IdleWorker]
        /\ UNCHANGED <<job, status>>
  /\ UNCHANGED <<waybill, lock, se, CarrierVars, Bounds>>

\* The process dies; its transaction rolls back and its row lock is gone.
Crash(w) ==
  LET o == wk[w].ord
      locked == wk[w].pc \in {"calling", "completing"} IN
  /\ wk[w].pc \notin {"idle", "picked", "retry"} /\ crashes < MaxCrashes
  /\ lock' = IF locked THEN [lock EXCEPT ![o] = Free] ELSE lock
  /\ lost' = IF wk[w].pc = "completing"
               THEN [lost EXCEPT ![o] = @ \/ waybill[o] = NoWaybill] ELSE lost
  /\ stranded' = stranded \cup {o}
  /\ crashes' = crashes + 1
  /\ wk' = [wk EXCEPT ![w] = IdleWorker]
  /\ UNCHANGED <<DbVars, se, booked, alive, retries>>

-----------------------------------------------------------------------------
(* Requests of customers and staff.                                         *)

\* A cancellation that reaches _finalize_cancellation has read the order and,
\* for an order in the queue, its queued and failed jobs.
CancelRead(s, o) ==
  /\ se[s].pc = "idle" /\ status[o] \in Cancellable
  /\ se' = [se EXCEPT ![s] = [SessionAt("cancel", o, status[o]) EXCEPT
              !.jobs = {i \in Slots : /\ status[o] \in QueueStatuses
                                      /\ job[o][i].st \in {"queued", "failed"}}]]
  /\ UNCHANGED <<DbVars, lock, wk, CarrierVars, Bounds>>

\* The carrier agrees to cancel the recorded invoice (_try_api_cancel).
CancelAtCarrier(s) ==
  LET o == se[s].ord IN
  /\ se[s].pc = "cancel" /\ se[s].seen \in {"paid", "sent_to_carrier"}
  /\ waybill[o] \in alive[o]
  /\ alive' = [alive EXCEPT ![o] = @ \ {waybill[o]}]
  /\ UNCHANGED <<DbVars, lock, wk, se, booked, lost, Bounds>>

CancelWrite(s) ==
  LET o == se[s].ord IN
  /\ se[s].pc = "cancel" /\ lock[o] = Free
  /\ CanTransition(se[s].seen, "cancelled")
  /\ status' = [status EXCEPT ![o] = "cancelled"]
  /\ job' = [job EXCEPT ![o] = [i \in Slots |->
               IF i \in se[s].jobs THEN [job[o][i] EXCEPT !.st = "cancelled"] ELSE job[o][i]]]
  /\ se' = [se EXCEPT ![s] = IdleSession]
  /\ UNCHANGED <<waybill, lock, wk, CarrierVars, Bounds>>

\* mark_dispatched: the admin types in the number of a waybill made by hand.
MarkRead(s, o) ==
  /\ se[s].pc = "idle" /\ CanTransition(status[o], "sent_to_carrier")
  /\ se' = [se EXCEPT ![s] = SessionAt("mark", o, status[o])]
  /\ UNCHANGED <<DbVars, lock, wk, CarrierVars, Bounds>>

MarkWrite(s) ==
  LET o == se[s].ord IN
  /\ se[s].pc = "mark" /\ lock[o] = Free
  /\ status' = [status EXCEPT ![o] = "sent_to_carrier"]
  /\ waybill' = [waybill EXCEPT ![o] = ManualWaybill]
  /\ se' = [se EXCEPT ![s] = IdleSession]
  /\ UNCHANGED <<job, lock, wk, CarrierVars, Bounds>>

\* update_order_status: any status to any other, outside the status machine.
OverrideRead(s, o, target) ==
  /\ se[s].pc = "idle"
  /\ se' = [se EXCEPT ![s] = [SessionAt("override", o, status[o]) EXCEPT !.target = target]]
  /\ UNCHANGED <<DbVars, lock, wk, CarrierVars, Bounds>>

OverrideWrite(s) ==
  LET o == se[s].ord IN
  /\ se[s].pc = "override" /\ lock[o] = Free
  /\ status' = [status EXCEPT ![o] = IF se[s].seen = se[s].target
                                       THEN @ ELSE se[s].target]
  /\ se' = [se EXCEPT ![s] = IdleSession]
  /\ UNCHANGED <<job, waybill, lock, wk, CarrierVars, Bounds>>

\* The request ends without a commit: the carrier refuses to cancel (a request
\* is filed instead), or an exception; get_db rolls back and closes.
Abandon(s) ==
  /\ se[s].pc # "idle"
  /\ se' = [se EXCEPT ![s] = IdleSession]
  /\ UNCHANGED <<DbVars, lock, wk, CarrierVars, Bounds>>

\* reschedule_pickup cancels the recorded waybill at the carrier, flushes the
\* cleared number and the new job, and returns; the endpoint never commits, so
\* get_db's close rolls all of that back.  An exception of the carrier call is
\* swallowed (no effect here).
Reschedule(o) ==
  /\ status[o] \in Reschedulable /\ waybill[o] \in alive[o]
  /\ alive' = [alive EXCEPT ![o] = @ \ {waybill[o]}]
  /\ UNCHANGED <<DbVars, lock, wk, se, booked, lost, Bounds>>

-----------------------------------------------------------------------------
Progress(w) ==
  \/ Claim(w) \/ LockOrder(w)
  \/ \E numbered \in BOOLEAN : CarrierAccepts(w, numbered)
  \/ CarrierAcceptsAndRaises(w)
  \/ \E perm \in BOOLEAN : CarrierRefuses(w, perm)
  \/ ReadFailure(w) \/ WriteFailure(w)
  \/ Complete(w) \/ CompleteFails(w)
  \/ ReadPosting(w) \/ Persist(w) \/ PersistFails(w)
  \/ RetryClaim(w)

WorkerStep(w) ==
  \/ Progress(w) \/ Crash(w)
  \/ \E o \in Orders : RetryRead(w, o)
  \/ \E o \in Orders, i \in Slots : PollPick(w, o, i) \/ StreamPick(w, o, i)

SessionStep(s) ==
  \/ \E o \in Orders : EnqueueRead(s, o) \/ CancelRead(s, o) \/ MarkRead(s, o)
  \/ \E o \in Orders, target \in OverrideTargets : OverrideRead(s, o, target)
  \/ EnqueueWrite(s) \/ CancelAtCarrier(s) \/ CancelWrite(s)
  \/ MarkWrite(s) \/ OverrideWrite(s) \/ Abandon(s)

Next ==
  \/ \E w \in Workers : WorkerStep(w)
  \/ \E s \in Sessions : SessionStep(s)
  \/ \E o \in Orders : Reschedule(o)
  \/ \E o \in Orders, i \in Slots : ComesDue(o, i)

Spec == Init /\ [][Next]_vars

-----------------------------------------------------------------------------
RowsOK ==
  /\ status \in [Orders -> Statuses]
  /\ job \in [Orders -> [Slots -> JobRecords]]
  /\ waybill \in [Orders -> Waybills]
  /\ lock \in [Orders -> Workers \cup {Free}]

WorkersOK ==
  /\ wk \in [Workers -> WorkerRecords]
  /\ \A w \in Workers :
       /\ wk[w].pc # "idle" => wk[w].ord \in Orders
       /\ wk[w].pc \notin {"idle", "retry"} => wk[w].slot \in Slots
       /\ wk[w].pc = "retry" /\ RetryResets(w) => wk[w].slot \in Slots

SessionsOK ==
  /\ se \in [Sessions -> SessionRecords]
  /\ \A s \in Sessions : se[s].pc # "idle" => se[s].ord \in Orders
  /\ \A s \in Sessions : se[s].pc = "override" => se[s].target \in OverrideTargets

CarrierOK ==
  /\ booked \in [Orders -> 0..MaxBookings]
  /\ alive \in [Orders -> SUBSET (1..MaxBookings)]
  /\ lost \in [Orders -> BOOLEAN]

BoundsOK ==
  /\ stranded \subseteq Orders
  /\ crashes \in 0..MaxCrashes
  /\ retries \in 0..MaxRetries

\* Every variable has its type, and a busy worker or session has an order.
TypeOK == RowsOK /\ WorkersOK /\ SessionsOK /\ CarrierOK /\ BoundsOK

\* From the lock to the commit of _process_job the order stays
\* dispatch_queued, whatever customers, staff and other workers do: the
\* carrier is never called for an order that has left the queue.
CallUnderLock ==
  \A w \in Workers : wk[w].pc \in {"calling", "completing"} =>
    /\ lock[wk[w].ord] = w
    /\ status[wk[w].ord] = "dispatch_queued"

\* A second invoice exists only if the number of an earlier one was lost: no
\* interleaving of workers, retries and requests books an order twice while
\* the first number is recorded or in hand (the idempotency guard of
\* _process_job together with the row lock).
DuplicateOnlyAfterLoss == \A o \in Orders : booked[o] >= 2 => lost[o]

\* An order reaches sent_to_carrier only with an invoice of the carrier or a
\* number typed in by staff behind it.
SentWasBooked ==
  \A o \in Orders : status[o] = "sent_to_carrier" =>
    booked[o] >= 1 \/ waybill[o] = ManualWaybill
    \/ "sent_to_carrier" \in OverrideTargets

\* The bookkeeping the three properties above rest on.  The number of an
\* accepted invoice is recorded, in the hands of the worker that holds the
\* row lock, or lost.
NumberRecordedHeldOrLost ==
  \A o \in Orders : booked[o] >= 1 =>
    \/ lost[o] \/ waybill[o] # NoWaybill
    \/ \E w \in Workers : /\ wk[w].pc = "completing" /\ wk[w].ord = o
                          /\ wk[w].got # NoWaybill

\* No number is recorded for an order while the carrier is being called.
OpenWhileCalling ==
  \A w \in Workers : wk[w].pc = "calling" => waybill[wk[w].ord] = NoWaybill

\* Every number recorded or in hand is the carrier's or was typed in, and a
\* worker completes without a number only after the carrier accepted.
NumbersHaveOrigin ==
  /\ \A o \in Orders : waybill[o] > 0 => booked[o] >= 1
  /\ \A w \in Workers :
       /\ wk[w].pc \in {"completing", "posting", "persisting"} /\ wk[w].got > 0
            => booked[wk[w].ord] >= 1
       /\ wk[w].pc = "completing" /\ wk[w].got = NoWaybill => booked[wk[w].ord] >= 1

\* Together they are inductive.
BookingInv ==
  /\ TypeOK /\ CallUnderLock /\ OpenWhileCalling /\ NumberRecordedHeldOrLost
  /\ DuplicateOnlyAfterLoss /\ NumbersHaveOrigin /\ SentWasBooked

\* A retry may reset the counter of a job while a worker is failing it; still
\* no job is attempted more than max_attempts times between two resets
\* (unless two retries race: the loser requeues from a stale counter).
AttemptsBounded ==
  retries <= 1 => \A o \in Orders, i \in Slots : job[o][i].attempts <= MaxAttempts

\* An order in dispatch_queued has a job that a worker will run, or a worker
\* at work on it, except where a worker died or could not record its failure
\* (and where staff override statuses by hand, or click retry twice: two
\* retries that race with a cancellation can strand the order).
QueuedOrderHasJob ==
  \A o \in Orders : status[o] = "dispatch_queued" =>
    \/ \E i \in Slots : job[o][i].st \in {"queued", "processing"}
    \/ \E w \in Workers : wk[w].ord = o /\ wk[w].pc \notin {"idle", "picked", "retry"}
    \/ o \in stranded \/ retries > 1 \/ "dispatch_queued" \in OverrideTargets

\* The booking of an order as CarrierBooking sees it.
phase == [o \in Orders |->
  IF waybill[o] # NoWaybill THEN "recorded"
  ELSE IF \E w \in Workers : /\ wk[w].pc = "completing" /\ wk[w].ord = o
                             /\ wk[w].got # NoWaybill THEN "held"
  ELSE IF lost[o] THEN "lost" ELSE "open"]

CB == INSTANCE CarrierBooking WITH count <- booked

\* The interleaved workers keep the promise of CarrierBooking.
BooksOnce == CB!Spec

\* status_machine.py gives "cancelled" no successor: a cancelled order stays
\* cancelled.
CancelledIsFinal ==
  [][\A o \in Orders : status[o] = "cancelled" => status'[o] = "cancelled"]_vars

\* _process_job's docstring: a cancellation that arrives during the carrier
\* call "waits for our commit and sees sent_to_carrier".
CancelSeesDispatch ==
  [][\A o \in Orders, s \in Sessions :
       /\ se[s].pc = "cancel" /\ se[s].ord = o /\ se'[s].pc = "idle"
       /\ status[o] = "sent_to_carrier"
       => se[s].seen = "sent_to_carrier"]_vars

\* reschedule_pickup's docstring: the cancelled waybill is cleared and the
\* order queued again, so the waybill of a sent order is one the carrier has,
\* unless a cancellation is under way.
SentWaybillIsLive ==
  \A o \in Orders : status[o] = "sent_to_carrier" /\ waybill[o] > 0 =>
    waybill[o] \in alive[o] \/ \E s \in Sessions : se[s].pc = "cancel" /\ se[s].ord = o

=============================================================================
