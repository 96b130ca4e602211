------------------------------- MODULE Payments -------------------------------
(***************************************************************************)
(* The money of one order: its payment transactions, the commission ledger *)
(* and the dispatch jobs a payment creates (PaymentService, the webhook of *)
(* the payment provider, CommissionsService, and the closing step of a     *)
(* cancellation).  No row is shared by two orders, so one order stands for *)
(* each of them.                                                           *)
(*                                                                         *)
(* Nothing here locks: a request reads what it needs (one step), then      *)
(* writes by primary key at its commit (another step).  stale says that    *)
(* something was committed between the two, raced that such a request has  *)
(* committed; what the sequential code promises is stated for ~raced.      *)
(***************************************************************************)
EXTENDS Integers, FiniteSets, OrderStatus

CONSTANTS
  Sessions,         \* requests under way
  Events,           \* notifications of the payment provider, by external id
  OverrideTargets,  \* statuses the admin override sets
  MaxTxs,           \* bound: transactions of the order
  MaxRows,          \* bound: rows of its ledger
  MaxJobs           \* bound: its dispatch jobs

ASSUME PaymentsAssumption ==
  /\ MaxTxs \in Nat /\ MaxRows \in Nat /\ MaxJobs \in Nat
  /\ OverrideTargets \subseteq Statuses

VARIABLES
  status,    \* order_drafts.status
  tx,        \* payment_transactions of the order, oldest first
  ledger,    \* commissions of the order, oldest first
  job,       \* dispatch_jobs of the order, oldest first
  recorded,  \* provider_webhook_events
  se,        \* what each request is doing and what it has read
  raced,     \* a request has committed on what was no longer so
  dropped,   \* a confirmation died between its two commits
  mirrored   \* the order followed a cancellation the carrier told of

vars == <<status, tx, ledger, job, recorded, se, raced, dropped, mirrored>>

Txs == 1..MaxTxs
Rows == 1..MaxRows
Jobs == 1..MaxJobs

TxStates == {"none", "awaiting_payment", "payment_under_review", "paid",
             "payment_rejected", "refund_pending", "refunded", "cancelled"}
RowStates == {"none", "active", "reversed", "reversal"}
JobStates == {"none", "queued", "completed", "cancelled"}

Pcs == {"idle", "initiate", "proof", "approve", "reject", "refund", "cancel",
        "confirm", "confirmed", "provider_cancel", "override", "event"}
Requests ==
  [pc: Pcs, seen: Statuses, tx: 0..MaxTxs, row: 0..MaxRows,
   open: SUBSET Txs, due: SUBSET Txs, jobs: SUBSET Jobs, ev: SUBSET Events,
   target: Statuses, stale: BOOLEAN]
Idle == [pc |-> "idle", seen |-> "draft", tx |-> 0, row |-> 0, open |-> {},
         due |-> {}, jobs |-> {}, ev |-> {}, target |-> "draft", stale |-> FALSE]

\* A request that has read the order and perhaps one of its transactions.
Request(pc, t) == [Idle EXCEPT !.pc = pc, !.seen = status, !.tx = t]

\* Statuses in which a customer may cancel: before payment, and after it.
UnpaidCancellable == {"shipment_details_completed", "ready_for_checkout",
                      "awaiting_payment", "payment_rejected"}
Cancellable == {"paid", "dispatch_queued", "dispatch_failed", "pending_manual",
                "pending_manual_dispatch", "sent_to_carrier"}
InQueue == {"dispatch_queued", "dispatch_failed", "pending_manual",
            "pending_manual_dispatch"}
Payable == {"ready_for_checkout", "awaiting_payment", "payment_rejected"}

Init ==
  /\ status = "ready_for_checkout"
  /\ tx = [t \in Txs |-> "none"]
  /\ ledger = [r \in Rows |-> "none"]
  /\ job = [j \in Jobs |-> "none"]
  /\ recorded = {}
  /\ se = [s \in Sessions |-> Idle]
  /\ raced = FALSE /\ dropped = FALSE /\ mirrored = FALSE

\* Row i is the next one to be inserted into table.
IsNew(table, i) == table[i] = "none" /\ \A k \in 1..(i-1) : table[k] # "none"

Db == <<status, tx, ledger, job, recorded>>

Begin(s, request) ==
  /\ se[s].pc = "idle"
  /\ se' = [se EXCEPT ![s] = request]
  /\ UNCHANGED <<Db, raced, dropped, mirrored>>

\* A commit makes what the requests under way have read stale.
Aged == [x \in Sessions |-> IF se[x].pc = "idle" THEN se[x]
                             ELSE [se[x] EXCEPT !.stale = TRUE]]

Commit(s, after) ==
  /\ se' = [Aged EXCEPT ![s] = after]
  /\ raced' = (raced \/ se[s].stale)
  /\ UNCHANGED mirrored

\* get_active_for_order returns an active row, if there is one.
ActiveRow(r) ==
  IF \E k \in Rows : ledger[k] = "active" THEN r \in Rows /\ ledger[r] = "active"
  ELSE r = 0

-----------------------------------------------------------------------------
(* The ledger: record_commission and reverse_for_order.                     *)

RecordCommission ==
  \E n \in Rows : IsNew(ledger, n) /\ ledger' = [ledger EXCEPT ![n] = "active"]

\* Mutant of ReverseCommission: the offsetting row is not inserted.
ReverseCommission_NoStorno(r) ==
  ledger' = IF r = 0 THEN ledger ELSE [ledger EXCEPT ![r] = "reversed"]

\* Mutant of ReverseCommission: the original stays active.
ReverseCommission_StaysActive(r) ==
  IF r = 0 THEN UNCHANGED ledger
  ELSE \E n \in Rows : IsNew(ledger, n) /\ ledger' = [ledger EXCEPT ![n] = "reversal"]

\* The row that was found is marked and an offsetting row is inserted.
ReverseCommission(r) ==
  IF r = 0 THEN UNCHANGED ledger
  ELSE \E n \in Rows :
         /\ IsNew(ledger, n)
         /\ ledger' = [ledger EXCEPT ![r] = "reversed", ![n] = "reversal"]

-----------------------------------------------------------------------------
(* The customer pays.                                                       *)

\* An open or paid transaction is returned as it is; otherwise one is made.
InitiateRead(s) ==
  /\ status \in Payable /\ CanTransition(status, "awaiting_payment")
  /\ \A t \in Txs : tx[t] \notin {"awaiting_payment", "payment_under_review", "paid"}
  /\ Begin(s, Request("initiate", 0))

InitiateWrite(s) ==
  /\ se[s].pc = "initiate"
  /\ \E t \in Txs : IsNew(tx, t) /\ tx' = [tx EXCEPT ![t] = "awaiting_payment"]
  /\ status' = "awaiting_payment"
  /\ Commit(s, Idle)
  /\ UNCHANGED <<ledger, job, recorded, dropped>>

\* The endpoint checks the transaction, then uploads the file; the second
\* check, in submit_proof, sees the same object of the session's identity map.
ProofRead(s, t) ==
  /\ tx[t] \in {"awaiting_payment", "payment_rejected"}
  /\ Begin(s, Request("proof", t))

ProofWrite(s) ==
  /\ se[s].pc = "proof"
  /\ tx' = [tx EXCEPT ![se[s].tx] = "payment_under_review"]
  /\ status' = IF se[s].seen \in {"awaiting_payment", "payment_rejected"}
                 THEN "payment_under_review" ELSE status
  /\ Commit(s, Idle)
  /\ UNCHANGED <<ledger, job, recorded, dropped>>

-----------------------------------------------------------------------------
(* Staff review the payment.                                                *)

\* Mutant of ApproveRead: the transition of the order is not checked.
ApproveRead_AnyOrder(s, t) ==
  /\ tx[t] = "payment_under_review"
  /\ Begin(s, Request("approve", t))

ApproveRead(s, t) ==
  /\ tx[t] = "payment_under_review" /\ CanTransition(status, "paid")
  /\ Begin(s, Request("approve", t))

\* One commit: paid, the commission and the dispatch job together.
ApproveWrite(s) ==
  /\ se[s].pc = "approve"
  /\ tx' = [tx EXCEPT ![se[s].tx] = "paid"]
  /\ RecordCommission
  /\ \E j \in Jobs : IsNew(job, j) /\ job' = [job EXCEPT ![j] = "queued"]
  /\ status' = "dispatch_queued"
  /\ Commit(s, Idle)
  /\ UNCHANGED <<recorded, dropped>>

RejectRead(s, t) ==
  /\ tx[t] = "payment_under_review" /\ CanTransition(status, "payment_rejected")
  /\ Begin(s, Request("reject", t))

RejectWrite(s) ==
  /\ se[s].pc = "reject"
  /\ tx' = [tx EXCEPT ![se[s].tx] = "payment_rejected"]
  /\ status' = "payment_rejected"
  /\ Commit(s, Idle)
  /\ UNCHANGED <<ledger, job, recorded, dropped>>

RefundRead(s, t) ==
  /\ tx[t] \in {"paid", "refund_pending"} /\ CanTransition(status, "cancelled")
  /\ \E r \in 0..MaxRows :
       ActiveRow(r) /\ Begin(s, [Request("refund", t) EXCEPT !.row = r])

\* Mutant of RefundWrite: the commission is kept.
RefundWrite_KeepsCommission(s) ==
  /\ se[s].pc = "refund"
  /\ tx' = [tx EXCEPT ![se[s].tx] = "refunded"]
  /\ status' = "cancelled"
  /\ Commit(s, Idle)
  /\ UNCHANGED <<ledger, job, recorded, dropped>>

RefundWrite(s) ==
  /\ se[s].pc = "refund"
  /\ tx' = [tx EXCEPT ![se[s].tx] = "refunded"]
  /\ ReverseCommission(se[s].row)
  /\ status' = "cancelled"
  /\ Commit(s, Idle)
  /\ UNCHANGED <<job, recorded, dropped>>

-----------------------------------------------------------------------------
(* Cancellation: _cancel_unpaid, or a paid order whose cancellation the     *)
(* carrier or staff accept; both end in _finalize_cancellation.             *)

CancelRead(s) ==
  /\ status \in UnpaidCancellable \cup Cancellable
  /\ \E r \in 0..MaxRows :
       /\ ActiveRow(r)
       /\ Begin(s, [Request("cancel", 0) EXCEPT
            !.row = r,
            !.open = {t \in Txs : /\ status \in UnpaidCancellable
                                  /\ tx[t] \in {"awaiting_payment", "payment_rejected"}},
            !.due = {t \in Txs : tx[t] = "paid"},
            !.jobs = {j \in Jobs : status \in InQueue /\ job[j] = "queued"}])

\* Mutant of CancelWrite: the paid transactions are not looked for.
CancelWrite_NoRefund(s) ==
  /\ se[s].pc = "cancel"
  /\ tx' = [t \in Txs |-> IF t \in se[s].open THEN "cancelled" ELSE tx[t]]
  /\ job' = [j \in Jobs |-> IF j \in se[s].jobs THEN "cancelled" ELSE job[j]]
  /\ ReverseCommission(se[s].row)
  /\ status' = "cancelled"
  /\ Commit(s, Idle)
  /\ UNCHANGED <<recorded, dropped>>

\* The paid transactions are selected last: after the flush of
\* reverse_for_order, which waits for the order row, if it flushes at all.
CancelWrite(s) ==
  LET due == IF se[s].row = 0 THEN se[s].due ELSE {t \in Txs : tx[t] = "paid"} IN
  /\ se[s].pc = "cancel"
  /\ tx' = [t \in Txs |-> IF t \in se[s].open THEN "cancelled"
                          ELSE IF t \in due THEN "refund_pending" ELSE tx[t]]
  /\ job' = [j \in Jobs |-> IF j \in se[s].jobs THEN "cancelled" ELSE job[j]]
  /\ ReverseCommission(se[s].row)
  /\ status' = "cancelled"
  /\ Commit(s, Idle)
  /\ UNCHANGED <<recorded, dropped>>

-----------------------------------------------------------------------------
(* The webhook of the payment provider.  An event is recorded in the        *)
(* transaction that applies it; a recorded event is not applied again.      *)

Latest(t) == tx[t] # "none" /\ \A k \in (t+1)..MaxTxs : tx[k] = "none"

ConfirmRead(s, e) ==
  /\ e \notin recorded
  /\ \E t \in Txs :
       /\ Latest(t) /\ tx[t] \in {"awaiting_payment", "payment_under_review"}
       /\ CanTransition(status, "paid")
       /\ Begin(s, [Request("confirm", t) EXCEPT !.ev = {e}])

\* Mutant of ConfirmWrite: it returns after its first commit.
ConfirmWrite_Returns(s) ==
  /\ se[s].pc = "confirm" /\ se[s].ev \cap recorded = {}
  /\ tx' = [tx EXCEPT ![se[s].tx] = "paid"]
  /\ recorded' = recorded \cup se[s].ev
  /\ status' = "paid"
  /\ Commit(s, Idle)
  /\ UNCHANGED <<ledger, job, dropped>>

\* system_confirm_payment commits the payment and the event ...
ConfirmWrite(s) ==
  /\ se[s].pc = "confirm" /\ se[s].ev \cap recorded = {}
  /\ tx' = [tx EXCEPT ![se[s].tx] = "paid"]
  /\ recorded' = recorded \cup se[s].ev
  /\ status' = "paid"
  /\ Commit(s, [Idle EXCEPT !.pc = "confirmed", !.seen = "paid", !.tx = se[s].tx])
  /\ UNCHANGED <<ledger, job, dropped>>

\* Mutant of ConfirmQueue: the commission is not recorded.
ConfirmQueue_NoCommission(s) ==
  /\ se[s].pc = "confirmed"
  /\ \E j \in Jobs : IsNew(job, j) /\ job' = [job EXCEPT ![j] = "queued"]
  /\ status' = "dispatch_queued"
  /\ Commit(s, Idle)
  /\ UNCHANGED <<tx, ledger, recorded, dropped>>

\* ... and then the commission and the job, with the order still as it was.
ConfirmQueue(s) ==
  /\ se[s].pc = "confirmed" /\ CanTransition(se[s].seen, "dispatch_queued")
  /\ RecordCommission
  /\ \E j \in Jobs : IsNew(job, j) /\ job' = [job EXCEPT ![j] = "queued"]
  /\ status' = "dispatch_queued"
  /\ Commit(s, Idle)
  /\ UNCHANGED <<tx, recorded, dropped>>

\* The second transaction fails; a redelivery of the event is a duplicate.
ConfirmDies(s) ==
  /\ se[s].pc = "confirmed"
  /\ dropped' = TRUE
  /\ se' = [se EXCEPT ![s] = Idle]
  /\ UNCHANGED <<Db, raced, mirrored>>

ProviderCancelRead(s, e) ==
  /\ e \notin recorded /\ CanTransition(status, "cancelled")
  /\ \E r \in 0..MaxRows :
       /\ ActiveRow(r)
       /\ Begin(s, [Request("provider_cancel", 0) EXCEPT !.row = r, !.ev = {e}])

ProviderCancelWrite(s) ==
  /\ se[s].pc = "provider_cancel" /\ se[s].ev \cap recorded = {}
  /\ recorded' = recorded \cup se[s].ev
  /\ ReverseCommission(se[s].row)
  /\ status' = "cancelled"
  /\ Commit(s, Idle)
  /\ UNCHANGED <<tx, job, dropped>>

\* An amount that does not match, nothing to confirm, or nothing to cancel:
\* the event is recorded all the same.
IgnoreEvent(e) ==
  /\ e \notin recorded
  /\ recorded' = recorded \cup {e}
  /\ UNCHANGED <<status, tx, ledger, job, se, raced, dropped, mirrored>>

-----------------------------------------------------------------------------
(* The admin override, a request that fails, and the way of the parcel.     *)

OverrideRead(s, target) ==
  \E r \in 0..MaxRows :
    /\ IF target = "cancelled" /\ status # "cancelled" THEN ActiveRow(r) ELSE r = 0
    /\ Begin(s, [Request("override", 0) EXCEPT !.row = r, !.target = target])

OverrideWrite(s) ==
  /\ se[s].pc = "override"
  /\ ReverseCommission(se[s].row)
  /\ status' = IF se[s].seen = se[s].target THEN status ELSE se[s].target
  /\ Commit(s, Idle)
  /\ UNCHANGED <<tx, job, recorded, dropped>>

\* Staff record that the carrier has cancelled: the commission goes, too.
EventRead(s) ==
  \E r \in 0..MaxRows :
    /\ CanTransition(status, "cancelled") /\ ActiveRow(r)
    /\ Begin(s, [Request("event", 0) EXCEPT !.row = r])

EventWrite(s) ==
  /\ se[s].pc = "event"
  /\ ReverseCommission(se[s].row)
  /\ status' = "cancelled"
  /\ Commit(s, Idle)
  /\ UNCHANGED <<tx, job, recorded, dropped>>

Abandon(s) ==
  /\ se[s].pc \notin {"idle", "confirmed"}
  /\ se' = [se EXCEPT ![s] = Idle]
  /\ UNCHANGED <<Db, raced, dropped, mirrored>>

\* The worker of module Dispatch, which holds the order row while it works.
Ship ==
  /\ status = "dispatch_queued"
  /\ \E j \in Jobs : job[j] = "queued" /\ job' = [job EXCEPT ![j] = "completed"]
  /\ status' = "sent_to_carrier"
  /\ se' = Aged
  /\ UNCHANGED <<tx, ledger, recorded, raced, dropped, mirrored>>

Deliver ==
  /\ status = "sent_to_carrier" /\ status' = "delivered"
  /\ se' = Aged
  /\ UNCHANGED <<tx, ledger, job, recorded, raced, dropped, mirrored>>

\* A webhook or a poll tells that the carrier has cancelled: only the order
\* follows.  Both are read and commit in module Tracking, one step here.
CarrierCancels ==
  /\ status = "sent_to_carrier" /\ CanTransition(status, "cancelled")
  /\ status' = "cancelled" /\ mirrored' = TRUE
  /\ se' = Aged
  /\ UNCHANGED <<tx, ledger, job, recorded, raced, dropped>>

-----------------------------------------------------------------------------
Customer(s) ==
  \/ InitiateRead(s) \/ InitiateWrite(s)
  \/ (\E t \in Txs : ProofRead(s, t)) \/ ProofWrite(s)
  \/ CancelRead(s) \/ CancelWrite(s)

Staff(s) ==
  \/ \E t \in Txs : ApproveRead(s, t) \/ RejectRead(s, t) \/ RefundRead(s, t)
  \/ ApproveWrite(s) \/ RejectWrite(s) \/ RefundWrite(s)
  \/ (\E target \in OverrideTargets : OverrideRead(s, target)) \/ OverrideWrite(s)
  \/ EventRead(s) \/ EventWrite(s)

Provider(s) ==
  \/ \E e \in Events : ConfirmRead(s, e) \/ ProviderCancelRead(s, e)
  \/ ConfirmWrite(s) \/ ConfirmQueue(s) \/ ConfirmDies(s) \/ ProviderCancelWrite(s)

Next ==
  \/ \E s \in Sessions : Customer(s) \/ Staff(s) \/ Provider(s) \/ Abandon(s)
  \/ \E e \in Events : IgnoreEvent(e)
  \/ Ship \/ Deliver \/ CarrierCancels

Spec == Init /\ [][Next]_vars

-----------------------------------------------------------------------------
\* Every variable has its type.
TypeOK ==
  /\ status \in Statuses
  /\ tx \in [Txs -> TxStates]
  /\ ledger \in [Rows -> RowStates]
  /\ job \in [Jobs -> JobStates]
  /\ recorded \subseteq Events
  /\ se \in [Sessions -> Requests]
  /\ raced \in BOOLEAN /\ dropped \in BOOLEAN /\ mirrored \in BOOLEAN

Count(table, state) == Cardinality({i \in DOMAIN table : table[i] = state})

\* The sum of the ledger in units of the order's price: an active or reversed
\* row counts once, a reversal counts against it.
Net == Count(ledger, "active") + Count(ledger, "reversed") - Count(ledger, "reversal")

\* Orders whose commission stands.
Earning == {"dispatch_queued", "sent_to_carrier", "delivered"}
OnlyCancels == OverrideTargets \subseteq {"cancelled"}

\* No interleaving makes the ledger claim more than its active rows: every
\* reversed row is offset (reverse_for_order: "the net effect is zero").
LedgerNeverOverstates == Net <= Count(ledger, "active")

\* Requests that do not overlap keep the ledger in step with the order: one
\* commission from the moment it is queued, none before or once cancelled,
\* except that a cancellation learnt by webhook or poll leaves it (tracking's
\* add_event reverses it, carrier_tracking and the poller do not).
LedgerMatchesOrder ==
  ~raced /\ OnlyCancels =>
    Net = IF status \in Earning \/ mirrored THEN 1 ELSE 0

\* An order that is queued, sent or delivered is paid for, by one transaction.
DispatchedIsPaidOnce ==
  ~raced /\ OnlyCancels /\ status \in Earning => Count(tx, "paid") = 1

\* A paid order is being queued by the request that confirmed it, unless that
\* request died between its commits.
PaidIsBeingQueued ==
  ~raced /\ OnlyCancels /\ status = "paid" =>
    dropped \/ \E s \in Sessions : se[s].pc = "confirmed"

\* A customer's cancellation leaves no payment that nobody will return.
CancelReturnsMoney ==
  [][\A s \in Sessions :
       se[s].pc = "cancel" /\ ~se[s].stale /\ status' = "cancelled" /\ status # "cancelled"
         /\ se'[s].pc = "idle" => Count(tx', "paid") = 0]_vars

\* reverse_for_order's docstring: a reversal offsets a reversed row, and
\* "calling twice on the same order is a no-op".
ReversalsCancelOut == Count(ledger, "reversal") = Count(ledger, "reversed")

\* admin_refund's comment: REFUND_PENDING is set by a cancellation, and "admin
\* sees it ... and can finalize the refund from here".
PendingRefundCanFinish ==
  \A t \in Txs : tx[t] = "refund_pending" => CanTransition(status, "cancelled")

=============================================================================
