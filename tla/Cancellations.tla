---------------------------- MODULE Cancellations ----------------------------
(***************************************************************************)
(* Cancelling a paid order (CancellationRequestsService, the endpoints of   *)
(* customers, staff and carriers that call it, and the job that retries     *)
(* refused cancellations at the carrier), beside the handlers that move the *)
(* order meanwhile: dispatcher, tracking webhook and poller, the carrier's  *)
(* portal, staff.  One order stands for each; what its cancellation does to *)
(* payments and jobs is in module Payments.                                 *)
(*                                                                          *)
(* As everywhere in this code a handler reads, may call the carrier, and    *)
(* writes by primary key at its commit, so that a handler that read the     *)
(* order before it was cancelled writes its status over "cancelled".  The   *)
(* job also holds the requests it has listed: SQLAlchemy's session.get      *)
(* returns the object of the identity map, so the check of                  *)
(* auto_retry_api_cancel sees the listed copy.                              *)
(***************************************************************************)
EXTENDS Integers, OrderStatus

CONSTANTS
  Sessions,      \* requests of customers, staff and carriers under way
  Replicas,      \* worker processes inside the retry job
  Movers,        \* other handlers that move the order
  CarrierEvents, \* statuses that events of the carrier set
  OverrideTargets, \* statuses the admin override sets
  MaxRetries,    \* MAX_RETRIES, the length of _RETRY_BACKOFF
  MaxReqs,       \* bound: cancellation requests filed for the order
  MaxFailures    \* bound: exceptions that end a run of the job

ASSUME CancellationsAssumption ==
  /\ MaxRetries \in Nat \ {0} /\ MaxReqs \in Nat /\ MaxFailures \in Nat
  /\ CarrierEvents \subseteq Statuses /\ OverrideTargets \subseteq Statuses

VARIABLES
  order,     \* order_drafts.status
  hasApi,    \* the order's carrier is one of _CARRIERS_WITH_CANCEL_API
  invoice,   \* at the carrier: "none", "live" or "dead"
  req,       \* cancellation_requests of the order, oldest first
  se,        \* what each session is doing and what it has read
  job,       \* the same of each replica of the job
  mv,        \* what each mover has read of the order and is to write
  adrift,    \* the carrier has cancelled and nobody here knows any more
  revived,   \* some commit put another status over "cancelled"
  failures

vars == <<order, hasApi, invoice, req, se, job, mv, adrift, revived, failures>>

Reqs == 1..MaxReqs
Decisions == {"approved", "api_cancelled", "rejected"}
ReqRecords == [st: {"none", "pending"} \cup Decisions, tries: 0..MaxRetries,
               next: {"none", "later", "due"}]
NoReq == [st |-> "none", tries |-> 0, next |-> "none"]

\* What a handler holds: the order it read, its request and the copy of it.
Handlers == [pc: {"idle", "listed", "calling", "agreed", "refused", "creating",
                  "closing", "auto_rejecting", "rejecting"},
             seen: Statuses, r: 0..MaxReqs, copy: ReqRecords, asked: BOOLEAN]
Idle == [pc |-> "idle", seen |-> "draft", r |-> 0, copy |-> NoReq, asked |-> FALSE]

Moves == [pc: {"idle", "moving", "marking"}, seen: Statuses, to: Statuses]
Still == [pc |-> "idle", seen |-> "draft", to |-> "draft"]

\* Statuses in which a cancellation is accepted, and in which the API is tried.
Cancellable == {"paid", "dispatch_queued", "dispatch_failed", "pending_manual",
                "pending_manual_dispatch", "sent_to_carrier"}
ApiAllowed == {"paid", "sent_to_carrier"}

Init ==
  /\ order \in {"paid", "dispatch_queued"}
  /\ hasApi \in BOOLEAN
  /\ invoice = "none"
  /\ req = [r \in Reqs |-> NoReq]
  /\ se = [s \in Sessions |-> Idle]
  /\ job = [w \in Replicas |-> Idle]
  /\ mv = [m \in Movers |-> Still]
  /\ adrift = FALSE /\ revived = FALSE /\ failures = 0

NoPending == \A r \in Reqs : req[r].st # "pending"
Tables == <<order, hasApi, invoice, req, adrift, revived>>
Others == <<hasApi, mv, revived>>

\* Session s starts a handler of which it has read the order and request r.
Begin(s, pc, r) ==
  /\ se[s].pc = "idle"
  /\ se' = [se EXCEPT ![s] = [Idle EXCEPT !.pc = pc, !.seen = order, !.r = r,
                                          !.copy = IF r = 0 THEN NoReq ELSE req[r]]]
  /\ UNCHANGED <<Tables, job, mv, failures>>

Done(s) == se' = [se EXCEPT ![s] = Idle]

-----------------------------------------------------------------------------
(* The carrier's API, called by h, the record of a session or of the job:   *)
(* it agrees, agrees and the answer is lost (a timeout), or refuses.        *)

Agrees == invoice # "none" /\ invoice' = "dead" /\ UNCHANGED adrift
AgreesUnheard == invoice # "none" /\ invoice' = "dead" /\ adrift' = (adrift \/ order # "cancelled")
Refuses == UNCHANGED <<invoice, adrift>>

Called(h, pc) == [h EXCEPT !.pc = pc, !.asked = TRUE]

CallByRequest(s) ==
  /\ se[s].pc = "calling"
  /\ \/ Agrees /\ se' = [se EXCEPT ![s] = Called(se[s], "agreed")]
     \/ (AgreesUnheard \/ Refuses) /\ se' = [se EXCEPT ![s] = Called(se[s], "refused")]
  /\ UNCHANGED <<order, Others, req, job, failures>>

CallByJob(w) ==
  /\ job[w].pc = "calling"
  /\ \/ Agrees /\ job' = [job EXCEPT ![w] = Called(job[w], "agreed")]
     \/ (AgreesUnheard \/ Refuses) /\ job' = [job EXCEPT ![w] = Called(job[w], "refused")]
  /\ UNCHANGED <<order, Others, req, se, failures>>

-----------------------------------------------------------------------------
(* The customer: request_cancellation.                                      *)

RequestRead(s) ==
  /\ order \in Cancellable /\ NoPending
  /\ Begin(s, IF hasApi /\ order \in ApiAllowed THEN "calling" ELSE "creating", 0)

\* The carrier has agreed: the order is closed without a request.
CancelDirectly(s) ==
  /\ se[s].pc = "agreed" /\ se[s].r = 0 /\ CanTransition(se[s].seen, "cancelled")
  /\ order' = "cancelled"
  /\ Done(s)
  /\ UNCHANGED <<Others, invoice, req, job, adrift, failures>>

\* Mutant of CreateRequest: without the partial unique index.
CreateRequest_NoIndex(s) ==
  /\ se[s].r = 0 /\ se[s].pc \in {"creating", "refused"}
  /\ \E r \in Reqs :
       /\ req[r].st = "none" /\ \A k \in 1..(r-1) : req[k].st # "none"
       /\ req' = [req EXCEPT ![r] = [st |-> "pending", tries |-> 0,
                    next |-> IF se[s].asked THEN "later" ELSE "none"]]
  /\ Done(s)
  /\ UNCHANGED <<order, Others, invoice, job, adrift, failures>>

\* _create_request_and_notify; the partial unique index of migration 044
\* lets one pending request through (the other insert raises).
CreateRequest(s) ==
  /\ se[s].r = 0 /\ se[s].pc \in {"creating", "refused"} /\ NoPending
  /\ \E r \in Reqs :
       /\ req[r].st = "none" /\ \A k \in 1..(r-1) : req[k].st # "none"
       /\ req' = [req EXCEPT ![r] = [st |-> "pending", tries |-> 0,
                    next |-> IF se[s].asked THEN "later" ELSE "none"]]
  /\ Done(s)
  /\ UNCHANGED <<order, Others, invoice, job, adrift, failures>>

-----------------------------------------------------------------------------
(* Staff and the carrier decide on a pending request.                       *)

ApproveRead(s, r) ==
  /\ req[r].st = "pending"
  /\ Begin(s, IF order \in Cancellable \cup {"cancelled"} THEN "closing"
              ELSE "auto_rejecting", r)

RetryByStaffRead(s, r) ==
  /\ req[r].st = "pending" /\ hasApi /\ order \in ApiAllowed
  /\ Begin(s, "calling", r)

RejectRead(s, r) == req[r].st = "pending" /\ Begin(s, "rejecting", r)

\* next_retry_at := None, written only if h read a date there.
Unscheduled(h, clears) ==
  IF clears /\ h.copy.next # "none" THEN "none" ELSE req[h.r].next

\* Mutant of Close: the request is closed and the order forgotten.
Close_RequestOnly(h) ==
  /\ h.pc \in {"closing", "agreed"} /\ h.r # 0
  /\ UNCHANGED order
  /\ req' = [req EXCEPT ![h.r] = [req[h.r] EXCEPT
               !.st = IF h.asked THEN "api_cancelled" ELSE "approved",
               !.next = Unscheduled(h, h.asked)]]

\* _finalize_and_close by the holder of h: one commit of order and request.
Close(h) ==
  /\ h.pc \in {"closing", "agreed"} /\ h.r # 0
  /\ order' = IF h.seen = "cancelled" THEN order ELSE "cancelled"
  /\ req' = [req EXCEPT ![h.r] = [req[h.r] EXCEPT
               !.st = IF h.asked THEN "api_cancelled" ELSE "approved",
               !.next = Unscheduled(h, h.asked)]]

CloseByStaff(s) ==
  /\ Close(se[s]) /\ Done(s)
  /\ UNCHANGED <<Others, invoice, job, adrift, failures>>

\* The order has moved on: the request is rejected in its place.
AutoReject(s) ==
  /\ se[s].pc = "auto_rejecting"
  /\ req' = [req EXCEPT ![se[s].r] = [req[se[s].r] EXCEPT
               !.st = "rejected", !.next = Unscheduled(se[s], TRUE)]]
  /\ Done(s)
  /\ UNCHANGED <<order, Others, invoice, job, adrift, failures>>

RejectWrite(s) ==
  /\ se[s].pc = "rejecting"
  /\ req' = [req EXCEPT ![se[s].r] = [req[se[s].r] EXCEPT !.st = "rejected"]]
  /\ Done(s)
  /\ UNCHANGED <<order, Others, invoice, job, adrift, failures>>

\* The handler fails and rolls back, or (retry_api_cancel) the carrier has
\* refused and only the error text is stored.
GiveUp(s) ==
  /\ se[s].pc # "idle"
  /\ adrift' = (adrift \/ (se[s].pc = "agreed" /\ order # "cancelled"))
  /\ Done(s)
  /\ UNCHANGED <<order, Others, invoice, req, job, failures>>

-----------------------------------------------------------------------------
(* The job: retry_cancellations and auto_retry_api_cancel.                  *)

ComesDue(r) ==
  /\ req[r].next = "later"
  /\ req' = [req EXCEPT ![r] = [req[r] EXCEPT !.next = "due"]]
  /\ UNCHANGED <<order, Others, invoice, se, job, adrift, failures>>

JobList(w, r) ==
  /\ job[w].pc = "idle" /\ req[r].st = "pending" /\ req[r].next = "due"
  /\ job' = [job EXCEPT ![w] = [Idle EXCEPT !.pc = "listed", !.r = r, !.copy = req[r]]]
  /\ UNCHANGED <<Tables, se, mv, failures>>

\* An earlier request of the batch fails: the rollback expires the session,
\* and this request is read again.
JobExpires(w) ==
  /\ job[w].pc = "listed"
  /\ job' = [job EXCEPT ![w] = [job[w] EXCEPT !.copy = req[job[w].r]]]
  /\ UNCHANGED <<Tables, se, mv, failures>>

\* The request's turn: what is not a due pending request is left alone; an
\* order for which the API makes no sense is taken off the schedule.
JobCheck(w) ==
  LET c == job[w].copy IN
  /\ job[w].pc = "listed"
  /\ \/ /\ c.st # "pending" \/ c.next # "due"
        /\ job' = [job EXCEPT ![w] = Idle]
        /\ UNCHANGED req
     \/ /\ c.st = "pending" /\ c.next = "due" /\ (~hasApi \/ order \notin ApiAllowed)
        /\ req' = [req EXCEPT ![job[w].r] = [req[job[w].r] EXCEPT !.next = "none"]]
        /\ job' = [job EXCEPT ![w] = Idle]
     \/ /\ c.st = "pending" /\ c.next = "due" /\ hasApi /\ order \in ApiAllowed
        /\ job' = [job EXCEPT ![w] = [job[w] EXCEPT !.pc = "calling", !.seen = order]]
        /\ UNCHANGED req
  /\ UNCHANGED <<order, Others, invoice, se, adrift, failures>>

CloseByJob(w) ==
  /\ Close(job[w])
  /\ job' = [job EXCEPT ![w] = Idle]
  /\ UNCHANGED <<Others, invoice, se, adrift, failures>>

\* Mutants of Reschedule: one attempt too many; the last failure keeps its date.
Reschedule_OneMore(w) ==
  LET tries == job[w].copy.tries + 1 IN
  /\ job[w].pc = "refused"
  /\ req' = [req EXCEPT ![job[w].r] = [req[job[w].r] EXCEPT
               !.tries = tries, !.next = IF tries > MaxRetries THEN "none" ELSE "later"]]
  /\ job' = [job EXCEPT ![w] = Idle]
  /\ UNCHANGED <<order, Others, invoice, se, adrift, failures>>

Reschedule_NotCounted(w) ==
  /\ job[w].pc = "refused"
  /\ req' = [req EXCEPT ![job[w].r].next = "later"]
  /\ job' = [job EXCEPT ![w] = Idle]
  /\ UNCHANGED <<order, Others, invoice, se, adrift, failures>>

\* The refusal is counted and the next attempt dated, up to MAX_RETRIES.
Reschedule(w) ==
  LET tries == job[w].copy.tries + 1 IN
  /\ job[w].pc = "refused"
  /\ req' = [req EXCEPT ![job[w].r] = [req[job[w].r] EXCEPT
               !.tries = tries, !.next = IF tries >= MaxRetries THEN "none" ELSE "later"]]
  /\ job' = [job EXCEPT ![w] = Idle]
  /\ UNCHANGED <<order, Others, invoice, se, adrift, failures>>

\* An exception, or the death of the process: nothing is counted.
JobFails(w) ==
  /\ job[w].pc # "idle" /\ failures < MaxFailures
  /\ failures' = failures + 1
  /\ adrift' = (adrift \/ (job[w].pc = "agreed" /\ order # "cancelled"))
  /\ job' = [job EXCEPT ![w] = Idle]
  /\ UNCHANGED <<order, Others, invoice, req, se>>

-----------------------------------------------------------------------------
(* Meanwhile the order goes its way.  Each mover reads the order, checks     *)
(* what it has read, and writes its status later, at its own commit.        *)

MoveRead(m, pc, to) ==
  /\ mv[m].pc = "idle"
  /\ mv' = [mv EXCEPT ![m] = [pc |-> pc, seen |-> order, to |-> to]]
  /\ UNCHANGED <<Tables, se, job, failures>>

\* A payment is confirmed, or staff retry a failed dispatch.
QueueRead(m) ==
  /\ order \in {"paid", "dispatch_failed", "pending_manual", "pending_manual_dispatch"}
  /\ MoveRead(m, "moving", "dispatch_queued")

\* The dispatcher gives up, or the carrier rejects the order in its portal.
FailRead(m) ==
  CanTransition(order, "dispatch_failed") /\ MoveRead(m, "moving", "dispatch_failed")

\* An event of the carrier: a webhook, a poll, or the portal's buttons.
EventRead(m, st) == CanTransition(order, st) /\ MoveRead(m, "moving", st)

\* Staff enter the number of a waybill made by hand, or set any status.
MarkRead(m) == CanTransition(order, "sent_to_carrier") /\ MoveRead(m, "marking", "sent_to_carrier")
OverrideRead(m, st) == MoveRead(m, "moving", st)

\* UPDATE ... WHERE id: whatever the status is by now.
MoveWrite(m) ==
  /\ mv[m].pc # "idle"
  /\ order' = IF mv[m].to = mv[m].seen THEN order ELSE mv[m].to
  /\ invoice' = IF mv[m].pc = "marking" THEN "live" ELSE invoice
  /\ revived' = (revived \/ (order = "cancelled" /\ order' # "cancelled"))
  /\ mv' = [mv EXCEPT ![m] = Still]
  /\ UNCHANGED <<hasApi, req, se, job, adrift, failures>>

MoveFails(m) ==
  /\ mv[m].pc # "idle"
  /\ mv' = [mv EXCEPT ![m] = Still]
  /\ UNCHANGED <<Tables, se, job, failures>>

\* The dispatcher's success: under the row lock of the order, so in one step.
\* A number that is recorded is kept.
Ship ==
  /\ order = "dispatch_queued" /\ order' = "sent_to_carrier"
  /\ invoice' = IF invoice = "none" THEN "live" ELSE invoice
  /\ UNCHANGED <<Others, req, se, job, adrift, failures>>

-----------------------------------------------------------------------------
SessionStep(s) ==
  \/ RequestRead(s) \/ CallByRequest(s) \/ CancelDirectly(s) \/ CreateRequest(s)
  \/ \E r \in Reqs : ApproveRead(s, r) \/ RetryByStaffRead(s, r) \/ RejectRead(s, r)
  \/ CloseByStaff(s) \/ AutoReject(s) \/ RejectWrite(s) \/ GiveUp(s)

MoverStep(m) ==
  \/ QueueRead(m) \/ FailRead(m) \/ MarkRead(m)
  \/ \E st \in CarrierEvents : EventRead(m, st)
  \/ \E st \in OverrideTargets : OverrideRead(m, st)
  \/ MoveWrite(m) \/ MoveFails(m)

JobProgress(w) == JobCheck(w) \/ CallByJob(w) \/ CloseByJob(w) \/ Reschedule(w)

JobStep(w) ==
  \/ JobProgress(w) \/ JobExpires(w) \/ JobFails(w)
  \/ \E r \in Reqs : JobList(w, r)

Next ==
  \/ \E s \in Sessions : SessionStep(s)
  \/ \E w \in Replicas : JobStep(w)
  \/ \E r \in Reqs : ComesDue(r)
  \/ \E m \in Movers : MoverStep(m)
  \/ Ship

Spec == Init /\ [][Next]_vars

\* The scheduler runs the job every 30 seconds, its calls return, and delays
\* run out.  Nobody has to decide anything.
Fairness ==
  /\ \A w \in Replicas : WF_vars(JobProgress(w))
  /\ \A r \in Reqs : WF_vars(ComesDue(r)) /\ WF_vars(\E w \in Replicas : JobList(w, r))

FairSpec == Spec /\ Fairness

-----------------------------------------------------------------------------
\* Every variable has its type.
TypeOK ==
  /\ order \in Statuses /\ hasApi \in BOOLEAN
  /\ invoice \in {"none", "live", "dead"}
  /\ req \in [Reqs -> ReqRecords]
  /\ se \in [Sessions -> Handlers] /\ job \in [Replicas -> Handlers]
  /\ mv \in [Movers -> Moves]
  /\ adrift \in BOOLEAN /\ revived \in BOOLEAN /\ failures \in 0..MaxFailures

\* A request that was approved, by a person or by the carrier's API, belongs
\* to an order that is cancelled, whoever else was deciding at the time (two
\* people, a person and the job, a customer and the carrier's answer), unless
\* a commit of another handler has put its status over "cancelled" since.
ApprovedIsCancelled ==
  \A r \in Reqs : req[r].st \in {"approved", "api_cancelled"} =>
    order = "cancelled" \/ revived

\* An invoice the carrier has cancelled at our request belongs to an order
\* that is cancelled or that a handler is about to cancel, unless the
\* carrier's answer or that handler was lost, or the order revived.
DeadInvoiceIsCancelled ==
  invoice = "dead" => \/ order = "cancelled" \/ adrift \/ revived
                      \/ \E s \in Sessions : se[s].pc = "agreed"
                      \/ \E w \in Replicas : job[w].pc = "agreed"

\* A request is scheduled only while attempts are left, whoever rescheduled it
\* on what copy, and one request of the order is pending at a time, however
\* many customers' requests race.
ScheduledHasAttempts ==
  /\ \A r \in Reqs : req[r].next # "none" => req[r].tries < MaxRetries
  /\ \A r, q \in Reqs : req[r].st = "pending" /\ req[q].st = "pending" => r = q

\* A scheduled retry does not go on for ever: the carrier agrees, the attempts
\* run out, the order moves on, or someone decides.
RetriesEnd ==
  \A r \in Reqs : req[r].next # "none" ~> req[r].next = "none" \/ req[r].st # "pending"

\* What the portal's accept_order says of its check: no order that was cancelled
\* is "revived".  It holds for nobody who read the order earlier.
NotRevived == ~revived

\* The model's comment in the code: the finalized states of a request are
\* terminal.  A handler that read it pending decides it a second time.
DecisionsAreTerminal ==
  [][\A r \in Reqs : req[r].st \in Decisions => req'[r].st = req[r].st]_vars

=============================================================================
