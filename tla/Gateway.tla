------------------------------- MODULE Gateway -------------------------------
(***************************************************************************)
(* One order's way to its carrier: the dispatch worker's call, the client  *)
(* of the carrier gateway (backend/app/core/carrier_gateway_client.py),    *)
(* the gateway itself (backend/carrier_gateway/gateway.py) and the API     *)
(* clients of Azimuth, Exline and CSE (app/modules/carriers/api_clients).  *)
(* After the waybill: Azimuth's courier call, which the worker and the     *)
(* staff may both make, and the printed label, which staff replace and     *)
(* the customer downloads through a Redis cache.                           *)
(*                                                                         *)
(* A call is one HTTP request of create-invoice in the gateway.  Its       *)
(* record stays after its end: number is the invoice the carrier booked    *)
(* for it (0: none), cut says that some link between the carrier and the   *)
(* order broke while it ran.  Module Dispatch models the job queue and the *)
(* races for the order; here one worker at a time dispatches the order,    *)
(* under the order's row lock.                                             *)
(***************************************************************************)
EXTENDS Integers, FiniteSets

CONSTANTS
  Carriers,       \* the carriers to consider, of "azimuth", "exline", "cse"
  Staff,          \* requests of the staff: retry-pickup, refresh-waybill
  MaxAttempts,    \* DispatchJob.max_attempts
  MaxTries,       \* _MAX_RETRIES + 1 of the Exline client
  MaxCalls,       \* bound: calls of create-invoice
  MaxFaults,      \* bound: restarts of the gateway, deaths of the worker
  MaxVisits,      \* bound: courier calls accepted
  MaxFiles        \* bound: uploads of a label

ASSUME GatewayAssumption ==
  /\ Carriers \subseteq {"azimuth", "exline", "cse"} /\ "worker" \notin Staff
  /\ {MaxAttempts, MaxTries} \subseteq Nat \ {0}
  /\ {MaxCalls, MaxFaults, MaxVisits, MaxFiles} \subseteq Nat

VARIABLES
  carrier,     \* order.carrier_code_snapshot
  complete,    \* the order's data pass the client's own checks (Exline has none)
  pickup,      \* order.pickup_requested (read for Azimuth only)
  job,         \* DispatchJob.status of the order's last job
  tries,       \* DispatchJob.attempts
  waybill,     \* shipments.carrier_tracking_number (0: NULL)
  worker,      \* the worker that dispatches the order, and what it has read
  calls,       \* the calls of create-invoice
  booked,      \* the carrier's invoices
  alive,       \* those of them it has not cancelled
  courier,     \* order.pickup_scheduled_azimuth_id is set
  visits,      \* courier calls Azimuth has accepted
  staff,       \* what each request of the staff is doing
  excused,     \* a courier call overlapped another, or its answer was lost
  label,       \* the file of the order's newest LABEL document (0: none)
  files,       \* the label files in storage
  cached,      \* Redis pdf:label:<order> (0: none)
  reader,      \* the file a download has read from the database, not yet cached
  torn,        \* a refresh failed half-way, or a download overlapped one
  faults, uploads

orderVars == <<carrier, complete, pickup>>
jobVars == <<job, tries, waybill>>
carrierVars == <<booked, alive>>
pickupVars == <<courier, visits, excused>>
labelVars == <<label, files, cached, reader, torn, uploads>>
vars == <<orderVars, jobVars, worker, calls, carrierVars, pickupVars, staff,
          labelVars, faults>>

CallIds == 1..MaxCalls
NoCall == [at |-> "unused", key |-> 0, try |-> 0, number |-> 0, pdf |-> FALSE, cut |-> FALSE]
IdleWorker == [at |-> "idle", call |-> 0, resent |-> FALSE, saw |-> FALSE]

Init ==
  /\ carrier \in Carriers
  /\ complete \in BOOLEAN /\ (carrier = "exline" => complete)
  /\ pickup \in BOOLEAN /\ (pickup => carrier = "azimuth")
  /\ job = "queued" /\ tries = 0 /\ waybill = 0
  /\ worker = IdleWorker
  /\ calls = [c \in CallIds |-> NoCall]
  /\ booked = {} /\ alive = {}
  /\ courier = FALSE /\ visits = 0 /\ excused = FALSE
  /\ staff = [s \in Staff |-> "idle"]
  /\ label = 0 /\ files = {} /\ cached = 0 /\ reader = 0 /\ torn = FALSE
  /\ faults = 0 /\ uploads = 0

-----------------------------------------------------------------------------
(* The worker's side.                                                       *)

IsNextCall(c) == calls[c].at = "unused" /\ \A d \in 1..(c-1) : calls[d].at # "unused"

\* POST /invoke/create-invoice with the order's data and credentials.
Post(c, w) ==
  /\ IsNextCall(c)
  /\ calls' = [calls EXCEPT ![c].at = "gateway", ![c].try = 1]
  /\ worker' = [w EXCEPT !.call = c]

\* A request of the staff is calling the courier.
Calling(s) == staff[s] \in {"calling", "called"}

\* The job is claimed, the order locked and read; there is no waybill yet.
Attempt(c) ==
  /\ worker.at = "idle" /\ job = "queued" /\ waybill = 0
  /\ job' = "processing" /\ tries' = tries + 1
  /\ Post(c, [IdleWorker EXCEPT !.at = "waiting", !.saw = courier])
  /\ excused' = (excused \/ \E s \in Staff : Calling(s))
  /\ UNCHANGED <<orderVars, waybill, carrierVars, courier, visits, staff, labelVars, faults>>

\* A waybill is recorded already: the carrier is not called.
AttemptSkipped ==
  /\ worker.at = "idle" /\ job = "queued" /\ waybill # 0
  /\ job' = "processing" /\ tries' = tries + 1
  /\ worker' = [IdleWorker EXCEPT !.at = "holding", !.saw = courier]
  /\ excused' = (excused \/ \E s \in Staff : Calling(s))
  /\ UNCHANGED <<orderVars, waybill, calls, carrierVars, courier, visits, staff,
                 labelVars, faults>>

\* _handle_retryable_failure: queued again, or failed for good.
GivesUp(permanent) ==
  /\ job' = IF permanent \/ tries >= MaxAttempts THEN "failed" ELSE "queued"
  /\ worker' = IdleWorker
  /\ UNCHANGED <<orderVars, tries, waybill, carrierVars, pickupVars, staff, labelVars, faults>>

Waiting == worker.at = "waiting"
Broken(c) == calls[c].at \in {"dead", "inflight"}

\* The gateway's answer: 200 with the number, or 502 with the carrier's error.
Hear ==
  /\ Waiting /\ calls[worker.call].at = "done"
  /\ worker' = [worker EXCEPT !.at = "holding"]
  /\ UNCHANGED <<orderVars, jobVars, calls, carrierVars, pickupVars, staff, labelVars, faults>>

HearError(permanent) ==
  /\ Waiting /\ calls[worker.call].at = "failed"
  /\ GivesUp(permanent)
  /\ UNCHANGED calls

\* RemoteProtocolError or ConnectError: the request is posted once more.
Resend(c) ==
  /\ Waiting /\ Broken(worker.call) /\ ~worker.resent
  /\ Post(c, [worker EXCEPT !.resent = TRUE])
  /\ UNCHANGED <<orderVars, jobVars, carrierVars, pickupVars, staff, labelVars, faults>>

\* The second post fails the same way, or the break shows as a ReadError.
ConnectionLost ==
  /\ Waiting /\ Broken(worker.call)
  /\ GivesUp(FALSE)
  /\ UNCHANGED calls

\* Sixty seconds are over: the call goes on in the gateway, unheard.
TimeOut ==
  /\ Waiting /\ calls[worker.call].at \in {"gateway", "asked", "booked", "created", "nopdf"}
  /\ calls' = [calls EXCEPT ![worker.call].cut = TRUE]
  /\ GivesUp(FALSE)

\* The number the worker holds: of its call, or the one recorded before.
Held == IF worker.call = 0 THEN waybill ELSE calls[worker.call].number
HasPdf == worker.call # 0 /\ calls[worker.call].pdf

\* _save_waybill_document: upload, document row, and the cached label dropped.
SaveLabel ==
  /\ uploads < MaxFiles
  /\ uploads' = uploads + 1 /\ files' = files \cup {uploads'}
  /\ label' = uploads' /\ cached' = 0
  /\ UNCHANGED <<reader, torn>>

\* _complete_dispatch commits; then the courier, by what the order said when
\* it was locked (the session does not expire it at the commit).
CallsCourier == carrier = "azimuth" /\ pickup /\ ~worker.saw

Complete ==
  /\ worker.at = "holding"
  /\ job' = "completed" /\ waybill' = Held
  /\ worker' = IF CallsCourier THEN [worker EXCEPT !.at = "pickup"] ELSE IdleWorker
  /\ IF HasPdf THEN SaveLabel \/ UNCHANGED labelVars ELSE UNCHANGED labelVars
  /\ UNCHANGED <<orderVars, tries, calls, carrierVars, pickupVars, staff, faults>>

\* _handle_post_dispatch_failure: the number is kept, the job is not retried;
\* or its own commit fails as well, and only the job's error names it.
CompleteFails(kept) ==
  /\ worker.at = "holding"
  /\ job' = "failed"
  /\ waybill' = IF kept THEN Held ELSE waybill
  /\ calls' = IF kept \/ worker.call = 0 THEN calls ELSE [calls EXCEPT ![worker.call].cut = TRUE]
  /\ worker' = IdleWorker
  /\ UNCHANGED <<orderVars, tries, carrierVars, pickupVars, staff, labelVars, faults>>

\* The worker process dies: the job stays in processing.
Crash ==
  /\ worker.at # "idle" /\ faults < MaxFaults
  /\ faults' = faults + 1
  /\ calls' = IF worker.at \in {"waiting", "holding"} /\ worker.call # 0
                THEN [calls EXCEPT ![worker.call].cut = TRUE] ELSE calls
  /\ excused' = (excused \/ worker.at = "called")
  /\ worker' = IdleWorker
  /\ UNCHANGED <<orderVars, jobVars, carrierVars, courier, visits, staff, labelVars>>

\* retry-dispatch of the staff: a new budget of attempts.
RetryDispatch ==
  /\ worker.at = "idle" /\ job \in {"failed", "processing"}
  /\ job' = "queued" /\ tries' = 0
  /\ UNCHANGED <<orderVars, waybill, worker, calls, carrierVars, pickupVars, staff,
                 labelVars, faults>>

-----------------------------------------------------------------------------
(* The gateway and the carriers' clients.                                   *)

GatewayStep(c, from, call) ==
  /\ calls[c].at = from
  /\ calls' = [calls EXCEPT ![c] = call]
  /\ UNCHANGED <<orderVars, jobVars, worker, pickupVars, staff, labelVars, faults>>

To(c, at) == [calls[c] EXCEPT !.at = at]

\* Azimuth: one to four places and a payer's number of twelve digits.
AzimuthRefuses == carrier = "azimuth" /\ ~complete
\* CSE: the paid urgency and a known currency of the cash on delivery.
CseRefuses == carrier = "cse" /\ ~complete

Refuse(c) ==
  /\ AzimuthRefuses \/ CseRefuses
  /\ GatewayStep(c, "gateway", To(c, "failed")) /\ UNCHANGED carrierVars

\* The number is made of the order's id: ten digits and RS.
\* Mutant of AzimuthKey: a new number for each call.
AzimuthKey_Random == Cardinality(booked) + 1
AzimuthKey == 1
AzimuthAsks(c) == carrier = "azimuth" /\ complete /\ calls'[c].key = AzimuthKey

\* NOVEX-<id>, the same in every call of the order.
ExlineAsks(c) == carrier = "exline" /\ calls'[c].key = 1

\* <Number/> is empty: CSE picks the number.
CseAsks(c) == carrier = "cse" /\ complete /\ calls'[c].key = 0

Ask(c) == \E key \in 0..(MaxCalls + 1) :
  /\ GatewayStep(c, "gateway", [To(c, "asked") EXCEPT !.key = key])
  /\ AzimuthAsks(c) \/ ExlineAsks(c) \/ CseAsks(c)
  /\ UNCHANGED carrierVars

\* The carrier books the invoice: under the key, or under a number of its own.
NewNumber(c) == IF calls[c].key = 0 THEN Cardinality(booked) + 1 ELSE calls[c].key

Book(c) ==
  LET n == NewNumber(c) IN
  /\ calls[c].at \in {"asked", "inflight"} /\ n \notin booked
  /\ booked' = booked \cup {n} /\ alive' = alive \cup {n}
  /\ GatewayStep(c, calls[c].at,
       [To(c, IF calls[c].at = "asked" THEN "booked" ELSE "dead") EXCEPT !.number = n])

\* Exline answers a key it knows with an error that names the order's number.
ExlineKnows(c) ==
  /\ carrier = "exline" /\ calls[c].key \in booked
  /\ GatewayStep(c, "asked", [To(c, "booked") EXCEPT !.number = calls[c].key])
  /\ UNCHANGED carrierVars

\* The client reads the answer and learns the number.
Learns(c) == GatewayStep(c, "booked", To(c, "created")) /\ UNCHANGED carrierVars

\* Azimuth: any status below 400 with a number or an id in its body.
AzimuthAnswers(c) == carrier = "azimuth" /\ Learns(c)
\* Exline: any answer that names the order's number, also one with an error.
ExlineAnswers(c) == carrier = "exline" /\ Learns(c)
\* CSE: the value of an item without an error.
CseAnswers(c) == carrier = "cse" /\ Learns(c)

\* No answer, or 5xx: Exline's client posts the same document again.
ExlineRetries(c) ==
  /\ carrier = "exline" /\ calls[c].at \in {"asked", "booked"} /\ calls[c].try < MaxTries
  /\ GatewayStep(c, calls[c].at, [To(c, "asked") EXCEPT !.try = @ + 1])
  /\ UNCHANGED carrierVars

\* The client raises and the gateway answers 502: the carrier refused, or its
\* answer did not come or could not be read.
Raises(c) ==
  /\ calls[c].at \in {"asked", "booked"}
  /\ GatewayStep(c, calls[c].at,
       [To(c, "failed") EXCEPT !.cut = @ \/ calls[c].number # 0])
  /\ UNCHANGED carrierVars

\* Azimuth answers 500 to a number it has already.
AzimuthRaises(c) == carrier = "azimuth" /\ Raises(c)
ExlineRaises(c) == carrier = "exline" /\ Raises(c)
CseRaises(c) == carrier = "cse" /\ Raises(c)

\* A failure to fetch the PDF is not the invoice's failure.
\* Mutant of WithoutPdf: it is.
WithoutPdf_Fails == "failed"
WithoutPdf == "nopdf"

\* The client's own request for the PDF.
FetchPdf(c) == \E fetched \in BOOLEAN :
  /\ GatewayStep(c, "created",
       [To(c, IF fetched THEN "done" ELSE WithoutPdf) EXCEPT !.pdf = fetched])
  /\ UNCHANGED carrierVars
AzimuthPdf(c) == carrier = "azimuth" /\ FetchPdf(c)
ExlinePdf(c) == carrier = "exline" /\ FetchPdf(c)
CsePdf(c) == carrier = "cse" /\ FetchPdf(c)

\* The gateway's second request for the PDF.
GatewayPdf(c) == \E fetched \in BOOLEAN :
  /\ GatewayStep(c, "nopdf", [To(c, "done") EXCEPT !.pdf = fetched])
  /\ UNCHANGED carrierVars

\* The gateway restarts: its calls are cut, a request already sent to the
\* carrier still arrives there.
AfterRestart(call) ==
  IF call.at \in {"gateway", "asked", "booked", "created", "nopdf"}
    THEN [call EXCEPT !.cut = TRUE, !.at = IF @ = "asked" THEN "inflight" ELSE "dead"]
    ELSE call

Restart ==
  /\ faults < MaxFaults /\ faults' = faults + 1
  /\ calls' = [c \in CallIds |-> AfterRestart(calls[c])]
  /\ UNCHANGED <<orderVars, jobVars, worker, carrierVars, pickupVars, staff, labelVars>>

\* reschedule_pickup asks the gateway to cancel the recorded invoice; what the
\* request wrote is rolled back.
CancelInvoice ==
  /\ job = "completed" /\ waybill \in alive
  /\ alive' = alive \ {waybill}
  /\ UNCHANGED <<orderVars, jobVars, worker, calls, booked, pickupVars, staff,
                 labelVars, faults>>

\* Any failure is False, which changes nothing; Azimuth's client only raises.
ExlineCancels == carrier = "exline" /\ CancelInvoice
CseCancels == carrier = "cse" /\ CancelInvoice

-----------------------------------------------------------------------------
(* Azimuth's courier.                                                       *)

\* POST /order-courier: Azimuth does not look for a duplicate.
CourierAccepts == visits < MaxVisits /\ visits' = visits + 1

\* The worker's call after its commit.
WorkerCallsCourier ==
  /\ worker.at = "pickup" /\ CourierAccepts
  /\ worker' = [worker EXCEPT !.at = "called"]
  /\ UNCHANGED <<orderVars, jobVars, calls, carrierVars, courier, excused, staff,
                 labelVars, faults>>

\* No credentials, no sender, a refusal: pickup_error is recorded; or the
\* courier was accepted and the answer lost.
WorkerCourierFails ==
  /\ worker.at \in {"pickup", "called"}
  /\ worker' = IdleWorker
  /\ excused' = (excused \/ worker.at = "called")
  /\ UNCHANGED <<orderVars, jobVars, calls, carrierVars, courier, visits, staff,
                 labelVars, faults>>

WorkerCourierSaved ==
  /\ worker.at = "called" /\ courier' = TRUE
  /\ worker' = IdleWorker
  /\ UNCHANGED <<orderVars, jobVars, calls, carrierVars, visits, excused, staff,
                 labelVars, faults>>

\* retry-pickup reads the order without a lock.
\* Mutant of RetryPickup: the recorded courier is not looked at.
RetryPickup_Unchecked(s) ==
  /\ staff[s] = "idle" /\ carrier = "azimuth" /\ pickup
  /\ staff' = [staff EXCEPT ![s] = "calling"]
  /\ excused' = (excused \/ worker.at # "idle" \/ \E t \in Staff : Calling(t))
  /\ UNCHANGED <<orderVars, jobVars, worker, calls, carrierVars, courier, visits,
                 labelVars, faults>>
RetryPickup(s) ==
  /\ staff[s] = "idle" /\ carrier = "azimuth" /\ pickup /\ ~courier
  /\ staff' = [staff EXCEPT ![s] = "calling"]
  /\ excused' = (excused \/ worker.at # "idle" \/ \E t \in Staff : Calling(t))
  /\ UNCHANGED <<orderVars, jobVars, worker, calls, carrierVars, courier, visits,
                 labelVars, faults>>

StaffCallsCourier(s) ==
  /\ staff[s] = "calling" /\ CourierAccepts
  /\ staff' = [staff EXCEPT ![s] = "called"]
  /\ UNCHANGED <<orderVars, jobVars, worker, calls, carrierVars, courier, excused,
                 labelVars, faults>>

StaffCourierFails(s) ==
  /\ Calling(s)
  /\ staff' = [staff EXCEPT ![s] = "idle"]
  /\ excused' = (excused \/ staff[s] = "called")
  /\ UNCHANGED <<orderVars, jobVars, worker, calls, carrierVars, courier, visits,
                 labelVars, faults>>

\* The commit waits for the worker's lock of the order.
StaffCourierSaved(s) ==
  /\ staff[s] = "called" /\ worker.at \notin {"waiting", "holding"}
  /\ courier' = TRUE
  /\ staff' = [staff EXCEPT ![s] = "idle"]
  /\ UNCHANGED <<orderVars, jobVars, worker, calls, carrierVars, visits, excused,
                 labelVars, faults>>

-----------------------------------------------------------------------------
(* The label.                                                               *)

Refreshing == \E s \in Staff : staff[s] = "refreshing"

\* refresh-waybill: the PDF is fetched again, the old files and the cached
\* name are dropped ...
\* Mutant of RefreshClears: the cached name is kept.
RefreshClears_KeepsCache(s) ==
  /\ staff[s] = "idle" /\ waybill # 0 /\ uploads < MaxFiles
  /\ staff' = [staff EXCEPT ![s] = "refreshing"]
  /\ files' = files \ {label}
  /\ torn' = (torn \/ reader # 0)
  /\ UNCHANGED <<orderVars, jobVars, worker, calls, carrierVars, pickupVars, label, cached,
                 reader, uploads, faults>>
RefreshClears(s) ==
  /\ staff[s] = "idle" /\ waybill # 0 /\ uploads < MaxFiles
  /\ staff' = [staff EXCEPT ![s] = "refreshing"]
  /\ files' = files \ {label} /\ cached' = 0
  /\ torn' = (torn \/ reader # 0)
  /\ UNCHANGED <<orderVars, jobVars, worker, calls, carrierVars, pickupVars, label,
                 reader, uploads, faults>>

\* ... and then the new file is uploaded and its document committed.
RefreshStores(s) ==
  /\ staff[s] = "refreshing" /\ uploads < MaxFiles
  /\ uploads' = uploads + 1 /\ files' = files \cup {uploads'} /\ label' = uploads'
  /\ staff' = [staff EXCEPT ![s] = "idle"]
  /\ UNCHANGED <<orderVars, jobVars, worker, calls, carrierVars, pickupVars, cached,
                 reader, torn, faults>>

\* The upload or the commit fails: the old document stays, without its file.
RefreshFails(s) ==
  /\ staff[s] = "refreshing" /\ torn' = TRUE
  /\ staff' = [staff EXCEPT ![s] = "idle"]
  /\ UNCHANGED <<orderVars, jobVars, worker, calls, carrierVars, pickupVars, label, files,
                 cached, reader, uploads, faults>>

\* get_label of the customer: nothing cached, the newest document is read ...
GetLabel ==
  /\ reader = 0 /\ cached = 0 /\ label # 0
  /\ reader' = label /\ torn' = (torn \/ Refreshing)
  /\ UNCHANGED <<orderVars, jobVars, worker, calls, carrierVars, pickupVars, staff, label,
                 files, cached, uploads, faults>>

\* ... and its file's name is cached for a day.
CacheLabel ==
  /\ reader # 0 /\ cached' = reader /\ reader' = 0
  /\ UNCHANGED <<orderVars, jobVars, worker, calls, carrierVars, pickupVars, staff, label,
                 files, torn, uploads, faults>>

ExpireLabel ==
  /\ cached # 0 /\ cached' = 0
  /\ UNCHANGED <<orderVars, jobVars, worker, calls, carrierVars, pickupVars, staff, label,
                 files, reader, torn, uploads, faults>>

-----------------------------------------------------------------------------
GatewayNext(c) ==
  \/ Refuse(c) \/ Ask(c) \/ Book(c) \/ ExlineKnows(c) \/ ExlineRetries(c)
  \/ AzimuthAnswers(c) \/ ExlineAnswers(c) \/ CseAnswers(c)
  \/ AzimuthRaises(c) \/ ExlineRaises(c) \/ CseRaises(c)
  \/ AzimuthPdf(c) \/ ExlinePdf(c) \/ CsePdf(c) \/ GatewayPdf(c)

StaffStep(s) ==
  \/ RetryPickup(s) \/ StaffCallsCourier(s) \/ StaffCourierFails(s) \/ StaffCourierSaved(s)
  \/ RefreshClears(s) \/ RefreshStores(s) \/ RefreshFails(s)

Next ==
  \/ AttemptSkipped \/ Hear \/ ConnectionLost \/ TimeOut
  \/ \E permanent \in BOOLEAN : HearError(permanent)
  \/ Complete \/ \E kept \in BOOLEAN : CompleteFails(kept)
  \/ Crash \/ RetryDispatch \/ Restart \/ ExlineCancels \/ CseCancels
  \/ WorkerCallsCourier \/ WorkerCourierFails \/ WorkerCourierSaved
  \/ GetLabel \/ CacheLabel \/ ExpireLabel
  \/ \E c \in CallIds : Attempt(c) \/ Resend(c) \/ GatewayNext(c)
  \/ \E s \in Staff : StaffStep(s)

Spec == Init /\ [][Next]_vars

-----------------------------------------------------------------------------
(* Properties.                                                              *)

\* The worker will still learn the number of the call.
OnItsWay(c) ==
  /\ worker.at \in {"waiting", "holding"} /\ worker.call = c
  /\ calls[c].at \in {"booked", "asked", "created", "nopdf", "done"}

\* The platform never drops a number it was told: an invoice that is alive at
\* the carrier is the order's waybill, on its way to the worker, or of a call
\* whose answer was cut off (a lost answer of the carrier, a restart of the
\* gateway, a timeout or death of the worker, two commits that failed).
NoInvoiceIsForgotten == \A n \in alive :
  \/ n = waybill
  \/ \E c \in CallIds : calls[c].number = n /\ (calls[c].cut \/ OnItsWay(c))

\* Azimuth and Exline are asked by the order's own number: however often the
\* worker, the gateway's client and Exline's client ask again, an order that
\* is sent is the carrier's only invoice for it.
SentIsTheOnlyInvoice ==
  carrier \in {"azimuth", "exline"} /\ job = "completed" => booked = {waybill}

\* Azimuth sends a second courier only when two requests called one at the
\* same time, or the answer to an accepted call was lost.
CourierIsCalledOnce == visits >= 2 => excused

\* The label a customer is sent to is in storage, unless a refresh failed
\* half-way or a download overlapped it.
LabelIsStored == ~torn /\ ~Refreshing => {label, cached} \ {0} \subseteq files
=============================================================================
