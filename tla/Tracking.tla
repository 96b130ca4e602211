------------------------------- MODULE Tracking -------------------------------
(***************************************************************************)
(* Following a parcel: the poller that asks the carrier for its events      *)
(* (carriers/polling/scheduler.py under the Redis lock of sync_tracking),   *)
(* the carrier's webhook, the carrier's portal and the staff's events, all  *)
(* of which move the same order.  One sent order stands for each.           *)
(*                                                                          *)
(* A poll reads the order with its whole batch, then asks the carriers,     *)
(* then applies what they answered to the order it read.  A handler reads   *)
(* and later commits, by primary key.  A poll ends before its lock runs out *)
(* (config.py: "TTL >= ceil(polling_batch_size / polling_max_workers) *     *)
(* per_carrier_timeout + safety"), unless its process dies.                 *)
(***************************************************************************)
EXTENDS Integers, Sequences, OrderStatus

CONSTANTS
  Pollers,      \* processes that run sync_tracking
  Handlers,     \* requests of carrier and staff under way
  Paths,        \* what carriers report, in order: sequences of mapped statuses
  Free,         \* the lock is not taken
  StaffEvents,  \* statuses an administrator files as events
  MaxFailures   \* bound: carrier calls and commits that fail, and crashes

Unknown == "carrier_unknown"   \* what the status maps give an unmapped code

\* What the status maps of the carriers' adapters and of the webhook give:
\* Exline's gives every one of these, the others a part of them.
Reported == {"sent_to_carrier", "picked_up", "in_transit", "arrived",
             "out_for_delivery", "delivered", "delivery_failed", "customs_hold",
             "return_in_progress", "returned", "cancelled", Unknown}

\* _TRACKING_TO_ORDER_STATUS: the events that move an order when staff file them.
Filed == {"sent_to_carrier", "picked_up", "in_transit", "arrived", "delivered",
          "returned", "cancelled"}

ASSUME TrackingAssumption ==
  /\ Free \notin Pollers /\ MaxFailures \in Nat
  /\ \A p \in Paths : p \in Seq(Reported)
  /\ StaffEvents \subseteq Filed

VARIABLES
  status,      \* order_drafts.status
  path,        \* the carrier's story of this parcel
  known,       \* events of it the carrier's systems have by now
  stored,      \* those the poller has put into tracking_events
  hooks,       \* those in tracking_webhook_events
  lock,        \* the Redis key lock:sync_tracking
  po,          \* what each poller is doing and what it has read
  hk,          \* the same of each handler
  applied,     \* how often the webhook of each event has moved the order
  raced,       \* a handler has moved the order from a status it no longer had
  failures

vars == <<status, path, known, stored, hooks, lock, po, hk, applied, raced,
          failures>>

Events == 1..Len(path)

PollerPcs == {"idle", "fetching", "fetched", "applying", "finishing"}
IdlePoller == [pc |-> "idle", seen |-> "draft", got |-> {}]
IdleHandler == [pc |-> "idle", seen |-> "draft", ev |-> 0, target |-> "draft"]

\* _ACTIVE_STATUSES (its "dispatched" is no status of the table).
Active == {"sent_to_carrier", "picked_up", "in_transit", "out_for_delivery",
           "customs_hold", "delivery_failed"}

Init ==
  /\ status = "sent_to_carrier"
  /\ path \in Paths /\ known = {} /\ stored = {} /\ hooks = {}
  /\ lock = Free
  /\ po = [w \in Pollers |-> IdlePoller]
  /\ hk = [h \in Handlers |-> IdleHandler]
  /\ applied = [e \in Events |-> 0]
  /\ raced = FALSE /\ failures = 0

Carrier == <<path, known>>

\* Something happens in the parcel's life; carriers report late and in any order.
Report(e) ==
  /\ e \notin known
  /\ known' = known \cup {e}
  /\ UNCHANGED <<status, path, stored, hooks, lock, po, hk, applied, raced, failures>>

-----------------------------------------------------------------------------
(* The poller.                                                              *)

\* Mutant of Start: the lock is not looked at.
Start_NoLock(w) ==
  /\ po[w].pc = "idle" /\ status \in Active
  /\ lock' = w
  /\ po' = [po EXCEPT ![w] = [IdlePoller EXCEPT !.pc = "fetching", !.seen = status]]
  /\ UNCHANGED <<status, Carrier, stored, hooks, hk, applied, raced, failures>>

\* SET NX EX, and the batch is read.
Start(w) ==
  /\ po[w].pc = "idle" /\ lock = Free /\ status \in Active
  /\ lock' = w
  /\ po' = [po EXCEPT ![w] = [IdlePoller EXCEPT !.pc = "fetching", !.seen = status]]
  /\ UNCHANGED <<status, Carrier, stored, hooks, hk, applied, raced, failures>>

\* The carrier answers with all it knows, read or not before.
Fetched(w) ==
  /\ po[w].pc = "fetching"
  /\ po' = [po EXCEPT ![w].pc = "fetched", ![w].got = known]
  /\ UNCHANGED <<status, Carrier, stored, hooks, lock, hk, applied, raced, failures>>

\* The call fails: only last_polled_at is committed, the order waits for the
\* next poll.
FetchFails(w) ==
  /\ po[w].pc = "fetching" /\ failures < MaxFailures
  /\ failures' = failures + 1
  /\ po' = [po EXCEPT ![w].pc = "finishing"]
  /\ UNCHANGED <<status, Carrier, stored, hooks, lock, hk, applied, raced>>

Fetch(w) == Fetched(w) \/ FetchFails(w)

\* existing_keys: events stored already are left out.
Dedup(w) ==
  /\ po[w].pc = "fetched"
  /\ po' = [po EXCEPT ![w].pc = "applying", ![w].got = @ \ stored]
  /\ UNCHANGED <<status, Carrier, stored, hooks, lock, hk, applied, raced, failures>>

\* The status the events in new lead to, applied in chronological order to an
\* order that was seen: s[i] is the one after the first i events of the story.
After(seen, new) ==
  LET s[i \in 0..Len(path)] ==
        IF i = 0 THEN seen
        ELSE IF i \in new /\ CanTransition(s[i-1], path[i]) THEN path[i] ELSE s[i-1]
  IN s[Len(path)]

\* One commit: the new events (ON CONFLICT DO NOTHING) and the status they lead
\* to from the order that was read.
Apply(w) ==
  LET new == po[w].got
      final == After(po[w].seen, new)
  IN
  /\ po[w].pc = "applying"
  /\ stored' = stored \cup new
  /\ status' = IF final = po[w].seen THEN status ELSE final
  /\ po' = [po EXCEPT ![w].pc = "finishing"]
  /\ UNCHANGED <<Carrier, hooks, lock, hk, applied, raced, failures>>

\* The commit fails and is rolled back.
ApplyFails(w) ==
  /\ po[w].pc = "applying" /\ failures < MaxFailures
  /\ failures' = failures + 1
  /\ po' = [po EXCEPT ![w].pc = "finishing"]
  /\ UNCHANGED <<status, Carrier, stored, hooks, lock, hk, applied, raced>>

\* The finally clause deletes the key, whoever holds it by now.
Finish(w) ==
  /\ po[w].pc = "finishing"
  /\ lock' = Free
  /\ po' = [po EXCEPT ![w] = IdlePoller]
  /\ UNCHANGED <<status, Carrier, stored, hooks, hk, applied, raced, failures>>

\* The process dies; the key stays until its time to live is over.
Crash(w) ==
  /\ po[w].pc # "idle" /\ failures < MaxFailures
  /\ failures' = failures + 1
  /\ po' = [po EXCEPT ![w] = IdlePoller]
  /\ UNCHANGED <<status, Carrier, stored, hooks, lock, hk, applied, raced>>

Orphaned == lock # Free /\ po[lock].pc = "idle"

\* Mutant of Orphan: a key without a time to live.
Orphan_Never == FALSE /\ UNCHANGED vars

\* The key of a dead process runs out.
Orphan ==
  /\ Orphaned
  /\ lock' = Free
  /\ UNCHANGED <<status, Carrier, stored, hooks, po, hk, applied, raced, failures>>

-----------------------------------------------------------------------------
(* The webhook: carrier_tracking_webhook, called for any event the carrier  *)
(* has, any number of times, in any order.                                  *)

HookRead(h, e) ==
  /\ hk[h].pc = "idle" /\ e \in known \ hooks
  /\ hk' = [hk EXCEPT ![h] = [pc |-> "webhook", seen |-> status, ev |-> e, target |-> "draft"]]
  /\ UNCHANGED <<status, Carrier, stored, hooks, lock, po, applied, raced, failures>>

\* Handler h moves the order it has seen to new at its commit, or leaves it.
Move(h, new) ==
  IF CanTransition(hk[h].seen, new)
  THEN status' = new /\ raced' = (raced \/ status # hk[h].seen)
  ELSE UNCHANGED <<status, raced>>

\* Mutant of HookCommit: no unique constraint on (carrier_code, external_event_id).
HookCommit_NoUnique(h) ==
  LET new == path[hk[h].ev] IN
  /\ hk[h].pc = "webhook"
  /\ hooks' = hooks \cup {hk[h].ev}
  /\ Move(h, new)
  /\ applied' = [applied EXCEPT ![hk[h].ev] =
                    IF CanTransition(hk[h].seen, new) THEN @ + 1 ELSE @]
  /\ hk' = [hk EXCEPT ![h] = IdleHandler]
  /\ UNCHANGED <<Carrier, stored, lock, po, failures>>

\* The event's row and the transition in one commit.
HookCommit(h) ==
  LET new == path[hk[h].ev] IN
  /\ hk[h].pc = "webhook" /\ hk[h].ev \notin hooks
  /\ hooks' = hooks \cup {hk[h].ev}
  /\ Move(h, new)
  /\ applied' = [applied EXCEPT ![hk[h].ev] =
                    IF CanTransition(hk[h].seen, new) THEN @ + 1 ELSE @]
  /\ hk' = [hk EXCEPT ![h] = IdleHandler]
  /\ UNCHANGED <<Carrier, stored, lock, po, failures>>

\* The insert raises (the same event is being handled twice), or the commit does.
HookFails(h) ==
  /\ hk[h].pc = "webhook"
  /\ hk' = [hk EXCEPT ![h] = IdleHandler]
  /\ UNCHANGED <<status, Carrier, stored, hooks, lock, po, applied, raced, failures>>

-----------------------------------------------------------------------------
(* The carrier's portal and the staff.                                      *)

FileRead(h, target) ==
  /\ hk[h].pc = "idle"
  /\ hk' = [hk EXCEPT ![h] = [pc |-> "filing", seen |-> status, ev |-> 0, target |-> target]]
  /\ UNCHANGED <<status, Carrier, stored, hooks, lock, po, applied, raced, failures>>

\* accept_order, and upload_pod, which stores the file between read and commit.
Accept(h) == CanTransition(status, "picked_up") /\ FileRead(h, "picked_up")
UploadPod(h) ==
  status \in {"in_transit", "arrived", "picked_up", "delivered"} /\ FileRead(h, "delivered")

\* TrackingService.add_event; filing "cancelled" also stands for the customer's
\* cancellation, which writes the order in the same way.
AddEvent(h) == \E target \in StaffEvents : FileRead(h, target)

File(h) ==
  /\ hk[h].pc = "filing"
  /\ Move(h, hk[h].target)
  /\ hk' = [hk EXCEPT ![h] = IdleHandler]
  /\ UNCHANGED <<Carrier, stored, hooks, lock, po, applied, failures>>

-----------------------------------------------------------------------------
Progress(w) == Fetch(w) \/ Dedup(w) \/ Apply(w) \/ Finish(w)

PollerStep(w) == Start(w) \/ Progress(w) \/ ApplyFails(w) \/ Crash(w)

HandlerStep(h) ==
  \/ \E e \in known : HookRead(h, e)
  \/ HookCommit(h) \/ HookFails(h)
  \/ Accept(h) \/ UploadPod(h) \/ AddEvent(h) \/ File(h)

Next ==
  \/ \E e \in Events : Report(e)
  \/ \E w \in Pollers : PollerStep(w)
  \/ Orphan
  \/ \E h \in Handlers : HandlerStep(h)

Spec == Init /\ [][Next]_vars

\* The scheduler polls every two minutes, the calls to the carrier time out,
\* and the key of a dead poller runs out.  No webhook has to come.
Fairness ==
  /\ \A w \in Pollers : WF_vars(Progress(w))
  /\ WF_vars(\E w \in Pollers : Start(w))
  /\ WF_vars(Orphan)

FairSpec == Spec /\ Fairness

-----------------------------------------------------------------------------
\* Every variable has its type.
TypeOK ==
  /\ status \in Statuses
  /\ path \in Paths
  /\ known \subseteq Events /\ stored \subseteq known /\ hooks \subseteq known
  /\ lock \in Pollers \cup {Free}
  /\ po \in [Pollers -> [pc: PollerPcs, seen: Statuses, got: SUBSET Events]]
  /\ hk \in [Handlers -> [pc: {"idle", "webhook", "filing"}, seen: Statuses,
                          ev: 0..Len(path), target: Statuses]]
  /\ applied \in [Events -> Nat]
  /\ raced \in BOOLEAN /\ failures \in 0..MaxFailures

\* A webhook the carrier delivers twice, also at the same moment, moves the
\* order at most once.
HookAppliedOnce == \A e \in Events : applied[e] <= 1

\* A delivery the poller has stored is one the order shows: it will not be
\* offered again (existing_keys), so losing it here would lose it for good.  Only
\* an order the carrier has cancelled before stays cancelled.
DeliveryIsNotLost ==
  ~raced => \A e \in stored : path[e] = "delivered" =>
    \/ status = "delivered"
    \/ status = "cancelled" /\ \E c \in stored : c < e /\ path[c] = "cancelled"

\* An order does not stay in a status that is polled once the carrier knows of
\* the delivery: polling alone moves it on, whatever a stale poll or a late
\* event has written meanwhile.  (Statuses that are not polled, such as
\* "arrived", are left by webhooks and people only.)
DeliveryIsSeen ==
  (\E e \in known : path[e] = "delivered") ~> status \notin Active \/ raced

=============================================================================
