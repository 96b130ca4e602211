---------------------------- MODULE TrackingProofs ----------------------------
(***************************************************************************)
(* Following a parcel, for every number of pollers and handlers and for     *)
(* every story a carrier may tell of a parcel.                              *)
(***************************************************************************)
EXTENDS Tracking, WellFoundedInduction, TLAPS

USE TrackingAssumption DEF TrackingAssumption

-----------------------------------------------------------------------------
(* What applying a batch of events to an order does.                        *)

\* A set of numbers with 0 that is closed under the successor has them all.
LEMMA LeastElement ==
  ASSUME NEW T, T \subseteq Nat, T # {}
  PROVE  \E x \in T : \A y \in T : x <= y
<1>1. PICK x \in T : \A y \in T : ~(<<y, x>> \in OpToRel(<, Nat))
  BY WFMin, NatLessThanWellFounded, Zenon
<1>2. ASSUME NEW y \in T
      PROVE  x <= y
  <2>1. y < x => <<y, x>> \in OpToRel(<, Nat)
    BY DEF OpToRel
  <2>2. ~(y < x)
    BY <1>1, <2>1, Zenon
  <2>3. x \in Nat /\ y \in Nat
    OBVIOUS
  <2>4. QED BY <2>2, <2>3
<1>3. QED BY <1>2

LEMMA UpTo ==
  ASSUME NEW n \in Nat, NEW S, 0 \in S,
         \A i \in 1..n : i - 1 \in S => i \in S
  PROVE  \A i \in 0..n : i \in S
<1> DEFINE T == {i \in 0..n : i \notin S}
<1> SUFFICES ASSUME T # {} PROVE FALSE
  OBVIOUS
<1>1. PICK x \in T : \A y \in T : x <= y
  BY LeastElement, T \subseteq Nat
<1>2. x \in 1..n /\ x - 1 \in 0..n /\ x - 1 \notin T
  BY <1>1
<1>3. QED BY <1>1, <1>2

\* s is the run of After over the first m events.
Running(s, m, seen, new) ==
  s = [i \in 0..m |->
        IF i = 0 THEN seen
        ELSE IF i \in new /\ CanTransition(s[i-1], path[i]) THEN path[i] ELSE s[i-1]]

LEMMA RunExtends ==
  ASSUME NEW m \in Nat \ {0}, NEW seen, NEW new, NEW s, Running(s, m - 1, seen, new)
  PROVE  \E r : Running(r, m, seen, new)
<1> DEFINE at == IF m \in new /\ CanTransition(s[m-1], path[m]) THEN path[m] ELSE s[m-1]
           r == [i \in 0..m |-> IF i = m THEN at ELSE s[i]]
<1>1. ASSUME NEW i \in 0..m
      PROVE  r[i] = IF i = 0 THEN seen
                    ELSE IF i \in new /\ CanTransition(r[i-1], path[i]) THEN path[i] ELSE r[i-1]
  <2>1. CASE i = m
    BY <2>1
  <2>2. CASE i # m
    <3>1. i \in 0..(m-1) /\ r[i] = s[i] /\ (i # 0 => i - 1 \in 0..(m-1) /\ r[i-1] = s[i-1])
      BY <2>2
    <3>2. s[i] = IF i = 0 THEN seen
                 ELSE IF i \in new /\ CanTransition(s[i-1], path[i]) THEN path[i] ELSE s[i-1]
      BY <3>1 DEF Running
    <3>3. QED BY <3>1, <3>2
  <2>3. QED BY <2>1, <2>2
<1> HIDE DEF at
<1>2. r = [i \in 0..m |->
            IF i = 0 THEN seen
            ELSE IF i \in new /\ CanTransition(r[i-1], path[i]) THEN path[i] ELSE r[i-1]]
  BY <1>1
<1>3. QED BY <1>2 DEF Running

LEMMA RunExists ==
  ASSUME NEW n \in Nat, NEW seen, NEW new
  PROVE  \E s : Running(s, n, seen, new)
<1> DEFINE S == {m \in Nat : \E s : Running(s, m, seen, new)}
<1>1. 0 \in S
  <2>1. Running([i \in 0..0 |-> seen], 0, seen, new)
    BY DEF Running
  <2>2. QED BY <2>1
<1>2. ASSUME NEW i \in 1..n, i - 1 \in S
      PROVE  i \in S
  <2>1. PICK s : Running(s, i - 1, seen, new)
    BY <1>2
  <2>2. QED BY <2>1, RunExtends
<1>3. n \in S
  <2> HIDE DEF S
  <2>1. QED BY <1>1, <1>2, UpTo
<1>4. QED BY <1>3


-----------------------------------------------------------------------------
(* What a poll of an order that is on its way makes of it.                  *)

Moving == Active \cup {"arrived"}

\* Where the run stands once it has seen the first i events.
Followed(s, i, new) ==
  /\ s[i] \in Moving \cup {"delivered", "cancelled"}
  /\ \A e \in new : e <= i /\ path[e] = "delivered" =>
       \/ s[i] = "delivered"
       \/ s[i] = "cancelled" /\ \E c \in new : c < e /\ path[c] = "cancelled"
  /\ s[i] = "cancelled" => \E c \in new : c <= i /\ path[c] = "cancelled"

\* The rows of the table that the carriers' codes can reach.
LEMMA MovesOn ==
  /\ Active \subseteq Moving
  /\ \A x \in Moving : CanTransition(x, "delivered")
  /\ \A x \in Moving, y \in Reported :
       CanTransition(x, y) => y \in Moving \cup {"delivered", "cancelled"}
  /\ \A x \in {"delivered", "cancelled"}, y \in Reported : ~CanTransition(x, y)
BY DEF Moving, Active, Reported, Unknown, CanTransition, Statuses, AllowedTransitions

LEMMA OneEvent ==
  ASSUME path \in Paths, NEW new \in SUBSET Events, NEW s, NEW i \in Events,
         Followed(s, i - 1, new),
         s[i] = IF i \in new /\ CanTransition(s[i-1], path[i]) THEN path[i] ELSE s[i-1]
  PROVE  Followed(s, i, new)
<1>1. path[i] \in Reported /\ i \in Nat
  BY DEF Events
<1>2. CASE i \in new /\ CanTransition(s[i-1], path[i])
  <2>1. s[i-1] \in Moving /\ s[i] = path[i]
    BY <1>1, <1>2, MovesOn DEF Followed
  <2>2. s[i] \in Moving \cup {"delivered", "cancelled"}
    BY <1>1, <1>2, <2>1, MovesOn
  <2>3. \A e \in new : e <= i - 1 => path[e] # "delivered"
    BY <2>1, MovesOn DEF Followed, Moving, Active
  <2>4. QED BY <1>1, <1>2, <2>1, <2>2, <2>3 DEF Followed, Events
<1>3. CASE ~(i \in new /\ CanTransition(s[i-1], path[i]))
  <2>1. s[i] = s[i-1]
    BY <1>3
  <2>2. i \in new /\ path[i] = "delivered" => s[i-1] \in {"delivered", "cancelled"}
    BY <1>3, MovesOn DEF Followed
  <2>3. QED BY <1>1, <2>1, <2>2 DEF Followed, Events
<1>4. QED BY <1>2, <1>3

\* A poll that stores the delivery of an order on its way shows it.
LEMMA AfterShowsDelivery ==
  ASSUME path \in Paths, NEW seen \in Active, NEW new \in SUBSET Events
  PROVE  LET final == After(seen, new) IN
         \A e \in new : path[e] = "delivered" =>
           \/ final = "delivered"
           \/ final = "cancelled" /\ \E c \in new : c < e /\ path[c] = "cancelled"
<1> DEFINE n == Len(path)
           s == CHOOSE s : Running(s, n, seen, new)
<1>1. n \in Nat
  BY DEF Events
<1>2. Running(s, n, seen, new)
  BY <1>1, RunExists
<1>3. After(seen, new) = s[n]
  BY DEF After, Running
<1> HIDE DEF s
<1> DEFINE S == {i \in 0..n : Followed(s, i, new)}
<1>4. 0 \in S
  BY <1>1, <1>2, MovesOn DEF Running, Followed, Events, Moving, Active
<1>5. ASSUME NEW i \in 1..n, i - 1 \in S
      PROVE  i \in S
  <2>1. s[i] = IF i \in new /\ CanTransition(s[i-1], path[i]) THEN path[i] ELSE s[i-1]
    BY <1>1, <1>2 DEF Running
  <2>2. QED BY <1>1, <1>5, <2>1, OneEvent DEF Events
<1>6. Followed(s, n, new)
  <2> HIDE DEF S
  <2> HIDE DEF n
  <2>1. \A i \in 0..n : i \in S
    BY <1>1, <1>4, <1>5, UpTo
  <2>2. n \in S
    BY <1>1, <2>1
  <2>3. QED BY <2>2 DEF S
<1>7. QED BY <1>1, <1>3, <1>6 DEF Followed, Events

LEMMA TargetIsStatus == \A x, y : CanTransition(x, y) => y \in Statuses
BY DEF CanTransition, Statuses, AllowedTransitions

\* Whatever order it was applied to, a batch leads to a status of the table.
LEMMA AfterIsStatus ==
  ASSUME path \in Paths, NEW seen \in Statuses, NEW new \in SUBSET Events
  PROVE  After(seen, new) \in Statuses
<1> DEFINE n == Len(path)
           s == CHOOSE s : Running(s, n, seen, new)
<1>1. n \in Nat
  BY DEF Events
<1>2. Running(s, n, seen, new)
  BY <1>1, RunExists
<1>3. After(seen, new) = s[n]
  BY DEF After, Running
<1> HIDE DEF s
<1> DEFINE S == {i \in 0..n : s[i] \in Statuses}
<1>4. 0 \in S
  BY <1>1, <1>2 DEF Running
<1>5. ASSUME NEW i \in 1..n, i - 1 \in S
      PROVE  i \in S
  <2>1. s[i] = IF i \in new /\ CanTransition(s[i-1], path[i]) THEN path[i] ELSE s[i-1]
    BY <1>1, <1>2 DEF Running
  <2>2. QED BY <1>1, <1>5, <2>1, TargetIsStatus
<1>6. s[n] \in Statuses
  <2> HIDE DEF S, n
  <2>1. \A i \in 0..n : i \in S
    BY <1>1, <1>4, <1>5, UpTo
  <2>2. n \in S
    BY <1>1, <2>1
  <2>3. QED BY <2>2 DEF S
<1>7. QED BY <1>3, <1>6

-----------------------------------------------------------------------------
(* The invariants.                                                          *)

PollerRecords == [pc: PollerPcs, seen: Statuses, got: SUBSET Events]
HandlerRecords == [pc: {"idle", "webhook", "filing"}, seen: Statuses,
                   ev: 0..Len(path), target: Statuses]

\* A poller that may still store events.
Polling(w) == po[w].pc \in {"fetching", "fetched", "applying"}

\* Polls and webhooks bring what the carrier knows; staff file what they may.
FromCarrier ==
  /\ \A w \in Pollers : po[w].got \subseteq known
  /\ \A h \in Handlers : /\ hk[h].pc = "webhook" => hk[h].ev \in known
                         /\ hk[h].pc = "filing" => hk[h].target \in Filed

PollsUnderLock == \A w \in Pollers :
  /\ po[w].pc # "idle" => lock = w
  /\ Polling(w) => po[w].seen \in Active

OnceWithItsRow == \A e \in Events :
  applied[e] <= 1 /\ (applied[e] = 1 => e \in hooks)

\* Order's status shows the delivery e.
Shows(e) ==
  \/ status = "delivered"
  \/ status = "cancelled" /\ \E c \in stored : c < e /\ path[c] = "cancelled"

DeliveryEndsPolling ==
  ~raced => \A e \in stored : path[e] = "delivered" =>
              Shows(e) /\ \A w \in Pollers : ~Polling(w)

TrackInv ==
  TypeOK /\ FromCarrier /\ PollsUnderLock /\ OnceWithItsRow /\ DeliveryEndsPolling

LEMMA TrackInit == Init => TrackInv
<1> SUFFICES ASSUME Init PROVE TrackInv
  OBVIOUS
<1>1. Len(path) \in Nat
  BY DEF Init
<1>2. "sent_to_carrier" \in Statuses /\ "draft" \in Statuses
  BY DEF Statuses, AllowedTransitions
<1>3. IdlePoller \in PollerRecords /\ IdleHandler \in HandlerRecords
  BY <1>1, <1>2 DEF PollerRecords, HandlerRecords, PollerPcs, IdlePoller, IdleHandler
<1>4. TypeOK
  <2>1. applied \in [Events -> Nat]
    BY DEF Init
  <2>2. po \in [Pollers -> PollerRecords] /\ hk \in [Handlers -> HandlerRecords]
    BY <1>3 DEF Init
  <2>3. failures \in 0..MaxFailures
    BY DEF Init
  <2>4. QED
    BY <1>2, <2>1, <2>2, <2>3 DEF Init, TypeOK, PollerRecords, HandlerRecords
<1>5. QED
  BY <1>4 DEF Init, TrackInv, FromCarrier, PollsUnderLock, OnceWithItsRow,
     DeliveryEndsPolling, IdlePoller, IdleHandler, Polling

-----------------------------------------------------------------------------
(* The poller's steps.                                                      *)

\* Poller w goes on, or ends and gives the lock back; the order is left alone.
LEMMA QuietPoll ==
  ASSUME TrackInv, NEW w \in Pollers,
         UNCHANGED <<status, path, known, stored, hooks, hk, applied, raced>>,
         failures' \in 0..MaxFailures,
         po' \in [Pollers -> PollerRecords],
         \A v \in Pollers \ {w} : po'[v] = po[v],
         po'[w].got \subseteq known,
         po[w].pc # "idle",
         lock' = lock \/ (lock' = Free /\ po'[w].pc = "idle"),
         Polling(w)' => Polling(w) /\ po'[w].seen = po[w].seen
  PROVE  TrackInv'
<1>1. lock = w /\ (\A v \in Pollers \ {w} : po'[v].pc = "idle")
  BY DEF TrackInv, PollsUnderLock
<1>2. TypeOK'
  BY <1>1 DEF TrackInv, TypeOK, PollerRecords, Events
<1>3. FromCarrier'
  BY DEF TrackInv, FromCarrier
<1>4. PollsUnderLock'
  BY <1>1 DEF TrackInv, PollsUnderLock, Polling
<1>5. OnceWithItsRow'
  BY DEF TrackInv, OnceWithItsRow, Events
<1>6. DeliveryEndsPolling'
  BY <1>1 DEF TrackInv, DeliveryEndsPolling, Shows, Polling
<1>7. QED BY <1>2, <1>3, <1>4, <1>5, <1>6 DEF TrackInv

LEMMA StartStep ==
  ASSUME TrackInv, NEW w \in Pollers, Start(w)
  PROVE  TrackInv'
<1>1. /\ UNCHANGED <<status, path, known, stored, hooks, hk, applied, raced, failures>>
      /\ lock' = w /\ status \in Active /\ \A v \in Pollers : po[v].pc = "idle"
  BY DEF Start, Carrier, TrackInv, PollsUnderLock
<1> DEFINE r == [IdlePoller EXCEPT !.pc = "fetching", !.seen = status]
<1>2. r \in PollerRecords /\ r.pc = "fetching" /\ r.seen = status /\ r.got = {}
  <2>1. status \in Statuses /\ "fetching" \in PollerPcs
    BY DEF TrackInv, TypeOK, PollerPcs
  <2>2. QED BY <2>1 DEF PollerRecords, IdlePoller
<1>3. po' = [po EXCEPT ![w] = r]
  BY DEF Start
<1> HIDE DEF r
<1>4. po \in [Pollers -> PollerRecords]
  BY DEF TrackInv, TypeOK, PollerRecords
<1>5. /\ po' \in [Pollers -> PollerRecords] /\ po'[w] = r
      /\ \A v \in Pollers \ {w} : po'[v] = po[v]
  BY <1>2, <1>3, <1>4
<1>6. TypeOK'
  BY <1>1, <1>5 DEF TrackInv, TypeOK, PollerRecords, Events
<1>7. FromCarrier'
  BY <1>1, <1>2, <1>5 DEF TrackInv, FromCarrier
<1>8. PollsUnderLock'
  BY <1>1, <1>2, <1>5 DEF TrackInv, PollsUnderLock, Polling
<1>9. OnceWithItsRow'
  BY <1>1 DEF TrackInv, OnceWithItsRow, Events
<1>10. DeliveryEndsPolling'
  \* An order that shows a delivery is not polled.
  <2>1. raced \/ \A e \in stored : path[e] # "delivered"
    BY <1>1 DEF TrackInv, DeliveryEndsPolling, Shows, Active
  <2>2. QED BY <1>1, <2>1 DEF DeliveryEndsPolling
<1>11. QED BY <1>6, <1>7, <1>8, <1>9, <1>10 DEF TrackInv

LEMMA PollerTypes ==
  ASSUME TrackInv
  PROVE  /\ po \in [Pollers -> PollerRecords]
         /\ path \in Paths /\ known \subseteq Events /\ stored \subseteq Events
         /\ \A w \in Pollers : po[w].got \subseteq known
BY DEF TrackInv, TypeOK, PollerRecords, FromCarrier

\* An edit of a poller's record.
LEMMA PollerTurns ==
  ASSUME NEW x \in PollerRecords, NEW pc \in PollerPcs
  PROVE  LET y == [x EXCEPT !.pc = pc] IN
         y \in PollerRecords /\ y.pc = pc /\ y.got = x.got /\ y.seen = x.seen
BY DEF PollerRecords

LEMMA PcNames == {"idle", "fetching", "fetched", "applying", "finishing"} \subseteq PollerPcs
BY DEF PollerPcs

\* w's record becomes r.
Turns(w, r) ==
  /\ po' \in [Pollers -> PollerRecords] /\ po'[w] = r
  /\ \A v \in Pollers \ {w} : po'[v] = po[v]

LEMMA TurnsByField ==
  ASSUME po \in [Pollers -> PollerRecords], NEW w \in Pollers, NEW r \in PollerRecords,
         po' = [po EXCEPT ![w] = r]
  PROVE  Turns(w, r)
BY DEF Turns

LEMMA FetchStep ==
  ASSUME TrackInv, NEW w \in Pollers, Fetch(w)
  PROVE  TrackInv'
<1>1. /\ UNCHANGED <<status, path, known, stored, hooks, lock, hk, applied, raced>>
      /\ po[w].pc = "fetching" /\ failures' \in 0..MaxFailures
  BY DEF Fetch, Fetched, FetchFails, Carrier, TrackInv, TypeOK
<1>2. CASE po' = [po EXCEPT ![w].pc = "fetched", ![w].got = known]
  <2> DEFINE r == [po[w] EXCEPT !.pc = "fetched", !.got = known]
  <2>1. r \in PollerRecords /\ r.pc = "fetched" /\ r.got = known /\ r.seen = po[w].seen
    <3>1. po[w] \in PollerRecords /\ "fetched" \in PollerPcs /\ known \in SUBSET Events
      BY PollerTypes, PcNames
    <3>2. QED BY <3>1 DEF PollerRecords
  <2>2. po' = [po EXCEPT ![w] = r]
    BY <1>2, PollerTypes
  <2> HIDE DEF r
  <2>3. Turns(w, r)
    BY <2>1, <2>2, PollerTypes, TurnsByField
  <2>4. QED BY <1>1, <2>1, <2>3, QuietPoll DEF Turns, Polling
<1>3. CASE po' = [po EXCEPT ![w].pc = "finishing"]
  <2> DEFINE r == [po[w] EXCEPT !.pc = "finishing"]
  <2>1. r \in PollerRecords /\ r.pc = "finishing" /\ r.got = po[w].got
    BY PollerTypes, PollerTurns, PcNames
  <2>2. po' = [po EXCEPT ![w] = r]
    BY <1>3, PollerTypes
  <2> HIDE DEF r
  <2>3. Turns(w, r)
    BY <2>1, <2>2, PollerTypes, TurnsByField
  <2>4. QED BY <1>1, <2>1, <2>3, PollerTypes, QuietPoll DEF Turns, Polling
<1>4. QED BY <1>2, <1>3 DEF Fetch, Fetched, FetchFails

LEMMA DedupStep ==
  ASSUME TrackInv, NEW w \in Pollers, Dedup(w)
  PROVE  TrackInv'
<1>1. /\ UNCHANGED <<status, path, known, stored, hooks, lock, hk, applied, raced>>
      /\ po[w].pc = "fetched" /\ failures' \in 0..MaxFailures
  BY DEF Dedup, Carrier, TrackInv, TypeOK
<1> DEFINE r == [po[w] EXCEPT !.pc = "applying", !.got = po[w].got \ stored]
<1>2. /\ r \in PollerRecords /\ r.pc = "applying" /\ r.got = po[w].got \ stored
      /\ r.seen = po[w].seen
  <2>1. po[w] \in PollerRecords /\ "applying" \in PollerPcs /\ po[w].got \ stored \in SUBSET Events
    BY PollerTypes, PcNames
  <2>2. QED BY <2>1 DEF PollerRecords
<1>3. po' = [po EXCEPT ![w] = r]
  BY PollerTypes DEF Dedup
<1> HIDE DEF r
<1>4. Turns(w, r)
  BY <1>2, <1>3, PollerTypes, TurnsByField
<1>5. r.got \subseteq known
  BY <1>2, PollerTypes
<1>6. QED BY <1>1, <1>2, <1>4, <1>5, QuietPoll DEF Turns, Polling

LEMMA ApplyFailsStep ==
  ASSUME TrackInv, NEW w \in Pollers, ApplyFails(w)
  PROVE  TrackInv'
<1>1. /\ UNCHANGED <<status, path, known, stored, hooks, lock, hk, applied, raced>>
      /\ po[w].pc = "applying" /\ failures' \in 0..MaxFailures
  BY DEF ApplyFails, Carrier, TrackInv, TypeOK
<1> DEFINE r == [po[w] EXCEPT !.pc = "finishing"]
<1>2. r \in PollerRecords /\ r.pc = "finishing" /\ r.got = po[w].got
  BY PollerTypes, PollerTurns, PcNames
<1>3. po' = [po EXCEPT ![w] = r]
  BY PollerTypes DEF ApplyFails
<1> HIDE DEF r
<1>4. Turns(w, r)
  BY <1>2, <1>3, PollerTypes, TurnsByField
<1>5. QED BY <1>1, <1>2, <1>4, PollerTypes, QuietPoll DEF Turns, Polling

LEMMA IdlePollerOK ==
  ASSUME TrackInv
  PROVE  IdlePoller \in PollerRecords /\ IdlePoller.pc = "idle" /\ IdlePoller.got = {}
<1>1. "draft" \in Statuses /\ "idle" \in PollerPcs
  BY DEF Statuses, AllowedTransitions, PollerPcs
<1>2. QED BY <1>1 DEF IdlePoller, PollerRecords

LEMMA EndStep ==
  ASSUME TrackInv, NEW w \in Pollers, Finish(w) \/ Crash(w)
  PROVE  TrackInv'
<1>1. /\ UNCHANGED <<status, path, known, stored, hooks, hk, applied, raced>>
      /\ po[w].pc # "idle" /\ failures' \in 0..MaxFailures
      /\ lock' \in {lock, Free} /\ po' = [po EXCEPT ![w] = IdlePoller]
  BY DEF Finish, Crash, Carrier, TrackInv, TypeOK
<1>2. Turns(w, IdlePoller)
  BY <1>1, IdlePollerOK, PollerTypes, TurnsByField
<1>3. QED BY <1>1, <1>2, IdlePollerOK, QuietPoll DEF Turns, Polling

\* The commit: a delivery among the new events is shown, and w's poll is over.
LEMMA ApplyStep ==
  ASSUME TrackInv, NEW w \in Pollers, Apply(w)
  PROVE  TrackInv'
<1> DEFINE new == po[w].got
           final == After(po[w].seen, new)
<1>1. /\ UNCHANGED <<path, known, hooks, lock, hk, applied, raced, failures>>
      /\ po[w].pc = "applying" /\ stored' = stored \cup new
      /\ status' = IF final = po[w].seen THEN status ELSE final
  BY DEF Apply, Carrier
<1>2. /\ po[w] \in PollerRecords /\ new \subseteq known /\ new \in SUBSET Events
      /\ path \in Paths /\ po[w].seen \in Statuses
  BY PollerTypes DEF PollerRecords
<1>3. Polling(w) /\ lock = w /\ po[w].seen \in Active
  BY <1>1 DEF TrackInv, PollsUnderLock, Polling
<1>4. status' \in Statuses
  <2>1. final \in Statuses
    BY <1>2, AfterIsStatus
  <2>2. QED BY <1>1, <2>1 DEF TrackInv, TypeOK
<1> DEFINE r == [po[w] EXCEPT !.pc = "finishing"]
<1>5. r \in PollerRecords /\ r.pc = "finishing" /\ r.got = new
  BY PollerTypes, PollerTurns, PcNames
<1>6. po' = [po EXCEPT ![w] = r]
  BY PollerTypes DEF Apply
<1> HIDE DEF r
<1>7. Turns(w, r)
  BY <1>5, <1>6, PollerTypes, TurnsByField
<1>8. \A v \in Pollers : ~Polling(v)'
  BY <1>3, <1>5, <1>7 DEF TrackInv, PollsUnderLock, Turns, Polling
<1>9. DeliveryEndsPolling'
  <2> SUFFICES ASSUME ~raced, NEW e \in stored', path[e] = "delivered"
               PROVE  Shows(e)'
    BY <1>1, <1>8 DEF DeliveryEndsPolling
  <2>1. e \in new
    BY <1>1, <1>3 DEF TrackInv, DeliveryEndsPolling
  <2>2. \/ final = "delivered"
        \/ final = "cancelled" /\ \E c \in new : c < e /\ path[c] = "cancelled"
    BY <1>2, <1>3, <2>1, AfterShowsDelivery
  <2>3. final # po[w].seen
    BY <1>3, <2>2 DEF Active
  <2>4. status' = final
    BY <1>1, <2>3
  <2> HIDE DEF final, new
  <2>5. QED BY <1>1, <2>2, <2>4 DEF Shows
<1> HIDE DEF final
<1>10. TypeOK'
  BY <1>1, <1>2, <1>4, <1>7 DEF TrackInv, TypeOK, Turns, PollerRecords, Events
<1>11. FromCarrier'
  BY <1>1, <1>2, <1>5, <1>7 DEF TrackInv, FromCarrier, Turns
<1>12. PollsUnderLock'
  BY <1>1, <1>3, <1>7, <1>8 DEF TrackInv, PollsUnderLock, Turns
<1>13. OnceWithItsRow'
  BY <1>1 DEF TrackInv, OnceWithItsRow, Events
<1>14. QED BY <1>9, <1>10, <1>11, <1>12, <1>13 DEF TrackInv

-----------------------------------------------------------------------------
(* The handlers' steps.                                                     *)

\* A handler's step, whatever it does to the order: a status it moves to is a
\* reported one, and it moves the order from the status it has read.
LEMMA HandlerMoves ==
  ASSUME TrackInv, NEW h \in Handlers,
         UNCHANGED <<path, known, stored, lock, po, failures>>,
         hk' \in [Handlers -> HandlerRecords],
         \A g \in Handlers \ {h} : hk'[g] = hk[g],
         hk'[h].pc = "webhook" => hk'[h].ev \in known,
         hk'[h].pc = "filing" => hk'[h].target \in Filed,
         \/ UNCHANGED <<status, raced>>
         \/ \E new \in Reported : Move(h, new),
         applied' \in [Events -> Nat], hooks' \subseteq known,
         OnceWithItsRow'
  PROVE  TrackInv'
<1>1. \/ UNCHANGED <<status, raced>>
      \/ \E new \in Reported : /\ CanTransition(hk[h].seen, new) /\ status' = new
                               /\ raced' = (raced \/ status # hk[h].seen)
  BY DEF Move
<1>2. status' \in Statuses /\ raced' \in BOOLEAN
  BY <1>1, TargetIsStatus DEF TrackInv, TypeOK
<1>3. TypeOK'
  BY <1>2 DEF TrackInv, TypeOK, HandlerRecords, Events
<1>4. FromCarrier'
  BY DEF TrackInv, FromCarrier
<1>5. PollsUnderLock'
  BY DEF TrackInv, PollsUnderLock, Polling
<1>6. DeliveryEndsPolling'
  <2> SUFFICES ASSUME ~raced', NEW e \in stored, path[e] = "delivered"
               PROVE  Shows(e)' /\ \A w \in Pollers : ~Polling(w)'
    BY DEF DeliveryEndsPolling
  <2>1. ~raced /\ (status' = status \/ \E new \in Reported : CanTransition(status, new))
    <3>1. CASE UNCHANGED <<status, raced>>
      BY <3>1
    <3>2. CASE ~UNCHANGED <<status, raced>>
      <4>1. PICK new \in Reported : /\ CanTransition(hk[h].seen, new)
                                    /\ raced' = (raced \/ status # hk[h].seen)
        BY <1>1, <3>2
      <4>2. ~raced /\ status = hk[h].seen
        BY <4>1, Zenon
      <4>3. QED BY <4>1, <4>2
    <3>3. QED BY <3>1, <3>2
  <2>2. Shows(e) /\ \A w \in Pollers : ~Polling(w)
    BY <2>1 DEF TrackInv, DeliveryEndsPolling
  <2>3. status' = status
    BY <2>1, <2>2, MovesOn DEF Shows
  <2>4. QED BY <2>2, <2>3 DEF Shows, Polling
<1>7. QED BY <1>3, <1>4, <1>5, <1>6 DEF TrackInv

LEMMA HandlerTypes ==
  ASSUME TrackInv
  PROVE  /\ hk \in [Handlers -> HandlerRecords] /\ status \in Statuses
         /\ applied \in [Events -> Nat] /\ hooks \subseteq known /\ known \subseteq Events
         /\ path \in Paths /\ \A e \in Events : path[e] \in Reported
         /\ IdleHandler \in HandlerRecords /\ IdleHandler.pc = "idle"
<1>1. path \in Seq(Reported)
  BY DEF TrackInv, TypeOK
<1>2. Len(path) \in Nat /\ "draft" \in Statuses
  BY <1>1 DEF Statuses, AllowedTransitions
<1>3. IdleHandler \in HandlerRecords /\ IdleHandler.pc = "idle"
  BY <1>2 DEF HandlerRecords, IdleHandler
<1>4. QED BY <1>1, <1>3 DEF TrackInv, TypeOK, HandlerRecords, Events

\* A handler reads the order, or gives up: the order is left alone.
LEMMA HandlerReads ==
  ASSUME TrackInv, NEW h \in Handlers, NEW r \in HandlerRecords,
         hk' = [hk EXCEPT ![h] = r],
         UNCHANGED <<status, Carrier, stored, hooks, lock, po, applied, raced, failures>>,
         r.pc = "webhook" => r.ev \in known,
         r.pc = "filing" => r.target \in Filed
  PROVE  TrackInv'
<1>1. /\ hk' \in [Handlers -> HandlerRecords] /\ hk'[h] = r
      /\ \A g \in Handlers \ {h} : hk'[g] = hk[g]
  BY HandlerTypes
<1>2. UNCHANGED <<path, known>> /\ Events' = Events
  BY DEF Carrier, Events
<1>3. OnceWithItsRow'
  BY <1>2 DEF TrackInv, OnceWithItsRow
<1>4. applied' \in [Events -> Nat] /\ hooks' \subseteq known
  BY HandlerTypes
<1>5. QED BY <1>1, <1>2, <1>3, <1>4, HandlerMoves

LEMMA HookReadStep ==
  ASSUME TrackInv, NEW h \in Handlers, NEW e \in known, HookRead(h, e)
  PROVE  TrackInv'
<1> DEFINE r == [pc |-> "webhook", seen |-> status, ev |-> e, target |-> "draft"]
<1>1. r \in HandlerRecords
  <2>1. e \in 0..Len(path) /\ "draft" \in Statuses
    BY HandlerTypes DEF Events, Statuses, AllowedTransitions
  <2>2. QED BY <2>1, HandlerTypes DEF HandlerRecords
<1>2. QED BY <1>1, HandlerReads DEF HookRead

LEMMA FileReadStep ==
  ASSUME TrackInv, NEW h \in Handlers, NEW target \in Filed, FileRead(h, target)
  PROVE  TrackInv'
<1> DEFINE r == [pc |-> "filing", seen |-> status, ev |-> 0, target |-> target]
<1>1. r \in HandlerRecords
  <2>1. 0 \in 0..Len(path) /\ target \in Statuses
    BY DEF TrackInv, TypeOK, Filed, Statuses, AllowedTransitions
  <2>2. QED BY <2>1, HandlerTypes DEF HandlerRecords
<1>2. QED BY <1>1, HandlerReads DEF FileRead

LEMMA HookFailsStep ==
  ASSUME TrackInv, NEW h \in Handlers, HookFails(h)
  PROVE  TrackInv'
BY HandlerTypes, HandlerReads DEF HookFails

LEMMA FileStep ==
  ASSUME TrackInv, NEW h \in Handlers, File(h)
  PROVE  TrackInv'
<1>1. /\ UNCHANGED <<path, known, stored, hooks, lock, po, applied, failures>>
      /\ hk' = [hk EXCEPT ![h] = IdleHandler] /\ Move(h, hk[h].target)
      /\ hk[h].target \in Filed
  BY DEF File, Carrier, TrackInv, FromCarrier
<1>2. /\ hk' \in [Handlers -> HandlerRecords] /\ hk'[h] = IdleHandler
      /\ \A g \in Handlers \ {h} : hk'[g] = hk[g]
  BY <1>1, HandlerTypes
<1>3. hk[h].target \in Reported
  BY <1>1 DEF Filed, Reported
<1>4. OnceWithItsRow'
  BY <1>1 DEF TrackInv, OnceWithItsRow, Events
<1>5. applied' \in [Events -> Nat] /\ hooks' \subseteq known
  BY <1>1, HandlerTypes
<1>6. QED BY <1>1, <1>2, <1>3, <1>4, <1>5, HandlerTypes, HandlerMoves

\* The commit of a webhook: the event had no row, so it has moved nothing yet.
LEMMA HookCommitStep ==
  ASSUME TrackInv, NEW h \in Handlers, HookCommit(h)
  PROVE  TrackInv'
<1> DEFINE ev == hk[h].ev
           more == IF CanTransition(hk[h].seen, path[ev]) THEN applied[ev] + 1 ELSE applied[ev]
<1>1. /\ UNCHANGED <<path, known, stored, lock, po, failures>>
      /\ hk' = [hk EXCEPT ![h] = IdleHandler] /\ Move(h, path[ev])
      /\ ev \in known \ hooks /\ hooks' = hooks \cup {ev}
      /\ applied' = [applied EXCEPT ![ev] = more]
  BY DEF HookCommit, Carrier, TrackInv, FromCarrier
<1>2. /\ hk' \in [Handlers -> HandlerRecords] /\ hk'[h] = IdleHandler
      /\ \A g \in Handlers \ {h} : hk'[g] = hk[g]
  BY <1>1, HandlerTypes
<1>3. ev \in Events /\ path[ev] \in Reported /\ applied[ev] \in Nat
  BY <1>1, HandlerTypes
<1>4. more \in Nat /\ more <= 1
  <2>1. applied[ev] = 0
    BY <1>1, <1>3 DEF TrackInv, OnceWithItsRow
  <2>2. QED BY <2>1
<1> HIDE DEF more, ev
<1>5. applied' \in [Events -> Nat] /\ hooks' \subseteq known
  BY <1>1, <1>3, <1>4, HandlerTypes
<1>6. OnceWithItsRow'
  <2>1. Events' = Events
    BY <1>1 DEF Events
  <2>2. ASSUME NEW e \in Events
        PROVE  applied'[e] <= 1 /\ (applied'[e] = 1 => e \in hooks')
    BY <1>1, <1>3, <1>4, HandlerTypes DEF TrackInv, OnceWithItsRow
  <2>3. QED BY <2>1, <2>2 DEF OnceWithItsRow
<1>7. QED BY <1>1, <1>2, <1>3, <1>5, <1>6, HandlerTypes, HandlerMoves

-----------------------------------------------------------------------------
(* What the order as a whole may do.                                        *)

LEMMA ReportStep ==
  ASSUME TrackInv, NEW e \in Events, Report(e)
  PROVE  TrackInv'
<1>1. /\ UNCHANGED <<status, path, stored, hooks, lock, po, hk, applied, raced, failures>>
      /\ known' = known \cup {e}
  BY DEF Report
<1>2. TypeOK'
  BY <1>1 DEF TrackInv, TypeOK, Events
<1>3. FromCarrier'
  BY <1>1 DEF TrackInv, FromCarrier
<1>4. PollsUnderLock' /\ OnceWithItsRow' /\ DeliveryEndsPolling'
  BY <1>1 DEF TrackInv, PollsUnderLock, OnceWithItsRow, DeliveryEndsPolling,
     Shows, Polling, Events
<1>5. QED BY <1>2, <1>3, <1>4 DEF TrackInv

LEMMA OrphanStep ==
  ASSUME TrackInv, Orphan
  PROVE  TrackInv'
<1>1. /\ UNCHANGED <<status, path, known, stored, hooks, po, hk, applied, raced, failures>>
      /\ lock' = Free /\ \A w \in Pollers : po[w].pc = "idle"
  BY DEF Orphan, Orphaned, Carrier, TrackInv, PollsUnderLock
<1>2. TypeOK'
  BY <1>1 DEF TrackInv, TypeOK, Events
<1>3. FromCarrier' /\ PollsUnderLock' /\ OnceWithItsRow' /\ DeliveryEndsPolling'
  BY <1>1 DEF TrackInv, FromCarrier, PollsUnderLock, OnceWithItsRow,
     DeliveryEndsPolling, Shows, Polling, Events
<1>4. QED BY <1>2, <1>3 DEF TrackInv

LEMMA TrackStutter ==
  ASSUME TrackInv, UNCHANGED vars
  PROVE  TrackInv'
BY DEF vars, TrackInv, TypeOK, FromCarrier, PollsUnderLock, OnceWithItsRow,
   DeliveryEndsPolling, Shows, Polling, Events

LEMMA TrackStep == TrackInv /\ [Next]_vars => TrackInv'
<1> SUFFICES ASSUME TrackInv, [Next]_vars
             PROVE  TrackInv'
  OBVIOUS
<1>1. ASSUME NEW e \in Events, Report(e)
      PROVE  TrackInv'
  BY <1>1, ReportStep
<1>2. ASSUME NEW w \in Pollers, PollerStep(w)
      PROVE  TrackInv'
  BY <1>2, StartStep, FetchStep, DedupStep, ApplyStep, ApplyFailsStep, EndStep
     DEF PollerStep, Progress
<1>3. ASSUME NEW h \in Handlers, HandlerStep(h)
      PROVE  TrackInv'
  <2>1. CASE Accept(h) \/ UploadPod(h) \/ AddEvent(h)
    <3>1. PICK target \in Filed : FileRead(h, target)
      BY <2>1 DEF Accept, UploadPod, AddEvent, Filed
    <3>2. QED BY <3>1, FileReadStep
  <2>2. CASE \E e \in known : HookRead(h, e)
    BY <2>2, HookReadStep
  <2>3. CASE HookCommit(h) \/ HookFails(h) \/ File(h)
    BY <2>3, HookCommitStep, HookFailsStep, FileStep
  <2>4. QED BY <1>3, <2>1, <2>2, <2>3 DEF HandlerStep
<1>4. CASE Orphan
  BY <1>4, OrphanStep
<1>5. CASE UNCHANGED vars
  BY <1>5, TrackStutter
<1>6. QED BY <1>1, <1>2, <1>3, <1>4, <1>5 DEF Next

LEMMA TrackInvAlways == Spec => []TrackInv
BY TrackInit, TrackStep, PTL DEF Spec

\* Every variable keeps its type: among them the status the chain of a batch's
\* transitions ends in (_process_result), whatever the order was when read.
THEOREM TypeOKAlways == Spec => []TypeOK
<1>1. TrackInv => TypeOK
  BY DEF TrackInv
<1>2. QED BY <1>1, TrackInvAlways, PTL

\* A webhook delivered twice moves the order at most once, however the requests
\* interleave: the row of the event and the transition are one commit, and the
\* row is unique (uq_tracking_webhook_event).
THEOREM HookAppliedOnceAlways == Spec => []HookAppliedOnce
<1>1. TrackInv => HookAppliedOnce
  BY DEF TrackInv, OnceWithItsRow, HookAppliedOnce
<1>2. QED BY <1>1, TrackInvAlways, PTL

\* A delivery the poller has stored is one the order shows, for every story of
\* the parcel, unless a handler has moved an order it had read before another
\* move: the lock lets one poll store events at a time, so none has read the
\* order before the delivery was stored and writes it after.
THEOREM DeliveryIsNotLostAlways == Spec => []DeliveryIsNotLost
<1>1. TrackInv => DeliveryIsNotLost
  BY DEF TrackInv, DeliveryEndsPolling, Shows, DeliveryIsNotLost
<1>2. QED BY <1>1, TrackInvAlways, PTL

=============================================================================
