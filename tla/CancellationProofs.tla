-------------------------- MODULE CancellationProofs --------------------------
(* Theorems about Cancellations, for every number of sessions, replicas,      *)
(* requests and retries.  The inductive invariant has four parts, each proved *)
(* from the ones before it: Shape (types, and who may hold what), Seen (a     *)
(* handler that read the order cancelled is right until another commit puts   *)
(* its status over it), and the two properties that relate the tables.        *)
EXTENDS Cancellations, TLAPS

USE CancellationsAssumption

LEMMA StatusNames ==
  /\ "draft" \in Statuses /\ "paid" \in Statuses /\ "dispatch_queued" \in Statuses
  /\ "sent_to_carrier" \in Statuses /\ "dispatch_failed" \in Statuses
  /\ "cancelled" \in Statuses
BY DEF Statuses, AllowedTransitions

(* A request is scheduled only while attempts are left; so is the copy of it  *)
(* the job goes by, and what the job does has a request.                      *)

RequestOK(q) == q \in ReqRecords /\ (q.next # "none" => q.tries < MaxRetries)

SessionOK(h) ==
  /\ h \in Handlers
  /\ h.pc \in {"closing", "auto_rejecting", "rejecting"} => h.r # 0

JobOK(h) ==
  /\ h \in Handlers /\ (h.pc # "idle" => h.r # 0)
  /\ RequestOK(h.copy)
  /\ h.pc \in {"calling", "refused"} => h.copy.tries < MaxRetries

OrderShape ==
  /\ order \in Statuses /\ hasApi \in BOOLEAN
  /\ invoice \in {"none", "live", "dead"}
  /\ mv \in [Movers -> Moves] /\ adrift \in BOOLEAN /\ revived \in BOOLEAN
  /\ failures \in 0..MaxFailures
ReqShape == req \in [Reqs -> ReqRecords] /\ \A r \in Reqs : RequestOK(req[r])
SeShape == se \in [Sessions -> Handlers] /\ \A s \in Sessions : SessionOK(se[s])
JobShape == job \in [Replicas -> Handlers] /\ \A w \in Replicas : JobOK(job[w])

Shape == OrderShape /\ ReqShape /\ SeShape /\ JobShape

LEMMA NoReqOK == NoReq \in ReqRecords /\ RequestOK(NoReq)
BY DEF NoReq, RequestOK, ReqRecords

LEMMA IdleOK == /\ Idle \in Handlers /\ SessionOK(Idle) /\ JobOK(Idle)
                /\ Idle.pc = "idle" /\ Idle.seen = "draft"
BY NoReqOK, StatusNames DEF Idle, Handlers, SessionOK, JobOK, NoReq, RequestOK

LEMMA InitShape == Init => Shape
<1> SUFFICES ASSUME Init PROVE Shape OBVIOUS
<1>1. OrderShape
  <2>1. order \in Statuses  BY StatusNames DEF Init
  <2>2. hasApi \in BOOLEAN /\ adrift \in BOOLEAN /\ revived \in BOOLEAN  BY DEF Init
  <2>5. mv \in [Movers -> Moves]  BY StatusNames DEF Init, Still, Moves
  <2>3. invoice \in {"none", "live", "dead"}  BY DEF Init
  <2>4. failures \in 0..MaxFailures  BY DEF Init, CancellationsAssumption
  <2> QED BY <2>1, <2>2, <2>3, <2>4, <2>5 DEF OrderShape
<1>2. ReqShape    BY NoReqOK DEF Init, ReqShape
<1>3. SeShape     BY IdleOK DEF Init, SeShape
<1>4. JobShape    BY IdleOK DEF Init, JobShape
<1> QED BY <1>1, <1>2, <1>3, <1>4 DEF Shape

(* One table changes at a time, in one entry.                                 *)

LEMMA RequestUpdate ==
  ASSUME ReqShape, NEW r, NEW q, RequestOK(q), req' = [req EXCEPT ![r] = q]
  PROVE  ReqShape'
BY DEF ReqShape, RequestOK

LEMMA SessionUpdate ==
  ASSUME SeShape, NEW s, NEW h, SessionOK(h), se' = [se EXCEPT ![s] = h]
  PROVE  SeShape'
BY DEF SeShape, SessionOK

LEMMA JobUpdate ==
  ASSUME JobShape, NEW w, NEW h, JobOK(h), job' = [job EXCEPT ![w] = h]
  PROVE  JobShape'
BY DEF JobShape, JobOK

\* The call to the carrier moves a handler on and changes nothing it has read.
LEMMA CalledOK ==
  ASSUME NEW h \in Handlers, NEW pc \in {"agreed", "refused"}
  PROVE  /\ SessionOK(h) => SessionOK(Called(h, pc))
         /\ JobOK(h) /\ h.pc = "calling" => JobOK(Called(h, pc))
         /\ Called(h, pc).pc = pc /\ Called(h, pc).seen = h.seen
BY DEF Called, Handlers, SessionOK, JobOK, RequestOK, ReqRecords

\* A table that stays as it is keeps its shape.
LEMMA Unmoved ==
  /\ ReqShape /\ UNCHANGED req => ReqShape'
  /\ SeShape /\ UNCHANGED se => SeShape'
  /\ JobShape /\ UNCHANGED job => JobShape'
BY DEF ReqShape, SeShape, JobShape

-----------------------------------------------------------------------------
(* What a step does to a session, to a replica and to a request.              *)

\* The order is cancelled, or was when another status was put over it.
Shut == order = "cancelled" \/ revived

\* The handler h that replaces what g was doing knows what g knew, or starts
\* by reading the order; if g had the carrier's consent, the order is closed.
Follows(g, h) ==
  /\ h.seen \in {g.seen, order, "draft"}
  /\ g.pc = "agreed" => h.pc = "agreed" \/ Shut' \/ adrift'

\* Nobody who read the order cancelled is wrong, unless it was revived.
Seen ==
  /\ \A s \in Sessions : se[s].seen = "cancelled" => Shut
  /\ \A w \in Replicas : job[w].seen = "cancelled" => Shut

LEMMA BeginFollows ==
  ASSUME Shape, NEW s \in Sessions, NEW r \in 0..MaxReqs,
         NEW pc \in {"calling", "creating", "closing", "auto_rejecting", "rejecting"},
         pc \in {"closing", "auto_rejecting", "rejecting"} => r # 0,
         Begin(s, pc, r)
  PROVE  \E h : SessionOK(h) /\ Follows(se[s], h) /\ se' = [se EXCEPT ![s] = h]
<1> DEFINE c == IF r = 0 THEN NoReq ELSE req[r]
           h == [Idle EXCEPT !.pc = pc, !.seen = order, !.r = r, !.copy = c]
<1>1. c \in ReqRecords /\ order \in Statuses
  BY NoReqOK DEF Shape, ReqShape, OrderShape, Reqs
<1>2. se' = [se EXCEPT ![s] = h]  BY DEF Begin
<1> HIDE DEF c
<1>3. h \in Handlers /\ h.pc = pc /\ h.seen = order /\ h.r = r
  BY <1>1 DEF Idle, Handlers
<1>4. se[s].pc = "idle"  BY DEF Begin
<1> HIDE DEF h
<1> QED BY <1>2, <1>3, <1>4 DEF SessionOK, Follows

LEMMA SessionFollows ==
  ASSUME Shape, Seen, NEW s \in Sessions, SessionStep(s)
  PROVE  /\ \E h : SessionOK(h) /\ Follows(se[s], h) /\ se' = [se EXCEPT ![s] = h]
         /\ UNCHANGED job
<1> DEFINE Goal == \E h : SessionOK(h) /\ Follows(se[s], h) /\ se' = [se EXCEPT ![s] = h]
<1>1. se[s] \in Handlers /\ SessionOK(se[s])  BY DEF Shape, SeShape
<1>2. order \in Statuses  BY DEF Shape, OrderShape
<1>3. CASE RequestRead(s)
  <2>1. PICK pc \in {"calling", "creating"} : Begin(s, pc, 0)  BY <1>3 DEF RequestRead
  <2>2. Goal  BY <2>1, BeginFollows DEF CancellationsAssumption
  <2> QED BY <2>1, <2>2 DEF Begin
<1>4. ASSUME NEW r \in Reqs, ApproveRead(s, r) \/ RetryByStaffRead(s, r) \/ RejectRead(s, r)
      PROVE  Goal /\ UNCHANGED job
  <2>1. PICK pc \in {"calling", "closing", "auto_rejecting", "rejecting"} : Begin(s, pc, r)
    BY <1>4 DEF ApproveRead, RetryByStaffRead, RejectRead
  <2>2. r \in 0..MaxReqs /\ r # 0  BY DEF Reqs, CancellationsAssumption
  <2>3. Goal  BY <2>1, <2>2, BeginFollows
  <2> QED BY <2>1, <2>3 DEF Begin
<1>5. CASE CallByRequest(s)
  <2>1. PICK pc \in {"agreed", "refused"} : se' = [se EXCEPT ![s] = Called(se[s], pc)]
    BY <1>5 DEF CallByRequest
  <2>2. SessionOK(Called(se[s], pc)) /\ Called(se[s], pc).seen = se[s].seen
    BY <1>1, CalledOK
  <2>3. Follows(se[s], Called(se[s], pc))  BY <1>5, <2>2 DEF Follows, CallByRequest
  <2> QED BY <1>5, <2>1, <2>2, <2>3 DEF CallByRequest
<1>6. ASSUME \/ CancelDirectly(s) \/ CreateRequest(s) \/ CloseByStaff(s)
             \/ AutoReject(s) \/ RejectWrite(s) \/ GiveUp(s)
      PROVE  Goal /\ UNCHANGED job
  <2>1. Done(s) /\ UNCHANGED job
    BY <1>6 DEF CancelDirectly, CreateRequest, CloseByStaff, AutoReject, RejectWrite, GiveUp
  <2>2. se[s].pc = "agreed" => Shut' \/ adrift'
    <3>1. CASE CancelDirectly(s)  BY <3>1 DEF CancelDirectly, Shut
    <3>2. CASE CreateRequest(s) \/ AutoReject(s) \/ RejectWrite(s)
      BY <3>2 DEF CreateRequest, AutoReject, RejectWrite
    <3>3. CASE CloseByStaff(s)  BY <3>3 DEF CloseByStaff, Close, Seen, Shut, Others
    <3>4. CASE GiveUp(s)  BY <3>4 DEF GiveUp, Shut
    <3> QED BY <1>6, <3>1, <3>2, <3>3, <3>4
  <2>3. Follows(se[s], Idle)  BY <2>2, IdleOK DEF Follows
  <2> QED BY <2>1, <2>3, IdleOK DEF Done
<1> QED BY <1>3, <1>4, <1>5, <1>6 DEF SessionStep

LEMMA JobFollows ==
  ASSUME Shape, Seen, NEW w \in Replicas, JobStep(w)
  PROVE  /\ \E h : JobOK(h) /\ Follows(job[w], h) /\ job' = [job EXCEPT ![w] = h]
         /\ UNCHANGED se
<1> DEFINE g == job[w]
           Goal == \E h : JobOK(h) /\ Follows(g, h) /\ job' = [job EXCEPT ![w] = h]
<1>1. g \in Handlers /\ JobOK(g)  BY DEF Shape, JobShape
<1>2. order \in Statuses  BY DEF Shape, OrderShape
<1>3. \A r \in Reqs : r \in 0..MaxReqs /\ r # 0 /\ req[r] \in ReqRecords /\ RequestOK(req[r])
  BY DEF Shape, ReqShape, Reqs, CancellationsAssumption
<1>4. g.pc # "idle" => g.r \in Reqs
  BY <1>1 DEF JobOK, Handlers, Reqs, CancellationsAssumption
<1>5. ASSUME NEW r \in Reqs, JobList(w, r) PROVE Goal /\ UNCHANGED se
  <2> DEFINE q == req[r]
             h == [Idle EXCEPT !.pc = "listed", !.r = r, !.copy = q]
  <2>1. job' = [job EXCEPT ![w] = h] /\ UNCHANGED se /\ g.pc = "idle"  BY <1>5 DEF JobList
  <2>2. q \in ReqRecords /\ RequestOK(q) /\ r \in 0..MaxReqs /\ r # 0  BY <1>3
  <2> HIDE DEF q
  <2>3. /\ h \in Handlers /\ h.pc = "listed" /\ h.seen = "draft"
        /\ h.r = r /\ h.copy = q
    BY <2>2, IdleOK DEF Idle, Handlers
  <2> HIDE DEF h
  <2>4. JobOK(h) /\ Follows(g, h)  BY <2>1, <2>2, <2>3 DEF JobOK, Follows
  <2> QED BY <2>1, <2>4
<1>6. CASE JobExpires(w)
  <2> DEFINE q == req[g.r]
             h == [g EXCEPT !.copy = q]
  <2>1. job' = [job EXCEPT ![w] = h] /\ UNCHANGED se /\ g.pc = "listed"  BY <1>6 DEF JobExpires
  <2>2. q \in ReqRecords /\ RequestOK(q) /\ g.r # 0  BY <1>1, <1>3, <1>4, <2>1 DEF JobOK
  <2> HIDE DEF q, g
  <2>3. /\ h \in Handlers /\ h.pc = g.pc /\ h.seen = g.seen
        /\ h.r = g.r /\ h.copy = q
    BY <1>1, <2>2 DEF Handlers
  <2> HIDE DEF h
  <2>4. JobOK(h) /\ Follows(g, h)  BY <2>1, <2>2, <2>3 DEF JobOK, Follows
  <2> QED BY <2>1, <2>4 DEF g
<1>7. CASE JobCheck(w)
  <2> DEFINE h == [g EXCEPT !.pc = "calling", !.seen = order]
  <2>1. /\ UNCHANGED se /\ g.pc = "listed"
        /\ \/ job' = [job EXCEPT ![w] = Idle]
           \/ job' = [job EXCEPT ![w] = h] /\ g.copy.next = "due"
    BY <1>7 DEF JobCheck
  <2>2. Follows(g, Idle)  BY <2>1, IdleOK DEF Follows
  <2> HIDE DEF g
  <2>3. /\ h \in Handlers /\ h.pc = "calling" /\ h.seen = order
        /\ h.r = g.r /\ h.copy = g.copy
    BY <1>1, <1>2 DEF Handlers
  <2> HIDE DEF h
  <2>4. Follows(g, h)  BY <2>1, <2>3 DEF Follows
  <2>5. g.copy.next = "due" => JobOK(h)
    BY <1>1, <2>1, <2>3 DEF JobOK, RequestOK
  <2> QED BY <2>1, <2>2, <2>4, <2>5, IdleOK DEF g
<1>8. CASE CallByJob(w)
  <2>1. PICK pc \in {"agreed", "refused"} : job' = [job EXCEPT ![w] = Called(job[w], pc)]
    BY <1>8 DEF CallByJob
  <2>2. JobOK(Called(g, pc)) /\ Called(g, pc).seen = g.seen
    BY <1>1, <1>8, CalledOK DEF CallByJob
  <2>3. Follows(g, Called(g, pc))  BY <1>8, <2>2 DEF Follows, CallByJob
  <2> QED BY <1>8, <2>1, <2>2, <2>3 DEF CallByJob
<1>9. ASSUME CloseByJob(w) \/ Reschedule(w) \/ JobFails(w)
      PROVE  Goal /\ UNCHANGED se
  <2>1. job' = [job EXCEPT ![w] = Idle] /\ UNCHANGED se
    BY <1>9 DEF CloseByJob, Reschedule, JobFails
  <2>2. g.pc = "agreed" => Shut' \/ adrift'
    <3>1. CASE CloseByJob(w)  BY <3>1 DEF CloseByJob, Close, Seen, Shut, Others
    <3>2. CASE Reschedule(w)  BY <3>2 DEF Reschedule
    <3>3. CASE JobFails(w)  BY <3>3 DEF JobFails, Shut
    <3> QED BY <1>9, <3>1, <3>2, <3>3
  <2>3. Follows(g, Idle)  BY <2>2, IdleOK DEF Follows
  <2> QED BY <2>1, <2>3, IdleOK
<1> QED BY <1>5, <1>6, <1>7, <1>8, <1>9 DEF JobStep, JobProgress

\* What a step makes of a request p: a new pending one is the only one, and
\* an approval closes the order.
Settles(p, q) ==
  /\ q.st = "pending" => p.st = "pending" \/ NoPending
  /\ q.st \in {"approved", "api_cancelled"} => p.st = q.st \/ Shut'

RequestMoves ==
  \/ UNCHANGED req
  \/ \E r \in Reqs : \E q :
       RequestOK(q) /\ Settles(req[r], q) /\ req' = [req EXCEPT ![r] = q]

LEMMA CloseMoves ==
  ASSUME Shape, NEW h \in Handlers, h.seen = "cancelled" => Shut, Close(h),
         UNCHANGED revived
  PROVE  RequestMoves /\ Shut'
<1> DEFINE p == req[h.r]
           st == IF h.asked THEN "api_cancelled" ELSE "approved"
           next == Unscheduled(h, h.asked)
           q == [p EXCEPT !.st = st, !.next = next]
<1>1. req' = [req EXCEPT ![h.r] = q] /\ Shut'  BY DEF Close, Shut
<1>2. h.r \in Reqs  BY DEF Close, Handlers, Reqs, CancellationsAssumption
<1>3. p \in ReqRecords /\ RequestOK(p)  BY <1>2 DEF Shape, ReqShape
<1>4. st \in {"approved", "api_cancelled"} /\ next \in {"none", p.next}
  BY DEF Unscheduled
<1> HIDE DEF p, st, next
<1>5. RequestOK(q) /\ q.st = st
  BY <1>3, <1>4 DEF RequestOK, ReqRecords, Decisions
<1> HIDE DEF q
<1>6. Settles(p, q)  BY <1>1, <1>4, <1>5 DEF Settles
<1> QED BY <1>1, <1>2, <1>5, <1>6 DEF RequestMoves, p

LEMMA SessionRequest ==
  ASSUME Shape, Seen, NEW s \in Sessions, SessionStep(s)
  PROVE  RequestMoves
<1> DEFINE h == se[s]
           p == req[h.r]
<1>1. h \in Handlers /\ SessionOK(h)  BY DEF Shape, SeShape
<1>2. h.r # 0 => h.r \in Reqs  BY <1>1 DEF Handlers, Reqs, CancellationsAssumption
<1>3. \A r \in Reqs : req[r] \in ReqRecords /\ RequestOK(req[r])  BY DEF Shape, ReqShape
<1>4. CASE \/ RequestRead(s) \/ CallByRequest(s) \/ CancelDirectly(s) \/ GiveUp(s)
           \/ \E r \in Reqs : ApproveRead(s, r) \/ RetryByStaffRead(s, r) \/ RejectRead(s, r)
  BY <1>4 DEF RequestRead, CallByRequest, CancelDirectly, GiveUp, ApproveRead,
              RetryByStaffRead, RejectRead, Begin, Tables, RequestMoves
<1>5. CASE CreateRequest(s)
  <2> DEFINE Filed(next) == [st |-> "pending", tries |-> 0, next |-> next]
  <2>1. PICK r \in Reqs, next \in {"none", "later"} : req' = [req EXCEPT ![r] = Filed(next)]
    BY <1>5 DEF CreateRequest
  <2>2. RequestOK(Filed(next))  BY DEF RequestOK, ReqRecords, CancellationsAssumption
  <2>3. Settles(req[r], Filed(next))  BY <1>5 DEF Settles, CreateRequest
  <2> QED BY <2>1, <2>2, <2>3 DEF RequestMoves
<1>6. CASE CloseByStaff(s)
  BY <1>1, <1>6, CloseMoves DEF CloseByStaff, Seen, Others
<1>7. CASE AutoReject(s)
  <2> DEFINE next == Unscheduled(h, TRUE)
             q == [p EXCEPT !.st = "rejected", !.next = next]
  <2>1. req' = [req EXCEPT ![h.r] = q] /\ h.r \in Reqs
    BY <1>1, <1>2, <1>7 DEF AutoReject, SessionOK
  <2>2. p \in ReqRecords /\ RequestOK(p)  BY <1>3, <2>1
  <2>3. next \in {"none", p.next}  BY DEF Unscheduled
  <2> HIDE DEF next, p
  <2>4. RequestOK(q) /\ q.st = "rejected"
    BY <2>2, <2>3 DEF RequestOK, ReqRecords, Decisions
  <2> HIDE DEF q
  <2>5. Settles(p, q)  BY <2>4 DEF Settles
  <2> QED BY <2>1, <2>4, <2>5 DEF RequestMoves, p
<1>8. CASE RejectWrite(s)
  <2> DEFINE q == [p EXCEPT !.st = "rejected"]
  <2>1. req' = [req EXCEPT ![h.r] = q] /\ h.r \in Reqs
    BY <1>1, <1>2, <1>8 DEF RejectWrite, SessionOK
  <2>2. p \in ReqRecords /\ RequestOK(p)  BY <1>3, <2>1
  <2> HIDE DEF p
  <2>3. RequestOK(q) /\ q.st = "rejected"
    BY <2>2 DEF RequestOK, ReqRecords, Decisions
  <2> HIDE DEF q
  <2>4. Settles(p, q)  BY <2>3 DEF Settles
  <2> QED BY <2>1, <2>3, <2>4 DEF RequestMoves, p
<1> QED BY <1>4, <1>5, <1>6, <1>7, <1>8 DEF SessionStep

LEMMA JobRequest ==
  ASSUME Shape, Seen, NEW w \in Replicas, JobStep(w)
  PROVE  RequestMoves
<1> DEFINE h == job[w]
           p == req[h.r]
<1>1. h \in Handlers /\ JobOK(h)  BY DEF Shape, JobShape
<1>2. h.pc # "idle" => h.r \in Reqs /\ p \in ReqRecords /\ RequestOK(p)
  BY <1>1 DEF JobOK, Handlers, Reqs, CancellationsAssumption, Shape, ReqShape
<1>3. CASE JobExpires(w) \/ CallByJob(w) \/ JobFails(w) \/ \E r \in Reqs : JobList(w, r)
  BY <1>3 DEF JobExpires, CallByJob, JobFails, JobList, Tables, RequestMoves
<1>4. CASE JobCheck(w)
  <2> DEFINE q == [p EXCEPT !.next = "none"]
  <2>1. h.pc = "listed" /\ (UNCHANGED req \/ req' = [req EXCEPT ![h.r] = q])
    BY <1>4 DEF JobCheck
  <2>2. h.r \in Reqs /\ p \in ReqRecords /\ RequestOK(p)  BY <1>2, <2>1
  <2> HIDE DEF p
  <2>3. RequestOK(q) /\ q.st = p.st  BY <2>2 DEF RequestOK, ReqRecords
  <2> HIDE DEF q
  <2>4. Settles(p, q)  BY <2>3 DEF Settles
  <2> QED BY <2>1, <2>2, <2>3, <2>4 DEF RequestMoves, p
<1>5. CASE CloseByJob(w)
  BY <1>1, <1>5, CloseMoves DEF CloseByJob, Seen, Others
<1>6. CASE Reschedule(w)
  <2> DEFINE tries == h.copy.tries + 1
             next == IF tries >= MaxRetries THEN "none" ELSE "later"
             q == [p EXCEPT !.tries = tries, !.next = next]
  <2>1. req' = [req EXCEPT ![h.r] = q] /\ h.pc = "refused"  BY <1>6 DEF Reschedule
  <2>2. h.r \in Reqs /\ p \in ReqRecords  BY <1>2, <2>1
  <2>3. tries \in 0..MaxRetries
    BY <1>1, <2>1 DEF JobOK, RequestOK, ReqRecords, CancellationsAssumption
  <2>4. next \in {"none", "later"} /\ (next # "none" => tries < MaxRetries)
    BY <2>3 DEF CancellationsAssumption
  <2> HIDE DEF p, tries, next
  <2>5. RequestOK(q) /\ q.st = p.st  BY <2>2, <2>3, <2>4 DEF RequestOK, ReqRecords
  <2> HIDE DEF q
  <2>6. Settles(p, q)  BY <2>5 DEF Settles
  <2> QED BY <2>1, <2>2, <2>5, <2>6 DEF RequestMoves, p
<1> QED BY <1>3, <1>4, <1>5, <1>6 DEF JobStep, JobProgress

LEMMA DueRequest ==
  ASSUME Shape, NEW r \in Reqs, ComesDue(r)
  PROVE  RequestMoves
<1> DEFINE p == req[r]
           q == [p EXCEPT !.next = "due"]
<1>1. req' = [req EXCEPT ![r] = q] /\ p.next = "later"  BY DEF ComesDue
<1>2. p \in ReqRecords /\ RequestOK(p)  BY DEF Shape, ReqShape
<1> HIDE DEF p
<1>3. RequestOK(q) /\ q.st = p.st  BY <1>1, <1>2 DEF RequestOK, ReqRecords
<1> HIDE DEF q
<1>4. Settles(p, q)  BY <1>3 DEF Settles
<1> QED BY <1>1, <1>3, <1>4 DEF RequestMoves, p

-----------------------------------------------------------------------------
(* The order, the carrier's invoice and what was lost on the way.             *)

\* A cancelled order stays so or is seen to be revived, what was lost stays
\* lost, and an invoice
\* dies when a handler hears of it, unless that is lost.
OrderMoves ==
  /\ order' \in Statuses /\ (Shut => Shut')
  /\ hasApi' = hasApi /\ invoice' \in {"none", "live", "dead"}
  /\ mv' \in [Movers -> Moves] /\ revived' \in BOOLEAN
  /\ adrift' \in BOOLEAN /\ (adrift => adrift')
  /\ failures' \in 0..MaxFailures
  /\ invoice' = "dead" =>
       \/ invoice = "dead" \/ Shut' \/ adrift'
       \/ \E s \in Sessions : se'[s].pc = "agreed"
       \/ \E w \in Replicas : job'[w].pc = "agreed"

LEMMA QuietOrder ==
  ASSUME Shape, UNCHANGED <<Others, invoice, adrift, failures>>,
         order' \in {order, "cancelled"}
  PROVE  OrderMoves
<1>1. order' \in Statuses /\ (Shut => Shut')
  BY StatusNames DEF Shape, OrderShape, Shut, Others
<1>2. hasApi' = hasApi /\ invoice' \in {"none", "live", "dead"} /\ failures' \in 0..MaxFailures
  BY DEF Shape, OrderShape, Others
<1>3. /\ mv' \in [Movers -> Moves] /\ revived' \in BOOLEAN
      /\ adrift' \in BOOLEAN /\ (adrift => adrift')
  BY DEF Shape, OrderShape, Others
<1>4. invoice' = "dead" => invoice = "dead"  OBVIOUS
<1> QED BY <1>1, <1>2, <1>3, <1>4 DEF OrderMoves

\* A handler gives up or dies: what it alone knew is lost.
LEMMA LostOrder ==
  ASSUME Shape, UNCHANGED <<order, Others, invoice>>, failures' \in 0..MaxFailures,
         NEW b \in BOOLEAN, adrift' = (adrift \/ b)
  PROVE  OrderMoves
<1>1. order' \in Statuses /\ (Shut => Shut')
  BY DEF Shape, OrderShape, Shut, Others
<1>2. hasApi' = hasApi /\ invoice' \in {"none", "live", "dead"}
  BY DEF Shape, OrderShape, Others
<1>3. mv' \in [Movers -> Moves] /\ revived' \in BOOLEAN
  BY DEF Shape, OrderShape, Others
<1>4. adrift' \in BOOLEAN /\ (adrift => adrift')  BY DEF Shape, OrderShape
<1>5. invoice' = "dead" => invoice = "dead"  OBVIOUS
<1> QED BY <1>1, <1>2, <1>3, <1>4, <1>5 DEF OrderMoves

\* The call: the answer is heard by somebody, or lost.
LEMMA CallOrder ==
  ASSUME Shape, UNCHANGED <<order, Others, failures>>,
         \/ Agrees /\ ( \/ \E s \in Sessions : se'[s].pc = "agreed"
                        \/ \E w \in Replicas : job'[w].pc = "agreed" )
         \/ AgreesUnheard \/ Refuses
  PROVE  OrderMoves
<1>1. order' \in Statuses /\ (Shut => Shut')
  BY DEF Shape, OrderShape, Shut, Others
<1>2. /\ hasApi' = hasApi /\ failures' \in 0..MaxFailures
      /\ mv' \in [Movers -> Moves] /\ revived' \in BOOLEAN
  BY DEF Shape, OrderShape, Others
<1>3. CASE Agrees /\ ( \/ \E s \in Sessions : se'[s].pc = "agreed"
                       \/ \E w \in Replicas : job'[w].pc = "agreed" )
  <2>1. invoice' = "dead" /\ adrift' = adrift  BY <1>3 DEF Agrees
  <2>2. adrift' \in BOOLEAN /\ (adrift => adrift')  BY <2>1 DEF Shape, OrderShape
  <2> QED BY <1>1, <1>2, <1>3, <2>1, <2>2 DEF OrderMoves
<1>4. CASE AgreesUnheard
  <2>1. invoice' = "dead" /\ adrift' = (adrift \/ order # "cancelled")
    BY <1>4 DEF AgreesUnheard
  <2>2. adrift' \in BOOLEAN /\ (adrift => adrift') /\ (Shut' \/ adrift')
    BY <2>1 DEF Shape, OrderShape, Shut
  <2> QED BY <1>1, <1>2, <2>1, <2>2 DEF OrderMoves
<1>5. CASE Refuses
  BY <1>5, QuietOrder DEF Refuses
<1> QED BY <1>3, <1>4, <1>5

LEMMA SessionOrder ==
  ASSUME Shape, Seen, NEW s \in Sessions, SessionStep(s)
  PROVE  OrderMoves
<1> DEFINE h == se[s]
<1>1. h \in Handlers  BY DEF Shape, SeShape
<1>2. CASE \/ RequestRead(s) \/ CreateRequest(s) \/ AutoReject(s) \/ RejectWrite(s)
           \/ \E r \in Reqs : ApproveRead(s, r) \/ RetryByStaffRead(s, r) \/ RejectRead(s, r)
  <2>1. UNCHANGED <<order, Others, invoice, adrift, failures>>
    BY <1>2 DEF RequestRead, CreateRequest, AutoReject, RejectWrite, ApproveRead,
                RetryByStaffRead, RejectRead, Begin, Tables, Others
  <2> QED BY <2>1, QuietOrder
<1>3. CASE CallByRequest(s)
  <2>1. Agrees => se'[s].pc = "agreed" \/ AgreesUnheard \/ Refuses
    <3>1. Called(h, "agreed").pc = "agreed"  BY <1>1, CalledOK
    <3> QED BY <1>3, <3>1 DEF CallByRequest, Shape, SeShape
  <2>2. UNCHANGED <<order, Others, failures>> /\ (Agrees \/ AgreesUnheard \/ Refuses)
    BY <1>3 DEF CallByRequest
  <2> QED BY <2>1, <2>2, CallOrder
<1>4. CASE CancelDirectly(s) \/ CloseByStaff(s)
  <2>1. UNCHANGED <<Others, invoice, adrift, failures>> /\ order' \in {order, "cancelled"}
    BY <1>4 DEF CancelDirectly, CloseByStaff, Close
  <2> QED BY <2>1, QuietOrder
<1>5. CASE GiveUp(s)
  <2> DEFINE b == h.pc = "agreed" /\ order # "cancelled"
  <2>1. b \in BOOLEAN  OBVIOUS
  <2>2. UNCHANGED <<order, Others, invoice, failures>> /\ adrift' = (adrift \/ b)
    BY <1>5 DEF GiveUp
  <2>3. failures' \in 0..MaxFailures  BY <2>2 DEF Shape, OrderShape
  <2> HIDE DEF b
  <2> QED BY <2>1, <2>2, <2>3, LostOrder
<1> QED BY <1>2, <1>3, <1>4, <1>5 DEF SessionStep

LEMMA JobOrder ==
  ASSUME Shape, Seen, NEW w \in Replicas, JobStep(w)
  PROVE  OrderMoves
<1> DEFINE h == job[w]
<1>1. h \in Handlers  BY DEF Shape, JobShape
<1>2. CASE JobExpires(w) \/ JobCheck(w) \/ Reschedule(w) \/ \E r \in Reqs : JobList(w, r)
  <2>1. UNCHANGED <<order, Others, invoice, adrift, failures>>
    BY <1>2 DEF JobExpires, JobCheck, Reschedule, JobList, Tables, Others
  <2> QED BY <2>1, QuietOrder
<1>3. CASE CallByJob(w)
  <2>1. Agrees => job'[w].pc = "agreed" \/ AgreesUnheard \/ Refuses
    <3>1. Called(h, "agreed").pc = "agreed"  BY <1>1, CalledOK
    <3> QED BY <1>3, <3>1 DEF CallByJob, Shape, JobShape
  <2>2. UNCHANGED <<order, Others, failures>> /\ (Agrees \/ AgreesUnheard \/ Refuses)
    BY <1>3 DEF CallByJob
  <2> QED BY <2>1, <2>2, CallOrder
<1>4. CASE CloseByJob(w)
  <2>1. UNCHANGED <<Others, invoice, adrift, failures>> /\ order' \in {order, "cancelled"}
    BY <1>4 DEF CloseByJob, Close
  <2> QED BY <2>1, QuietOrder
<1>5. CASE JobFails(w)
  <2> DEFINE b == h.pc = "agreed" /\ order # "cancelled"
  <2>1. b \in BOOLEAN  OBVIOUS
  <2>2. UNCHANGED <<order, Others, invoice>> /\ adrift' = (adrift \/ b)
    BY <1>5 DEF JobFails
  <2>3. failures' \in 0..MaxFailures
    BY <1>5 DEF JobFails, Shape, OrderShape, CancellationsAssumption
  <2> HIDE DEF b
  <2> QED BY <2>1, <2>2, <2>3, LostOrder
<1> QED BY <1>2, <1>3, <1>4, <1>5 DEF JobStep, JobProgress

\* What else moves the order: a status put over "cancelled" is seen.
LEMMA MoverOrder ==
  ASSUME Shape, NEW m \in Movers, MoverStep(m)
  PROVE  OrderMoves /\ UNCHANGED <<req, se, job>>
<1>1. mv \in [Movers -> Moves] /\ mv[m] \in Moves /\ order \in Statuses
  BY DEF Shape, OrderShape
<1>2. CASE \E pc \in {"moving", "marking"}, to \in Statuses : MoveRead(m, pc, to)
  <2>1. PICK pc \in {"moving", "marking"}, to \in Statuses : MoveRead(m, pc, to)
    BY <1>2
  <2>2. [pc |-> pc, seen |-> order, to |-> to] \in Moves  BY <1>1 DEF Moves
  <2>3. mv' \in [Movers -> Moves]  BY <1>1, <2>1, <2>2 DEF MoveRead
  <2>4. UNCHANGED <<Tables, se, job, failures>>  BY <2>1 DEF MoveRead
  <2>5. Shut => Shut'  BY <2>4 DEF Shut, Tables
  <2> QED BY <2>3, <2>4, <2>5 DEF OrderMoves, Tables, Shape, OrderShape
<1>3. CASE MoveWrite(m)
  <2>1. order' \in Statuses  BY <1>1, <1>3 DEF MoveWrite, Moves
  <2>2. Shut => Shut'  BY <1>3 DEF MoveWrite, Shut
  <2>3. mv' \in [Movers -> Moves]
    BY <1>1, <1>3, StatusNames DEF MoveWrite, Still, Moves
  <2>4. revived' \in BOOLEAN
    <3> DEFINE b == order = "cancelled" /\ order' # "cancelled"
    <3>1. revived' = (revived \/ b) /\ revived \in BOOLEAN
      BY <1>3 DEF MoveWrite, Shape, OrderShape
    <3>2. b \in BOOLEAN  OBVIOUS
    <3> HIDE DEF b
    <3> QED BY <3>1, <3>2
  <2>5. invoice' \in {invoice, "live"}  BY <1>3 DEF MoveWrite
  <2>6. UNCHANGED <<hasApi, req, se, job, adrift, failures>>  BY <1>3 DEF MoveWrite
  <2> QED BY <2>1, <2>2, <2>3, <2>4, <2>5, <2>6 DEF OrderMoves, Shape, OrderShape
<1>4. CASE MoveFails(m)
  <2>1. mv' \in [Movers -> Moves]
    BY <1>1, <1>4, StatusNames DEF MoveFails, Still, Moves
  <2>2. UNCHANGED <<Tables, se, job, failures>>  BY <1>4 DEF MoveFails
  <2>3. Shut => Shut'  BY <2>2 DEF Shut, Tables
  <2> QED BY <2>1, <2>2, <2>3 DEF OrderMoves, Tables, Shape, OrderShape
<1>5. MoverStep(m) => \/ \E pc \in {"moving", "marking"}, to \in Statuses : MoveRead(m, pc, to)
                      \/ MoveWrite(m) \/ MoveFails(m)
  <2>1. QueueRead(m) => MoveRead(m, "moving", "dispatch_queued")  BY DEF QueueRead
  <2>2. FailRead(m) => MoveRead(m, "moving", "dispatch_failed")  BY DEF FailRead
  <2>3. MarkRead(m) => MoveRead(m, "marking", "sent_to_carrier")  BY DEF MarkRead
  <2>4. ASSUME NEW st \in CarrierEvents, EventRead(m, st)
        PROVE  st \in Statuses /\ MoveRead(m, "moving", st)
    BY <2>4 DEF EventRead, CancellationsAssumption
  <2>5. ASSUME NEW st \in OverrideTargets, OverrideRead(m, st)
        PROVE  st \in Statuses /\ MoveRead(m, "moving", st)
    BY <2>5 DEF OverrideRead, CancellationsAssumption
  <2> QED BY <2>1, <2>2, <2>3, <2>4, <2>5, StatusNames DEF MoverStep
<1> QED BY <1>2, <1>3, <1>4, <1>5 DEF MoveRead, MoveWrite, MoveFails, Tables

LEMMA ShipOrder ==
  ASSUME Shape, Ship
  PROVE  OrderMoves
<1>1. order' \in Statuses /\ (Shut => Shut')
  BY StatusNames DEF Ship, Shut, Others
<1>2. /\ hasApi' = hasApi /\ failures' \in 0..MaxFailures
      /\ invoice' \in {"none", "live", "dead"} /\ (invoice' = "dead" => invoice = "dead")
  BY DEF Ship, Others, Shape, OrderShape
<1>3. /\ mv' \in [Movers -> Moves] /\ revived' \in BOOLEAN
      /\ adrift' \in BOOLEAN /\ (adrift => adrift')
  BY DEF Ship, Others, Shape, OrderShape
<1> QED BY <1>1, <1>2, <1>3 DEF OrderMoves

-----------------------------------------------------------------------------
(* Every step, and the invariant.                                             *)

StepMoves ==
  /\ OrderMoves /\ RequestMoves /\ SeShape' /\ JobShape'
  /\ \A s \in Sessions : Follows(se[s], se'[s])
  /\ \A w \in Replicas : Follows(job[w], job'[w])

LEMMA StillFollows ==
  /\ UNCHANGED se => \A s \in Sessions : Follows(se[s], se'[s])
  /\ UNCHANGED job => \A w \in Replicas : Follows(job[w], job'[w])
BY DEF Follows

LEMMA NextMoves ==
  ASSUME Shape, Seen, [Next]_vars
  PROVE  StepMoves
<1>1. ASSUME NEW s \in Sessions, SessionStep(s) PROVE StepMoves
  <2>1. PICK h : SessionOK(h) /\ Follows(se[s], h) /\ se' = [se EXCEPT ![s] = h]
    BY <1>1, SessionFollows
  <2>2. UNCHANGED job  BY <1>1, SessionFollows
  <2>3. SeShape' /\ JobShape'  BY <2>1, <2>2, SessionUpdate, Unmoved DEF Shape
  <2>4. \A t \in Sessions : Follows(se[t], se'[t])
    BY <2>1 DEF Follows, Shape, SeShape
  <2>5. OrderMoves /\ RequestMoves  BY <1>1, SessionOrder, SessionRequest
  <2> QED BY <2>2, <2>3, <2>4, <2>5, StillFollows DEF StepMoves
<1>2. ASSUME NEW w \in Replicas, JobStep(w) PROVE StepMoves
  <2>1. PICK h : JobOK(h) /\ Follows(job[w], h) /\ job' = [job EXCEPT ![w] = h]
    BY <1>2, JobFollows
  <2>2. UNCHANGED se  BY <1>2, JobFollows
  <2>3. SeShape' /\ JobShape'  BY <2>1, <2>2, JobUpdate, Unmoved DEF Shape
  <2>4. \A v \in Replicas : Follows(job[v], job'[v])
    BY <2>1 DEF Follows, Shape, JobShape
  <2>5. OrderMoves /\ RequestMoves  BY <1>2, JobOrder, JobRequest
  <2> QED BY <2>2, <2>3, <2>4, <2>5, StillFollows DEF StepMoves
<1>3. ASSUME UNCHANGED <<se, job>>, OrderMoves, RequestMoves PROVE StepMoves
  BY <1>3, StillFollows, Unmoved DEF StepMoves, Shape
<1>4. ASSUME NEW r \in Reqs, ComesDue(r) PROVE StepMoves
  <2>1. OrderMoves  BY <1>4, QuietOrder DEF ComesDue, Others
  <2> QED BY <1>3, <1>4, <2>1, DueRequest DEF ComesDue
<1>5. CASE Ship
  <2>1. UNCHANGED <<req, se, job>>  BY <1>5 DEF Ship
  <2> QED BY <1>3, <1>5, <2>1, ShipOrder DEF RequestMoves
<1>7. ASSUME NEW m \in Movers, MoverStep(m) PROVE StepMoves
  <2>1. OrderMoves /\ UNCHANGED <<req, se, job>>  BY <1>7, MoverOrder
  <2> QED BY <1>3, <2>1 DEF RequestMoves
<1>6. CASE UNCHANGED vars
  BY <1>3, <1>6, QuietOrder DEF vars, Others, RequestMoves
<1> QED BY <1>1, <1>2, <1>4, <1>5, <1>6, <1>7 DEF Next

OnePending == \A r, q \in Reqs : req[r].st = "pending" /\ req[q].st = "pending" => r = q

CancelInv == Shape /\ Seen /\ OnePending /\ ApprovedIsCancelled /\ DeadInvoiceIsCancelled

LEMMA InitCancelInv == Init => CancelInv
<1> SUFFICES ASSUME Init PROVE CancelInv OBVIOUS
<1>1. Shape  BY InitShape
<1>2. Seen  BY DEF Init, Seen, Idle
<1>3. OnePending /\ ApprovedIsCancelled
  BY DEF Init, OnePending, ApprovedIsCancelled, NoReq
<1>4. DeadInvoiceIsCancelled  BY DEF Init, DeadInvoiceIsCancelled
<1> QED BY <1>1, <1>2, <1>3, <1>4 DEF CancelInv

LEMMA StepCancelInv == CancelInv /\ [Next]_vars => CancelInv'
<1> SUFFICES ASSUME CancelInv, [Next]_vars PROVE CancelInv' OBVIOUS
<1>1. StepMoves  BY NextMoves DEF CancelInv
<1>2. OrderMoves /\ RequestMoves  BY <1>1 DEF StepMoves
<1>3. Shape'
  <2>1. OrderShape'  BY <1>2 DEF OrderMoves, OrderShape, CancelInv, Shape
  <2>2. ReqShape'
    BY <1>2, RequestUpdate, Unmoved DEF RequestMoves, CancelInv, Shape
  <2> QED BY <1>1, <2>1, <2>2 DEF StepMoves, Shape
<1>4. Seen'
  <2>1. Shut => Shut'  BY <1>2 DEF OrderMoves
  <2>2. ASSUME NEW g, NEW h, Follows(g, h), h.seen = "cancelled",
               g.seen = "cancelled" => Shut
        PROVE  Shut'
    BY <2>1, <2>2 DEF Follows, Shut
  <2>3. /\ \A s \in Sessions : se[s].seen = "cancelled" => Shut
        /\ \A w \in Replicas : job[w].seen = "cancelled" => Shut
    BY DEF CancelInv, Seen
  <2>4. ASSUME NEW s \in Sessions, se'[s].seen = "cancelled" PROVE Shut'
    BY <1>1, <2>2, <2>3, <2>4 DEF StepMoves
  <2>5. ASSUME NEW w \in Replicas, job'[w].seen = "cancelled" PROVE Shut'
    BY <1>1, <2>2, <2>3, <2>5 DEF StepMoves
  <2> QED BY <2>4, <2>5 DEF Seen
<1>5. OnePending' /\ ApprovedIsCancelled'
  <2>1. CASE UNCHANGED req
    BY <1>2, <2>1 DEF OrderMoves, OnePending, ApprovedIsCancelled, CancelInv, Shut
  <2>2. ASSUME NEW r \in Reqs, NEW q, Settles(req[r], q), req' = [req EXCEPT ![r] = q]
        PROVE  OnePending' /\ ApprovedIsCancelled'
    <3>1. req'[r] = q /\ \A k \in Reqs \ {r} : req'[k] = req[k]
      BY <2>2 DEF CancelInv, Shape, ReqShape
    <3>2. OnePending'
      BY <2>2, <3>1 DEF Settles, NoPending, OnePending, CancelInv
    <3>3. ApprovedIsCancelled'
      BY <1>2, <2>2, <3>1 DEF Settles, OrderMoves, ApprovedIsCancelled, CancelInv, Shut
    <3> QED BY <3>2, <3>3
  <2> QED BY <1>2, <2>1, <2>2 DEF RequestMoves
<1>6. DeadInvoiceIsCancelled'
  <2> DEFINE Closed == \/ Shut' \/ adrift'
                       \/ \E s \in Sessions : se'[s].pc = "agreed"
                       \/ \E w \in Replicas : job'[w].pc = "agreed"
  <2>1. invoice' = "dead" => invoice = "dead" \/ Closed  BY <1>2 DEF OrderMoves
  <2>2. Shut \/ adrift => Closed  BY <1>2 DEF OrderMoves
  <2>3. (\E s \in Sessions : se[s].pc = "agreed") => Closed
    BY <1>1 DEF StepMoves, Follows
  <2>4. (\E w \in Replicas : job[w].pc = "agreed") => Closed
    BY <1>1 DEF StepMoves, Follows
  <2>5. invoice' = "dead" => Closed
    BY <2>1, <2>2, <2>3, <2>4 DEF CancelInv, DeadInvoiceIsCancelled, Shut
  <2> QED BY <2>5 DEF DeadInvoiceIsCancelled, Shut
<1> QED BY <1>3, <1>4, <1>5, <1>6 DEF CancelInv

LEMMA CancelInvHolds == Spec => []CancelInv
BY InitCancelInv, StepCancelInv, PTL DEF Spec

\* Every variable has its type, whatever the number of requests and retries.
THEOREM TypeCorrect == Spec => []TypeOK
<1>1. CancelInv => TypeOK
  BY DEF CancelInv, Shape, OrderShape, ReqShape, SeShape, JobShape, TypeOK
<1> QED BY <1>1, CancelInvHolds, PTL

\* However many people and replicas decide at once on what they have read, an
\* approved request (CancellationRequestsService._finalize_and_close) belongs
\* to a cancelled order, or to one over which a later commit has put its own
\* status: order and request are closed in one commit, and a handler that
\* skips the order has read it cancelled.
THEOREM ApprovalsCancel == Spec => []ApprovedIsCancelled
<1>1. CancelInv => ApprovedIsCancelled  BY DEF CancelInv
<1> QED BY <1>1, CancelInvHolds, PTL

\* An invoice the carrier has cancelled is never forgotten by the code while
\* the handler that heard of it lives and commits (_try_cancel_api and what
\* its callers do next).
THEOREM ConsentIsKept == Spec => []DeadInvoiceIsCancelled
<1>1. CancelInv => DeadInvoiceIsCancelled  BY DEF CancelInv
<1> QED BY <1>1, CancelInvHolds, PTL

\* For every MAX_RETRIES and every number of replicas of the job that reckon
\* on copies of their own, a request is scheduled only while attempts are
\* left, and one request of the order is pending at a time.
THEOREM SchedulesEnd == Spec => []ScheduledHasAttempts
<1>1. CancelInv => ScheduledHasAttempts
  BY DEF CancelInv, Shape, ReqShape, RequestOK, OnePending, ScheduledHasAttempts
<1> QED BY <1>1, CancelInvHolds, PTL

=============================================================================
