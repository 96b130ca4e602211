----------------------------- MODULE GatewayProofs -----------------------------
(***************************************************************************)
(* An order that is sent through Azimuth or Exline is the carrier's only    *)
(* invoice for it, for any number of attempts, resends, retries, restarts   *)
(* and requests of the staff.                                               *)
(*                                                                         *)
(* SentIsTheOnlyInvoice is not inductive: it does not say what the calls    *)
(* under way ask for.  OneNumber does: every call asks under the order's    *)
(* own number, so the carrier books no other, and no other can come back to *)
(* the worker, be held by it, or be recorded.                               *)
(*                                                                         *)
(* CourierIsCalledOnce needs to know that whoever is about to call a        *)
(* courier is alone, and that nobody has called one (OneCaller).            *)
(*                                                                         *)
(* No invoice is forgotten because each call's number is the waybill, on    *)
(* its way to the worker, or cut off from it (InvoiceInv); a label is in    *)
(* storage because nothing names one while it is replaced (LabelInv).       *)
(***************************************************************************)
EXTENDS Gateway, FiniteSetTheorems, TLAPS

Stages == {"unused", "gateway", "asked", "inflight", "booked", "created", "nopdf",
           "done", "failed", "dead"}
Call == [at: Stages, key: Nat, try: Nat, number: Nat, pdf: BOOLEAN, cut: BOOLEAN]
Worker == [at: {"idle", "waiting", "holding", "pickup", "called"},
           call: CallIds \cup {0}, resent: BOOLEAN, saw: BOOLEAN]

GatewayTypes ==
  /\ calls \in [CallIds -> Call]
  /\ worker \in Worker /\ (worker.at = "waiting" => worker.call # 0)
  /\ courier \in BOOLEAN /\ IsFiniteSet(booked)

\* Azimuth and Exline are told the order's number; CSE picks one.
Named == carrier \in {"azimuth", "exline"}

\* What is known of call x when the carrier has booked the invoices in B.
Fits(x, B) ==
  /\ x.at \in {"asked", "inflight", "booked", "created", "nopdf", "done"} => x.key = 1
  /\ x.at \in {"booked", "created", "nopdf", "done"} => x.number = 1
  /\ x.number # 0 => x.number = 1 /\ 1 \in B

OneNumber ==
  Named => /\ booked \subseteq {1}
           /\ \A c \in CallIds : Fits(calls[c], booked)
           /\ waybill # 0 => waybill = 1 /\ 1 \in booked
           /\ worker.at = "holding" => Held = 1 /\ 1 \in booked
           /\ job = "completed" => waybill # 0

GatewayInv == GatewayTypes /\ OneNumber

-----------------------------------------------------------------------------
(* Steps of the gateway and the carriers.                                    *)

\* A call moves on; the carrier books nothing but the order's number, and the
\* number a call has learnt stays.
LEMMA CallMoves ==
  ASSUME GatewayInv, NEW c \in CallIds, NEW from, NEW y \in Call,
         GatewayStep(c, from, y), booked \subseteq booked', IsFiniteSet(booked'),
         Named => /\ booked' \subseteq {1} /\ Fits(y, booked')
                  /\ calls[c].number = 1 => y.number = 1
  PROVE  GatewayInv'
<1>1. /\ calls' = [calls EXCEPT ![c] = y]
      /\ carrier' = carrier /\ job' = job /\ waybill' = waybill
      /\ worker' = worker /\ courier' = courier
  BY DEF GatewayStep, orderVars, jobVars, pickupVars
<1>2. GatewayTypes'
  BY <1>1 DEF GatewayInv, GatewayTypes
<1>3. ASSUME Named' PROVE \A d \in CallIds : Fits(calls'[d], booked')
  <2> SUFFICES ASSUME NEW d \in CallIds PROVE Fits(calls'[d], booked')
    OBVIOUS
  <2>1. CASE d = c
    BY <1>1, <1>3, <2>1 DEF GatewayInv, GatewayTypes, Named
  <2>2. CASE d # c
    BY <1>1, <1>3, <2>2 DEF GatewayInv, GatewayTypes, OneNumber, Named, Fits
  <2>3. QED BY <2>1, <2>2
<1>4. ASSUME Named', worker.at = "holding" PROVE Held' = 1 /\ 1 \in booked'
  <2>1. Held = 1 /\ 1 \in booked /\ Named
    BY <1>1, <1>4 DEF GatewayInv, OneNumber, Named
  <2>2. CASE worker.call = 0
    BY <1>1, <2>1, <2>2 DEF Held
  <2>3. CASE worker.call # 0
    <3>1. worker.call \in CallIds /\ calls[worker.call].number = 1
      BY <2>1, <2>3 DEF GatewayInv, GatewayTypes, Worker, Held
    <3>2. calls'[worker.call].number = 1
      BY <1>1, <2>1, <3>1 DEF GatewayInv, GatewayTypes
    <3>3. QED BY <1>1, <2>1, <2>3, <3>2 DEF Held
  <2>4. QED BY <2>2, <2>3
<1>5. OneNumber'
  BY <1>1, <1>3, <1>4 DEF GatewayInv, OneNumber, Named
<1>6. QED BY <1>2, <1>5 DEF GatewayInv

\* What the actions write into a call: To(c, at), and then one more field.
LEMMA Moved ==
  ASSUME GatewayInv, NEW c \in CallIds, NEW at \in Stages
  PROVE  /\ To(c, at) \in Call /\ To(c, at).at = at
         /\ To(c, at).key = calls[c].key /\ To(c, at).number = calls[c].number
         /\ To(c, at).cut = calls[c].cut
BY DEF GatewayInv, GatewayTypes, Call, To

LEMMA Keyed ==
  ASSUME NEW x \in Call, NEW key \in Nat
  PROVE  LET y == [x EXCEPT !.key = key] IN
         y \in Call /\ y.at = x.at /\ y.key = key /\ y.number = x.number /\ y.cut = x.cut
BY DEF Call

LEMMA Numbered ==
  ASSUME NEW x \in Call, NEW number \in Nat
  PROVE  LET y == [x EXCEPT !.number = number] IN
         y \in Call /\ y.at = x.at /\ y.key = x.key /\ y.number = number /\ y.cut = x.cut
BY DEF Call

LEMMA TriedWith ==
  ASSUME NEW x \in Call, NEW try \in Nat
  PROVE  LET y == [x EXCEPT !.try = try] IN
         y \in Call /\ y.at = x.at /\ y.key = x.key /\ y.number = x.number /\ y.cut = x.cut
BY DEF Call

LEMMA Tried ==
  ASSUME NEW x \in Call
  PROVE  LET y == [x EXCEPT !.try = @ + 1] IN
         y \in Call /\ y.at = x.at /\ y.key = x.key /\ y.number = x.number /\ y.cut = x.cut
<1>1. x.try + 1 \in Nat
  <2>1. x.try \in Nat
    BY DEF Call
  <2>2. QED BY <2>1
<1>2. QED BY <1>1, TriedWith

LEMMA CutOr ==
  ASSUME NEW x \in Call, NEW n
  PROVE  LET y == [x EXCEPT !.cut = @ \/ n # 0] IN
         y \in Call /\ y.at = x.at /\ y.key = x.key /\ y.number = x.number
BY DEF Call

LEMMA CutIs ==
  ASSUME NEW x \in Call, NEW cut \in BOOLEAN
  PROVE  LET y == [x EXCEPT !.cut = cut] IN
         y \in Call /\ y.at = x.at /\ y.key = x.key /\ y.number = x.number /\ y.cut = cut
BY DEF Call

LEMMA Printed ==
  ASSUME NEW x \in Call, NEW pdf \in BOOLEAN
  PROVE  LET y == [x EXCEPT !.pdf = pdf] IN
         y \in Call /\ y.at = x.at /\ y.key = x.key /\ y.number = x.number /\ y.cut = x.cut
BY DEF Call

LEMMA CutOff ==
  ASSUME NEW x \in Call, NEW at \in Stages
  PROVE  LET y == [x EXCEPT !.cut = TRUE, !.at = at] IN
         y \in Call /\ y.at = at /\ y.key = x.key /\ y.number = x.number /\ y.cut
BY DEF Call

-----------------------------------------------------------------------------
LEMMA GatewaySteps ==
  ASSUME GatewayInv, NEW c \in CallIds, GatewayNext(c)
  PROVE  GatewayInv'
<1> USE GatewayAssumption DEF GatewayAssumption
<1> DEFINE x == calls[c]
<1>1. /\ x \in Call
      /\ Named => booked \subseteq {1} /\ Fits(x, booked)
      /\ IsFiniteSet(booked)
  BY DEF GatewayInv, GatewayTypes, OneNumber
<1>2. UNCHANGED carrierVars => booked' = booked
  BY DEF carrierVars
<1>3. CASE Refuse(c)
  <2> DEFINE y == To(c, "failed")
  <2>1. y \in Call /\ y.at = "failed" /\ y.number = x.number
    BY <1>1, Moved DEF Stages
  <2>2. GatewayStep(c, "gateway", y) /\ booked' = booked
    BY <1>2, <1>3 DEF Refuse
  <2> HIDE DEF y
  <2>3. QED BY <1>1, <2>1, <2>2, CallMoves DEF Fits
<1>4. CASE Ask(c)
  <2>1. PICK key \in 0..(MaxCalls + 1) :
          /\ GatewayStep(c, "gateway", [To(c, "asked") EXCEPT !.key = key])
          /\ AzimuthAsks(c) \/ ExlineAsks(c) \/ CseAsks(c)
          /\ booked' = booked
    BY <1>2, <1>4 DEF Ask
  <2> DEFINE y == [To(c, "asked") EXCEPT !.key = key]
  <2>2. y \in Call /\ y.at = "asked" /\ y.key = key /\ y.number = x.number
    BY <1>1, Moved, Keyed DEF Stages
  <2>3. calls'[c] = y
    BY <2>1 DEF GatewayStep, GatewayInv, GatewayTypes
  <2>4. GatewayStep(c, "gateway", y)
    BY <2>1
  <2> HIDE DEF y
  <2>5. Named => y.key = 1
    BY <2>1, <2>2, <2>3 DEF Named, AzimuthAsks, ExlineAsks, CseAsks, AzimuthKey
  <2>6. QED BY <1>1, <2>1, <2>2, <2>4, <2>5, CallMoves DEF Fits
<1>5. CASE Book(c)
  <2> DEFINE n  == NewNumber(c)
             at == IF x.at = "asked" THEN "booked" ELSE "dead"
             y  == [To(c, at) EXCEPT !.number = n]
  <2>1. /\ x.at \in {"asked", "inflight"} /\ booked' = booked \cup {n}
        /\ GatewayStep(c, x.at, y)
    BY <1>5 DEF Book
  <2>2. IsFiniteSet(booked') /\ booked \subseteq booked'
    BY <1>1, <2>1, FS_AddElement
  <2>3. n \in Nat /\ (Named => n = 1)
    <3>1. CASE Named
      BY <1>1, <2>1, <3>1 DEF NewNumber, Fits
    <3>2. CASE ~Named
      <4>1. Cardinality(booked) + 1 \in Nat /\ x.key \in Nat
        BY <1>1, FS_CardinalityType DEF Call
      <4>2. QED BY <3>2, <4>1 DEF NewNumber
    <3>3. QED BY <3>1, <3>2
  <2>4. y \in Call /\ y.at = at /\ y.key = x.key /\ y.number = n
    BY <1>1, <2>3, Moved, Numbered DEF Stages
  <2> HIDE DEF y, n
  <2>5. QED BY <1>1, <2>1, <2>2, <2>3, <2>4, CallMoves DEF Fits
<1>6. CASE ExlineKnows(c)
  <2> DEFINE y == [To(c, "booked") EXCEPT !.number = x.key]
  <2>1. GatewayStep(c, "asked", y) /\ booked' = booked /\ x.key \in booked /\ x.at = "asked"
    BY <1>2, <1>6 DEF ExlineKnows, GatewayStep
  <2>2. x.key \in Nat
    BY <1>1 DEF Call
  <2>3. y \in Call /\ y.at = "booked" /\ y.key = x.key /\ y.number = x.key
    BY <1>1, <2>2, Moved, Numbered DEF Stages
  <2> HIDE DEF y
  <2>4. QED BY <1>1, <2>1, <2>3, CallMoves DEF Fits
<1>7. CASE ExlineRetries(c)
  <2> DEFINE y == [To(c, "asked") EXCEPT !.try = @ + 1]
  <2>1. GatewayStep(c, x.at, y) /\ booked' = booked /\ x.at \in {"asked", "booked"}
    BY <1>2, <1>7 DEF ExlineRetries
  <2>2. y \in Call /\ y.at = "asked" /\ y.key = x.key /\ y.number = x.number
    BY <1>1, Moved, Tried DEF Stages
  <2> HIDE DEF y
  <2>3. QED BY <1>1, <2>1, <2>2, CallMoves DEF Fits
<1>8. CASE Learns(c)
  <2> DEFINE y == To(c, "created")
  <2>1. GatewayStep(c, "booked", y) /\ booked' = booked /\ x.at = "booked"
    BY <1>2, <1>8 DEF Learns, GatewayStep
  <2>2. y \in Call /\ y.at = "created" /\ y.key = x.key /\ y.number = x.number
    BY <1>1, Moved DEF Stages
  <2> HIDE DEF y
  <2>3. QED BY <1>1, <2>1, <2>2, CallMoves DEF Fits
<1>9. CASE Raises(c)
  <2> DEFINE y == [To(c, "failed") EXCEPT !.cut = @ \/ x.number # 0]
  <2>1. GatewayStep(c, x.at, y) /\ booked' = booked
    BY <1>2, <1>9 DEF Raises
  <2>2. y \in Call /\ y.at = "failed" /\ y.key = x.key /\ y.number = x.number
    BY <1>1, Moved, CutOr DEF Stages
  <2> HIDE DEF y
  <2>3. QED BY <1>1, <2>1, <2>2, CallMoves DEF Fits
<1>10. CASE FetchPdf(c) \/ GatewayPdf(c)
  <2>1. PICK from \in {"created", "nopdf"}, at \in {"nopdf", "done"}, fetched \in BOOLEAN :
          GatewayStep(c, from, [To(c, at) EXCEPT !.pdf = fetched]) /\ booked' = booked
    BY <1>2, <1>10 DEF FetchPdf, GatewayPdf, WithoutPdf
  <2> DEFINE y == [To(c, at) EXCEPT !.pdf = fetched]
  <2>2. GatewayStep(c, from, y) /\ x.at = from
    BY <2>1 DEF GatewayStep
  <2>3. y \in Call /\ y.at = at /\ y.key = x.key /\ y.number = x.number
    BY <1>1, Moved, Printed DEF Stages
  <2> HIDE DEF y
  <2>4. QED BY <1>1, <2>1, <2>2, <2>3, CallMoves DEF Fits
<1>11. QED
  BY <1>3, <1>4, <1>5, <1>6, <1>7, <1>8, <1>9, <1>10
  DEF GatewayNext, AzimuthAnswers, ExlineAnswers, CseAnswers, AzimuthRaises, ExlineRaises,
      CseRaises, AzimuthPdf, ExlinePdf, CsePdf
-----------------------------------------------------------------------------
(* Steps of the worker, the staff and the environment.                       *)

\* What these make of a call: it keeps what it asked for and what it learnt.
Keeps(x, y) ==
  /\ y \in Call /\ y.key = x.key /\ y.number = x.number
  /\ y.at \in {x.at, "gateway", "dead"} \/ (x.at = "asked" /\ y.at = "inflight")

LEMMA WorkerMoves ==
  ASSUME GatewayInv, carrier' = carrier, booked' = booked, courier' \in BOOLEAN,
         calls' \in [CallIds -> Call], \A c \in CallIds : Keeps(calls[c], calls'[c]),
         worker' \in Worker, worker'.at = "waiting" => worker'.call # 0,
         Named => /\ worker'.at = "holding" => Held' = 1 /\ 1 \in booked
                  /\ waybill' # 0 => waybill' = 1 /\ 1 \in booked
                  /\ job' = "completed" => waybill' # 0
  PROVE  GatewayInv'
<1>1. GatewayTypes'
  BY DEF GatewayInv, GatewayTypes
<1>2. ASSUME Named', NEW c \in CallIds PROVE Fits(calls'[c], booked')
  <2>1. Fits(calls[c], booked) /\ Keeps(calls[c], calls'[c])
    BY <1>2 DEF GatewayInv, OneNumber, Named
  <2>2. QED BY <2>1 DEF Fits, Keeps
<1>3. OneNumber'
  BY <1>2 DEF GatewayInv, OneNumber, Named
<1>4. QED BY <1>1, <1>3 DEF GatewayInv

\* Nothing of this concerns the worker or its calls.
LEMMA Elsewhere ==
  ASSUME GatewayInv, courier' \in BOOLEAN,
         UNCHANGED <<carrier, job, waybill, worker, calls, booked>>
  PROVE  GatewayInv'
<1>1. GatewayTypes'
  BY DEF GatewayInv, GatewayTypes
<1>2. OneNumber'
  BY DEF GatewayInv, OneNumber, Named, Held
<1>3. QED BY <1>1, <1>2 DEF GatewayInv

LEMMA CallsStay ==
  ASSUME GatewayInv, calls' = calls
  PROVE  calls' \in [CallIds -> Call] /\ \A c \in CallIds : Keeps(calls[c], calls'[c])
BY DEF GatewayInv, GatewayTypes, Keeps

LEMMA Marked ==
  ASSUME NEW x \in Call
  PROVE  LET y == [x EXCEPT !.cut = TRUE] IN
         y \in Call /\ y.at = x.at /\ y.key = x.key /\ y.number = x.number /\ y.cut
BY DEF Call

\* The end of a call is not heard.
LEMMA CallIsCut ==
  ASSUME GatewayInv, NEW d, calls' = [calls EXCEPT ![d].cut = TRUE]
  PROVE  calls' \in [CallIds -> Call] /\ \A c \in CallIds : Keeps(calls[c], calls'[c])
<1>1. ASSUME NEW c \in CallIds PROVE Keeps(calls[c], calls'[c])
  <2>1. calls[c] \in Call /\ (calls'[c] = calls[c] \/ calls'[c] = [calls[c] EXCEPT !.cut = TRUE])
    BY DEF GatewayInv, GatewayTypes
  <2>2. CASE calls'[c] = calls[c]
    BY <2>1, <2>2 DEF Keeps
  <2>3. CASE calls'[c] = [calls[c] EXCEPT !.cut = TRUE]
    BY <2>1, <2>3, Marked DEF Keeps
  <2>4. QED BY <2>1, <2>2, <2>3
<1>2. DOMAIN calls' = CallIds /\ calls' = [c \in DOMAIN calls' |-> calls'[c]]
  BY DEF GatewayInv, GatewayTypes
<1>3. QED BY <1>1, <1>2 DEF Keeps

\* A request is posted.
LEMMA CallIsPosted ==
  ASSUME GatewayInv, NEW d \in CallIds, NEW w, Post(d, w)
  PROVE  calls' \in [CallIds -> Call] /\ \A c \in CallIds : Keeps(calls[c], calls'[c])
<1>1. calls' = [calls EXCEPT ![d].at = "gateway", ![d].try = 1]
  BY DEF Post
<1>2. ASSUME NEW x \in Call
      PROVE  LET y == [x EXCEPT !.at = "gateway", !.try = 1] IN
             y \in Call /\ y.at = "gateway" /\ y.key = x.key /\ y.number = x.number
  BY DEF Call, Stages
<1>3. calls'[d] = [calls[d] EXCEPT !.at = "gateway", !.try = 1]
  BY <1>1 DEF GatewayInv, GatewayTypes
<1>4. \A c \in CallIds : c # d => calls'[c] = calls[c]
  BY <1>1 DEF GatewayInv, GatewayTypes
<1>5. \A c \in CallIds : calls[c] \in Call
  BY DEF GatewayInv, GatewayTypes
<1>6. ASSUME NEW c \in CallIds PROVE Keeps(calls[c], calls'[c])
  <2>1. calls'[d] \in Call /\ calls'[d].at = "gateway"
        /\ calls'[d].key = calls[d].key /\ calls'[d].number = calls[d].number
    BY <1>2, <1>3, <1>5
  <2>2. QED BY <1>4, <1>5, <2>1 DEF Keeps
<1>7. DOMAIN calls' = CallIds /\ calls' = [c \in DOMAIN calls' |-> calls'[c]]
  BY <1>1 DEF GatewayInv, GatewayTypes
<1>8. QED BY <1>6, <1>7 DEF Keeps

\* The worker as the actions write it.
LEMMA Workers ==
  ASSUME GatewayInv
  PROVE  /\ IdleWorker \in Worker /\ IdleWorker.at = "idle"
         /\ LET w == [IdleWorker EXCEPT !.at = "holding", !.saw = courier] IN
              w \in Worker /\ w.at = "holding" /\ w.call = 0
         /\ \A at \in {"holding", "pickup", "called"} :
              LET w == [worker EXCEPT !.at = at] IN
              w \in Worker /\ w.at = at /\ w.call = worker.call
         /\ \A c \in CallIds :
              /\ LET w == [[IdleWorker EXCEPT !.at = "waiting", !.saw = courier] EXCEPT !.call = c] IN
                 w \in Worker /\ w.at = "waiting" /\ w.call # 0
              /\ LET w == [[worker EXCEPT !.resent = TRUE] EXCEPT !.call = c] IN
                 w \in Worker /\ w.at = worker.at /\ w.call # 0
<1>1. /\ worker \in Worker /\ courier \in BOOLEAN
      /\ \A c \in CallIds : c # 0
  BY DEF GatewayInv, GatewayTypes, CallIds
<1>2. IdleWorker \in Worker /\ IdleWorker.at = "idle"
  BY DEF Worker, IdleWorker
<1>3. LET w == [IdleWorker EXCEPT !.at = "holding", !.saw = courier] IN
        w \in Worker /\ w.at = "holding" /\ w.call = 0
  BY <1>1 DEF Worker, IdleWorker
<1>4. ASSUME NEW at \in {"holding", "pickup", "called"}
      PROVE  LET w == [worker EXCEPT !.at = at] IN
               w \in Worker /\ w.at = at /\ w.call = worker.call
  BY <1>1 DEF Worker
<1>5. ASSUME NEW x \in Worker, NEW c \in CallIds
      PROVE  LET w == [x EXCEPT !.call = c] IN w \in Worker /\ w.at = x.at /\ w.call # 0
  BY <1>1 DEF Worker
<1>6. LET w == [IdleWorker EXCEPT !.at = "waiting", !.saw = courier] IN
        w \in Worker /\ w.at = "waiting"
  BY <1>1 DEF Worker, IdleWorker
<1>7. LET w == [worker EXCEPT !.resent = TRUE] IN w \in Worker /\ w.at = worker.at
  BY <1>1 DEF Worker
<1>8. QED BY <1>2, <1>3, <1>4, <1>5, <1>6, <1>7

\* The number the worker holds, or the recorded one, is the order's.
LEMMA Known ==
  ASSUME GatewayInv, Named
  PROVE  /\ worker.at = "holding" => Held = 1 /\ 1 \in booked
         /\ waybill # 0 => waybill = 1 /\ 1 \in booked
         /\ job = "completed" => waybill # 0
         /\ \A c \in CallIds : calls[c].at = "done" => calls[c].number = 1 /\ 1 \in booked
BY DEF GatewayInv, OneNumber, Fits

\* The worker gives up on its attempt.
LEMMA EndsIdle ==
  ASSUME GatewayInv, UNCHANGED <<carrier, booked, courier, waybill>>, worker' = IdleWorker,
         job' \in {"failed", "queued", job},
         calls' \in [CallIds -> Call], \A c \in CallIds : Keeps(calls[c], calls'[c])
  PROVE  GatewayInv'
<1>1. courier' \in BOOLEAN
  BY DEF GatewayInv, GatewayTypes
<1>2. worker' \in Worker /\ worker'.at = "idle"
  BY Workers
<1>3. Named => /\ waybill' # 0 => waybill' = 1 /\ 1 \in booked
               /\ job' = "completed" => waybill' # 0
  BY Known
<1>4. QED BY <1>1, <1>2, <1>3, WorkerMoves

LEMMA WorkerSteps ==
  ASSUME GatewayInv,
         \/ AttemptSkipped \/ Hear \/ ConnectionLost \/ TimeOut
         \/ \E permanent \in BOOLEAN : HearError(permanent)
         \/ Complete \/ \E kept \in BOOLEAN : CompleteFails(kept)
         \/ \E c \in CallIds : Attempt(c) \/ Resend(c)
  PROVE  GatewayInv'
<1> USE DEF orderVars, jobVars, carrierVars, pickupVars
<1>0. courier \in BOOLEAN /\ worker \in Worker
      /\ (worker.at = "waiting" => worker.call \in CallIds /\ worker.call # 0)
  BY DEF GatewayInv, GatewayTypes, Worker
<1>1. CASE AttemptSkipped
  <2>1. /\ worker' = [IdleWorker EXCEPT !.at = "holding", !.saw = courier] /\ calls' = calls
        /\ waybill # 0 /\ job' = "processing"
        /\ UNCHANGED <<carrier, waybill, booked, courier>>
    BY <1>1 DEF AttemptSkipped
  <2>2. worker' \in Worker /\ worker'.at = "holding" /\ worker'.call = 0
    BY <2>1, Workers
  <2>3. Held' = waybill
    BY <2>1, <2>2 DEF Held
  <2>4. Named => waybill = 1 /\ 1 \in booked
    BY <2>1, Known
  <2>5. calls' \in [CallIds -> Call] /\ \A c \in CallIds : Keeps(calls[c], calls'[c])
    BY <2>1, CallsStay
  <2>6. QED BY <1>0, <2>1, <2>2, <2>3, <2>4, <2>5, WorkerMoves
<1>2. CASE Hear
  <2>1. /\ worker' = [worker EXCEPT !.at = "holding"] /\ calls' = calls
        /\ calls[worker.call].at = "done" /\ worker.at = "waiting"
        /\ UNCHANGED <<carrier, job, waybill, booked, courier>>
    BY <1>2 DEF Hear, Waiting
  <2>2. worker' \in Worker /\ worker'.at = "holding" /\ worker'.call = worker.call
    BY <2>1, Workers
  <2>3. Held' = calls[worker.call].number
    BY <1>0, <2>1, <2>2 DEF Held
  <2>4. Named => Held' = 1 /\ 1 \in booked
    BY <1>0, <2>1, <2>3, Known
  <2>5. calls' \in [CallIds -> Call] /\ \A c \in CallIds : Keeps(calls[c], calls'[c])
    BY <2>1, CallsStay
  <2>6. QED BY <1>0, <2>1, <2>2, <2>4, <2>5, Known, WorkerMoves
<1>3. CASE ConnectionLost \/ \E permanent \in BOOLEAN : HearError(permanent)
  <2>1. /\ worker' = IdleWorker /\ calls' = calls /\ job' \in {"failed", "queued"}
        /\ UNCHANGED <<carrier, waybill, booked, courier>>
    BY <1>3 DEF ConnectionLost, HearError, GivesUp
  <2>2. QED BY <2>1, CallsStay, EndsIdle
<1>4. CASE TimeOut
  <2>1. /\ worker' = IdleWorker /\ job' \in {"failed", "queued"}
        /\ calls' = [calls EXCEPT ![worker.call].cut = TRUE]
        /\ UNCHANGED <<carrier, waybill, booked, courier>>
    BY <1>4 DEF TimeOut, GivesUp
  <2>2. QED BY <2>1, CallIsCut, EndsIdle
<1>5. CASE Complete
  <2>1. /\ worker.at = "holding" /\ job' = "completed" /\ waybill' = Held /\ calls' = calls
        /\ worker' \in {[worker EXCEPT !.at = "pickup"], IdleWorker}
        /\ UNCHANGED <<carrier, booked, courier>>
    BY <1>5 DEF Complete
  <2>2. worker' \in Worker /\ worker'.at \in {"pickup", "idle"}
    BY <2>1, Workers
  <2>3. Named => waybill' = 1 /\ 1 \in booked
    BY <2>1, Known
  <2>4. calls' \in [CallIds -> Call] /\ \A c \in CallIds : Keeps(calls[c], calls'[c])
    BY <2>1, CallsStay
  <2>5. QED BY <1>0, <2>1, <2>2, <2>3, <2>4, WorkerMoves
<1>6. ASSUME NEW kept \in BOOLEAN, CompleteFails(kept) PROVE GatewayInv'
  <2>1. /\ worker.at = "holding" /\ job' = "failed" /\ waybill' \in {Held, waybill}
        /\ calls' = calls \/ calls' = [calls EXCEPT ![worker.call].cut = TRUE]
        /\ worker' = IdleWorker /\ UNCHANGED <<carrier, booked, courier>>
    BY <1>6 DEF CompleteFails
  <2>2. Named => (waybill' # 0 => waybill' = 1 /\ 1 \in booked)
    BY <2>1, Known
  <2>3. calls' \in [CallIds -> Call] /\ \A c \in CallIds : Keeps(calls[c], calls'[c])
    BY <2>1, CallsStay, CallIsCut
  <2>4. worker' \in Worker /\ worker'.at = "idle"
    BY <2>1, Workers
  <2>5. QED BY <1>0, <2>1, <2>2, <2>3, <2>4, WorkerMoves
<1>7. ASSUME NEW c \in CallIds, Attempt(c) PROVE GatewayInv'
  <2> DEFINE w == [IdleWorker EXCEPT !.at = "waiting", !.saw = courier]
  <2>1. /\ Post(c, w) /\ job' = "processing"
        /\ UNCHANGED <<carrier, waybill, booked, courier>>
    BY <1>7 DEF Attempt
  <2>2. worker' = [w EXCEPT !.call = c]
    BY <2>1 DEF Post
  <2>3. worker' \in Worker /\ worker'.at = "waiting" /\ worker'.call # 0
    BY <2>2, Workers
  <2> HIDE DEF w
  <2>4. calls' \in [CallIds -> Call] /\ \A d \in CallIds : Keeps(calls[d], calls'[d])
    BY <2>1, CallIsPosted
  <2>5. QED BY <1>0, <2>1, <2>3, <2>4, Known, WorkerMoves
<1>8. ASSUME NEW c \in CallIds, Resend(c) PROVE GatewayInv'
  <2> DEFINE w == [worker EXCEPT !.resent = TRUE]
  <2>1. /\ Post(c, w) /\ worker.at = "waiting"
        /\ UNCHANGED <<carrier, job, waybill, booked, courier>>
    BY <1>8 DEF Resend, Waiting
  <2>2. worker' = [w EXCEPT !.call = c]
    BY <2>1 DEF Post
  <2>3. worker' \in Worker /\ worker'.at = "waiting" /\ worker'.call # 0
    BY <2>1, <2>2, Workers
  <2> HIDE DEF w
  <2>4. calls' \in [CallIds -> Call] /\ \A d \in CallIds : Keeps(calls[d], calls'[d])
    BY <2>1, CallIsPosted
  <2>5. QED BY <1>0, <2>1, <2>3, <2>4, Known, WorkerMoves
<1>9. QED BY <1>1, <1>2, <1>3, <1>4, <1>5, <1>6, <1>7, <1>8

LEMMA Faults ==
  ASSUME GatewayInv, Crash \/ Restart \/ RetryDispatch
  PROVE  GatewayInv'
<1> USE DEF orderVars, jobVars, carrierVars, pickupVars
<1>1. CASE Crash
  <2>1. /\ worker' = IdleWorker /\ UNCHANGED <<carrier, job, waybill, booked, courier>>
        /\ calls' = calls \/ calls' = [calls EXCEPT ![worker.call].cut = TRUE]
    BY <1>1 DEF Crash
  <2>2. QED BY <2>1, CallsStay, CallIsCut, EndsIdle
<1>2. CASE RetryDispatch
  <2>1. /\ job' = "queued" /\ calls' = calls /\ worker' = worker /\ worker.at = "idle"
        /\ UNCHANGED <<carrier, waybill, booked, courier>>
    BY <1>2 DEF RetryDispatch
  <2>2. worker' \in Worker /\ courier' \in BOOLEAN
    BY <2>1 DEF GatewayInv, GatewayTypes
  <2>3. calls' \in [CallIds -> Call] /\ \A c \in CallIds : Keeps(calls[c], calls'[c])
    BY <2>1, CallsStay
  <2>4. QED BY <2>1, <2>2, <2>3, Known, WorkerMoves
<1>3. CASE Restart
  <2>1. /\ calls' = [c \in CallIds |-> AfterRestart(calls[c])]
        /\ UNCHANGED <<carrier, job, waybill, worker, booked, courier>>
    BY <1>3 DEF Restart
  <2>2. ASSUME NEW c \in CallIds PROVE Keeps(calls[c], AfterRestart(calls[c]))
    <3> DEFINE x == calls[c]
               at == IF x.at = "asked" THEN "inflight" ELSE "dead"
               y == [x EXCEPT !.cut = TRUE, !.at = at]
    <3>1. x \in Call
      BY DEF GatewayInv, GatewayTypes
    <3>2. y \in Call /\ y.at = at /\ y.key = x.key /\ y.number = x.number
      <4>1. at \in Stages
        BY DEF Stages
      <4> HIDE DEF at
      <4>2. QED BY <3>1, <4>1, CutOff
    <3>3. AfterRestart(x) = x \/ AfterRestart(x) = y
      BY DEF AfterRestart
    <3> HIDE DEF y
    <3>4. QED BY <3>1, <3>2, <3>3 DEF Keeps
  <2>3. \A c \in CallIds : calls'[c] = AfterRestart(calls[c])
    BY <2>1
  <2>4. calls' \in [CallIds -> Call] /\ \A c \in CallIds : Keeps(calls[c], calls'[c])
    BY <2>1, <2>2, <2>3 DEF Keeps
  <2>5. worker' \in Worker /\ courier' \in BOOLEAN /\ (worker.at = "waiting" => worker.call # 0)
    BY <2>1 DEF GatewayInv, GatewayTypes
  <2>6. ASSUME Named, worker.at = "holding" PROVE Held' = 1 /\ 1 \in booked
    <3>1. Held = 1 /\ 1 \in booked
      BY <2>6, Known
    <3>2. worker.call # 0 => calls'[worker.call].number = calls[worker.call].number
      BY <2>4, <2>5 DEF Keeps, GatewayInv, GatewayTypes, Worker
    <3>3. QED BY <2>1, <3>1, <3>2 DEF Held
  <2>7. QED BY <2>1, <2>4, <2>5, <2>6, Known, WorkerMoves
<1>4. QED BY <1>1, <1>2, <1>3

\* The courier, the staff, the labels and the cancellation of an invoice.
LEMMA OtherSteps ==
  ASSUME GatewayInv,
         \/ ExlineCancels \/ CseCancels
         \/ WorkerCallsCourier \/ WorkerCourierFails \/ WorkerCourierSaved
         \/ GetLabel \/ CacheLabel \/ ExpireLabel
         \/ \E s \in Staff : StaffStep(s)
  PROVE  GatewayInv'
<1> USE DEF orderVars, jobVars, carrierVars, pickupVars
<1>0. courier \in BOOLEAN
  BY DEF GatewayInv, GatewayTypes
<1>1. CASE ExlineCancels \/ CseCancels \/ GetLabel \/ CacheLabel \/ ExpireLabel
  BY <1>0, <1>1, Elsewhere
  DEF ExlineCancels, CseCancels, CancelInvoice, GetLabel, CacheLabel, ExpireLabel
<1>2. ASSUME NEW s \in Staff, StaffStep(s) PROVE GatewayInv'
  BY <1>0, <1>2, Elsewhere
  DEF StaffStep, RetryPickup, StaffCallsCourier, StaffCourierFails, StaffCourierSaved,
      RefreshClears, RefreshStores, RefreshFails
<1>3. CASE WorkerCallsCourier \/ WorkerCourierFails \/ WorkerCourierSaved
  <2>1. /\ worker' \in {[worker EXCEPT !.at = "called"], IdleWorker} /\ calls' = calls
        /\ courier' \in BOOLEAN /\ UNCHANGED <<carrier, job, waybill, booked>>
    BY <1>0, <1>3 DEF WorkerCallsCourier, WorkerCourierFails, WorkerCourierSaved
  <2>2. worker' \in Worker /\ worker'.at \in {"called", "idle"}
    BY <2>1, Workers
  <2>3. calls' \in [CallIds -> Call] /\ \A c \in CallIds : Keeps(calls[c], calls'[c])
    BY <2>1, CallsStay
  <2>4. QED BY <2>1, <2>2, <2>3, Known, WorkerMoves
<1>4. QED BY <1>1, <1>2, <1>3

LEMMA InitInv ==
  ASSUME Init
  PROVE  GatewayInv
<1>1. NoCall \in Call /\ NoCall.at = "unused" /\ NoCall.number = 0
  BY DEF NoCall, Call, Stages
<1>2. IdleWorker \in Worker /\ IdleWorker.at = "idle"
  BY DEF IdleWorker, Worker
<1>3. GatewayTypes
  BY <1>1, <1>2, FS_EmptySet DEF Init, GatewayTypes
<1>4. OneNumber
  BY <1>1, <1>2 DEF Init, OneNumber, Fits
<1>5. QED BY <1>3, <1>4 DEF GatewayInv

LEMMA EveryStep ==
  ASSUME GatewayInv, [Next]_vars
  PROVE  GatewayInv'
<1>1. CASE UNCHANGED vars
  <2>1. courier' \in BOOLEAN
    BY <1>1 DEF vars, pickupVars, GatewayInv, GatewayTypes
  <2>2. QED BY <1>1, <2>1, Elsewhere DEF vars, orderVars, jobVars, carrierVars, pickupVars
<1>2. CASE Next
  BY <1>2, GatewaySteps, WorkerSteps, Faults, OtherSteps DEF Next
<1>3. QED BY <1>1, <1>2

\* An order that Azimuth or Exline was sent is the carrier's only invoice for
\* it: the worker's second post, the gateway's restart, Exline's retries and a
\* retry of the job ask by the same number (create_invoice of both clients).
THEOREM OneInvoicePerSentOrder == Spec => []SentIsTheOnlyInvoice
<1>1. Init => GatewayInv
  BY InitInv
<1>2. GatewayInv /\ [Next]_vars => GatewayInv'
  BY EveryStep
<1>3. GatewayInv => SentIsTheOnlyInvoice
  <2> SUFFICES ASSUME GatewayInv, Named, job = "completed" PROVE booked = {waybill}
    BY DEF SentIsTheOnlyInvoice, Named
  <2>1. QED BY DEF GatewayInv, OneNumber
<1>4. QED BY <1>1, <1>2, <1>3, PTL DEF Spec

-----------------------------------------------------------------------------
(* One courier.                                                              *)

\* A request of the staff is calling alone, a worker that may call is alone,
\* and a courier that has come is recorded or about to be.
OneCaller ==
  /\ \A s, t \in Staff : Calling(s) /\ Calling(t) => s = t
  /\ worker.at # "idle" => \A s \in Staff : ~Calling(s)
  /\ \A s \in Staff : staff[s] = "calling" => ~courier
  /\ worker.at \in {"waiting", "holding"} /\ courier => worker.saw
  /\ worker.at = "pickup" => ~courier
  /\ visits = 0 \/ (visits = 1 /\ (courier \/ worker.at = "called"
                                     \/ \E s \in Staff : staff[s] = "called"))

CourierInv ==
  /\ DOMAIN staff = Staff /\ excused \in BOOLEAN
  /\ ~excused => OneCaller

\* A step that keeps the courier, the staff, and whether the worker may call.
LEMMA NoCaller ==
  ASSUME CourierInv, UNCHANGED <<courier, visits, excused, staff>>,
         \/ worker'.at = "idle" /\ worker.at # "called"
         \/ worker' = worker
         \/ /\ worker.at \in {"waiting", "holding"} /\ worker'.saw = worker.saw
            /\ \/ worker'.at \in {"waiting", "holding"}
               \/ worker'.at = "pickup" /\ ~worker.saw
  PROVE  CourierInv'
<1>1. ASSUME ~excused PROVE OneCaller'
  <2>1. OneCaller
    BY <1>1 DEF CourierInv
  <2>2. QED BY <2>1 DEF OneCaller, Calling
<1>2. QED BY <1>1 DEF CourierInv

LEMMA WorkerCaller ==
  ASSUME GatewayInv, CourierInv,
         \/ Hear \/ ConnectionLost \/ TimeOut
         \/ \E permanent \in BOOLEAN : HearError(permanent)
         \/ Complete \/ \E kept \in BOOLEAN : CompleteFails(kept)
         \/ \E c \in CallIds : Resend(c)
  PROVE  CourierInv'
<1> USE DEF pickupVars
<1>0. worker \in Worker /\ IdleWorker.at = "idle"
  BY Workers DEF GatewayInv, GatewayTypes
<1>1. CASE Hear
  <2>1. ASSUME NEW x \in Worker
        PROVE  LET w == [x EXCEPT !.at = "holding"] IN w.at = "holding" /\ w.saw = x.saw
    BY DEF Worker
  <2>2. QED BY <1>0, <1>1, <2>1, NoCaller DEF Hear, Waiting
<1>2. ASSUME NEW c \in CallIds, Resend(c) PROVE CourierInv'
  <2>1. ASSUME NEW x \in Worker
        PROVE  LET w == [[x EXCEPT !.resent = TRUE] EXCEPT !.call = c] IN
               w.at = x.at /\ w.saw = x.saw
    BY DEF Worker
  <2>2. worker' = [[worker EXCEPT !.resent = TRUE] EXCEPT !.call = c]
    BY <1>2 DEF Resend, Post
  <2>3. worker'.at = worker.at /\ worker'.saw = worker.saw /\ worker.at = "waiting"
    BY <1>0, <1>2, <2>1, <2>2 DEF Resend, Waiting
  <2>4. QED BY <1>2, <2>3, NoCaller DEF Resend
<1>3. CASE ConnectionLost \/ TimeOut \/ \E permanent \in BOOLEAN : HearError(permanent)
  BY <1>0, <1>3, NoCaller DEF ConnectionLost, TimeOut, HearError, Waiting, GivesUp
<1>4. CASE Complete
  <2>1. ASSUME NEW x \in Worker
        PROVE  LET w == [x EXCEPT !.at = "pickup"] IN w.at = "pickup" /\ w.saw = x.saw
    BY DEF Worker
  <2>2. \/ worker' = IdleWorker
        \/ worker'.at = "pickup" /\ worker'.saw = worker.saw /\ ~worker.saw
    BY <1>0, <1>4, <2>1 DEF Complete, CallsCourier
  <2>3. QED BY <1>0, <1>4, <2>2, NoCaller DEF Complete
<1>5. ASSUME NEW kept \in BOOLEAN, CompleteFails(kept) PROVE CourierInv'
  BY <1>0, <1>5, NoCaller DEF CompleteFails
<1>6. QED BY <1>1, <1>2, <1>3, <1>4, <1>5

LEMMA NewAttempt ==
  ASSUME GatewayInv, CourierInv, AttemptSkipped \/ \E c \in CallIds : Attempt(c)
  PROVE  CourierInv'
<1>1. /\ worker.at = "idle" /\ excused' = (excused \/ \E s \in Staff : Calling(s))
      /\ UNCHANGED <<courier, visits, staff>>
  BY DEF AttemptSkipped, Attempt
<1>2. worker'.at \in {"waiting", "holding"} /\ worker'.saw = courier
  <2>1. CASE AttemptSkipped
    BY <2>1 DEF AttemptSkipped, IdleWorker
  <2>2. ASSUME NEW c \in CallIds, Attempt(c) PROVE worker'.at = "waiting" /\ worker'.saw = courier
    BY <2>2 DEF Attempt, Post, IdleWorker
  <2>3. QED BY <2>1, <2>2
<1>3. ASSUME ~excused' PROVE OneCaller'
  <2>1. OneCaller /\ \A s \in Staff : ~Calling(s)
    BY <1>1, <1>3 DEF CourierInv
  <2>2. QED BY <1>1, <1>2, <2>1 DEF OneCaller, Calling
<1>4. QED BY <1>1, <1>3 DEF CourierInv

LEMMA WorkerCourier ==
  ASSUME GatewayInv, CourierInv,
         \/ WorkerCallsCourier \/ WorkerCourierFails \/ WorkerCourierSaved \/ Crash
  PROVE  CourierInv'
<1> USE DEF pickupVars
<1>0. worker \in Worker /\ IdleWorker.at = "idle"
  BY Workers DEF GatewayInv, GatewayTypes
<1>1. CASE WorkerCallsCourier
  <2>1. worker.at = "pickup" /\ worker'.at = "called" /\ visits' = visits + 1
        /\ UNCHANGED <<courier, excused, staff>>
    BY <1>0, <1>1, Workers DEF WorkerCallsCourier, CourierAccepts
  <2>2. ASSUME ~excused PROVE OneCaller'
    <3>1. OneCaller
      BY <2>2 DEF CourierInv
    <3>2. visits = 0
      BY <2>1, <3>1 DEF OneCaller, Calling
    <3>3. QED BY <2>1, <3>1, <3>2 DEF OneCaller, Calling
  <2>3. QED BY <2>1, <2>2 DEF CourierInv
<1>2. CASE WorkerCourierSaved
  <2>1. worker.at = "called" /\ worker'.at = "idle" /\ courier' = TRUE
        /\ UNCHANGED <<visits, excused, staff>>
    BY <1>0, <1>2 DEF WorkerCourierSaved
  <2>2. ASSUME ~excused PROVE OneCaller'
    <3>1. OneCaller
      BY <2>2 DEF CourierInv
    <3>2. QED BY <2>1, <3>1 DEF OneCaller, Calling
  <2>3. QED BY <2>1, <2>2 DEF CourierInv
<1>3. CASE WorkerCourierFails \/ Crash
  <2>1. /\ worker'.at = "idle" /\ excused' = (excused \/ worker.at = "called")
        /\ UNCHANGED <<courier, visits, staff>>
    BY <1>0, <1>3 DEF WorkerCourierFails, Crash
  <2>2. ASSUME ~excused' PROVE OneCaller'
    <3>1. OneCaller /\ worker.at # "called"
      BY <2>1, <2>2 DEF CourierInv
    <3>2. QED BY <2>1, <3>1 DEF OneCaller, Calling
  <2>3. QED BY <2>1, <2>2 DEF CourierInv
<1>4. QED BY <1>1, <1>2, <1>3

LEMMA StaffCourier ==
  ASSUME CourierInv, NEW s \in Staff,
         \/ RetryPickup(s) \/ StaffCallsCourier(s) \/ StaffCourierFails(s) \/ StaffCourierSaved(s)
  PROVE  CourierInv'
<1> USE DEF pickupVars
<1>1. CASE RetryPickup(s)
  <2>1. /\ staff[s] = "idle" /\ staff' = [staff EXCEPT ![s] = "calling"] /\ ~courier
        /\ excused' = (excused \/ worker.at # "idle" \/ \E t \in Staff : Calling(t))
        /\ UNCHANGED <<courier, visits, worker>>
    BY <1>1 DEF RetryPickup
  <2>2. ASSUME ~excused' PROVE OneCaller'
    <3>1. OneCaller /\ worker.at = "idle" /\ \A t \in Staff : ~Calling(t)
      BY <2>1, <2>2 DEF CourierInv
    <3>2. \A t \in Staff : Calling(t)' => t = s
      BY <2>1, <3>1 DEF Calling, CourierInv
    <3>3. QED BY <2>1, <3>1, <3>2 DEF OneCaller, Calling
  <2>3. QED BY <2>1, <2>2 DEF CourierInv
<1>2. CASE StaffCallsCourier(s)
  <2>1. /\ staff[s] = "calling" /\ staff' = [staff EXCEPT ![s] = "called"]
        /\ visits' = visits + 1 /\ UNCHANGED <<courier, excused, worker>>
    BY <1>2 DEF StaffCallsCourier, CourierAccepts
  <2>2. ASSUME ~excused PROVE OneCaller'
    <3>1. OneCaller
      BY <2>2 DEF CourierInv
    <3>2. visits = 0 /\ staff'[s] = "called"
      BY <2>1, <3>1 DEF OneCaller, Calling, CourierInv
    <3>3. \A t \in Staff : Calling(t)' => t = s
      BY <2>1, <3>1 DEF OneCaller, Calling, CourierInv
    <3>4. QED BY <2>1, <3>1, <3>2, <3>3 DEF OneCaller, Calling
  <2>3. QED BY <2>1, <2>2 DEF CourierInv
<1>3. CASE StaffCourierFails(s)
  <2>1. /\ Calling(s) /\ staff' = [staff EXCEPT ![s] = "idle"]
        /\ excused' = (excused \/ staff[s] = "called") /\ UNCHANGED <<courier, visits, worker>>
    BY <1>3 DEF StaffCourierFails
  <2>2. ASSUME ~excused' PROVE OneCaller'
    <3>1. OneCaller /\ staff[s] # "called"
      BY <2>1, <2>2 DEF CourierInv
    <3>2. \A t \in Staff : staff'[t] = IF t = s THEN "idle" ELSE staff[t]
      BY <2>1 DEF CourierInv
    <3>3. QED BY <2>1, <3>1, <3>2 DEF OneCaller, Calling
  <2>3. QED BY <2>1, <2>2 DEF CourierInv
<1>4. CASE StaffCourierSaved(s)
  <2>1. /\ staff[s] = "called" /\ staff' = [staff EXCEPT ![s] = "idle"] /\ courier' = TRUE
        /\ UNCHANGED <<visits, excused, worker>>
    BY <1>4 DEF StaffCourierSaved
  <2>2. ASSUME ~excused PROVE OneCaller'
    <3>1. OneCaller
      BY <2>2 DEF CourierInv
    <3>2. worker.at = "idle" /\ \A t \in Staff : ~Calling(t)'
      BY <2>1, <3>1 DEF OneCaller, Calling, CourierInv
    <3>3. QED BY <2>1, <3>1, <3>2 DEF OneCaller, Calling
  <2>3. QED BY <2>1, <2>2 DEF CourierInv
<1>5. QED BY <1>1, <1>2, <1>3, <1>4

\* A request of the staff goes on with a label: nobody calls a courier.
LEMMA StaffLabels ==
  ASSUME CourierInv, NEW s \in Staff, RefreshClears(s) \/ RefreshStores(s) \/ RefreshFails(s)
  PROVE  CourierInv'
<1>1. /\ \E at \in {"refreshing", "idle"} : staff' = [staff EXCEPT ![s] = at]
      /\ staff[s] \in {"idle", "refreshing"}
      /\ UNCHANGED <<courier, visits, excused, worker>>
  BY DEF RefreshClears, RefreshStores, RefreshFails, pickupVars
<1>2. ASSUME ~excused PROVE OneCaller'
  <2>1. OneCaller
    BY <1>2 DEF CourierInv
  <2>2. \A t \in Staff : IF t = s THEN staff[s] \in {"idle", "refreshing"} /\ staff'[s] \in {"idle", "refreshing"}
                         ELSE staff'[t] = staff[t]
    BY <1>1 DEF CourierInv
  <2>3. QED BY <1>1, <2>1, <2>2 DEF OneCaller, Calling
<1>3. QED BY <1>1, <1>2 DEF CourierInv

LEMMA CourierStep ==
  ASSUME GatewayInv, CourierInv, [Next]_vars
  PROVE  CourierInv'
<1> USE DEF pickupVars
<1>1. ASSUME NEW c \in CallIds, GatewayNext(c) PROVE CourierInv'
  <2>1. \E from, y : GatewayStep(c, from, y)
    BY <1>1
    DEF GatewayNext, Refuse, Ask, Book, ExlineKnows, ExlineRetries, AzimuthAnswers,
        ExlineAnswers, CseAnswers, Learns, AzimuthRaises, ExlineRaises, CseRaises, Raises,
        AzimuthPdf, ExlinePdf, CsePdf, FetchPdf, GatewayPdf
  <2>2. UNCHANGED <<courier, visits, excused, staff, worker>>
    BY <2>1 DEF GatewayStep
  <2>3. QED BY <2>2, NoCaller
<1>2. CASE UNCHANGED vars
  BY <1>2, NoCaller DEF vars
<1>3. CASE Restart \/ RetryDispatch \/ ExlineCancels \/ CseCancels \/ GetLabel \/ CacheLabel
            \/ ExpireLabel
  BY <1>3, NoCaller
  DEF Restart, RetryDispatch, ExlineCancels, CseCancels, CancelInvoice, GetLabel, CacheLabel,
      ExpireLabel
<1>4. ASSUME NEW s \in Staff, StaffStep(s) PROVE CourierInv'
  BY <1>4, StaffCourier, StaffLabels DEF StaffStep
<1>5. QED
  BY <1>1, <1>2, <1>3, <1>4, WorkerCaller, NewAttempt, WorkerCourier DEF Next

\* Azimuth is called for a second courier only when two requests called one at
\* the same time, or the answer to an accepted call was lost (the checks of
\* _schedule_azimuth_pickup and retry_azimuth_pickup).
THEOREM OneCourier == Spec => []CourierIsCalledOnce
<1>1. Init => GatewayInv /\ CourierInv
  <2>1. Init => CourierInv
    BY DEF Init, CourierInv, OneCaller, Calling, IdleWorker
  <2>2. QED BY <2>1, InitInv
<1>2. GatewayInv /\ CourierInv /\ [Next]_vars => (GatewayInv /\ CourierInv)'
  BY EveryStep, CourierStep
<1>3. CourierInv => CourierIsCalledOnce
  BY DEF CourierInv, OneCaller, CourierIsCalledOnce
<1>4. QED BY <1>1, <1>2, <1>3, PTL DEF Spec

-----------------------------------------------------------------------------
(* No invoice is forgotten.                                                  *)

IsWaited(c) == worker.at = "waiting" /\ worker.call = c

\* A call under way is the worker's or was cut off; a broken one was cut off;
\* before CSE has booked, the call has no number to lose.
Tied(x, c) ==
  /\ x.at \in {"gateway", "asked", "booked", "created", "nopdf"} => x.cut \/ IsWaited(c)
  /\ x.at \in {"inflight", "dead"} => x.cut
  /\ ~Named /\ x.at \in {"unused", "gateway", "asked", "inflight"} => x.number = 0

Coming == {"booked", "asked", "created", "nopdf", "done"}

\* The invoice n is the waybill or can be told from a call.
Remembered(n) ==
  \/ n = waybill
  \/ \E c \in CallIds : calls[c].number = n /\ (calls[c].cut \/ OnItsWay(c))

InvoiceInv ==
  /\ 0 \notin alive
  /\ \A c \in CallIds : Tied(calls[c], c)
  /\ worker.at \in {"waiting", "holding"} /\ worker.call # 0 => waybill = 0
  /\ \A n \in alive : Remembered(n)

\* A call of the gateway moves on and loses neither its number nor its cut.
LEMMA InvoiceCallMoves ==
  ASSUME GatewayInv, InvoiceInv, NEW c \in CallIds, NEW from, NEW y \in Call,
         GatewayStep(c, from, y), alive' \subseteq alive \cup {y.number},
         Tied(y, c),
         y.number \in alive' \ alive =>
           y.number # 0 /\ (y.cut \/ (IsWaited(c) /\ y.at \in Coming)),
         calls[c].number # 0 => y.number = calls[c].number,
         calls[c].number # 0 /\ calls[c].cut => y.cut,
         calls[c].number # 0 /\ calls[c].at \in Coming => y.at \in Coming \/ y.cut
  PROVE  InvoiceInv'
<1>1. /\ calls' = [calls EXCEPT ![c] = y]
      /\ carrier' = carrier /\ waybill' = waybill /\ worker' = worker
  BY DEF GatewayStep, orderVars, jobVars
<1>2. calls'[c] = y /\ \A d \in CallIds : d # c => calls'[d] = calls[d]
  BY <1>1 DEF GatewayInv, GatewayTypes
<1>3. ASSUME NEW d \in CallIds PROVE Tied(calls[d], d)'
  <2>1. Tied(calls[d], d)
    BY DEF InvoiceInv
  <2>2. CASE d = c
    BY <1>1, <1>2, <2>2 DEF Tied, IsWaited, Named
  <2>3. CASE d # c
    BY <1>1, <1>2, <2>1, <2>3 DEF Tied, IsWaited, Named
  <2>4. QED BY <2>2, <2>3
<1>4. ASSUME NEW n \in alive' PROVE Remembered(n)'
  <2>1. CASE n \in alive
    <3>1. n # 0 /\ Remembered(n)
      BY <2>1 DEF InvoiceInv
    <3>2. CASE n = waybill
      BY <1>1, <3>2 DEF Remembered
    <3>3. ASSUME NEW d \in CallIds, calls[d].number = n, calls[d].cut \/ OnItsWay(d)
          PROVE  Remembered(n)'
      <4>1. CASE d = c
        <5>1. calls'[c].number = n /\ (calls'[c].cut \/ OnItsWay(c)')
          BY <1>1, <1>2, <3>1, <3>3, <4>1 DEF OnItsWay, Coming
        <5>2. QED BY <5>1 DEF Remembered
      <4>2. CASE d # c
        <5>1. calls'[d].number = n /\ (calls'[d].cut \/ OnItsWay(d)')
          BY <1>1, <1>2, <3>3, <4>2 DEF OnItsWay
        <5>2. QED BY <5>1 DEF Remembered
      <4>3. QED BY <4>1, <4>2
    <3>4. QED BY <3>1, <3>2, <3>3 DEF Remembered
  <2>2. CASE n \notin alive
    <3>1. n = y.number
      BY <2>2
    <3>2. calls'[c].number = n /\ (calls'[c].cut \/ OnItsWay(c)')
      BY <1>1, <1>2, <2>2, <3>1 DEF OnItsWay, IsWaited, Coming
    <3>3. QED BY <3>2 DEF Remembered
  <2>3. QED BY <2>1, <2>2
<1>5. 0 \notin alive'
  BY DEF InvoiceInv
<1>6. QED BY <1>1, <1>3, <1>4, <1>5 DEF InvoiceInv

LEMMA InvoiceGateway ==
  ASSUME GatewayInv, InvoiceInv, NEW c \in CallIds, GatewayNext(c)
  PROVE  InvoiceInv'
<1> USE GatewayAssumption DEF GatewayAssumption
<1> DEFINE x == calls[c]
<1>1. /\ x \in Call /\ Tied(x, c)
      /\ Named => booked \subseteq {1} /\ Fits(x, booked)
      /\ IsFiniteSet(booked)
  BY DEF GatewayInv, GatewayTypes, OneNumber, InvoiceInv
<1>2. UNCHANGED carrierVars => alive' = alive
  BY DEF carrierVars
<1>3. CASE Refuse(c)
  <2> DEFINE y == To(c, "failed")
  <2>1. y \in Call /\ y.at = "failed" /\ y.number = x.number /\ y.cut = x.cut
    BY <1>1, Moved DEF Stages
  <2>2. GatewayStep(c, "gateway", y) /\ alive' = alive /\ x.at = "gateway"
    BY <1>2, <1>3 DEF Refuse, GatewayStep
  <2> HIDE DEF y
  <2>3. QED BY <1>1, <2>1, <2>2, InvoiceCallMoves DEF Tied, Coming
<1>4. CASE Ask(c)
  <2>1. PICK key \in 0..(MaxCalls + 1) :
          GatewayStep(c, "gateway", [To(c, "asked") EXCEPT !.key = key]) /\ alive' = alive
    BY <1>2, <1>4 DEF Ask
  <2> DEFINE y == [To(c, "asked") EXCEPT !.key = key]
  <2>2. y \in Call /\ y.at = "asked" /\ y.number = x.number /\ y.cut = x.cut
    BY <1>1, Moved, Keyed DEF Stages
  <2>3. GatewayStep(c, "gateway", y) /\ x.at = "gateway"
    BY <2>1 DEF GatewayStep
  <2> HIDE DEF y
  <2>4. QED BY <1>1, <2>1, <2>2, <2>3, InvoiceCallMoves DEF Tied, Coming
<1>5. CASE Book(c)
  <2> DEFINE n  == NewNumber(c)
             at == IF x.at = "asked" THEN "booked" ELSE "dead"
             y  == [To(c, at) EXCEPT !.number = n]
  <2>1. /\ x.at \in {"asked", "inflight"} /\ n \notin booked /\ alive' = alive \cup {n}
        /\ GatewayStep(c, x.at, y)
    BY <1>5 DEF Book
  <2>2. n \in Nat /\ n # 0 /\ (Named => n = 1)
    <3>1. CASE Named
      BY <1>1, <2>1, <3>1 DEF NewNumber, Fits
    <3>2. CASE ~Named
      <4>1. Cardinality(booked) \in Nat /\ x.key \in Nat
        BY <1>1, FS_CardinalityType DEF Call
      <4>2. QED BY <3>2, <4>1 DEF NewNumber
    <3>3. QED BY <3>1, <3>2
  <2>3. y \in Call /\ y.at = at /\ y.number = n /\ y.cut = x.cut
    BY <1>1, <2>2, Moved, Numbered DEF Stages
  <2>4. x.number = 0
    BY <1>1, <2>1, <2>2 DEF Tied, Fits
  <2> HIDE DEF y, n
  <2>5. QED BY <1>1, <2>1, <2>2, <2>3, <2>4, InvoiceCallMoves DEF Tied, Coming
<1>6. CASE ExlineKnows(c)
  <2> DEFINE y == [To(c, "booked") EXCEPT !.number = x.key]
  <2>1. GatewayStep(c, "asked", y) /\ alive' = alive /\ x.at = "asked" /\ Named
    BY <1>2, <1>6 DEF ExlineKnows, GatewayStep, Named
  <2>2. x.key \in Nat /\ x.key = 1 /\ (x.number # 0 => x.number = 1)
    BY <1>1, <2>1 DEF Call, Fits
  <2>3. y \in Call /\ y.at = "booked" /\ y.number = x.key /\ y.cut = x.cut
    <3> DEFINE z == To(c, "booked")
    <3>1. z \in Call /\ z.at = "booked" /\ z.cut = x.cut
      BY <1>1, Moved DEF Stages
    <3> DEFINE k == x.key
    <3>2. y = [z EXCEPT !.number = k] /\ k \in Nat
      BY <2>2
    <3> HIDE DEF z, k, y
    <3>3. y \in Call /\ y.at = "booked" /\ y.number = k /\ y.cut = x.cut
      BY <3>1, <3>2, Numbered
    <3>4. QED BY <3>3 DEF k
  <2> HIDE DEF y
  <2>4. QED BY <1>1, <2>1, <2>2, <2>3, InvoiceCallMoves DEF Tied, Coming
<1>7. CASE ExlineRetries(c)
  <2> DEFINE y == [To(c, "asked") EXCEPT !.try = @ + 1]
  <2>1. GatewayStep(c, x.at, y) /\ alive' = alive /\ x.at \in {"asked", "booked"} /\ Named
    BY <1>2, <1>7 DEF ExlineRetries, Named
  <2>2. y \in Call /\ y.at = "asked" /\ y.number = x.number /\ y.cut = x.cut
    BY <1>1, Moved, Tried DEF Stages
  <2> HIDE DEF y
  <2>3. QED BY <1>1, <2>1, <2>2, InvoiceCallMoves DEF Tied, Coming
<1>8. CASE Learns(c)
  <2> DEFINE y == To(c, "created")
  <2>1. GatewayStep(c, "booked", y) /\ alive' = alive /\ x.at = "booked"
    BY <1>2, <1>8 DEF Learns, GatewayStep
  <2>2. y \in Call /\ y.at = "created" /\ y.number = x.number /\ y.cut = x.cut
    BY <1>1, Moved DEF Stages
  <2> HIDE DEF y
  <2>3. QED BY <1>1, <2>1, <2>2, InvoiceCallMoves DEF Tied, Coming
<1>9. CASE Raises(c)
  <2> DEFINE y == [To(c, "failed") EXCEPT !.cut = @ \/ x.number # 0]
  <2>1. GatewayStep(c, x.at, y) /\ alive' = alive
    BY <1>2, <1>9 DEF Raises
  <2>2. y \in Call /\ y.at = "failed" /\ y.number = x.number /\ (x.number # 0 => y.cut)
    <3> DEFINE z == To(c, "failed")
               b == z.cut \/ x.number # 0
    <3>1. z \in Call /\ z.at = "failed" /\ z.number = x.number
      BY <1>1, Moved DEF Stages
    <3>2. y = [z EXCEPT !.cut = b] /\ b \in BOOLEAN
      OBVIOUS
    <3> HIDE DEF z, b, y
    <3>3. y \in Call /\ y.at = "failed" /\ y.number = x.number /\ y.cut = b
      BY <3>1, <3>2, CutIs
    <3>4. x.number # 0 => b
      BY DEF b
    <3>5. QED BY <3>3, <3>4
  <2> HIDE DEF y
  <2>3. QED BY <1>1, <2>1, <2>2, InvoiceCallMoves DEF Tied, Coming
<1>10. CASE FetchPdf(c) \/ GatewayPdf(c)
  <2>1. PICK from \in {"created", "nopdf"}, at \in {"nopdf", "done"}, fetched \in BOOLEAN :
          GatewayStep(c, from, [To(c, at) EXCEPT !.pdf = fetched]) /\ alive' = alive
    BY <1>2, <1>10 DEF FetchPdf, GatewayPdf, WithoutPdf
  <2> DEFINE y == [To(c, at) EXCEPT !.pdf = fetched]
  <2>2. GatewayStep(c, from, y) /\ x.at = from
    BY <2>1 DEF GatewayStep
  <2>3. y \in Call /\ y.at = at /\ y.number = x.number /\ y.cut = x.cut
    BY <1>1, Moved, Printed DEF Stages
  <2> HIDE DEF y
  <2>4. QED BY <1>1, <2>1, <2>2, <2>3, InvoiceCallMoves DEF Tied, Coming
<1>11. QED
  BY <1>3, <1>4, <1>5, <1>6, <1>7, <1>8, <1>9, <1>10
  DEF GatewayNext, AzimuthAnswers, ExlineAnswers, CseAnswers, AzimuthRaises, ExlineRaises,
      CseRaises, AzimuthPdf, ExlinePdf, CsePdf

\* The other steps take no number from a call, and what stops being on its way
\* is cut off or recorded.
LEMMA InvoiceKept ==
  ASSUME InvoiceInv, alive' \subseteq alive,
         \A c \in CallIds : Tied(calls[c], c)',
         \A c \in CallIds : calls'[c].number = calls[c].number,
         waybill' = waybill \/ waybill = 0,
         \A c \in CallIds :
           (calls[c].cut => calls'[c].cut) /\ (OnItsWay(c) => calls'[c].cut \/ OnItsWay(c)' \/ calls[c].number = waybill'),
         worker'.at \in {"waiting", "holding"} /\ worker'.call # 0 => waybill' = 0
  PROVE  InvoiceInv'
<1>1. ASSUME NEW n \in alive' PROVE Remembered(n)'
  <2>1. n # 0 /\ Remembered(n)
    BY DEF InvoiceInv
  <2>2. CASE n = waybill
    BY <2>1, <2>2 DEF Remembered
  <2>3. ASSUME NEW c \in CallIds, calls[c].number = n, calls[c].cut \/ OnItsWay(c)
        PROVE  Remembered(n)'
    <3>1. calls'[c].number = n /\ (calls'[c].cut \/ OnItsWay(c)' \/ n = waybill')
      BY <2>3
    <3>2. QED BY <3>1 DEF Remembered
  <2>4. QED BY <2>1, <2>2, <2>3 DEF Remembered
<1>2. 0 \notin alive'
  BY DEF InvoiceInv
<1>3. QED BY <1>1, <1>2 DEF InvoiceInv

\* Steps that leave the calls alone.
LEMMA InvoiceQuiet ==
  ASSUME InvoiceInv, alive' \subseteq alive, UNCHANGED <<carrier, calls>>,
         waybill' = waybill \/ waybill = 0,
         \A c \in CallIds : IsWaited(c) => IsWaited(c)' \/ calls[c].at \in {"done", "failed", "dead", "inflight"},
         \A c \in CallIds : OnItsWay(c) => calls'[c].cut \/ OnItsWay(c)' \/ calls[c].number = waybill',
         worker'.at \in {"waiting", "holding"} /\ worker'.call # 0 => waybill' = 0
  PROVE  InvoiceInv'
<1>1. ASSUME NEW c \in CallIds PROVE Tied(calls[c], c)'
  <2>1. Tied(calls[c], c)
    BY DEF InvoiceInv
  <2>2. QED BY <2>1 DEF Tied, Named
<1>2. QED BY <1>1, InvoiceKept

\* The worker's call is cut off and the worker is idle.
LEMMA InvoiceCut ==
  ASSUME GatewayInv, InvoiceInv, UNCHANGED <<carrier, alive, waybill>>, worker' = IdleWorker,
         worker.call # 0, calls' = [calls EXCEPT ![worker.call].cut = TRUE]
  PROVE  InvoiceInv'
<1> DEFINE d == worker.call
<1>1. d \in CallIds /\ IdleWorker.at = "idle"
  BY Workers DEF GatewayInv, GatewayTypes, Worker
<1>2. \A c \in CallIds : c # d => calls'[c] = calls[c]
  BY DEF GatewayInv, GatewayTypes
<1>3. calls[d] \in Call /\ calls'[d] = [calls[d] EXCEPT !.cut = TRUE]
  BY <1>1 DEF GatewayInv, GatewayTypes
<1> DEFINE y == calls'[d]
<1>4. y.cut /\ y.number = calls[d].number /\ y.at = calls[d].at
  BY <1>3, Marked
<1>5. \A c \in CallIds : calls'[c].number = calls[c].number /\ calls'[c].at = calls[c].at
                         /\ (calls[c].cut => calls'[c].cut) /\ (c = d => calls'[c].cut)
  BY <1>2, <1>4
<1>6. ASSUME NEW c \in CallIds PROVE Tied(calls[c], c)'
  <2>1. Tied(calls[c], c)
    BY DEF InvoiceInv
  <2>2. IsWaited(c) => c = d
    BY DEF IsWaited
  <2>3. QED BY <1>5, <2>1, <2>2 DEF Tied, Named
<1>7. \A c \in CallIds : OnItsWay(c) => c = d
  BY DEF OnItsWay
<1>8. QED BY <1>1, <1>5, <1>6, <1>7, InvoiceKept

\* A request is posted, when the worker waits for no call that still runs.
LEMMA InvoicePosted ==
  ASSUME GatewayInv, InvoiceInv, NEW d \in CallIds, NEW w \in Worker, Post(d, w), w.at = "waiting",
         UNCHANGED <<carrier, alive, waybill>>, waybill = 0,
         \A c \in CallIds : ~OnItsWay(c),
         \A c \in CallIds : IsWaited(c) => calls[c].at \in {"dead", "inflight"}
  PROVE  InvoiceInv'
<1>1. /\ calls' = [calls EXCEPT ![d].at = "gateway", ![d].try = 1]
      /\ worker' = [w EXCEPT !.call = d] /\ calls[d].at = "unused"
  BY DEF Post, IsNextCall
<1>2. worker'.at = "waiting" /\ worker'.call = d
  BY <1>1 DEF Worker
<1>3. ASSUME NEW x \in Call
      PROVE  LET y == [x EXCEPT !.at = "gateway", !.try = 1] IN
             y.at = "gateway" /\ y.number = x.number /\ y.cut = x.cut
  BY DEF Call
<1>4. calls'[d] = [calls[d] EXCEPT !.at = "gateway", !.try = 1]
      /\ \A c \in CallIds : c # d => calls'[c] = calls[c]
  BY <1>1 DEF GatewayInv, GatewayTypes
<1>5. calls'[d].at = "gateway" /\ calls'[d].number = calls[d].number /\ calls'[d].cut = calls[d].cut
  <2>1. calls[d] \in Call
    BY DEF GatewayInv, GatewayTypes
  <2>2. QED BY <1>3, <1>4, <2>1
<1>6. ASSUME NEW c \in CallIds PROVE Tied(calls[c], c)'
  <2>1. Tied(calls[c], c)
    BY DEF InvoiceInv
  <2>2. CASE c = d
    BY <1>1, <1>2, <1>5, <2>1, <2>2 DEF Tied, Named, IsWaited
  <2>3. CASE c # d
    BY <1>4, <2>1, <2>3 DEF Tied, Named
  <2>4. QED BY <2>2, <2>3
<1>7. \A c \in CallIds : calls'[c].number = calls[c].number /\ calls'[c].cut = calls[c].cut
  BY <1>4, <1>5
<1>8. QED BY <1>6, <1>7, InvoiceKept

LEMMA InvoiceWorker ==
  ASSUME GatewayInv, InvoiceInv,
         \/ AttemptSkipped \/ Hear \/ ConnectionLost \/ TimeOut
         \/ \E permanent \in BOOLEAN : HearError(permanent)
         \/ Complete \/ \E kept \in BOOLEAN : CompleteFails(kept)
         \/ \E c \in CallIds : Attempt(c) \/ Resend(c)
  PROVE  InvoiceInv'
<1> USE DEF orderVars, jobVars, carrierVars, pickupVars
<1>0. /\ courier \in BOOLEAN /\ worker \in Worker
      /\ (worker.at = "waiting" => worker.call \in CallIds /\ worker.call # 0)
      /\ IdleWorker.at = "idle"
  BY Workers DEF GatewayInv, GatewayTypes, Worker
<1>1. CASE AttemptSkipped
  <2>1. worker' = [IdleWorker EXCEPT !.at = "holding", !.saw = courier] /\ worker.at = "idle"
        /\ UNCHANGED <<carrier, calls, alive, waybill>>
    BY <1>1 DEF AttemptSkipped
  <2>2. worker'.call = 0
    BY <2>1, Workers
  <2>3. QED BY <2>1, <2>2, InvoiceQuiet DEF IsWaited, OnItsWay
<1>2. CASE Hear
  <2>1. /\ worker' = [worker EXCEPT !.at = "holding"]
        /\ calls[worker.call].at = "done" /\ worker.at = "waiting"
        /\ UNCHANGED <<carrier, calls, alive, waybill>>
    BY <1>2 DEF Hear, Waiting
  <2>2. worker'.at = "holding" /\ worker'.call = worker.call
    BY <2>1, Workers
  <2>3. QED BY <2>1, <2>2, InvoiceQuiet DEF IsWaited, OnItsWay, InvoiceInv
<1>3. CASE ConnectionLost \/ \E permanent \in BOOLEAN : HearError(permanent)
  <2>1. /\ worker' = IdleWorker /\ worker.at = "waiting"
        /\ calls[worker.call].at \in {"dead", "inflight", "failed"}
        /\ UNCHANGED <<carrier, calls, alive, waybill>>
    BY <1>3 DEF ConnectionLost, HearError, GivesUp, Waiting, Broken
  <2>2. QED BY <1>0, <2>1, InvoiceQuiet DEF IsWaited, OnItsWay
<1>4. CASE TimeOut
  <2>1. /\ worker' = IdleWorker /\ worker.at = "waiting"
        /\ calls' = [calls EXCEPT ![worker.call].cut = TRUE]
        /\ UNCHANGED <<carrier, alive, waybill>>
    BY <1>4 DEF TimeOut, GivesUp, Waiting
  <2>2. QED BY <1>0, <2>1, InvoiceCut
<1>5. CASE Complete
  <2>1. /\ worker.at = "holding" /\ waybill' = Held
        /\ worker' \in {[worker EXCEPT !.at = "pickup"], IdleWorker}
        /\ UNCHANGED <<carrier, calls, alive>>
    BY <1>5 DEF Complete
  <2>2. worker'.at \in {"pickup", "idle"}
    BY <1>0, <2>1, Workers
  <2>3. waybill' = waybill \/ waybill = 0
    BY <2>1 DEF Held, InvoiceInv
  <2>4. \A c \in CallIds : OnItsWay(c) => calls[c].number = waybill'
    <3>1. \A c \in CallIds : c # 0
      BY DEF CallIds
    <3>2. QED BY <2>1, <3>1 DEF OnItsWay, Held
  <2>5. QED BY <2>1, <2>2, <2>3, <2>4, InvoiceQuiet DEF IsWaited
<1>6. ASSUME NEW kept \in BOOLEAN, CompleteFails(kept) PROVE InvoiceInv'
  <2>1. /\ worker.at = "holding" /\ worker' = IdleWorker /\ UNCHANGED <<carrier, alive>>
        /\ waybill' = IF kept THEN Held ELSE waybill
        /\ calls' = IF kept \/ worker.call = 0 THEN calls ELSE [calls EXCEPT ![worker.call].cut = TRUE]
    BY <1>6 DEF CompleteFails
  <2>2. \A c \in CallIds : c # 0
    BY DEF CallIds
  <2>3. CASE kept
    <3>1. waybill' = waybill \/ waybill = 0
      BY <2>1, <2>3 DEF Held, InvoiceInv
    <3>2. \A c \in CallIds : OnItsWay(c) => calls[c].number = waybill'
      BY <2>1, <2>2, <2>3 DEF OnItsWay, Held
    <3>3. QED BY <1>0, <2>1, <2>3, <3>1, <3>2, InvoiceQuiet DEF IsWaited
  <2>4. CASE ~kept /\ worker.call = 0
    BY <1>0, <2>1, <2>2, <2>4, InvoiceQuiet DEF IsWaited, OnItsWay
  <2>5. CASE ~kept /\ worker.call # 0
    BY <2>1, <2>5, InvoiceCut
  <2>6. QED BY <2>3, <2>4, <2>5
<1>7. ASSUME NEW c \in CallIds, Attempt(c) PROVE InvoiceInv'
  <2> DEFINE w == [IdleWorker EXCEPT !.at = "waiting", !.saw = courier]
  <2>1. /\ Post(c, w) /\ worker.at = "idle" /\ waybill = 0
        /\ UNCHANGED <<carrier, alive, waybill>>
    BY <1>7 DEF Attempt
  <2>2. w \in Worker /\ w.at = "waiting"
    BY <1>0 DEF Worker, IdleWorker
  <2> HIDE DEF w
  <2>3. QED BY <2>1, <2>2, InvoicePosted DEF OnItsWay, IsWaited
<1>8. ASSUME NEW c \in CallIds, Resend(c) PROVE InvoiceInv'
  <2> DEFINE w == [worker EXCEPT !.resent = TRUE]
  <2>1. /\ Post(c, w) /\ worker.at = "waiting" /\ calls[worker.call].at \in {"dead", "inflight"}
        /\ UNCHANGED <<carrier, alive, waybill>>
    BY <1>8 DEF Resend, Waiting, Broken
  <2>2. w \in Worker /\ w.at = "waiting"
    BY <1>0, <2>1 DEF Worker
  <2> HIDE DEF w
  <2>3. waybill = 0
    BY <1>0, <2>1 DEF InvoiceInv
  <2>4. QED BY <2>1, <2>2, <2>3, InvoicePosted DEF OnItsWay, IsWaited
<1>9. QED BY <1>1, <1>2, <1>3, <1>4, <1>5, <1>6, <1>7, <1>8

LEMMA InvoiceFaults ==
  ASSUME GatewayInv, InvoiceInv, Crash \/ Restart \/ RetryDispatch
  PROVE  InvoiceInv'
<1> USE DEF orderVars, jobVars, carrierVars, pickupVars
<1>0. worker \in Worker /\ IdleWorker.at = "idle" /\ \A c \in CallIds : c # 0
  <2>1. \A c \in CallIds : c # 0
    BY DEF CallIds
  <2>2. QED BY <2>1, Workers DEF GatewayInv, GatewayTypes
<1>1. CASE Crash
  <2>1. /\ worker' = IdleWorker /\ UNCHANGED <<carrier, waybill, alive>>
        /\ calls' = IF worker.at \in {"waiting", "holding"} /\ worker.call # 0
                      THEN [calls EXCEPT ![worker.call].cut = TRUE] ELSE calls
    BY <1>1 DEF Crash
  <2>2. CASE worker.at \in {"waiting", "holding"} /\ worker.call # 0
    BY <2>1, <2>2, InvoiceCut
  <2>3. CASE ~(worker.at \in {"waiting", "holding"} /\ worker.call # 0)
    BY <1>0, <2>1, <2>3, InvoiceQuiet DEF OnItsWay, IsWaited
  <2>4. QED BY <2>2, <2>3
<1>2. CASE RetryDispatch
  BY <1>2, InvoiceQuiet DEF RetryDispatch, IsWaited, OnItsWay, InvoiceInv
<1>3. CASE Restart
  <2>1. /\ \A c \in CallIds : calls'[c] = AfterRestart(calls[c])
        /\ UNCHANGED <<carrier, waybill, worker, alive>>
    BY <1>3 DEF Restart
  <2>2. ASSUME NEW c \in CallIds
        PROVE  /\ calls'[c].number = calls[c].number /\ (calls[c].cut => calls'[c].cut)
               /\ OnItsWay(c) => calls'[c].cut \/ OnItsWay(c)'
               /\ Tied(calls[c], c)'
    <3> DEFINE x == calls[c]
               at == IF x.at = "asked" THEN "inflight" ELSE "dead"
               y == [x EXCEPT !.cut = TRUE, !.at = at]
    <3>1. x \in Call /\ Tied(x, c)
      BY DEF GatewayInv, GatewayTypes, InvoiceInv
    <3>2. y.at = at /\ y.number = x.number /\ y.cut
      <4>1. at \in Stages
        BY DEF Stages
      <4> HIDE DEF at
      <4>2. QED BY <3>1, <4>1, CutOff
    <3>3. CASE x.at \in {"gateway", "asked", "booked", "created", "nopdf"}
      <4>1. calls'[c] = y
        BY <2>1, <3>3 DEF AfterRestart
      <4> HIDE DEF y
      <4>2. QED BY <2>1, <3>1, <3>2, <3>3, <4>1 DEF Tied, Named
    <3>4. CASE x.at \notin {"gateway", "asked", "booked", "created", "nopdf"}
      <4>1. calls'[c] = x
        BY <2>1, <3>4 DEF AfterRestart
      <4>2. QED BY <2>1, <3>1, <3>4, <4>1 DEF Tied, Named, OnItsWay
    <3>5. QED BY <3>3, <3>4
  <2>3. QED BY <2>1, <2>2, InvoiceKept DEF InvoiceInv
<1>4. QED BY <1>1, <1>2, <1>3

LEMMA InvoiceOther ==
  ASSUME GatewayInv, InvoiceInv,
         \/ ExlineCancels \/ CseCancels
         \/ WorkerCallsCourier \/ WorkerCourierFails \/ WorkerCourierSaved
         \/ GetLabel \/ CacheLabel \/ ExpireLabel
         \/ (\E s \in Staff : StaffStep(s)) \/ UNCHANGED vars
  PROVE  InvoiceInv'
<1> USE DEF orderVars, jobVars, carrierVars, pickupVars
<1>1. CASE WorkerCallsCourier \/ WorkerCourierFails \/ WorkerCourierSaved
  <2>1. /\ worker' \in {[worker EXCEPT !.at = "called"], IdleWorker}
        /\ worker.at \in {"pickup", "called"} /\ UNCHANGED <<carrier, calls, alive, waybill>>
    BY <1>1 DEF WorkerCallsCourier, WorkerCourierFails, WorkerCourierSaved
  <2>2. worker'.at \in {"called", "idle"}
    BY <2>1, Workers
  <2>3. QED BY <2>1, <2>2, InvoiceQuiet DEF IsWaited, OnItsWay
<1>2. CASE ~(WorkerCallsCourier \/ WorkerCourierFails \/ WorkerCourierSaved)
  <2>1. UNCHANGED <<carrier, calls, worker, waybill>> /\ alive' \subseteq alive
    <3>1. CASE ExlineCancels \/ CseCancels \/ GetLabel \/ CacheLabel \/ ExpireLabel \/ UNCHANGED vars
      BY <3>1 DEF ExlineCancels, CseCancels, CancelInvoice, GetLabel, CacheLabel, ExpireLabel, vars
    <3>2. ASSUME NEW s \in Staff, StaffStep(s)
          PROVE  UNCHANGED <<carrier, calls, worker, waybill>> /\ alive' \subseteq alive
      BY <3>2
      DEF StaffStep, RetryPickup, StaffCallsCourier, StaffCourierFails, StaffCourierSaved,
          RefreshClears, RefreshStores, RefreshFails
    <3>3. QED BY <1>2, <3>1, <3>2
  <2>2. QED BY <2>1, InvoiceQuiet DEF IsWaited, OnItsWay, InvoiceInv
<1>3. QED BY <1>1, <1>2

\* An invoice that is alive at the carrier is the order's waybill, on its way
\* to the worker, or of a call whose answer was cut off, whatever the carrier:
\* process_one_job and the gateway drop no number they were told.
THEOREM NoInvoiceForgotten == Spec => []NoInvoiceIsForgotten
<1>1. Init => GatewayInv /\ InvoiceInv
  <2>1. NoCall.at = "unused" /\ NoCall.number = 0 /\ IdleWorker.at = "idle"
    BY DEF NoCall, IdleWorker
  <2>2. Init => InvoiceInv
    BY <2>1 DEF Init, InvoiceInv, Tied
  <2>3. QED BY <2>2, InitInv
<1>2. GatewayInv /\ InvoiceInv /\ [Next]_vars => (GatewayInv /\ InvoiceInv)'
  BY EveryStep, InvoiceGateway, InvoiceWorker, InvoiceFaults, InvoiceOther DEF Next
<1>3. InvoiceInv => NoInvoiceIsForgotten
  BY DEF InvoiceInv, Remembered, NoInvoiceIsForgotten
<1>4. QED BY <1>1, <1>2, <1>3, PTL DEF Spec

-----------------------------------------------------------------------------
(* Labels.                                                                   *)

\* While a label is replaced without a fault, nothing names it; otherwise what
\* the document, the cache and a download name is in storage.
LabelInv ==
  /\ DOMAIN staff = Staff /\ torn \in BOOLEAN
  /\ ~torn => IF Refreshing THEN cached = 0 /\ reader = 0
              ELSE {label, cached, reader} \ {0} \subseteq files

LEMMA LabelStep ==
  ASSUME LabelInv, [Next]_vars
  PROVE  LabelInv'
<1> USE DEF LabelInv, labelVars
\* The courier, the worker and the gateway do not replace a label.
<1>1. ASSUME UNCHANGED labelVars, DOMAIN staff' = Staff, Refreshing' <=> Refreshing
      PROVE  LabelInv'
  BY <1>1
<1>2. ASSUME NEW c \in CallIds, GatewayNext(c) PROVE LabelInv'
  <2>1. \E from, y : GatewayStep(c, from, y)
    BY <1>2
    DEF GatewayNext, Refuse, Ask, Book, ExlineKnows, ExlineRetries, AzimuthAnswers,
        ExlineAnswers, CseAnswers, Learns, AzimuthRaises, ExlineRaises, CseRaises, Raises,
        AzimuthPdf, ExlinePdf, CsePdf, FetchPdf, GatewayPdf
  <2>2. UNCHANGED <<labelVars, staff>>
    BY <2>1 DEF GatewayStep
  <2>3. QED BY <1>1, <2>2 DEF Refreshing
<1>3. ASSUME \/ AttemptSkipped \/ Hear \/ ConnectionLost \/ TimeOut
             \/ \E permanent \in BOOLEAN : HearError(permanent)
             \/ \E kept \in BOOLEAN : CompleteFails(kept)
             \/ Crash \/ RetryDispatch \/ Restart \/ ExlineCancels \/ CseCancels
             \/ WorkerCallsCourier \/ WorkerCourierFails \/ WorkerCourierSaved
             \/ \E c \in CallIds : Attempt(c) \/ Resend(c)
             \/ UNCHANGED vars
      PROVE  LabelInv'
  <2>1. UNCHANGED <<labelVars, staff>>
    BY <1>3
    DEF AttemptSkipped, Hear, ConnectionLost, TimeOut, HearError, GivesUp, CompleteFails, Crash,
        RetryDispatch, Restart, ExlineCancels, CseCancels, CancelInvoice, WorkerCallsCourier,
        WorkerCourierFails, WorkerCourierSaved, Attempt, Resend, Post, vars
  <2>2. QED BY <1>1, <2>1 DEF Refreshing
<1>4. ASSUME NEW s \in Staff,
             RetryPickup(s) \/ StaffCallsCourier(s) \/ StaffCourierFails(s) \/ StaffCourierSaved(s)
      PROVE  LabelInv'
  <2>1. UNCHANGED labelVars /\ staff[s] # "refreshing"
        /\ \E at \in {"calling", "called", "idle"} : staff' = [staff EXCEPT ![s] = at]
    BY <1>4 DEF RetryPickup, StaffCallsCourier, StaffCourierFails, StaffCourierSaved, Calling
  <2>2. DOMAIN staff' = Staff
    BY <2>1
  <2>3. \A t \in Staff : staff'[t] = "refreshing" <=> staff[t] = "refreshing"
    BY <2>1
  <2>4. QED BY <1>1, <2>1, <2>2, <2>3 DEF Refreshing
<1>5. CASE Complete
  <2>1. (SaveLabel \/ UNCHANGED labelVars) /\ staff' = staff
    BY <1>5 DEF Complete
  <2>2. CASE UNCHANGED labelVars
    BY <1>1, <2>1, <2>2 DEF Refreshing
  <2>3. CASE SaveLabel
    BY <2>1, <2>3 DEF SaveLabel, Refreshing
  <2>4. QED BY <2>1, <2>2, <2>3
<1>6. CASE GetLabel
  <2>1. staff' = staff /\ UNCHANGED <<label, files, cached>> /\ reader' = label
        /\ torn' = (torn \/ Refreshing)
    BY <1>6 DEF GetLabel
  <2>2. torn' \in BOOLEAN
    BY <2>1
  <2>3. QED BY <2>1, <2>2 DEF Refreshing
<1>7. CASE CacheLabel \/ ExpireLabel
  <2>1. /\ UNCHANGED <<staff, label, files, torn>>
        /\ {cached', reader'} \subseteq {cached, reader, 0} /\ (cached # 0 \/ reader # 0)
    BY <1>7 DEF CacheLabel, ExpireLabel
  <2>2. QED BY <2>1 DEF Refreshing
<1>8. ASSUME NEW s \in Staff, RefreshClears(s) PROVE LabelInv'
  <2>1. /\ staff' = [staff EXCEPT ![s] = "refreshing"] /\ cached' = 0 /\ reader' = reader
        /\ torn' = (torn \/ reader # 0)
    BY <1>8 DEF RefreshClears
  <2>2. Refreshing' /\ DOMAIN staff' = Staff /\ torn' \in BOOLEAN
    BY <2>1 DEF Refreshing
  <2>3. QED BY <2>1, <2>2
<1>9. ASSUME NEW s \in Staff, RefreshStores(s) PROVE LabelInv'
  <2>1. /\ staff[s] = "refreshing" /\ DOMAIN staff' = Staff
        /\ files' = files \cup {label'} /\ UNCHANGED <<cached, reader, torn>>
    BY <1>9 DEF RefreshStores
  <2>2. ~torn => cached = 0 /\ reader = 0
    BY <2>1 DEF Refreshing
  <2>3. QED BY <2>1, <2>2
<1>10. ASSUME NEW s \in Staff, RefreshFails(s) PROVE LabelInv'
  <2>1. DOMAIN staff' = Staff /\ torn' = TRUE
    BY <1>10 DEF RefreshFails
  <2>2. QED BY <2>1
<1>11. QED
  BY <1>2, <1>3, <1>4, <1>5, <1>6, <1>7, <1>8, <1>9, <1>10 DEF Next, StaffStep

\* The label a customer is sent to by get_label is in storage, for every number
\* of refreshes and uploads, unless a refresh failed half-way or a download
\* overlapped one.
THEOREM LabelStored == Spec => []LabelIsStored
<1>1. Init => LabelInv
  BY DEF Init, LabelInv, Refreshing
<1>2. LabelInv => LabelIsStored
  BY DEF LabelInv, LabelIsStored
<1>3. QED BY <1>1, <1>2, LabelStep, PTL DEF Spec
=============================================================================
