---------------------------- MODULE PaymentProofs ----------------------------
(***************************************************************************)
(* What holds of an order's money for any number of requests, events,       *)
(* transactions and rows.                                                   *)
(*                                                                         *)
(* However requests overlap, the ledger claims no more than its active      *)
(* rows.  Net counts rows, so this says that there are no more reversed     *)
(* rows than reversals.  It is kept because every reversal that is written  *)
(* goes with at most one row that becomes reversed; and what a request      *)
(* found active when it read may by then be reversed, but is not itself a   *)
(* reversal, nor gone (RowsAreHeld).                                        *)
(*                                                                         *)
(* While no request commits on what has changed, the order, its payments    *)
(* and its ledger keep in step (InStep).  That is inductive only with what  *)
(* each request under way has read, for as long as nobody has committed     *)
(* since (ReadsOK).  InStep says which transactions and rows there are;     *)
(* counting them comes last (PaidCount, RowCount).                          *)
(*                                                                         *)
(* What is charged, and for which packages, is settled before that by the   *)
(* requests of the order's form (below, from DraftInv on, about Orders).    *)
(***************************************************************************)
EXTENDS Payments, Orders, FiniteSetTheorems, TLAPS

\* A request x knows no row, or one that is or was active.
Holds(x, rows) ==
  /\ "row" \in DOMAIN x /\ x.row \in 0..MaxRows
  /\ x.row # 0 => rows[x.row] \in {"active", "reversed"}

RowsAreHeld ==
  /\ ledger \in [Rows -> RowStates]
  /\ DOMAIN se = Sessions
  /\ \A s \in Sessions : Holds(se[s], ledger)

Offset == Count(ledger, "reversed") <= Count(ledger, "reversal")

LedgerInv == RowsAreHeld /\ Offset

-----------------------------------------------------------------------------
(* Counting rows.                                                            *)

In(table, state) == {i \in DOMAIN table : table[i] = state}

LEMMA RowsAreFinite ==
  ASSUME NEW L \in [Rows -> RowStates], NEW state
  PROVE  IsFiniteSet(In(L, state)) /\ Count(L, state) \in Nat
<1>1. IsFiniteSet(1..MaxRows)
  BY PaymentsAssumption, FS_Interval DEF PaymentsAssumption
<1>2. In(L, state) \subseteq 1..MaxRows
  BY DEF In, Rows
<1>3. IsFiniteSet(In(L, state))
  BY <1>1, <1>2, FS_Subset
<1>4. QED BY <1>3, FS_CardinalityType DEF Count, In

\* A new row of another kind leaves the count of a kind alone.
LEMMA OtherKinds ==
  ASSUME NEW L \in [Rows -> RowStates], NEW n \in Rows, NEW state, NEW kind,
         L[n] # state, kind # state
  PROVE  Count([L EXCEPT ![n] = kind], state) = Count(L, state)
<1>1. In([L EXCEPT ![n] = kind], state) = In(L, state)
  BY DEF In
<1>2. QED BY <1>1 DEF Count, In

\* Marking row r and inserting row n offset one another.
LEMMA OffsetKept ==
  ASSUME NEW L \in [Rows -> RowStates], NEW r \in Rows, NEW n \in Rows,
         L[r] \in {"active", "reversed"}, L[n] = "none",
         NEW M \in [Rows -> RowStates], M[r] = "reversed", M[n] = "reversal",
         \A i \in Rows \ {r, n} : M[i] = L[i],
         Count(L, "reversed") <= Count(L, "reversal")
  PROVE  Count(M, "reversed") <= Count(M, "reversal")
<1>1. M \in [Rows -> RowStates]
  OBVIOUS
<1>2. In(M, "reversal") = In(L, "reversal") \cup {n} /\ n \notin In(L, "reversal")
  BY <1>1 DEF In
<1>3. In(M, "reversed") \subseteq In(L, "reversed") \cup {r}
  BY <1>1 DEF In
<1>4. \A K \in [Rows -> RowStates] : \A st : Count(K, st) = Cardinality(In(K, st))
  BY DEF Count, In
<1>5. IsFiniteSet(In(L, "reversal")) /\ IsFiniteSet(In(L, "reversed"))
  BY RowsAreFinite
<1> DEFINE R == In(L, "reversed") \cup {r}
<1>6. Cardinality(In(M, "reversal")) = Cardinality(In(L, "reversal")) + 1
  BY <1>2, <1>5, FS_AddElement
<1>7. IsFiniteSet(R) /\ (Cardinality(R) = Cardinality(In(L, "reversed"))
                          \/ Cardinality(R) = Cardinality(In(L, "reversed")) + 1)
  BY <1>5, FS_AddElement
<1>8. Cardinality(In(M, "reversed")) <= Cardinality(R)
  <2> HIDE DEF R
  <2>1. QED BY <1>3, <1>7, FS_Subset DEF R
<1>9. /\ Cardinality(In(L, "reversal")) \in Nat /\ Cardinality(In(L, "reversed")) \in Nat
      /\ Cardinality(In(M, "reversed")) \in Nat
  <2>1. Count(L, "reversal") \in Nat /\ Count(L, "reversed") \in Nat
        /\ Count(M, "reversed") \in Nat
    BY <1>1, RowsAreFinite
  <2>2. QED BY <1>1, <1>4, <2>1
<1>10. Cardinality(In(L, "reversed")) <= Cardinality(In(L, "reversal"))
  BY <1>4
<1>11. Cardinality(In(M, "reversed")) <= Cardinality(In(M, "reversal"))
  <2> HIDE DEF R
  <2>1. QED BY <1>6, <1>7, <1>8, <1>9, <1>10
<1>12. QED BY <1>1, <1>4, <1>11

-----------------------------------------------------------------------------
(* Steps.                                                                    *)

\* What becomes of the ledger keeps the row a request knows.
Kept == \A r \in Rows : ledger[r] \in {"active", "reversed"} => ledger'[r] \in {"active", "reversed"}

LEMMA AgedHolds ==
  ASSUME NEW x, NEW rows, Holds(x, rows)
  PROVE  Holds([x EXCEPT !.stale = TRUE], rows)
BY DEF Holds

LEMMA IdleHolds == ASSUME NEW rows PROVE Holds(Idle, rows)
BY PaymentsAssumption DEF PaymentsAssumption, Holds, Idle

LEMMA HoldsOn ==
  ASSUME NEW x, Holds(x, ledger), Kept
  PROVE  Holds(x, ledger')
BY PaymentsAssumption DEF PaymentsAssumption, Holds, Kept, Rows

LEMMA AllAgedHold ==
  ASSUME RowsAreHeld, Kept
  PROVE  \A s \in Sessions : Holds(Aged[s], ledger')
BY AgedHolds, HoldsOn DEF RowsAreHeld, Aged

LEMMA NothingWritten == ASSUME ledger' = ledger PROVE Kept
BY DEF Kept

\* A request begins: it has read a row that is active, or none.
LEMMA BeginStep ==
  ASSUME LedgerInv, NEW s \in Sessions, NEW x, Begin(s, x), Holds(x, ledger)
  PROVE  LedgerInv'
<1>1. se' = [se EXCEPT ![s] = x] /\ ledger' = ledger
  BY DEF Begin, Db
<1>2. RowsAreHeld'
  BY <1>1 DEF LedgerInv, RowsAreHeld
<1>3. Offset'
  BY <1>1 DEF LedgerInv, Offset, Count
<1>4. QED BY <1>2, <1>3 DEF LedgerInv

\* The ledger after a request that wrote it.
LEMMA LedgerMoves ==
  ASSUME LedgerInv, NEW s \in Sessions,
         \/ ledger' = ledger
         \/ RecordCommission
         \/ ReverseCommission(se[s].row)
  PROVE  ledger' \in [Rows -> RowStates] /\ Kept /\ Offset'
<1>1. CASE ledger' = ledger
  BY <1>1 DEF LedgerInv, RowsAreHeld, Offset, Count, Kept
<1>2. CASE RecordCommission
  <2>1. PICK n \in Rows : ledger[n] = "none" /\ ledger' = [ledger EXCEPT ![n] = "active"]
    BY <1>2 DEF RecordCommission, IsNew
  <2>2. ledger' \in [Rows -> RowStates] /\ Kept
    BY <2>1 DEF LedgerInv, RowsAreHeld, RowStates, Kept
  <2>3. Count(ledger', "reversed") = Count(ledger, "reversed")
        /\ Count(ledger', "reversal") = Count(ledger, "reversal")
    BY <2>1, OtherKinds DEF LedgerInv, RowsAreHeld
  <2>4. QED BY <2>2, <2>3 DEF LedgerInv, Offset
<1>3. CASE ReverseCommission(se[s].row) /\ se[s].row # 0
  <2> DEFINE r == se[s].row
  <2>1. PICK n \in Rows : /\ ledger[n] = "none"
                          /\ ledger' = [ledger EXCEPT ![r] = "reversed", ![n] = "reversal"]
    BY <1>3 DEF ReverseCommission, IsNew
  <2>2. r \in Rows /\ ledger[r] \in {"active", "reversed"}
    BY <1>3, PaymentsAssumption DEF PaymentsAssumption, LedgerInv, RowsAreHeld, Holds, Rows
  <2>3. ledger' \in [Rows -> RowStates] /\ Count(ledger', "reversed") <= Count(ledger', "reversal")
    <3>1. ledger \in [Rows -> RowStates] /\ Count(ledger, "reversed") <= Count(ledger, "reversal")
      BY DEF LedgerInv, RowsAreHeld, Offset
    <3>2. /\ ledger' \in [Rows -> RowStates] /\ ledger'[r] = "reversed" /\ ledger'[n] = "reversal"
          /\ \A i \in Rows \ {r, n} : ledger'[i] = ledger[i]
      BY <2>1, <2>2, <3>1 DEF RowStates
    <3> HIDE DEF r
    <3>3. QED BY <2>1, <2>2, <3>1, <3>2, OffsetKept
  <2>4. Kept
    BY <2>1, <2>2 DEF Kept, LedgerInv, RowsAreHeld
  <2>5. QED BY <2>3, <2>4 DEF Offset
<1>4. CASE ReverseCommission(se[s].row) /\ se[s].row = 0
  BY <1>1, <1>4 DEF ReverseCommission
<1>5. QED BY <1>1, <1>2, <1>3, <1>4

\* A request commits, having written the ledger or not.
LEMMA CommitStep ==
  ASSUME LedgerInv, NEW s \in Sessions, NEW x, Commit(s, x), \A L : Holds(x, L),
         \/ ledger' = ledger
         \/ RecordCommission
         \/ ReverseCommission(se[s].row)
  PROVE  LedgerInv'
<1>1. ledger' \in [Rows -> RowStates] /\ Kept /\ Offset'
  BY LedgerMoves
<1>2. \A q \in Sessions : Holds(Aged[q], ledger')
  BY <1>1, AllAgedHold DEF LedgerInv
<1>3. se' = [Aged EXCEPT ![s] = x] /\ DOMAIN Aged = Sessions
  BY DEF Commit, Aged
<1>4. RowsAreHeld'
  BY <1>1, <1>2, <1>3 DEF RowsAreHeld
<1>5. QED BY <1>1, <1>4 DEF LedgerInv

\* What a request may hold when it begins.
LEMMA RequestsHold ==
  ASSUME NEW pc, NEW t
  PROVE  /\ \A L : Holds(Request(pc, t), L)
         /\ "row" \in DOMAIN Request(pc, t)
BY IdleHolds DEF Holds, Request

LEMMA FoundRow ==
  ASSUME NEW r \in 0..MaxRows, r = 0 \/ ActiveRow(r), NEW x, "row" \in DOMAIN x
  PROVE  Holds([x EXCEPT !.row = r], ledger)
<1>1. r # 0 => ledger[r] = "active"
  BY DEF ActiveRow
<1>2. QED BY <1>1 DEF Holds

\* Requests of a customer.
LEMMA CustomerStep ==
  ASSUME LedgerInv, NEW s \in Sessions, Customer(s)
  PROVE  LedgerInv'
<1>1. CASE InitiateRead(s)
  BY <1>1, RequestsHold, BeginStep DEF InitiateRead
<1>2. CASE InitiateWrite(s)
  BY <1>2, IdleHolds, CommitStep DEF InitiateWrite
<1>3. ASSUME NEW t \in Txs, ProofRead(s, t) PROVE LedgerInv'
  BY <1>3, RequestsHold, BeginStep DEF ProofRead
<1>4. CASE ProofWrite(s)
  BY <1>4, IdleHolds, CommitStep DEF ProofWrite
<1>5. CASE CancelRead(s)
  <2>1. PICK r \in 0..MaxRows : \E open, due, jobs :
          /\ ActiveRow(r)
          /\ Begin(s, [Request("cancel", 0) EXCEPT !.row = r, !.open = open, !.due = due,
                                                   !.jobs = jobs])
    BY <1>5 DEF CancelRead
  <2>0. PICK open, due, jobs :
          /\ ActiveRow(r)
          /\ Begin(s, [Request("cancel", 0) EXCEPT !.row = r, !.open = open, !.due = due,
                                                   !.jobs = jobs])
    BY <2>1
  <2> DEFINE x == [Request("cancel", 0) EXCEPT !.row = r]
             y == [Request("cancel", 0) EXCEPT !.row = r, !.open = open, !.due = due, !.jobs = jobs]
  <2>2. Holds(x, ledger)
    BY <2>0, RequestsHold, FoundRow
  <2>3. Holds(y, ledger)
    BY <2>2 DEF Holds
  <2> HIDE DEF y
  <2>4. QED BY <2>0, <2>3, BeginStep DEF y
<1>6. CASE CancelWrite(s)
  BY <1>6, IdleHolds, CommitStep DEF CancelWrite
<1>7. QED BY <1>1, <1>2, <1>3, <1>4, <1>5, <1>6 DEF Customer

\* Requests of the staff.
LEMMA StaffStep ==
  ASSUME LedgerInv, NEW s \in Sessions, Staff(s)
  PROVE  LedgerInv'
<1>1. ASSUME NEW t \in Txs, ApproveRead(s, t) \/ RejectRead(s, t) PROVE LedgerInv'
  BY <1>1, RequestsHold, BeginStep DEF ApproveRead, RejectRead
<1>2. ASSUME NEW t \in Txs, RefundRead(s, t) PROVE LedgerInv'
  BY <1>2, RequestsHold, FoundRow, BeginStep DEF RefundRead
<1>3. CASE ApproveWrite(s) \/ RejectWrite(s) \/ RefundWrite(s)
  BY <1>3, IdleHolds, CommitStep DEF ApproveWrite, RejectWrite, RefundWrite
<1>4. ASSUME NEW target, OverrideRead(s, target) PROVE LedgerInv'
  <2>1. PICK r \in 0..MaxRows :
          /\ r = 0 \/ ActiveRow(r)
          /\ Begin(s, [Request("override", 0) EXCEPT !.row = r, !.target = target])
    BY <1>4 DEF OverrideRead
  <2> DEFINE x == [Request("override", 0) EXCEPT !.row = r]
             y == [Request("override", 0) EXCEPT !.row = r, !.target = target]
  <2>2. Holds(x, ledger)
    BY <2>1, RequestsHold, FoundRow
  <2>3. Holds(y, ledger)
    BY <2>2 DEF Holds
  <2> HIDE DEF y
  <2>4. QED BY <2>1, <2>3, BeginStep DEF y
<1>5. CASE OverrideWrite(s) \/ EventWrite(s)
  BY <1>5, IdleHolds, CommitStep DEF OverrideWrite, EventWrite
<1>6. CASE EventRead(s)
  BY <1>6, RequestsHold, FoundRow, BeginStep DEF EventRead
<1>7. QED BY <1>1, <1>2, <1>3, <1>4, <1>5, <1>6 DEF Staff

\* Notifications of the payment provider.
LEMMA ProviderStep ==
  ASSUME LedgerInv, NEW s \in Sessions, Provider(s)
  PROVE  LedgerInv'
<1>1. ASSUME NEW e \in Events, ConfirmRead(s, e) PROVE LedgerInv'
  <2>1. PICK t \in Txs : Begin(s, [Request("confirm", t) EXCEPT !.ev = {e}])
    BY <1>1 DEF ConfirmRead
  <2> DEFINE y == [Request("confirm", t) EXCEPT !.ev = {e}]
  <2>2. Holds(y, ledger)
    BY RequestsHold DEF Holds
  <2> HIDE DEF y
  <2>3. QED BY <2>1, <2>2, BeginStep DEF y
<1>2. ASSUME NEW e \in Events, ProviderCancelRead(s, e) PROVE LedgerInv'
  <2>1. PICK r \in 0..MaxRows :
          ActiveRow(r) /\ Begin(s, [Request("provider_cancel", 0) EXCEPT !.row = r, !.ev = {e}])
    BY <1>2 DEF ProviderCancelRead
  <2> DEFINE x == [Request("provider_cancel", 0) EXCEPT !.row = r]
             y == [Request("provider_cancel", 0) EXCEPT !.row = r, !.ev = {e}]
  <2>2. Holds(x, ledger)
    BY <2>1, RequestsHold, FoundRow
  <2>3. Holds(y, ledger)
    BY <2>2 DEF Holds
  <2> HIDE DEF y
  <2>4. QED BY <2>1, <2>3, BeginStep DEF y
<1>3. CASE ConfirmWrite(s)
  <2> DEFINE y == [Idle EXCEPT !.pc = "confirmed", !.seen = "paid", !.tx = se[s].tx]
  <2>1. \A L : Holds(y, L)
    BY IdleHolds DEF Holds, Idle
  <2>2. Commit(s, y) /\ ledger' = ledger
    BY <1>3 DEF ConfirmWrite
  <2> HIDE DEF y
  <2>3. QED BY <2>1, <2>2, CommitStep
<1>4. CASE ConfirmQueue(s) \/ ProviderCancelWrite(s)
  BY <1>4, IdleHolds, CommitStep DEF ConfirmQueue, ProviderCancelWrite
<1>5. CASE ConfirmDies(s)
  BY <1>5, IdleHolds DEF ConfirmDies, Db, LedgerInv, RowsAreHeld, Offset, Count
<1>6. QED BY <1>1, <1>2, <1>3, <1>4, <1>5 DEF Provider

LEMMA LedgerStep ==
  ASSUME LedgerInv, [Next]_vars
  PROVE  LedgerInv'
<1>1. CASE UNCHANGED vars
  BY <1>1 DEF vars, LedgerInv, RowsAreHeld, Offset, Count
<1>2. ASSUME NEW s \in Sessions, Abandon(s) PROVE LedgerInv'
  BY <1>2, IdleHolds DEF Abandon, Db, LedgerInv, RowsAreHeld, Offset, Count
<1>3. ASSUME NEW e \in Events, IgnoreEvent(e) PROVE LedgerInv'
  BY <1>3 DEF IgnoreEvent, LedgerInv, RowsAreHeld, Offset, Count
<1>4. CASE Ship \/ Deliver \/ CarrierCancels
  <2>1. se' = Aged /\ ledger' = ledger
    BY <1>4 DEF Ship, Deliver, CarrierCancels
  <2>2. \A q \in Sessions : Holds(Aged[q], ledger')
    BY <2>1, NothingWritten, AllAgedHold DEF LedgerInv
  <2>3. RowsAreHeld'
    BY <2>1, <2>2 DEF LedgerInv, RowsAreHeld, Aged
  <2>4. QED BY <2>1, <2>3 DEF LedgerInv, Offset, Count
<1>5. QED BY <1>1, <1>2, <1>3, <1>4, CustomerStep, StaffStep, ProviderStep DEF Next

\* In every interleaving of requests, the ledger claims no more than its active
\* rows: what is reversed is offset (CommissionsService.reverse_for_order).
THEOREM LedgerIsOffset == Spec => []LedgerNeverOverstates
<1>1. Init => LedgerInv
  <2> SUFFICES ASSUME Init PROVE LedgerInv
    OBVIOUS
  <2>1. ledger \in [Rows -> RowStates]
    BY DEF Init, RowStates
  <2>2. RowsAreHeld
    BY <2>1, IdleHolds DEF Init, RowsAreHeld
  <2>3. In(ledger, "reversed") = {} /\ In(ledger, "reversal") = {}
    BY DEF Init, In
  <2>4. Count(ledger, "reversed") = Count(ledger, "reversal")
    BY <2>3 DEF Count, In
  <2>5. QED BY <2>1, <2>2, <2>4, RowsAreFinite DEF LedgerInv, Offset
<1>2. LedgerInv /\ [Next]_vars => LedgerInv'
  BY LedgerStep
<1>3. LedgerInv => LedgerNeverOverstates
  <2> SUFFICES ASSUME LedgerInv PROVE LedgerNeverOverstates
    OBVIOUS
  <2>1. \A state : Count(ledger, state) \in Nat
    BY RowsAreFinite DEF LedgerInv, RowsAreHeld
  <2>2. QED BY <2>1 DEF LedgerInv, Offset, LedgerNeverOverstates, Net
<1>4. QED BY <1>1, <1>2, <1>3, PTL DEF Spec

-----------------------------------------------------------------------------
(* Requests that do not overlap.                                             *)

PaidTxs == {t \in Txs : tx[t] = "paid"}
NonePaid == PaidTxs = {}
OnePaid == \E t \in Txs : PaidTxs = {t}

NoRows == \A r \in Rows : ledger[r] = "none"
OneActive == \E a \in Rows : ledger[a] = "active" /\ \A r \in Rows \ {a} : ledger[r] = "none"
OffsetPair ==
  \E a, b \in Rows : /\ a # b /\ ledger[a] = "reversed" /\ ledger[b] = "reversal"
                     /\ \A r \in Rows \ {a, b} : ledger[r] = "none"

Unpaid == {"ready_for_checkout", "awaiting_payment", "payment_under_review", "payment_rejected"}

\* What request x has read is so.
Reads(x) ==
  /\ x.seen = status
  /\ x.pc = "initiate" => status \in Payable /\ NonePaid
  /\ x.pc = "proof" => x.tx \in Txs /\ tx[x.tx] # "paid"
  /\ x.pc \in {"approve", "reject", "confirm"} => x.tx \in Txs /\ status = "payment_under_review"
  /\ x.pc \in {"refund", "cancel", "provider_cancel", "event"} =>
       status # "cancelled" /\ ActiveRow(x.row)
  /\ x.pc = "cancel" => x.due = PaidTxs
  /\ x.pc = "override" =>
       /\ x.target \in OverrideTargets
       /\ IF status = "cancelled" THEN x.row = 0 ELSE x.target = "cancelled" => ActiveRow(x.row)
  /\ x.pc = "confirmed" => status = "paid"

ReadsOK == \A s \in Sessions : se[s].pc # "idle" /\ ~se[s].stale => Reads(se[s])

Confirmed == \E s \in Sessions : se[s].pc = "confirmed"

\* The order, its payments and its ledger in step: the order is paid by one
\* transaction from its confirmation on, has its commission from the moment it
\* is queued, and loses it when it is cancelled by anyone but the carrier.
InStep ==
  /\ status \in Unpaid \cup {"paid", "cancelled"} \cup Earning
  /\ mirrored => status = "cancelled"
  /\ status \in Unpaid => NonePaid /\ NoRows
  /\ status = "paid" => OnePaid /\ NoRows /\ (dropped \/ Confirmed)
  /\ status \in Earning => OnePaid /\ OneActive
  /\ status = "cancelled" => IF mirrored THEN OneActive ELSE NoRows \/ OffsetPair

OrderOK == ~raced /\ OnlyCancels => InStep

PayInv == TypeOK /\ ReadsOK /\ OrderOK

\* What the table of transitions says of the statuses that matter here.
LEMMA Transitions ==
  /\ \A x : CanTransition(x, "paid") => x = "payment_under_review"
  /\ \A x : CanTransition(x, "payment_rejected") => x = "payment_under_review"
  /\ ~CanTransition("cancelled", "cancelled")
<1>1. ASSUME NEW x, x \in Statuses
      PROVE  /\ "paid" \in AllowedTransitions[x] => x = "payment_under_review"
             /\ "payment_rejected" \in AllowedTransitions[x] => x = "payment_under_review"
  BY <1>1 DEF Statuses, AllowedTransitions
<1>2. "cancelled" \notin AllowedTransitions["cancelled"]
  BY DEF AllowedTransitions
<1>3. QED BY <1>1, <1>2 DEF CanTransition

LEMMA KnownStatuses ==
  {"draft", "ready_for_checkout", "awaiting_payment", "payment_under_review", "payment_rejected",
   "paid", "dispatch_queued", "sent_to_carrier", "delivered", "cancelled"} \subseteq Statuses
BY DEF Statuses, AllowedTransitions

LEMMA IdleRequest ==
  Idle \in Requests /\ Idle.pc = "idle" /\ ~Idle.stale
BY PaymentsAssumption, KnownStatuses DEF PaymentsAssumption, Idle, Requests, Pcs

LEMMA NewRequest ==
  ASSUME TypeOK, NEW pc \in Pcs, NEW t \in 0..MaxTxs
  PROVE  LET x == Request(pc, t) IN
         /\ x \in Requests /\ x.pc = pc /\ x.seen = status /\ x.tx = t
         /\ ~x.stale
BY IdleRequest DEF Request, TypeOK, Requests

LEMMA AgedFacts ==
  ASSUME TypeOK
  PROVE  \A q \in Sessions : /\ Aged[q] \in Requests /\ Aged[q].pc = se[q].pc
                             /\ Aged[q].pc # "idle" => Aged[q].stale
<1> SUFFICES ASSUME NEW q \in Sessions
             PROVE  /\ Aged[q] \in Requests /\ Aged[q].pc = se[q].pc
                    /\ Aged[q].pc # "idle" => Aged[q].stale
  OBVIOUS
<1> DEFINE x == se[q]
           y == [x EXCEPT !.stale = TRUE]
<1>1. x \in Requests
  BY DEF TypeOK
<1>2. y \in Requests /\ y.pc = x.pc /\ y.stale
  BY <1>1 DEF Requests
<1>3. Aged[q] = IF x.pc = "idle" THEN x ELSE y
  BY DEF Aged
<1> HIDE DEF x, y
<1>4. QED BY <1>1, <1>2, <1>3 DEF x

\* A request begins with what is so.
LEMMA Begins ==
  ASSUME PayInv, NEW s \in Sessions, NEW x \in Requests, Begin(s, x), Reads(x)
  PROVE  PayInv'
<1>1. /\ se' = [se EXCEPT ![s] = x] /\ se[s].pc = "idle"
      /\ UNCHANGED <<status, tx, ledger, job, recorded, raced, dropped, mirrored>>
  BY DEF Begin, Db
<1>2. se' \in [Sessions -> Requests] /\ se'[s] = x /\ \A q \in Sessions \ {s} : se'[q] = se[q]
  BY <1>1 DEF PayInv, TypeOK
<1>3. TypeOK'
  BY <1>1, <1>2 DEF PayInv, TypeOK
<1>4. \A y : Reads(y) => Reads(y)'
  BY <1>1 DEF Reads, NonePaid, PaidTxs, ActiveRow
<1>5. ReadsOK'
  BY <1>2, <1>4 DEF PayInv, ReadsOK
<1>6. Confirmed => Confirmed'
  BY <1>1, <1>2 DEF Confirmed
<1>7. InStep => InStep'
  BY <1>1, <1>6 DEF InStep, NonePaid, OnePaid, PaidTxs, NoRows, OneActive, OffsetPair
<1>8. OrderOK'
  BY <1>1, <1>7 DEF PayInv, OrderOK
<1>9. QED BY <1>3, <1>5, <1>8 DEF PayInv

\* What a request that was not overlapped has read, when it commits.
LEMMA HasRead ==
  ASSUME PayInv, NEW s \in Sessions, se[s].pc # "idle", NEW x, Commit(s, x), ~raced'
  PROVE  ~raced /\ Reads(se[s]) /\ UNCHANGED mirrored
<1>1. raced' = (raced \/ se[s].stale)
  BY DEF Commit
<1>2. ~raced /\ ~se[s].stale
  BY <1>1
<1>3. QED BY <1>2 DEF PayInv, ReadsOK, Commit

\* A request commits: the others have read what is no longer so.
LEMMA Commits ==
  ASSUME PayInv, NEW s \in Sessions, NEW x \in Requests, Commit(s, x),
         x = Idle \/ Reads(x)',
         (status \in Statuses /\ tx \in [Txs -> TxStates] /\ ledger \in [Rows -> RowStates]
           /\ job \in [Jobs -> JobStates] /\ recorded \subseteq Events /\ dropped \in BOOLEAN)',
         ~raced' /\ OnlyCancels => InStep'
  PROVE  PayInv'
<1>1. se' = [Aged EXCEPT ![s] = x] /\ UNCHANGED mirrored /\ raced' = (raced \/ se[s].stale)
  BY DEF Commit
<1>2. \A q \in Sessions : Aged[q] \in Requests /\ (Aged[q].pc # "idle" => Aged[q].stale)
  BY AgedFacts DEF PayInv
<1>3. DOMAIN Aged = Sessions /\ Aged \in [Sessions -> Requests]
  BY <1>2 DEF Aged
<1>4. se' \in [Sessions -> Requests] /\ se'[s] = x /\ \A q \in Sessions \ {s} : se'[q] = Aged[q]
  BY <1>1, <1>3
<1>5. raced' \in BOOLEAN
  BY <1>1 DEF PayInv, TypeOK
<1>6. TypeOK'
  BY <1>1, <1>4, <1>5 DEF PayInv, TypeOK
<1>7. ReadsOK'
  BY <1>2, <1>4, IdleRequest DEF ReadsOK
<1>8. OrderOK'
  BY DEF OrderOK, OnlyCancels
<1>9. QED BY <1>6, <1>7, <1>8 DEF PayInv

\* The tables keep their types, whatever is written into them.
LEMMA PaymentsWritten ==
  ASSUME PayInv
  PROVE  /\ \A v \in TxStates : \A t : [tx EXCEPT ![t] = v] \in [Txs -> TxStates]
         /\ \A n : [ledger EXCEPT ![n] = "active"] \in [Rows -> RowStates]
         /\ \A r, n : [ledger EXCEPT ![r] = "reversed", ![n] = "reversal"] \in [Rows -> RowStates]
         /\ \A n : [job EXCEPT ![n] = "queued"] \in [Jobs -> JobStates]
         /\ \A n : [job EXCEPT ![n] = "completed"] \in [Jobs -> JobStates]
BY DEF PayInv, TypeOK, RowStates, JobStates

\* The ledger after a cancellation: what was active is offset.
LEMMA Reversed ==
  ASSUME PayInv, NEW r, ReverseCommission(r)
  PROVE  /\ ledger' \in [Rows -> RowStates]
         /\ NoRows /\ ActiveRow(r) => NoRows'
         /\ OneActive /\ ActiveRow(r) => OffsetPair'
<1>0. ledger \in [Rows -> RowStates]
  BY DEF PayInv, TypeOK
<1>1. ledger' \in [Rows -> RowStates]
  <2>1. CASE r = 0
    BY <1>0, <2>1 DEF ReverseCommission
  <2>2. CASE r # 0
    <3>1. PICK n \in Rows : ledger' = [ledger EXCEPT ![r] = "reversed", ![n] = "reversal"]
      BY <2>2 DEF ReverseCommission
    <3>2. QED BY <3>1, PaymentsWritten
  <2>3. QED BY <2>1, <2>2
<1>2. ASSUME NoRows, ActiveRow(r) PROVE NoRows'
  <2>1. ~ \E k \in Rows : ledger[k] = "active"
    BY <1>2 DEF NoRows
  <2>2. r = 0
    BY <1>2, <2>1 DEF ActiveRow
  <2>3. QED BY <1>2, <2>2 DEF ReverseCommission, NoRows
<1>3. ASSUME OneActive, ActiveRow(r) PROVE OffsetPair'
  <2>1. PICK a \in Rows : ledger[a] = "active" /\ \A k \in Rows \ {a} : ledger[k] = "none"
    BY <1>3 DEF OneActive
  <2>2. r = a
    BY <1>3, <2>1 DEF ActiveRow
  <2>3. r # 0
    BY <2>2 DEF Rows
  <2>4. PICK n \in Rows : ledger[n] = "none"
                          /\ ledger' = [ledger EXCEPT ![r] = "reversed", ![n] = "reversal"]
    BY <2>3 DEF ReverseCommission, IsNew
  <2>5. n # a
    BY <2>1, <2>4
  <2>6. ledger'[a] = "reversed" /\ ledger'[n] = "reversal"
        /\ \A k \in Rows \ {a, n} : ledger'[k] = "none"
    BY <1>0, <2>1, <2>2, <2>4, <2>5
  <2>7. QED BY <2>5, <2>6 DEF OffsetPair
<1>4. QED BY <1>1, <1>2, <1>3

\* The first row of the ledger.
LEMMA Recorded ==
  ASSUME PayInv, RecordCommission
  PROVE  ledger' \in [Rows -> RowStates] /\ (NoRows => OneActive')
<1>1. PICK n \in Rows : ledger[n] = "none" /\ ledger' = [ledger EXCEPT ![n] = "active"]
  BY DEF RecordCommission, IsNew
<1>2. ledger \in [Rows -> RowStates]
  BY DEF PayInv, TypeOK
<1>3. ASSUME NoRows PROVE OneActive'
  BY <1>1, <1>2, <1>3 DEF NoRows, OneActive
<1>4. QED BY <1>1, <1>2, <1>3, PaymentsWritten

-----------------------------------------------------------------------------
(* Requests begin.                                                           *)

LEMMA CustomerReads ==
  ASSUME PayInv, NEW s \in Sessions,
         InitiateRead(s) \/ (\E t \in Txs : ProofRead(s, t)) \/ CancelRead(s)
  PROVE  PayInv'
<1>0. Txs \subseteq 0..MaxTxs /\ 0 \in 0..MaxTxs
  BY PaymentsAssumption DEF PaymentsAssumption, Txs
<1>1. CASE InitiateRead(s)
  <2> DEFINE x == Request("initiate", 0)
  <2>1. x \in Requests /\ x.pc = "initiate" /\ x.seen = status
    BY <1>0, NewRequest DEF PayInv, Pcs
  <2>2. Begin(s, x) /\ status \in Payable /\ NonePaid
    BY <1>1 DEF InitiateRead, NonePaid, PaidTxs
  <2> HIDE DEF x
  <2>3. Reads(x)
    BY <2>1, <2>2 DEF Reads
  <2>4. QED BY <2>1, <2>2, <2>3, Begins
<1>2. ASSUME NEW t \in Txs, ProofRead(s, t) PROVE PayInv'
  <2> DEFINE x == Request("proof", t)
  <2>1. x \in Requests /\ x.pc = "proof" /\ x.seen = status /\ x.tx = t
    BY <1>0, NewRequest DEF PayInv, Pcs
  <2>2. Begin(s, x) /\ tx[t] # "paid"
    BY <1>2 DEF ProofRead
  <2> HIDE DEF x
  <2>3. Reads(x)
    BY <2>1, <2>2 DEF Reads
  <2>4. QED BY <2>1, <2>2, <2>3, Begins
<1>3. CASE CancelRead(s)
  <2> DEFINE z == Request("cancel", 0)
             open == {t \in Txs : /\ status \in UnpaidCancellable
                                  /\ tx[t] \in {"awaiting_payment", "payment_rejected"}}
             due == {t \in Txs : tx[t] = "paid"}
             jobs == {j \in Jobs : status \in InQueue /\ job[j] = "queued"}
  <2>1. z \in Requests /\ z.pc = "cancel" /\ z.seen = status
    BY <1>0, NewRequest DEF PayInv, Pcs
  <2>2. PICK r \in 0..MaxRows :
          /\ ActiveRow(r)
          /\ Begin(s, [z EXCEPT !.row = r, !.open = open, !.due = due, !.jobs = jobs])
    BY <1>3 DEF CancelRead
  <2>3. status # "cancelled"
    BY <1>3 DEF CancelRead, UnpaidCancellable, Cancellable
  <2>4. open \subseteq Txs /\ due \subseteq Txs /\ jobs \subseteq Jobs /\ due = PaidTxs
    BY DEF PaidTxs
  <2> HIDE DEF z, open, due, jobs
  <2> DEFINE x == [z EXCEPT !.row = r, !.open = open, !.due = due, !.jobs = jobs]
  <2>5. x \in Requests /\ x.pc = "cancel" /\ x.seen = status /\ x.row = r /\ x.due = due
    BY <2>1, <2>4 DEF Requests
  <2> HIDE DEF x
  <2>6. Reads(x)
    BY <2>2, <2>3, <2>4, <2>5 DEF Reads
  <2>7. Begin(s, x)
    BY <2>2 DEF x
  <2>8. QED BY <2>5, <2>6, <2>7, Begins
<1>4. QED BY <1>1, <1>2, <1>3

\* A request that is to cancel has found the active row.
LEMMA CancellerReads ==
  ASSUME PayInv, NEW s \in Sessions, NEW t \in 0..MaxTxs, NEW r \in 0..MaxRows, ActiveRow(r),
         NEW pc \in {"refund", "provider_cancel", "event"}, status # "cancelled",
         NEW ev \in SUBSET Events,
         \/ Begin(s, [Request(pc, t) EXCEPT !.row = r])
         \/ Begin(s, [Request(pc, t) EXCEPT !.row = r, !.ev = ev])
  PROVE  PayInv'
<1> DEFINE z == Request(pc, t)
<1>1. z \in Requests /\ z.pc = pc /\ z.seen = status
  BY NewRequest DEF PayInv, Pcs
<1> HIDE DEF z
<1> DEFINE x == [z EXCEPT !.row = r]
           y == [z EXCEPT !.row = r, !.ev = ev]
<1>2. x \in Requests /\ x.pc = pc /\ x.seen = status /\ x.row = r
  BY <1>1 DEF Requests
<1>3. y \in Requests /\ y.pc = pc /\ y.seen = status /\ y.row = r
  BY <1>1 DEF Requests
<1>4. Begin(s, x) \/ Begin(s, y)
  BY DEF z
<1> HIDE DEF x, y
<1>5. Reads(x) /\ Reads(y)
  BY <1>2, <1>3 DEF Reads
<1>6. QED BY <1>2, <1>3, <1>4, <1>5, Begins

LEMMA StaffReads ==
  ASSUME PayInv, NEW s \in Sessions,
         \/ \E t \in Txs : ApproveRead(s, t) \/ RejectRead(s, t) \/ RefundRead(s, t)
         \/ \E target \in OverrideTargets : OverrideRead(s, target)
         \/ EventRead(s)
  PROVE  PayInv'
<1>0. Txs \subseteq 0..MaxTxs /\ 0 \in 0..MaxTxs /\ OverrideTargets \subseteq Statuses
  BY PaymentsAssumption DEF PaymentsAssumption, Txs
<1>1. ASSUME NEW t \in Txs, ApproveRead(s, t) \/ RejectRead(s, t) PROVE PayInv'
  <2>1. PICK pc \in {"approve", "reject"} : Begin(s, Request(pc, t))
    BY <1>1 DEF ApproveRead, RejectRead
  <2> DEFINE x == Request(pc, t)
  <2>2. x \in Requests /\ x.pc = pc /\ x.seen = status /\ x.tx = t
    BY <1>0, NewRequest DEF PayInv, Pcs
  <2>3. status = "payment_under_review"
    BY <1>1, Transitions DEF ApproveRead, RejectRead
  <2>4. Begin(s, x)
    BY <2>1
  <2> HIDE DEF x
  <2>5. Reads(x)
    BY <2>2, <2>3 DEF Reads
  <2>6. QED BY <2>2, <2>4, <2>5, Begins
<1>2. ASSUME NEW t \in Txs, RefundRead(s, t) PROVE PayInv'
  <2>1. PICK r \in 0..MaxRows : ActiveRow(r) /\ Begin(s, [Request("refund", t) EXCEPT !.row = r])
    BY <1>2 DEF RefundRead
  <2>2. status # "cancelled" /\ {} \in SUBSET Events
    BY <1>2, Transitions DEF RefundRead
  <2>3. QED BY <1>0, <2>1, <2>2, CancellerReads
<1>3. CASE EventRead(s)
  <2>1. PICK r \in 0..MaxRows : ActiveRow(r) /\ Begin(s, [Request("event", 0) EXCEPT !.row = r])
    BY <1>3 DEF EventRead
  <2>2. status # "cancelled" /\ {} \in SUBSET Events
    BY <1>3, Transitions DEF EventRead
  <2>3. QED BY <1>0, <2>1, <2>2, CancellerReads
<1>4. ASSUME NEW target \in OverrideTargets, OverrideRead(s, target) PROVE PayInv'
  <2> DEFINE z == Request("override", 0)
  <2>1. z \in Requests /\ z.pc = "override" /\ z.seen = status
    BY <1>0, NewRequest DEF PayInv, Pcs
  <2>2. PICK r \in 0..MaxRows :
          /\ IF target = "cancelled" /\ status # "cancelled" THEN ActiveRow(r) ELSE r = 0
          /\ Begin(s, [z EXCEPT !.row = r, !.target = target])
    BY <1>4 DEF OverrideRead
  <2> HIDE DEF z
  <2> DEFINE x == [z EXCEPT !.row = r, !.target = target]
  <2>3. x \in Requests /\ x.pc = "override" /\ x.seen = status /\ x.row = r /\ x.target = target
    BY <1>0, <2>1 DEF Requests
  <2>4. Begin(s, x)
    BY <2>2
  <2> HIDE DEF x
  <2>5. Reads(x)
    BY <2>2, <2>3 DEF Reads
  <2>6. QED BY <2>3, <2>4, <2>5, Begins
<1>5. QED BY <1>1, <1>2, <1>3, <1>4

LEMMA ProviderReads ==
  ASSUME PayInv, NEW s \in Sessions, NEW e \in Events, ConfirmRead(s, e) \/ ProviderCancelRead(s, e)
  PROVE  PayInv'
<1>0. Txs \subseteq 0..MaxTxs /\ 0 \in 0..MaxTxs
  BY PaymentsAssumption DEF PaymentsAssumption, Txs
<1>1. CASE ConfirmRead(s, e)
  <2>1. PICK t \in Txs : Begin(s, [Request("confirm", t) EXCEPT !.ev = {e}])
    BY <1>1 DEF ConfirmRead
  <2> DEFINE z == Request("confirm", t)
  <2>2. z \in Requests /\ z.pc = "confirm" /\ z.seen = status /\ z.tx = t
    BY <1>0, NewRequest DEF PayInv, Pcs
  <2> HIDE DEF z
  <2> DEFINE x == [z EXCEPT !.ev = {e}]
  <2>3. x \in Requests /\ x.pc = "confirm" /\ x.seen = status /\ x.tx = t
    BY <2>2 DEF Requests
  <2>4. Begin(s, x)
    BY <2>1 DEF z
  <2>5. status = "payment_under_review"
    BY <1>1, Transitions DEF ConfirmRead
  <2> HIDE DEF x
  <2>6. Reads(x)
    BY <2>3, <2>5 DEF Reads
  <2>7. QED BY <2>3, <2>4, <2>6, Begins
<1>2. CASE ProviderCancelRead(s, e)
  <2>1. PICK r \in 0..MaxRows :
          ActiveRow(r) /\ Begin(s, [Request("provider_cancel", 0) EXCEPT !.row = r, !.ev = {e}])
    BY <1>2 DEF ProviderCancelRead
  <2>2. status # "cancelled" /\ {e} \in SUBSET Events
    BY <1>2, Transitions DEF ProviderCancelRead
  <2>3. QED BY <1>0, <2>1, <2>2, CancellerReads
<1>3. QED BY <1>1, <1>2

-----------------------------------------------------------------------------
(* Requests commit.                                                          *)

\* What a commit may write that is not the ledger, with its type.
LEMMA PayTypes ==
  ASSUME PayInv
  PROVE  /\ status \in Statuses /\ tx \in [Txs -> TxStates] /\ ledger \in [Rows -> RowStates]
         /\ job \in [Jobs -> JobStates] /\ recorded \subseteq Events
         /\ dropped \in BOOLEAN /\ raced \in BOOLEAN /\ mirrored \in BOOLEAN
         /\ se \in [Sessions -> Requests]
BY DEF PayInv, TypeOK

\* A payment is opened, proved or rejected: the order is not paid, and its
\* ledger is as it was.
LEMMA OpenCommits ==
  ASSUME PayInv, NEW s \in Sessions, InitiateWrite(s) \/ ProofWrite(s) \/ RejectWrite(s)
  PROVE  PayInv'
<1>1. /\ Commit(s, Idle) /\ UNCHANGED <<ledger, job, recorded, dropped>> /\ se[s].pc # "idle"
      /\ se[s].pc \in {"initiate", "proof", "reject"}
  BY DEF InitiateWrite, ProofWrite, RejectWrite
<1>2. PICK t \in 0..MaxTxs, v \in {"awaiting_payment", "payment_under_review", "payment_rejected"} :
        /\ tx' = [tx EXCEPT ![t] = v]
        /\ se[s].pc = "initiate" => t \in Txs /\ tx[t] = "none"
        /\ se[s].pc # "initiate" => t = se[s].tx
  <2>0. Txs \subseteq 0..MaxTxs /\ se[s].tx \in 0..MaxTxs
    BY PaymentsAssumption, PayTypes DEF PaymentsAssumption, Txs, Requests
  <2>1. CASE InitiateWrite(s)
    <3>1. PICK k \in Txs : tx[k] = "none" /\ tx' = [tx EXCEPT ![k] = "awaiting_payment"]
      BY <2>1 DEF InitiateWrite, IsNew
    <3>2. QED BY <2>0, <2>1, <3>1 DEF InitiateWrite
  <2>2. CASE ProofWrite(s) \/ RejectWrite(s)
    BY <2>0, <2>2 DEF ProofWrite, RejectWrite
  <2>3. QED BY <2>1, <2>2
<1>3. status' \in Statuses /\ tx' \in [Txs -> TxStates]
  <2>1. status' \in {status, "awaiting_payment", "payment_under_review", "payment_rejected"}
    BY DEF InitiateWrite, ProofWrite, RejectWrite
  <2>2. v \in TxStates
    BY DEF TxStates
  <2>3. QED BY <1>2, <2>1, <2>2, PayTypes, PaymentsWritten, KnownStatuses
<1>4. ASSUME ~raced', OnlyCancels PROVE InStep'
  <2>1. InStep /\ Reads(se[s]) /\ UNCHANGED mirrored
    BY <1>1, <1>4, HasRead DEF PayInv, OrderOK
  <2>2. t \in Txs /\ tx[t] # "paid"
    <3>1. CASE se[s].pc = "initiate"
      BY <1>2, <3>1
    <3>2. CASE se[s].pc = "proof"
      BY <1>2, <2>1, <3>2 DEF Reads
    <3>3. CASE se[s].pc = "reject"
      BY <1>2, <2>1, <3>3 DEF Reads, InStep, NonePaid, PaidTxs, Unpaid
    <3>4. QED BY <1>1, <3>1, <3>2, <3>3
  <2>3. PaidTxs' = PaidTxs
    BY <1>2, <2>2, PayTypes DEF PaidTxs
  <2>4. status' = status \/ (status \in Unpaid /\ status' \in Unpaid)
    <3>1. CASE InitiateWrite(s)
      BY <2>1, <3>1 DEF InitiateWrite, Reads, Payable, Unpaid
    <3>2. CASE ProofWrite(s)
      BY <2>1, <3>2 DEF ProofWrite, Reads, Unpaid
    <3>3. CASE RejectWrite(s)
      BY <2>1, <3>3 DEF RejectWrite, Reads, Unpaid
    <3>4. QED BY <3>1, <3>2, <3>3
  <2>5. Confirmed => Confirmed'
    <3>1. se' = [Aged EXCEPT ![s] = Idle] /\ DOMAIN Aged = Sessions
      BY <1>1 DEF Commit, Aged
    <3>2. \A q \in Sessions : q # s => se'[q].pc = se[q].pc
      BY <3>1, AgedFacts DEF PayInv
    <3>3. QED BY <1>1, <3>2 DEF Confirmed
  <2>6. UNCHANGED ledger /\ (NoRows' <=> NoRows) /\ (OneActive' <=> OneActive) /\ (OffsetPair' <=> OffsetPair)
    BY <1>1 DEF NoRows, OneActive, OffsetPair
  <2>7. (NonePaid' <=> NonePaid) /\ (OnePaid' <=> OnePaid)
    BY <2>3 DEF NonePaid, OnePaid
  <2>8. CASE status' = status
    BY <1>1, <2>1, <2>5, <2>6, <2>7, <2>8 DEF InStep
  <2>9. CASE status \in Unpaid /\ status' \in Unpaid
    BY <2>1, <2>6, <2>7, <2>9 DEF InStep, Unpaid, Earning
  <2>10. QED BY <2>4, <2>8, <2>9
<1>5. QED BY <1>1, <1>3, <1>4, IdleRequest, PayTypes, Commits

\* A payment is approved: the order is queued.
LEMMA ApproveCommits ==
  ASSUME PayInv, NEW s \in Sessions, ApproveWrite(s)
  PROVE  PayInv'
<1>1. /\ Commit(s, Idle) /\ UNCHANGED <<recorded, dropped>> /\ se[s].pc = "approve"
      /\ RecordCommission /\ tx' = [tx EXCEPT ![se[s].tx] = "paid"] /\ status' = "dispatch_queued"
      /\ \E j \in Jobs : job' = [job EXCEPT ![j] = "queued"]
  BY DEF ApproveWrite
<1>2. status' \in Statuses /\ tx' \in [Txs -> TxStates] /\ ledger' \in [Rows -> RowStates]
      /\ job' \in [Jobs -> JobStates]
  <2>1. "paid" \in TxStates
    BY DEF TxStates
  <2>2. QED BY <1>1, <2>1, PaymentsWritten, Recorded, KnownStatuses
<1>3. ASSUME ~raced', OnlyCancels PROVE InStep'
  <2>1. InStep /\ Reads(se[s]) /\ UNCHANGED mirrored
    BY <1>1, <1>3, HasRead DEF PayInv, OrderOK
  <2>2. status = "payment_under_review" /\ se[s].tx \in Txs /\ NonePaid /\ NoRows
    BY <1>1, <2>1 DEF Reads, InStep, Unpaid
  <2>3. OneActive'
    BY <1>1, <2>2, Recorded
  <2>4. OnePaid'
    <3> DEFINE t == se[s].tx
    <3>1. PaidTxs' = {k \in Txs : tx'[k] = "paid"} /\ tx'[t] = "paid" /\ t \in Txs
          /\ \A k \in Txs : k # t => tx'[k] = tx[k]
      BY <1>1, <2>2, PayTypes DEF PaidTxs
    <3> HIDE DEF t
    <3>2. PaidTxs' = {t}
      BY <2>2, <3>1 DEF NonePaid, PaidTxs
    <3>3. QED BY <3>1, <3>2 DEF OnePaid
  <2>5. ~mirrored
    BY <2>1, <2>2 DEF InStep
  <2>6. QED BY <1>1, <2>1, <2>3, <2>4, <2>5, PayTypes DEF InStep, Earning, Unpaid
<1>4. QED BY <1>1, <1>2, <1>3, IdleRequest, PayTypes, Commits

\* A cancellation, by whoever makes it.
LEMMA CancelCommits ==
  ASSUME PayInv, NEW s \in Sessions,
         \/ RefundWrite(s) \/ CancelWrite(s) \/ ProviderCancelWrite(s) \/ EventWrite(s)
  PROVE  PayInv'
<1>1. /\ Commit(s, Idle) /\ UNCHANGED dropped
      /\ se[s].pc \in {"refund", "cancel", "provider_cancel", "event"} /\ se[s].pc # "idle"
      /\ ReverseCommission(se[s].row) /\ status' = "cancelled"
  BY DEF RefundWrite, CancelWrite, ProviderCancelWrite, EventWrite
<1>2. status' \in Statuses /\ ledger' \in [Rows -> RowStates]
  BY <1>1, Reversed, KnownStatuses
<1>3. tx' \in [Txs -> TxStates] /\ job' \in [Jobs -> JobStates] /\ recorded' \subseteq Events
  <2>0. {"refunded", "cancelled", "refund_pending"} \subseteq TxStates /\ "cancelled" \in JobStates
    BY DEF TxStates, JobStates
  <2>1. CASE RefundWrite(s)
    BY <2>0, <2>1, PaymentsWritten, PayTypes DEF RefundWrite
  <2>2. CASE CancelWrite(s)
    BY <2>0, <2>2, PayTypes DEF CancelWrite
  <2>3. CASE ProviderCancelWrite(s)
    BY <2>3, PayTypes DEF ProviderCancelWrite, Requests
  <2>4. CASE EventWrite(s)
    BY <2>4, PayTypes DEF EventWrite
  <2>5. QED BY <2>1, <2>2, <2>3, <2>4
<1>4. ASSUME ~raced', OnlyCancels PROVE InStep'
  <2>1. InStep /\ Reads(se[s]) /\ UNCHANGED mirrored
    BY <1>1, <1>4, HasRead DEF PayInv, OrderOK
  <2>2. status # "cancelled" /\ ActiveRow(se[s].row)
    BY <1>1, <2>1 DEF Reads
  <2>3. NoRows' \/ OffsetPair'
    BY <1>1, <2>1, <2>2, Reversed DEF InStep
  <2>4. QED BY <1>1, <2>1, <2>2, <2>3 DEF InStep, Unpaid, Earning
<1>5. QED BY <1>1, <1>2, <1>3, <1>4, IdleRequest, PayTypes, Commits

LEMMA OverrideCommits ==
  ASSUME PayInv, NEW s \in Sessions, OverrideWrite(s)
  PROVE  PayInv'
<1>1. /\ Commit(s, Idle) /\ UNCHANGED <<tx, job, recorded, dropped>> /\ se[s].pc = "override"
      /\ ReverseCommission(se[s].row)
      /\ status' = IF se[s].seen = se[s].target THEN status ELSE se[s].target
  BY DEF OverrideWrite
<1>2. status' \in Statuses
  BY <1>1, PayTypes DEF Requests
<1>3. ledger' \in [Rows -> RowStates]
  BY <1>1, Reversed
<1>4. ASSUME ~raced', OnlyCancels PROVE InStep'
  <2>1. InStep /\ Reads(se[s]) /\ UNCHANGED mirrored
    BY <1>1, <1>4, HasRead DEF PayInv, OrderOK
  <2>2. se[s].target = "cancelled" /\ se[s].seen = status
    BY <1>1, <1>4, <2>1 DEF Reads, OnlyCancels
  <2>3. status' = "cancelled"
    BY <1>1, <2>2
  <2>4. CASE status = "cancelled"
    <3>1. ledger' = ledger
      BY <1>1, <2>1, <2>4 DEF Reads, ReverseCommission
    <3>2. (NoRows' <=> NoRows) /\ (OneActive' <=> OneActive) /\ (OffsetPair' <=> OffsetPair)
      BY <3>1 DEF NoRows, OneActive, OffsetPair
    <3>3. QED BY <2>1, <2>3, <2>4, <3>2 DEF InStep, Unpaid, Earning
  <2>5. CASE status # "cancelled"
    <3>1. ActiveRow(se[s].row)
      BY <1>1, <2>1, <2>2, <2>5 DEF Reads
    <3>2. NoRows' \/ OffsetPair'
      BY <1>1, <2>1, <2>5, <3>1, Reversed DEF InStep
    <3>3. QED BY <2>1, <2>3, <2>5, <3>2 DEF InStep, Unpaid, Earning
  <2>6. QED BY <2>4, <2>5
<1>5. QED BY <1>1, <1>2, <1>3, <1>4, IdleRequest, PayTypes, Commits

\* The provider's confirmation: first the payment, then the job.
LEMMA ConfirmCommits ==
  ASSUME PayInv, NEW s \in Sessions, ConfirmWrite(s)
  PROVE  PayInv'
<1> DEFINE x == [Idle EXCEPT !.pc = "confirmed", !.seen = "paid", !.tx = se[s].tx]
<1>1. /\ Commit(s, x) /\ UNCHANGED <<ledger, job, dropped>> /\ se[s].pc = "confirm"
      /\ tx' = [tx EXCEPT ![se[s].tx] = "paid"] /\ status' = "paid"
      /\ recorded' = recorded \cup se[s].ev
  BY DEF ConfirmWrite
<1>2. x \in Requests /\ x.pc = "confirmed" /\ x.seen = "paid"
  <2>1. se[s].tx \in 0..MaxTxs
    BY PayTypes DEF Requests
  <2> DEFINE t == se[s].tx
  <2> HIDE DEF t
  <2>2. [Idle EXCEPT !.pc = "confirmed", !.seen = "paid", !.tx = t] \in Requests
        /\ [Idle EXCEPT !.pc = "confirmed", !.seen = "paid", !.tx = t].pc = "confirmed"
        /\ [Idle EXCEPT !.pc = "confirmed", !.seen = "paid", !.tx = t].seen = "paid"
    BY <2>1, IdleRequest, KnownStatuses DEF Requests, Pcs, t
  <2>3. QED BY <2>2 DEF t
<1> HIDE DEF x
<1>3. status' \in Statuses /\ tx' \in [Txs -> TxStates] /\ recorded' \subseteq Events
  <2>1. "paid" \in TxStates
    BY DEF TxStates
  <2>2. se[s].ev \subseteq Events
    BY PayTypes DEF Requests
  <2>3. QED BY <1>1, <2>1, <2>2, PaymentsWritten, PayTypes, KnownStatuses
<1>4. \A y : y = x => (Reads(y))'
  BY <1>1, <1>2 DEF Reads
<1>5. ASSUME ~raced', OnlyCancels PROVE InStep'
  <2>1. InStep /\ Reads(se[s]) /\ UNCHANGED mirrored
    BY <1>1, <1>5, HasRead DEF PayInv, OrderOK
  <2>2. status = "payment_under_review" /\ se[s].tx \in Txs /\ NonePaid /\ NoRows
    BY <1>1, <2>1 DEF Reads, InStep, Unpaid
  <2>3. NoRows'
    BY <1>1, <2>2 DEF NoRows
  <2>4. OnePaid'
    <3> DEFINE t == se[s].tx
    <3>1. PaidTxs' = {k \in Txs : tx'[k] = "paid"} /\ tx'[t] = "paid" /\ t \in Txs
          /\ \A k \in Txs : k # t => tx'[k] = tx[k]
      BY <1>1, <2>2, PayTypes DEF PaidTxs
    <3> HIDE DEF t
    <3>2. PaidTxs' = {t}
      BY <2>2, <3>1 DEF NonePaid, PaidTxs
    <3>3. QED BY <3>1, <3>2 DEF OnePaid
  <2>5. ~mirrored
    BY <2>1, <2>2 DEF InStep
  <2>6. Confirmed'
    <3>1. se' = [Aged EXCEPT ![s] = x] /\ DOMAIN Aged = Sessions
      BY <1>1 DEF Commit, Aged
    <3>2. QED BY <1>2, <3>1 DEF Confirmed
  <2>7. QED BY <1>1, <2>1, <2>3, <2>4, <2>5, <2>6 DEF InStep, Earning, Unpaid
<1>6. QED BY <1>1, <1>2, <1>3, <1>4, <1>5, PayTypes, Commits

LEMMA QueueCommits ==
  ASSUME PayInv, NEW s \in Sessions, ConfirmQueue(s)
  PROVE  PayInv'
<1>1. /\ Commit(s, Idle) /\ UNCHANGED <<tx, recorded, dropped>> /\ se[s].pc = "confirmed"
      /\ RecordCommission /\ status' = "dispatch_queued"
      /\ \E j \in Jobs : job' = [job EXCEPT ![j] = "queued"]
  BY DEF ConfirmQueue
<1>2. status' \in Statuses /\ ledger' \in [Rows -> RowStates] /\ job' \in [Jobs -> JobStates]
  BY <1>1, PaymentsWritten, Recorded, KnownStatuses
<1>3. ASSUME ~raced', OnlyCancels PROVE InStep'
  <2>1. InStep /\ Reads(se[s]) /\ UNCHANGED mirrored
    BY <1>1, <1>3, HasRead DEF PayInv, OrderOK
  <2>2. status = "paid" /\ OnePaid /\ NoRows /\ ~mirrored
    BY <1>1, <2>1 DEF Reads, InStep
  <2>3. OneActive' /\ OnePaid'
    BY <1>1, <2>2, Recorded DEF OnePaid, PaidTxs
  <2>4. QED BY <1>1, <2>1, <2>2, <2>3 DEF InStep, Earning, Unpaid
<1>4. QED BY <1>1, <1>2, <1>3, IdleRequest, PayTypes, Commits

\* A confirmation dies between its commits; the order stays paid.
LEMMA ConfirmationDies ==
  ASSUME PayInv, NEW s \in Sessions, ConfirmDies(s)
  PROVE  PayInv'
<1>1. /\ dropped' = TRUE /\ se' = [se EXCEPT ![s] = Idle]
      /\ UNCHANGED <<status, tx, ledger, job, recorded, raced, mirrored>>
  BY DEF ConfirmDies, Db
<1>2. TypeOK'
  BY <1>1, IdleRequest DEF PayInv, TypeOK
<1>3. \A x : Reads(x) => Reads(x)'
  BY <1>1 DEF Reads, NonePaid, PaidTxs, ActiveRow
<1>4. ReadsOK'
  BY <1>1, <1>3, IdleRequest, PayTypes DEF PayInv, ReadsOK
<1>5. InStep => InStep'
  BY <1>1 DEF InStep, NonePaid, OnePaid, PaidTxs, NoRows, OneActive, OffsetPair
<1>6. QED BY <1>1, <1>2, <1>4, <1>5 DEF PayInv, OrderOK

\* A request gives up; it was not a confirmed one.
LEMMA Abandons ==
  ASSUME PayInv, NEW s \in Sessions, Abandon(s)
  PROVE  PayInv'
<1>1. /\ se' = [se EXCEPT ![s] = Idle] /\ se[s].pc # "confirmed"
      /\ UNCHANGED <<status, tx, ledger, job, recorded, raced, dropped, mirrored>>
  BY DEF Abandon, Db
<1>2. TypeOK'
  BY <1>1, IdleRequest DEF PayInv, TypeOK
<1>3. \A x : Reads(x) => Reads(x)'
  BY <1>1 DEF Reads, NonePaid, PaidTxs, ActiveRow
<1>4. ReadsOK'
  BY <1>1, <1>3, IdleRequest, PayTypes DEF PayInv, ReadsOK
<1>5. Confirmed => Confirmed'
  BY <1>1, PayTypes DEF Confirmed
<1>6. InStep => InStep'
  BY <1>1, <1>5 DEF InStep, NonePaid, OnePaid, PaidTxs, NoRows, OneActive, OffsetPair
<1>7. QED BY <1>1, <1>2, <1>4, <1>6 DEF PayInv, OrderOK

LEMMA EventIgnored ==
  ASSUME PayInv, (\E e \in Events : IgnoreEvent(e)) \/ UNCHANGED vars
  PROVE  PayInv'
<1>1. /\ UNCHANGED <<status, tx, ledger, job, se, raced, dropped, mirrored>>
      /\ recorded' \subseteq Events
  BY DEF PayInv, TypeOK, IgnoreEvent, vars
<1>2. TypeOK'
  BY <1>1 DEF PayInv, TypeOK
<1>3. ReadsOK'
  BY <1>1 DEF PayInv, ReadsOK, Reads, NonePaid, PaidTxs, ActiveRow
<1>4. OrderOK'
  BY <1>1 DEF PayInv, OrderOK, InStep, NonePaid, OnePaid, PaidTxs, NoRows, OneActive,
              OffsetPair, Confirmed
<1>5. QED BY <1>2, <1>3, <1>4 DEF PayInv

\* The parcel moves; what requests have read of the order is no longer so.
LEMMA ParcelMoves ==
  ASSUME PayInv, Ship \/ Deliver \/ CarrierCancels
  PROVE  PayInv'
<1>1. /\ se' = Aged /\ UNCHANGED <<tx, ledger, recorded, raced, dropped>>
      /\ status \in Earning
      /\ \/ status' \in Earning /\ UNCHANGED mirrored
         \/ status' = "cancelled" /\ mirrored'
  BY DEF Ship, Deliver, CarrierCancels, Earning
<1>2. status' \in Statuses /\ mirrored' \in BOOLEAN
  BY PayTypes, KnownStatuses DEF Ship, Deliver, CarrierCancels
<1>3. job' \in [Jobs -> JobStates]
  BY PayTypes, PaymentsWritten DEF Ship, Deliver, CarrierCancels
<1>4. \A q \in Sessions : se'[q] \in Requests /\ (se'[q].pc # "idle" => se'[q].stale)
  BY <1>1, AgedFacts DEF PayInv
<1>5. se' \in [Sessions -> Requests]
  BY <1>1, <1>4 DEF Aged
<1>6. TypeOK'
  BY <1>1, <1>2, <1>3, <1>5 DEF PayInv, TypeOK
<1>7. ReadsOK'
  BY <1>4 DEF ReadsOK
<1>8. InStep => InStep'
  <2> SUFFICES ASSUME InStep PROVE InStep'
    OBVIOUS
  <2>1. OnePaid' /\ OneActive' /\ ~mirrored
    BY <1>1 DEF InStep, Earning, OnePaid, PaidTxs, OneActive
  <2>2. QED BY <1>1, <2>1 DEF InStep, Unpaid, Earning
<1>9. QED BY <1>1, <1>6, <1>7, <1>8 DEF PayInv, OrderOK

LEMMA PayStep ==
  ASSUME PayInv, [Next]_vars
  PROVE  PayInv'
<1>1. ASSUME NEW s \in Sessions, Customer(s) PROVE PayInv'
  BY <1>1, CustomerReads, OpenCommits, CancelCommits DEF Customer
<1>2. ASSUME NEW s \in Sessions, Staff(s) PROVE PayInv'
  BY <1>2, StaffReads, OpenCommits, ApproveCommits, CancelCommits, OverrideCommits DEF Staff
<1>3. ASSUME NEW s \in Sessions, Provider(s) PROVE PayInv'
  BY <1>3, ProviderReads, ConfirmCommits, QueueCommits, ConfirmationDies, CancelCommits
     DEF Provider
<1>4. QED BY <1>1, <1>2, <1>3, Abandons, EventIgnored, ParcelMoves DEF Next

LEMMA PayInit ==
  ASSUME Init
  PROVE  PayInv
<1>1. TypeOK
  BY KnownStatuses, IdleRequest DEF Init, TypeOK, TxStates, RowStates, JobStates
<1>2. ReadsOK
  BY IdleRequest DEF Init, ReadsOK
<1>3. NonePaid /\ NoRows
  BY DEF Init, NonePaid, PaidTxs, NoRows
<1>4. InStep
  BY <1>3 DEF Init, InStep, Unpaid, Earning
<1>5. QED BY <1>1, <1>2, <1>4 DEF PayInv, OrderOK

-----------------------------------------------------------------------------
(* What the order, its payments and its ledger say of one another.           *)

\* Every variable of the payment service keeps its type.
THEOREM TypeOKAlways == Spec => []TypeOK
<1>1. Init => PayInv
  BY PayInit
<1>2. PayInv /\ [Next]_vars => PayInv'
  BY PayStep
<1>3. PayInv => TypeOK
  BY DEF PayInv
<1>4. QED BY <1>1, <1>2, <1>3, PTL DEF Spec

LEMMA PaidCount ==
  ASSUME TypeOK
  PROVE  (NonePaid => Count(tx, "paid") = 0) /\ (OnePaid => Count(tx, "paid") = 1)
<1>1. Count(tx, "paid") = Cardinality(PaidTxs)
  BY DEF TypeOK, Count, PaidTxs
<1>2. NonePaid => Cardinality(PaidTxs) = 0
  BY FS_EmptySet DEF NonePaid
<1>3. OnePaid => Cardinality(PaidTxs) = 1
  BY FS_Singleton DEF OnePaid
<1>4. QED BY <1>1, <1>2, <1>3

\* An order that is queued, sent or delivered is paid for, once, if no request
\* overlapped another (admin_approve and system_confirm_payment).
THEOREM DispatchedIsPaidOnceAlways == Spec => []DispatchedIsPaidOnce
<1>1. Init => PayInv
  BY PayInit
<1>2. PayInv /\ [Next]_vars => PayInv'
  BY PayStep
<1>3. PayInv => DispatchedIsPaidOnce
  BY PaidCount DEF PayInv, OrderOK, InStep, DispatchedIsPaidOnce
<1>4. QED BY <1>1, <1>2, <1>3, PTL DEF Spec

\* A paid order is being queued, unless the request that confirmed the payment
\* died between its commits (the webhook's two transactions).
THEOREM PaidIsBeingQueuedAlways == Spec => []PaidIsBeingQueued
<1>1. Init => PayInv
  BY PayInit
<1>2. PayInv /\ [Next]_vars => PayInv'
  BY PayStep
<1>3. PayInv => PaidIsBeingQueued
  BY DEF PayInv, OrderOK, InStep, Confirmed, PaidIsBeingQueued
<1>4. QED BY <1>1, <1>2, <1>3, PTL DEF Spec

LEMMA RowCount ==
  ASSUME TypeOK
  PROVE  (NoRows \/ OffsetPair => Net = 0) /\ (OneActive => Net = 1)
<1> DEFINE A == {r \in Rows : ledger[r] = "active"}
           R == {r \in Rows : ledger[r] = "reversed"}
           S == {r \in Rows : ledger[r] = "reversal"}
<1>1. Net = Cardinality(A) + Cardinality(R) - Cardinality(S)
  BY DEF TypeOK, Net, Count
<1>2. ASSUME NoRows PROVE Net = 0
  <2>1. A = {} /\ R = {} /\ S = {}
    BY <1>2 DEF NoRows
  <2> HIDE DEF A, R, S
  <2>2. QED BY <1>1, <2>1, FS_EmptySet
<1>3. ASSUME OffsetPair PROVE Net = 0
  <2>1. PICK a, b \in Rows : /\ a # b /\ ledger[a] = "reversed" /\ ledger[b] = "reversal"
                             /\ \A r \in Rows \ {a, b} : ledger[r] = "none"
    BY <1>3 DEF OffsetPair
  <2>2. A = {} /\ R = {a} /\ S = {b}
    BY <2>1
  <2> HIDE DEF A, R, S
  <2>3. Cardinality(A) = 0 /\ Cardinality(R) = 1 /\ Cardinality(S) = 1
    BY <2>2, FS_EmptySet, FS_Singleton
  <2>4. QED BY <1>1, <2>3
<1>4. ASSUME OneActive PROVE Net = 1
  <2>1. PICK a \in Rows : ledger[a] = "active" /\ \A r \in Rows \ {a} : ledger[r] = "none"
    BY <1>4 DEF OneActive
  <2>2. A = {a} /\ R = {} /\ S = {}
    BY <2>1
  <2> HIDE DEF A, R, S
  <2>3. Cardinality(A) = 1 /\ Cardinality(R) = 0 /\ Cardinality(S) = 0
    BY <2>2, FS_EmptySet, FS_Singleton
  <2>4. QED BY <1>1, <2>3
<1>5. QED BY <1>2, <1>3, <1>4

\* Requests that do not overlap keep the ledger in step with the order: one
\* commission from the moment it is queued, none once it is cancelled, except
\* where the order followed the carrier (record_commission, reverse_for_order).
THEOREM LedgerMatchesOrderAlways == Spec => []LedgerMatchesOrder
<1>1. Init => PayInv
  BY PayInit
<1>2. PayInv /\ [Next]_vars => PayInv'
  BY PayStep
<1>3. PayInv => LedgerMatchesOrder
  <2> SUFFICES ASSUME PayInv, ~raced, OnlyCancels
               PROVE  Net = IF status \in Earning \/ mirrored THEN 1 ELSE 0
    BY DEF LedgerMatchesOrder
  <2>1. InStep /\ (NoRows \/ OffsetPair => Net = 0) /\ (OneActive => Net = 1)
    BY RowCount DEF PayInv, OrderOK
  <2>2. CASE status \in Earning \/ mirrored
    BY <2>1, <2>2 DEF InStep
  <2>3. CASE ~(status \in Earning \/ mirrored)
    BY <2>1, <2>3 DEF InStep
  <2>4. QED BY <2>2, <2>3
<1>4. QED BY <1>1, <1>2, <1>3, PTL DEF Spec

-----------------------------------------------------------------------------
(* A customer's cancellation returns what was paid.                          *)

\* Only its own commit ends a cancellation with another status of the order.
LEMMA CancellationEnds ==
  ASSUME PayInv, Next, NEW s \in Sessions, se[s].pc = "cancel", status' # status,
         se'[s].pc = "idle"
  PROVE  CancelWrite(s)
<1>1. \A q \in Sessions : \A x : Commit(q, x) => q = s
  <2> SUFFICES ASSUME NEW q \in Sessions, NEW x, Commit(q, x), q # s PROVE FALSE
    OBVIOUS
  <2>1. se' = [Aged EXCEPT ![q] = x]
    BY DEF Commit
  <2>2. se'[s] = Aged[s]
    BY <2>1 DEF Aged
  <2>3. QED BY <2>2, AgedFacts DEF PayInv
<1>2. \A q \in Sessions : \A x : ~Begin(q, x)
  BY DEF Begin, Db
<1>3. PICK q \in Sessions : Customer(q) \/ Staff(q) \/ Provider(q)
  <2>1. ASSUME Ship \/ Deliver \/ CarrierCancels PROVE FALSE
    <3>1. se' = Aged
      BY <2>1 DEF Ship, Deliver, CarrierCancels
    <3>2. QED BY <3>1, AgedFacts DEF PayInv
  <2>2. (\A q \in Sessions : ~Abandon(q)) /\ (\A e \in Events : ~IgnoreEvent(e))
    BY DEF Abandon, Db, IgnoreEvent
  <2>3. QED BY <2>1, <2>2 DEF Next
<1>4. CASE Customer(q)
  <2>1. InitiateWrite(q) \/ ProofWrite(q) \/ CancelWrite(q)
    BY <1>2, <1>4 DEF Customer, InitiateRead, ProofRead, CancelRead
  <2>2. Commit(q, Idle)
    BY <2>1 DEF InitiateWrite, ProofWrite, CancelWrite
  <2>3. q = s
    BY <1>1, <2>2
  <2>4. QED BY <2>1, <2>3 DEF InitiateWrite, ProofWrite
<1>5. CASE Staff(q)
  <2>1. ApproveWrite(q) \/ RejectWrite(q) \/ RefundWrite(q) \/ OverrideWrite(q) \/ EventWrite(q)
    BY <1>2, <1>5 DEF Staff, ApproveRead, RejectRead, RefundRead, OverrideRead, EventRead
  <2>2. Commit(q, Idle) /\ se[q].pc # "cancel"
    BY <2>1 DEF ApproveWrite, RejectWrite, RefundWrite, OverrideWrite, EventWrite
  <2>3. QED BY <1>1, <2>2
<1>6. CASE Provider(q)
  <2>1. ConfirmWrite(q) \/ ConfirmQueue(q) \/ ProviderCancelWrite(q)
    BY <1>2, <1>6 DEF Provider, ConfirmRead, ProviderCancelRead, ConfirmDies, Db
  <2>2. (\E x : Commit(q, x)) /\ se[q].pc # "cancel"
    BY <2>1 DEF ConfirmWrite, ConfirmQueue, ProviderCancelWrite
  <2>3. QED BY <1>1, <2>2
<1>7. QED BY <1>3, <1>4, <1>5, <1>6

LEMMA CancellationRefunds ==
  ASSUME PayInv, NEW s \in Sessions, CancelWrite(s), ~se[s].stale
  PROVE  NonePaid'
<1>1. se[s].due = PaidTxs
  BY DEF PayInv, ReadsOK, Reads, CancelWrite
<1>2. tx' = [t \in Txs |-> IF t \in se[s].open THEN "cancelled"
                           ELSE IF t \in PaidTxs THEN "refund_pending" ELSE tx[t]]
  BY <1>1 DEF CancelWrite, PaidTxs
<1>3. QED BY <1>2 DEF NonePaid, PaidTxs

\* A customer's cancellation leaves no payment that nobody will return, if
\* nothing was committed while it ran (_finalize_cancellation).
THEOREM CancelReturnsMoneyAlways == Spec => CancelReturnsMoney
<1> DEFINE Returned == \A s \in Sessions :
             se[s].pc = "cancel" /\ ~se[s].stale /\ status' = "cancelled" /\ status # "cancelled"
               /\ se'[s].pc = "idle" => Count(tx', "paid") = 0
<1>1. Init => PayInv
  BY PayInit
<1>2. PayInv /\ [Next]_vars => PayInv'
  BY PayStep
<1>3. PayInv /\ [Next]_vars => [Returned]_vars
  <2> SUFFICES ASSUME PayInv, Next, NEW s \in Sessions,
                      se[s].pc = "cancel", ~se[s].stale, status' = "cancelled",
                      status # "cancelled", se'[s].pc = "idle"
               PROVE  Count(tx', "paid") = 0
    OBVIOUS
  <2>1. CancelWrite(s)
    BY CancellationEnds
  <2>2. NonePaid'
    BY <2>1, CancellationRefunds
  <2>3. TypeOK'
    BY PayStep DEF PayInv
  <2>4. Count(tx', "paid") = Cardinality(PaidTxs')
    BY <2>3 DEF TypeOK, Count, PaidTxs
  <2>5. QED BY <2>2, <2>4, FS_EmptySet DEF NonePaid
<1>4. QED BY <1>1, <1>2, <1>3, PTL DEF Spec, CancelReturnsMoney

-----------------------------------------------------------------------------
(* The order of the customer: what it is charged, and what its price is of.  *)

\* What the proofs use of OrdersAssumption.
LEMMA OrderBounds ==
  /\ NoRate \notin Rates /\ CseRates \subseteq Rates
  /\ Offers \subseteq SUBSET Rates /\ QuoteKg \in Weights /\ Parcels \subseteq SUBSET Weights
  /\ MaxForms \in Nat /\ MaxOrders \in Nat
BY OrdersAssumption DEF OrdersAssumption

USE OrderBounds

MaybeRate == Rates \cup {NoRate}
MaybePrice == Prices \cup {NoPrice}

Quotes == [state: {"none", "live", "expired", "gone"}, rates: SUBSET Rates, picked: SUBSET Rates]
OrderRows == [id: 1..MaxOrders, status: DraftStatuses, rate: Rates,
              price: Prices, packages: SUBSET PackageRows]
OrderReqs == [op: Ops, id: 0..MaxOrders, status: DraftStatuses, rate: MaybeRate,
             price: MaybePrice, next: MaybePrice, rows: SUBSET PackageRows,
             kgs: SUBSET Weights, picked: SUBSET Rates]

DraftTypes ==
  /\ order = NoOrder \/ order \in OrderRows
  /\ charges \subseteq Prices
  /\ req \in [Reqs -> OrderReqs]
  /\ quote \in Quotes

\* What a request goes by was so when it read it.
ReadSo(z) ==
  /\ z.op \in {"edit", "price", "delete"} => z.status \in EditableStatuses
  /\ z.op = "checkout" => z.status = "shipment_details_completed"
  /\ z.op = "select" => z.rate \in Rates
  /\ z.op = "pay" => /\ z.status \in {"ready_for_checkout", "awaiting_payment"}
                    /\ z.price \in Prices
  /\ z.op = "create" => \E c \in Rates : z.picked = {c}
  /\ z.op = "create" /\ z.id # 0 => z.rate \in Rates
  /\ z.op = "price" => z.rate \in Rates
  /\ z.op \in {"price", "checkout"} \/ z.next = NoPrice
  /\ z.op = "price" /\ z.next # NoPrice => (z.next.rate \in CseRates <=> z.rate \in CseRates)
  /\ z.op = "checkout" /\ z.next # NoPrice => z.next.rate \in CseRates

\* A price is of a package its form will save, or there are packages by now
\* that the form has not seen; the price of a checkout is of the carrier's kind.
PriceOf(r) ==
  req[r].next # NoPrice /\ Found(r) =>
    /\ req[r].op = "price" =>
         req[r].next.kg \in req[r].kgs \/ \E p \in order.packages : p \notin req[r].rows
    /\ req[r].op = "checkout" /\ "late" \notin marks => req[r].price.rate \in CseRates

RequestsKnow == \A r \in Reqs : ReadSo(req[r]) /\ PriceOf(r)

\* An order that has been charged is past its checkout; CSE's price is of a
\* tariff of CSE.
ChargesOK ==
  /\ ~HasOrder => charges = {}
  /\ "late" \notin marks =>
       /\ charges # {} => order.status \in {"awaiting_payment", "paid"}
       /\ \A c \in charges : c = order.price
       /\ HasOrder => (order.price.rate \in CseRates <=> order.rate \in CseRates)

DraftInv == DraftTypes /\ RequestsKnow /\ ChargesOK /\ PackagesOfOneForm /\ PricedAsSaved

\* Request r does z from now on.
TurnsTo(r, z) == req' = [req EXCEPT ![r] = z]

LEMMA NoReqRecord ==
  /\ NoReq \in OrderReqs /\ ReadSo(NoReq) /\ NoReq.next = NoPrice
  /\ NoReq.op = "idle" /\ NoReq.id = 0
BY DEF NoReq, OrderReqs, ReadSo, Ops, DraftStatuses, MaybeRate, MaybePrice

LEMMA OrderFields ==
  ASSUME DraftInv
  PROVE  /\ order.id \in 0..MaxOrders /\ order.status \in DraftStatuses /\ order.rate \in MaybeRate
         /\ order.price \in MaybePrice /\ order.packages \in SUBSET PackageRows
         /\ HasOrder => order \in OrderRows
<1>1. CASE order = NoOrder
  BY <1>1 DEF NoOrder, HasOrder, DraftStatuses, MaybeRate, MaybePrice
<1>2. CASE order \in OrderRows
  BY <1>2 DEF OrderRows, HasOrder, MaybeRate, MaybePrice
<1>3. QED BY <1>1, <1>2 DEF DraftInv, DraftTypes

LEMMA CheckingRecord ==
  ASSUME DraftInv, NEW op \in Ops
  PROVE  LET z == Checking(op) IN
         /\ z \in OrderReqs /\ z.op = op /\ z.id = order.id /\ z.status = order.status
         /\ z.rate = NoRate /\ z.price = NoPrice /\ z.next = NoPrice
BY OrderFields DEF NoReq, Checking, OrderReqs, Ops, DraftStatuses,
                   MaybeRate, MaybePrice

LEMMA ReadingRecord ==
  ASSUME DraftInv, NEW op \in Ops
  PROVE  LET z == Reading(op) IN
         /\ z \in OrderReqs /\ z.op = op /\ z.id = order.id /\ z.status = order.status
         /\ z.rate = NoRate /\ z.price = order.price /\ z.next = NoPrice
<1> DEFINE c == Checking(op)
           z == Reading(op)
<1>1. c \in OrderReqs /\ c.op = op /\ c.id = order.id /\ c.status = order.status
      /\ c.rate = NoRate /\ c.next = NoPrice
  BY CheckingRecord
<1>2. z = [c EXCEPT !.price = order.price]
  BY DEF Reading
<1> HIDE DEF c, z
<1>3. z \in OrderReqs /\ z.op = op /\ z.id = order.id /\ z.status = order.status
         /\ z.rate = NoRate /\ z.price = order.price /\ z.next = NoPrice
  BY <1>1, <1>2, OrderFields DEF OrderReqs
<1>4. QED BY <1>3 DEF z

\* The other requests do not notice a step that takes no package they have seen
\* for a new one, and forgets no lateness of the order they have read.
LEMMA OthersKeep ==
  ASSUME DraftInv, NEW r \in Reqs, NEW z \in OrderReqs, TurnsTo(r, z), ReadSo(z),
         PriceOf(r)',
         \A s \in Reqs \ {r} : HasOrder' /\ order'.id = req[s].id =>
           /\ order.id = order'.id
           /\ "late" \in marks => "late" \in marks'
           /\ \/ order'.packages = order.packages
              \/ \E p \in order'.packages : p \notin req[s].rows
  PROVE  RequestsKnow' /\ req' \in [Reqs -> OrderReqs] /\ req'[r] = z
         /\ \A s \in Reqs \ {r} : req'[s] = req[s]
<1>1. req' \in [Reqs -> OrderReqs] /\ req'[r] = z /\ \A s \in Reqs \ {r} : req'[s] = req[s]
  BY DEF DraftInv, DraftTypes, TurnsTo
<1>2. ASSUME NEW s \in Reqs \ {r}
      PROVE  ReadSo(req'[s]) /\ PriceOf(s)'
  <2>1. ReadSo(req[s]) /\ PriceOf(s) /\ req'[s] = req[s]
    BY <1>1 DEF DraftInv, RequestsKnow
  <2>2. PriceOf(s)'
    BY <2>1 DEF PriceOf, Found, HasOrder
  <2>3. QED BY <2>1, <2>2
<1>3. RequestsKnow'
  BY <1>1, <1>2 DEF RequestsKnow
<1>4. QED BY <1>1, <1>3

\* A request reads.
LEMMA ReadingStep ==
  ASSUME DraftInv, NEW r \in Reqs, NEW z \in OrderReqs, TurnsTo(r, z), ReadSo(z), PriceOf(r)',
         UNCHANGED <<order, charges, marks>>,
         quote' \in Quotes
  PROVE  DraftInv'
<1>1. RequestsKnow' /\ req' \in [Reqs -> OrderReqs]
  BY OthersKeep
<1>2. DraftTypes'
  BY <1>1 DEF DraftInv, DraftTypes
<1>3. ChargesOK' /\ PackagesOfOneForm' /\ PricedAsSaved'
  BY DEF DraftInv, ChargesOK, HasOrder, PackagesOfOneForm, PricedAsSaved
<1>4. QED BY <1>1, <1>2, <1>3 DEF DraftInv

\* One that has no price in hand has nothing to keep.
LEMMA PricelessStep ==
  ASSUME DraftInv, NEW r \in Reqs, NEW z \in OrderReqs, TurnsTo(r, z), z.next = NoPrice
  PROVE  PriceOf(r)'
BY DEF DraftInv, DraftTypes, TurnsTo, PriceOf

LEMMA SelectSteps ==
  ASSUME DraftInv, NEW r \in Reqs,
         (\E c \in Rates : SelectRead(r, c)) \/ SelectCommit(r)
  PROVE  DraftInv'
<1>1. CASE \E c \in Rates : SelectRead(r, c)
  <2>1. PICK c \in Rates : SelectRead(r, c)
    BY <1>1
  <2> DEFINE z == [NoReq EXCEPT !.op = "select", !.rate = c, !.picked = quote.picked]
  <2>2. TurnsTo(r, z) /\ UNCHANGED <<quote, order, charges, marks>>
    BY <2>1 DEF SelectRead, Becomes, TurnsTo
  <2>3. quote \in Quotes
    BY DEF DraftInv, DraftTypes
  <2>4. z \in OrderReqs /\ z.op = "select" /\ z.rate = c /\ z.next = NoPrice
    BY <2>3, NoReqRecord DEF OrderReqs, Ops, MaybeRate, Quotes
  <2> HIDE DEF z
  <2>5. ReadSo(z)
    BY <2>4 DEF ReadSo
  <2>6. QED BY <2>2, <2>3, <2>4, <2>5, PricelessStep, ReadingStep
<1>2. CASE SelectCommit(r)
  <2>1. /\ TurnsTo(r, NoReq) /\ UNCHANGED <<order, charges, marks>> /\ req[r].op = "select"
        /\ quote' = [quote EXCEPT !.picked = (@ \ req[r].picked) \cup {req[r].rate}]
    BY <1>2 DEF SelectCommit, Becomes, TurnsTo
  <2>2. req[r].rate \in Rates
    BY <2>1 DEF DraftInv, RequestsKnow, ReadSo
  <2>3. quote' \in Quotes
    BY <2>1, <2>2 DEF DraftInv, DraftTypes, Quotes
  <2>4. QED BY <2>1, <2>3, NoReqRecord, PricelessStep, ReadingStep
<1>3. QED BY <1>1, <1>2

LEMMA AbandonStep ==
  ASSUME DraftInv, NEW r \in Reqs, GiveUp(r)
  PROVE  DraftInv'
<1>1. TurnsTo(r, NoReq) /\ UNCHANGED <<quote, order, charges, marks>>
  BY DEF GiveUp, Becomes, TurnsTo
<1>2. quote' \in Quotes
  BY <1>1 DEF DraftInv, DraftTypes
<1>3. QED BY <1>1, <1>2, NoReqRecord, PricelessStep, ReadingStep

LEMMA CreateReadStep ==
  ASSUME DraftInv, NEW r \in Reqs, CreateRead(r)
  PROVE  DraftInv'
<1>1. PICK c \in quote.picked :
        TurnsTo(r, [Reading("create") EXCEPT !.rate = order.rate, !.picked = {c}])
  BY DEF CreateRead, Becomes, TurnsTo
<1>2. UNCHANGED <<quote, order, charges, marks>>
  BY DEF CreateRead
<1>3. quote' \in Quotes /\ c \in Rates
  BY <1>2 DEF DraftInv, DraftTypes, Quotes
<1> DEFINE b == Reading("create")
           z == [b EXCEPT !.rate = order.rate, !.picked = {c}]
<1>4. b \in OrderReqs /\ b.op = "create" /\ b.id = order.id /\ b.next = NoPrice
  <2>1. "create" \in Ops
    BY DEF Ops
  <2>2. QED BY <2>1, ReadingRecord
<1>5. TurnsTo(r, z)
  BY <1>1
<1> HIDE DEF b
<1>6. z \in OrderReqs /\ z.op = "create" /\ z.id = order.id /\ z.next = NoPrice
      /\ z.picked = {c} /\ z.rate = order.rate
  BY <1>3, <1>4, OrderFields DEF OrderReqs
<1> HIDE DEF z
<1>7. order.id # 0 => order.rate \in Rates
  BY OrderFields DEF HasOrder, OrderRows
<1>8. ReadSo(z)
  BY <1>3, <1>6, <1>7 DEF ReadSo
<1>9. QED BY <1>2, <1>3, <1>5, <1>6, <1>8, PricelessStep, ReadingStep

LEMMA EditReadStep ==
  ASSUME DraftInv, NEW r \in Reqs, NEW kgs \in Parcels, EditRead(r, kgs)
  PROVE  DraftInv'
<1> DEFINE b == Checking("edit")
           z == [b EXCEPT !.rows = order.packages, !.kgs = kgs]
<1>1. TurnsTo(r, z) /\ UNCHANGED <<quote, order, charges, marks>> /\ order.status \in EditableStatuses
  BY DEF EditRead, Becomes, TurnsTo
<1>2. quote' \in Quotes
  BY <1>1 DEF DraftInv, DraftTypes
<1>3. b \in OrderReqs /\ b.op = "edit" /\ b.status = order.status /\ b.next = NoPrice
  <2>1. "edit" \in Ops
    BY DEF Ops
  <2>2. QED BY <2>1, CheckingRecord
<1> HIDE DEF b
<1>4. z \in OrderReqs /\ z.op = "edit" /\ z.status = order.status /\ z.next = NoPrice
  BY <1>3, OrderFields DEF OrderReqs
<1> HIDE DEF z
<1>5. ReadSo(z)
  BY <1>1, <1>4 DEF ReadSo
<1>6. QED BY <1>1, <1>2, <1>4, <1>5, PricelessStep, ReadingStep

\* A price of the form's is of the order's carrier, for one of the packages.
LEMMA RecalcIsAPrice ==
  ASSUME NEW rate \in Rates, NEW rows \in SUBSET PackageRows,
         NEW p \in Recalc(rate, rows), p # NoPrice
  PROVE  /\ p \in Prices /\ p.rate \in Rates
         /\ p.rate \in CseRates <=> rate \in CseRates
         /\ \E x \in rows : p.kg = x.kg
<1>1. CASE rate \in CseRates
  <2>1. PICK x \in rows : p = Price(rate, x.kg)
    BY <1>1 DEF Recalc, CseRecalc
  <2>2. QED BY <1>1, <2>1 DEF Price, Prices, PackageRows
<1>2. CASE rate \notin CseRates
  <2>1. PICK c \in Rates \ CseRates, x \in rows : p = Price(c, x.kg)
    BY <1>2 DEF Recalc, GenericRecalc
  <2>2. QED BY <1>2, <2>1 DEF Price, Prices, PackageRows
<1>3. QED BY <1>1, <1>2

LEMMA EditPriceStep ==
  ASSUME DraftInv, NEW r \in Reqs, EditPrice(r)
  PROVE  DraftInv'
<1>0. UNCHANGED <<quote, order, charges, marks>> /\ req[r].op = "edit"
      /\ quote' \in Quotes
  BY DEF DraftInv, DraftTypes, EditPrice
<1>1. CASE Found(r)
  <2> DEFINE rows == (order.packages \ req[r].rows) \cup Written(r)
  <2>1. PICK p \in Recalc(order.rate, rows) :
          TurnsTo(r, [req[r] EXCEPT !.op = "price", !.rate = order.rate,
                                  !.price = order.price, !.next = p])
    BY <1>1 DEF EditPrice, Becomes, TurnsTo
  <2>2. req[r] \in OrderReqs /\ ReadSo(req[r]) /\ order \in OrderRows
    BY <1>1, OrderFields DEF DraftInv, DraftTypes, RequestsKnow, Found
  <2>3. order.rate \in Rates /\ order.price \in Prices /\ order.packages \subseteq PackageRows
    BY <2>2 DEF OrderRows
  <2>4. Written(r) \subseteq PackageRows /\ \A x \in Written(r) : x.kg \in req[r].kgs
    BY <2>2 DEF Written, OrderReqs, PackageRows
  <2>5. rows \subseteq PackageRows
    BY <2>3, <2>4
  <2>6. p # NoPrice => /\ p \in Prices
                       /\ p.rate \in CseRates <=> order.rate \in CseRates
                       /\ \E x \in rows : p.kg = x.kg
    <3> HIDE DEF rows
    <3>1. QED BY <2>1, <2>3, <2>5, RecalcIsAPrice
  <2> DEFINE z == [req[r] EXCEPT !.op = "price", !.rate = order.rate,
                                 !.price = order.price, !.next = p]
  <2>7. /\ z \in OrderReqs /\ z.op = "price" /\ z.status = req[r].status /\ z.rate = order.rate
        /\ z.next = p /\ z.kgs = req[r].kgs /\ z.rows = req[r].rows
    BY <2>2, <2>3, <2>6 DEF OrderReqs, Ops, MaybeRate, MaybePrice
  <2>8. TurnsTo(r, z)
    BY <2>1
  <2> HIDE DEF z
  <2>9. ReadSo(z)
    BY <1>0, <2>2, <2>3, <2>6, <2>7 DEF ReadSo
  <2>10. req'[r] = z
    BY <2>8 DEF TurnsTo, DraftInv, DraftTypes
  <2>11. PriceOf(r)'
    BY <1>0, <2>4, <2>6, <2>7, <2>10 DEF PriceOf
  <2>12. QED BY <1>0, <2>7, <2>8, <2>9, <2>11, ReadingStep
<1>2. CASE ~Found(r)
  <2>1. TurnsTo(r, NoReq)
    BY <1>2 DEF EditPrice, Becomes, TurnsTo
  <2>2. QED BY <1>0, <2>1, NoReqRecord, PricelessStep, ReadingStep
<1>3. QED BY <1>1, <1>2

LEMMA CheckoutReadStep ==
  ASSUME DraftInv, NEW r \in Reqs, CheckoutRead(r)
  PROVE  DraftInv'
<1>1. PICK p \in {NoPrice} \cup
                (IF order.rate \in CseRates THEN CseRecalc(order.rate, {QuoteKg}) ELSE {}) :
        TurnsTo(r, [Reading("checkout") EXCEPT !.next = p])
  BY DEF CheckoutRead, Becomes, TurnsTo
<1>2. UNCHANGED <<quote, order, charges, marks>> /\ HasOrder
      /\ order.status = "shipment_details_completed"
  BY DEF CheckoutRead
<1>3. quote' \in Quotes
  BY <1>2 DEF DraftInv, DraftTypes
<1>4. p # NoPrice => p \in Prices /\ p.rate \in CseRates /\ order.rate \in CseRates
  BY DEF CseRecalc, Price, Prices
<1> DEFINE b == Reading("checkout")
           z == [b EXCEPT !.next = p]
<1>5. b \in OrderReqs /\ b.op = "checkout" /\ b.status = order.status /\ b.price = order.price
  <2>1. "checkout" \in Ops
    BY DEF Ops
  <2>2. QED BY <2>1, ReadingRecord
<1>6. TurnsTo(r, z)
  BY <1>1
<1> HIDE DEF b
<1>7. z \in OrderReqs /\ z.op = "checkout" /\ z.status = order.status /\ z.price = order.price /\ z.next = p
  BY <1>4, <1>5 DEF OrderReqs, MaybePrice
<1> HIDE DEF z
<1>8. ReadSo(z)
  BY <1>2, <1>4, <1>7 DEF ReadSo
<1>9. req'[r] = z
  BY <1>6 DEF TurnsTo, DraftInv, DraftTypes
<1>10. PriceOf(r)'
  BY <1>2, <1>4, <1>7, <1>9 DEF PriceOf, DraftInv, ChargesOK
<1>11. QED BY <1>2, <1>3, <1>6, <1>7, <1>8, <1>10, ReadingStep

LEMMA PlainReadSteps ==
  ASSUME DraftInv, NEW r \in Reqs, PayRead(r) \/ DeleteRead(r)
  PROVE  DraftInv'
<1>1. UNCHANGED <<quote, order, charges, marks>> /\ HasOrder
  BY DEF PayRead, DeleteRead
<1>2. quote' \in Quotes
  BY <1>1 DEF DraftInv, DraftTypes
<1>3. PICK z \in OrderReqs : TurnsTo(r, z) /\ ReadSo(z) /\ z.next = NoPrice
  <2>1. CASE PayRead(r)
    <3> DEFINE z == Reading("pay")
    <3>1. "pay" \in Ops
      BY DEF Ops
    <3>2. z \in OrderReqs /\ z.op = "pay" /\ z.price = order.price /\ z.status = order.status
          /\ z.next = NoPrice
      BY <3>1, ReadingRecord
    <3>3. TurnsTo(r, z) /\ order.status \in {"ready_for_checkout", "awaiting_payment"}
      BY <2>1 DEF PayRead, Becomes, TurnsTo
    <3>4. order.price \in Prices
      BY <1>1, OrderFields DEF OrderRows
    <3> HIDE DEF z
    <3>5. ReadSo(z)
      BY <3>2, <3>3, <3>4 DEF ReadSo
    <3>6. QED BY <3>2, <3>3, <3>5
  <2>2. CASE DeleteRead(r)
    <3> DEFINE z == Checking("delete")
    <3>1. "delete" \in Ops
      BY DEF Ops
    <3>2. z \in OrderReqs /\ z.op = "delete" /\ z.status = order.status /\ z.next = NoPrice
      BY <3>1, CheckingRecord
    <3>3. TurnsTo(r, z) /\ order.status \in EditableStatuses
      BY <2>2 DEF DeleteRead, Becomes, TurnsTo
    <3> HIDE DEF z
    <3>4. ReadSo(z)
      BY <3>2, <3>3 DEF ReadSo
    <3>5. QED BY <3>2, <3>3, <3>4
  <2>3. QED BY <2>1, <2>2
<1>4. QED BY <1>1, <1>2, <1>3, PricelessStep, ReadingStep

LEMMA InTime ==
  ASSUME NEW r \in Reqs, "late" \notin Late(r)
  PROVE  /\ order.status = req[r].status /\ order.price = req[r].price
         /\ req[r].rate \in Rates /\ NoRate \notin Rates => order.rate = req[r].rate
BY DEF Late

\* A request writes and is done.
LEMMA WritingStep ==
  ASSUME DraftInv, NEW r \in Reqs, TurnsTo(r, NoReq), quote' = quote,
         order' = NoOrder \/ order' \in OrderRows, charges' \subseteq Prices,
         \A s \in Reqs \ {r} : HasOrder' /\ order'.id = req[s].id =>
           /\ order.id = order'.id
           /\ "late" \in marks => "late" \in marks'
           /\ \/ order'.packages = order.packages
              \/ \E p \in order'.packages : p \notin req[s].rows,
         ChargesOK', PackagesOfOneForm', PricedAsSaved'
  PROVE  DraftInv'
<1>1. PriceOf(r)'
  BY NoReqRecord, PricelessStep
<1>2. RequestsKnow' /\ req' \in [Reqs -> OrderReqs]
  BY <1>1, NoReqRecord, OthersKeep
<1>3. DraftTypes'
  BY <1>2 DEF DraftInv, DraftTypes
<1>4. QED BY <1>2, <1>3 DEF DraftInv

LEMMA CreateCommitStep ==
  ASSUME DraftInv, NEW r \in Reqs, CreateCommit(r)
  PROVE  DraftInv'
<1>1. /\ req[r].op = "create" /\ TurnsTo(r, NoReq) /\ quote' = quote /\ charges' = charges
      /\ ReadSo(req[r]) /\ charges' \subseteq Prices
  BY DEF CreateCommit, Becomes, TurnsTo, DraftInv, DraftTypes, RequestsKnow
<1>2. PICK c \in Rates : req[r].picked = {c}
  BY <1>1 DEF ReadSo
<1> DEFINE price == Price(c, QuoteKg)
<1>3. price \in Prices /\ price.rate = c
  BY DEF Price, Prices
<1>4. (CHOOSE x \in req[r].picked : TRUE) = c
  BY <1>2
<1>5. CASE req[r].id = 0 /\ ~HasOrder
  <2>1. PICK i \in 1..MaxOrders, f \in Forms :
          /\ IsNewOrder(i)
          /\ order' = [id |-> i, status |-> "draft", rate |-> c, price |-> price,
                       packages |-> {[form |-> f, kg |-> QuoteKg]}]
          /\ marks' = {}
    BY <1>4, <1>5 DEF CreateCommit
  <2> HIDE DEF price
  <2>2. order' \in OrderRows
    BY <1>3, <2>1 DEF OrderRows, DraftStatuses, PackageRows
  <2>3. order'.id = i /\ order'.status = "draft" /\ order'.rate = c /\ order'.price = price
        /\ \A p, q \in order'.packages : p = q
    BY <2>1
  <2>4. \A s \in Reqs : order'.id # req[s].id
    BY <2>1, <2>3 DEF IsNewOrder
  <2>5. ChargesOK'
    <3>1. charges' = {}
      BY <1>1, <1>5 DEF DraftInv, ChargesOK
    <3>2. QED BY <1>3, <2>3, <3>1 DEF ChargesOK
  <2>6. PackagesOfOneForm' /\ PricedAsSaved'
    BY <2>3 DEF PackagesOfOneForm, PricedAsSaved
  <2>7. QED BY <1>1, <2>2, <2>4, <2>5, <2>6, WritingStep
<1>6. CASE Found(r)
  <2>1. /\ order' = [order EXCEPT !.rate = Write(req[r].rate, c, @),
                                  !.price = Write(req[r].price, price, @)]
        /\ marks' = marks \cup {"renewed"} \cup Late(r)
                      \cup (IF order.status \in EditableStatuses THEN {} ELSE {"late"})
    BY <1>4, <1>6 DEF CreateCommit, Found
  <2> HIDE DEF price
  <2>2. order \in OrderRows /\ HasOrder /\ req[r].rate \in Rates
    BY <1>1, <1>6, OrderFields DEF Found, HasOrder, ReadSo
  <2>3. /\ order' \in OrderRows /\ order'.id = order.id /\ order'.status = order.status
        /\ order'.packages = order.packages
        /\ order'.rate = Write(req[r].rate, c, order.rate)
        /\ order'.price = Write(req[r].price, price, order.price)
    BY <1>3, <2>1, <2>2 DEF OrderRows, Write
  <2>4. "renewed" \in marks' /\ marks \subseteq marks'
    BY <2>1
  <2>5. ChargesOK'
    <3>1. ASSUME "late" \notin marks'
          PROVE  charges = {} /\ order'.price = price /\ order'.rate = c
      <4>1. order.status \in EditableStatuses /\ "late" \notin Late(r) /\ "late" \notin marks
        BY <2>1, <3>1
      <4>2. order.price = req[r].price /\ order.rate = req[r].rate
        BY <2>2, <4>1, InTime
      <4>3. charges = {}
        BY <4>1 DEF DraftInv, ChargesOK, EditableStatuses
      <4>4. QED BY <2>3, <4>2, <4>3 DEF Write
    <3>2. HasOrder'
      BY <2>2, <2>3 DEF HasOrder
    <3>3. QED BY <1>1, <1>3, <3>1, <3>2 DEF ChargesOK
  <2>6. PackagesOfOneForm' /\ PricedAsSaved'
    BY <2>3, <2>4 DEF DraftInv, PackagesOfOneForm, PricedAsSaved
  <2>7. QED BY <1>1, <2>3, <2>4, <2>5, <2>6, WritingStep
<1>7. CASE ~(req[r].id = 0 /\ ~HasOrder) /\ ~Found(r)
  <2>1. UNCHANGED <<order, marks>>
    BY <1>7 DEF CreateCommit
  <2>2. ChargesOK' /\ PackagesOfOneForm' /\ PricedAsSaved'
    BY <1>1, <2>1 DEF DraftInv, ChargesOK, HasOrder, PackagesOfOneForm, PricedAsSaved
  <2>3. order' = NoOrder \/ order' \in OrderRows
    BY <2>1 DEF DraftInv, DraftTypes
  <2>4. QED BY <1>1, <2>1, <2>2, <2>3, WritingStep
<1>8. QED BY <1>5, <1>6, <1>7

\* The packages a form writes are of one form that nobody has seen.
LEMMA WrittenIsNew ==
  ASSUME DraftInv, NEW r \in Reqs
  PROVE  /\ Written(r) \subseteq PackageRows
         /\ \A p, q \in Written(r) : p.form = q.form
         /\ \A p \in Written(r), s \in Reqs : p \notin req[s].rows
         /\ Written(r) # {} =>
              \A k \in req[r].kgs : \E p \in Written(r) : p.kg = k
<1>1. \A f, g \in Forms : IsNewForm(f) /\ IsNewForm(g) => f = g
  BY DEF IsNewForm, Forms
<1>2. req[r] \in OrderReqs
  BY DEF DraftInv, DraftTypes
<1>3. \A f \in Forms, s \in Reqs : IsNewForm(f) => \A p \in req[s].rows : p.form # f
  BY DEF IsNewForm
<1>4. \A p \in Written(r) : \E f \in Forms, k \in req[r].kgs :
        IsNewForm(f) /\ p = [form |-> f, kg |-> k] /\ p.form = f
  BY DEF Written
<1>5. Written(r) \subseteq PackageRows
  BY <1>2, <1>4 DEF OrderReqs, PackageRows
<1>6. \A p, q \in Written(r) : p.form = q.form
  BY <1>1, <1>4
<1>7. \A p \in Written(r), s \in Reqs : p \notin req[s].rows
  BY <1>3, <1>4
<1>8. ASSUME Written(r) # {}, NEW k \in req[r].kgs
      PROVE  \E p \in Written(r) : p.kg = k
  <2>1. PICK f \in Forms : IsNewForm(f)
    BY <1>4, <1>8
  <2>2. [form |-> f, kg |-> k] \in Written(r)
    BY <2>1 DEF Written
  <2>3. QED BY <2>2
<1>9. QED BY <1>5, <1>6, <1>7, <1>8

LEMMA EditCommitStep ==
  ASSUME DraftInv, NEW r \in Reqs, EditCommit(r)
  PROVE  DraftInv'
<1> DEFINE next == req[r].next
           priced == next # NoPrice
           price == IF priced THEN Write(req[r].price, next, order.price) ELSE order.price
<1>1. /\ req[r].op = "price" /\ Found(r) /\ Written(r) # {} /\ TurnsTo(r, NoReq)
      /\ quote' = quote /\ charges' = charges /\ charges' \subseteq Prices
      /\ ReadSo(req[r]) /\ PriceOf(r) /\ req[r] \in OrderReqs
  BY DEF EditCommit, Becomes, TurnsTo, DraftInv, DraftTypes, RequestsKnow
<1>2. /\ order' = [order EXCEPT !.status = "shipment_details_completed",
                                !.packages = Replaced(r), !.price = price]
      /\ marks' = (marks \ {"renewed", "unpriced"}) \cup Late(r)
           \cup (IF order.packages = req[r].rows THEN {} ELSE {"missed"})
           \cup (IF priced /\ next.rate = req[r].rate THEN {} ELSE {"unpriced"})
  BY DEF EditCommit
<1>3. /\ order \in OrderRows /\ HasOrder /\ next \in MaybePrice /\ req[r].rate \in Rates
      /\ req[r].status \in EditableStatuses
  BY <1>1, OrderFields DEF Found, OrderReqs, ReadSo
<1>4. price \in Prices
  BY <1>3 DEF MaybePrice, OrderRows, Write
<1>5. Replaced(r) \subseteq PackageRows
  BY <1>3, WrittenIsNew DEF OrderRows, Replaced
<1> HIDE DEF price, priced, next
<1>6. /\ order' \in OrderRows /\ order'.id = order.id /\ order'.rate = order.rate
      /\ order'.status = "shipment_details_completed"
      /\ order'.packages = Replaced(r) /\ order'.price = price
  BY <1>2, <1>3, <1>4, <1>5 DEF OrderRows, DraftStatuses
<1>7. \A s \in Reqs : \E p \in order'.packages : p \notin req[s].rows
  BY <1>1, <1>6, WrittenIsNew DEF Replaced
<1>8. "late" \in marks => "late" \in marks'
  BY <1>2
<1>9. ASSUME "late" \notin marks'
      PROVE  /\ "late" \notin marks /\ charges = {} /\ order.rate = req[r].rate
             /\ priced => price = next
  <2>1. "late" \notin marks /\ "late" \notin Late(r)
    BY <1>2, <1>9
  <2>2. order.status = req[r].status /\ order.price = req[r].price /\ order.rate = req[r].rate
    BY <1>3, <2>1, InTime
  <2>3. charges = {}
    BY <1>3, <2>1, <2>2 DEF DraftInv, ChargesOK, EditableStatuses
  <2>4. QED BY <2>1, <2>2, <2>3 DEF price, Write
<1>10. ChargesOK'
  <2>1. HasOrder'
    BY <1>3, <1>6 DEF HasOrder
  <2>2. ASSUME "late" \notin marks'
        PROVE  price.rate \in CseRates <=> order.rate \in CseRates
    <3>1. CASE priced
      <4>1. next.rate \in CseRates <=> req[r].rate \in CseRates
        BY <1>1, <3>1 DEF ReadSo, priced, next
      <4>2. QED BY <1>9, <2>2, <3>1, <4>1
    <3>2. CASE ~priced
      BY <1>3, <1>9, <2>2, <3>2 DEF price, DraftInv, ChargesOK
    <3>3. QED BY <3>1, <3>2
  <2>3. QED BY <1>1, <1>6, <1>9, <2>1, <2>2 DEF ChargesOK
<1>11. order.packages = req[r].rows => Replaced(r) = Written(r)
  BY DEF Replaced
<1>12. PackagesOfOneForm'
  <2> SUFFICES ASSUME "missed" \notin marks'
               PROVE  \A p, q \in order'.packages : p.form = q.form
    BY DEF PackagesOfOneForm
  <2>1. order.packages = req[r].rows
    BY <1>2
  <2>2. QED BY <1>6, <1>11, <2>1, WrittenIsNew
<1>13. PricedAsSaved'
  <2> SUFFICES ASSUME marks' = {}
               PROVE  \E p \in order'.packages : order'.price = Price(order'.rate, p.kg)
    BY DEF PricedAsSaved
  <2>1. order.packages = req[r].rows /\ priced /\ next.rate = req[r].rate
    BY <1>2
  <2>2. price = next /\ next.rate = order.rate
    BY <1>9, <2>1
  <2>3. next.kg \in req[r].kgs
    BY <1>1, <2>1 DEF PriceOf, next, priced
  <2>4. PICK p \in Written(r) : p.kg = next.kg
    BY <1>1, <2>3, WrittenIsNew
  <2>5. next = Price(next.rate, next.kg)
    BY <1>3, <2>1 DEF MaybePrice, priced, Prices, Price
  <2>6. QED BY <1>6, <1>11, <2>1, <2>2, <2>4, <2>5
<1>14. QED BY <1>1, <1>6, <1>7, <1>8, <1>10, <1>12, <1>13, WritingStep

LEMMA CheckoutCommitStep ==
  ASSUME DraftInv, NEW r \in Reqs, CheckoutCommit(r)
  PROVE  DraftInv'
<1> DEFINE next == req[r].next
           priced == next # NoPrice
           price == IF priced THEN Write(req[r].price, next, order.price) ELSE order.price
<1>1. /\ req[r].op = "checkout" /\ Found(r) /\ TurnsTo(r, NoReq)
      /\ quote' = quote /\ charges' = charges /\ charges' \subseteq Prices
      /\ ReadSo(req[r]) /\ PriceOf(r) /\ req[r] \in OrderReqs
  BY DEF CheckoutCommit, Becomes, TurnsTo, DraftInv, DraftTypes, RequestsKnow
<1>2. /\ order' = [order EXCEPT !.status = "ready_for_checkout", !.price = price]
      /\ marks' = marks \cup Late(r) \cup (IF priced THEN {} ELSE {"unpriced"})
  BY DEF CheckoutCommit
<1>3. /\ order \in OrderRows /\ HasOrder /\ next \in MaybePrice
      /\ req[r].status = "shipment_details_completed"
      /\ priced => next.rate \in CseRates
  BY <1>1, OrderFields DEF Found, OrderReqs, ReadSo
<1>4. price \in Prices
  BY <1>3 DEF MaybePrice, OrderRows, Write
<1>5. priced /\ "late" \notin marks => req[r].price.rate \in CseRates
  BY <1>1 DEF PriceOf
<1> HIDE DEF price, priced, next
<1>6. /\ order' \in OrderRows /\ order'.id = order.id /\ order'.rate = order.rate
      /\ order'.status = "ready_for_checkout"
      /\ order'.packages = order.packages /\ order'.price = price
  BY <1>2, <1>3, <1>4 DEF OrderRows, DraftStatuses
<1>7. marks \subseteq marks'
  BY <1>2
<1>8. ASSUME "late" \notin marks'
      PROVE  /\ "late" \notin marks /\ charges = {}
             /\ order.price.rate \in CseRates <=> order.rate \in CseRates
             /\ priced => order.rate \in CseRates /\ price.rate \in CseRates
  <2>1. "late" \notin marks /\ "late" \notin Late(r)
    BY <1>2, <1>8
  <2>2. order.status = req[r].status /\ order.price = req[r].price
    BY <2>1, InTime
  <2>3. charges = {} /\ (order.price.rate \in CseRates <=> order.rate \in CseRates)
    BY <1>3, <2>1, <2>2 DEF DraftInv, ChargesOK
  <2>4. QED BY <1>3, <1>5, <2>1, <2>2, <2>3 DEF price, Write
<1>9. ChargesOK'
  <2>1. HasOrder'
    BY <1>3, <1>6 DEF HasOrder
  <2>2. "late" \notin marks' => (price.rate \in CseRates <=> order.rate \in CseRates)
    BY <1>8 DEF price
  <2>3. QED BY <1>1, <1>6, <1>8, <2>1, <2>2 DEF ChargesOK
<1>10. PackagesOfOneForm'
  BY <1>6, <1>7 DEF DraftInv, PackagesOfOneForm
<1>11. PricedAsSaved'
  <2>1. marks' = {} => order'.rate \in CseRates
    BY <1>2, <1>6, <1>8
  <2>2. QED BY <1>6, <2>1 DEF PricedAsSaved
<1>12. QED BY <1>1, <1>6, <1>7, <1>9, <1>10, <1>11, WritingStep

\* A later status of the order, the rest of it as it was.
LEMMA MovesOn ==
  ASSUME DraftInv, HasOrder, NEW st \in {"awaiting_payment", "paid"},
         order' = [order EXCEPT !.status = st], marks \subseteq marks',
         marks' = {} => order.status \in {"ready_for_checkout", "awaiting_payment"},
         "late" \notin marks' => \A c \in charges' : c = order.price
  PROVE  /\ order' \in OrderRows /\ order'.id = order.id /\ order'.packages = order.packages
         /\ ChargesOK' /\ PackagesOfOneForm' /\ PricedAsSaved'
<1>1. order \in OrderRows
  BY OrderFields
<1>2. /\ order' \in OrderRows /\ order'.id = order.id /\ order'.packages = order.packages
      /\ order'.rate = order.rate /\ order'.price = order.price /\ order'.status = st
  BY <1>1 DEF OrderRows, DraftStatuses
<1>3. HasOrder' /\ ("late" \in marks => "late" \in marks')
  BY <1>2 DEF HasOrder
<1>4. ChargesOK'
  BY <1>2, <1>3 DEF DraftInv, ChargesOK
<1>5. PackagesOfOneForm'
  BY <1>2 DEF DraftInv, PackagesOfOneForm
<1>6. PricedAsSaved'
  <2> SUFFICES ASSUME marks' = {}, order.rate \notin CseRates
               PROVE  \E p \in order.packages : order.price = Price(order.rate, p.kg)
    BY <1>2 DEF PricedAsSaved
  <2>1. marks = {} /\ order.status \in DraftStatuses \ {"draft"}
    BY DEF DraftStatuses
  <2>2. QED BY <2>1 DEF DraftInv, PricedAsSaved
<1>7. QED BY <1>2, <1>4, <1>5, <1>6

LEMMA PayCommitStep ==
  ASSUME DraftInv, NEW r \in Reqs, PayCommit(r)
  PROVE  DraftInv'
<1>1. /\ req[r].op = "pay" /\ HasOrder /\ TurnsTo(r, NoReq) /\ quote' = quote
      /\ order' = [order EXCEPT !.status = "awaiting_payment"]
      /\ charges' = charges \cup {req[r].price} /\ marks' = marks \cup Late(r)
      /\ ReadSo(req[r])
  BY DEF PayCommit, Found, Becomes, TurnsTo, DraftInv, RequestsKnow
<1>2. charges' \subseteq Prices
  BY <1>1 DEF DraftInv, DraftTypes, ReadSo
<1>3. ASSUME "late" \notin marks'
      PROVE  /\ \A c \in charges' : c = order.price
             /\ order.status \in {"ready_for_checkout", "awaiting_payment"}
  <2>1. "late" \notin marks /\ "late" \notin Late(r)
    BY <1>1, <1>3
  <2>2. order.status = req[r].status /\ order.price = req[r].price
    BY <2>1, InTime
  <2>3. QED BY <1>1, <2>1, <2>2 DEF DraftInv, ChargesOK, ReadSo
<1>4. /\ order' \in OrderRows /\ order'.id = order.id /\ order'.packages = order.packages
      /\ ChargesOK' /\ PackagesOfOneForm' /\ PricedAsSaved'
  <2>1. marks \subseteq marks' /\ (marks' = {} => order.status \in {"ready_for_checkout", "awaiting_payment"})
    BY <1>1, <1>3
  <2>2. QED BY <1>1, <1>3, <2>1, MovesOn
<1>5. QED BY <1>1, <1>2, <1>4, WritingStep

LEMMA DeleteCommitStep ==
  ASSUME DraftInv, NEW r \in Reqs, DeleteCommit(r)
  PROVE  DraftInv'
<1>1. /\ TurnsTo(r, NoReq) /\ quote' = quote
      /\ order' = NoOrder /\ charges' = {} /\ marks' = {}
  BY DEF DeleteCommit, Becomes, TurnsTo
<1>2. ~HasOrder' /\ order'.status = "draft" /\ order'.packages = {}
  BY <1>1 DEF HasOrder, NoOrder
<1>3. ChargesOK' /\ PackagesOfOneForm' /\ PricedAsSaved'
  BY <1>1, <1>2 DEF ChargesOK, PackagesOfOneForm, PricedAsSaved
<1>4. QED BY <1>1, <1>2, <1>3, WritingStep

\* A step of no request: of the gateway, or of the quote.
LEMMA OutsideStep ==
  ASSUME DraftInv,
         Expire \/ CleanUp \/ Approve \/ Mock
           \/ \E rates \in Offers : Calculate(rates)
  PROVE  DraftInv'
<1>1. UNCHANGED <<charges, req, marks>> /\ quote' \in Quotes
  BY DEF DraftInv, DraftTypes, Quotes,
         Expire, CleanUp, Approve, Mock, Calculate
<1>2. CASE UNCHANGED order
  BY <1>1, <1>2 DEF DraftInv, DraftTypes, RequestsKnow, PriceOf, ChargesOK, Found, HasOrder,
                    PackagesOfOneForm, PricedAsSaved
<1>3. CASE Approve \/ Mock
  <2>1. /\ HasOrder /\ order.status \in {"ready_for_checkout", "awaiting_payment"}
        /\ order' = [order EXCEPT !.status = "paid"]
    BY <1>3 DEF Approve, Mock
  <2>2. "late" \notin marks' => \A c \in charges' : c = order.price
    BY <1>1 DEF DraftInv, ChargesOK
  <2>3. /\ order' \in OrderRows /\ order'.id = order.id /\ order'.packages = order.packages
        /\ ChargesOK' /\ PackagesOfOneForm' /\ PricedAsSaved'
    BY <1>1, <2>1, <2>2, MovesOn
  <2>4. RequestsKnow'
    BY <1>1, <2>3 DEF DraftInv, RequestsKnow, PriceOf, Found, HasOrder
  <2>5. DraftTypes'
    BY <1>1, <2>3 DEF DraftInv, DraftTypes
  <2>6. QED BY <2>3, <2>4, <2>5 DEF DraftInv
<1>4. QED BY <1>2, <1>3 DEF Expire, CleanUp, Calculate

LEMMA DraftStarts ==
  ASSUME OrderInit
  PROVE  DraftInv
<1>1. /\ quote \in Quotes /\ order = NoOrder /\ charges = {}
      /\ req = [r \in Reqs |-> NoReq]
  BY DEF OrderInit, Quotes
<1>2. order.status = "draft" /\ order.packages = {} /\ ~HasOrder
  BY <1>1 DEF NoOrder, HasOrder
<1>3. DraftTypes
  BY <1>1, NoReqRecord DEF DraftTypes
<1>4. RequestsKnow
  BY <1>1, NoReqRecord DEF RequestsKnow, PriceOf
<1>5. ChargesOK /\ PackagesOfOneForm /\ PricedAsSaved
  BY <1>1, <1>2 DEF ChargesOK, PackagesOfOneForm, PricedAsSaved
<1>6. QED BY <1>3, <1>4, <1>5 DEF DraftInv

LEMMA DraftStep ==
  ASSUME DraftInv, [OrderNext]_orderVars
  PROVE  DraftInv'
<1>1. CASE UNCHANGED orderVars
  BY <1>1 DEF orderVars, DraftInv, DraftTypes, RequestsKnow, PriceOf, ChargesOK, Found,
              HasOrder, PackagesOfOneForm, PricedAsSaved
<1>2. CASE \/ Expire \/ CleanUp \/ Approve \/ Mock
           \/ \E rates \in Offers : Calculate(rates)
  BY <1>2, OutsideStep
<1>3. ASSUME NEW r \in Reqs,
             \/ (\E c \in Rates : SelectRead(r, c)) \/ SelectCommit(r)
             \/ CreateRead(r) \/ \E kgs \in Parcels : EditRead(r, kgs)
             \/ EditPrice(r) \/ CheckoutRead(r)
             \/ PayRead(r) \/ DeleteRead(r) \/ GiveUp(r)
      PROVE  DraftInv'
  BY <1>3, SelectSteps, CreateReadStep, EditReadStep, EditPriceStep, CheckoutReadStep,
     PlainReadSteps, AbandonStep
<1>4. ASSUME NEW r \in Reqs,
             \/ CreateCommit(r) \/ EditCommit(r) \/ CheckoutCommit(r)
             \/ PayCommit(r) \/ DeleteCommit(r)
      PROVE  DraftInv'
  BY <1>4, CreateCommitStep, EditCommitStep, CheckoutCommitStep, PayCommitStep, DeleteCommitStep
<1>5. QED BY <1>1, <1>2, <1>3, <1>4 DEF OrderNext

LEMMA DraftAlways == OrderSpec => []DraftInv
<1>1. OrderInit => DraftInv
  BY DraftStarts
<1>2. DraftInv /\ [OrderNext]_orderVars => DraftInv'
  BY DraftStep
<1>3. QED BY <1>1, <1>2, PTL DEF OrderSpec

\* However many requests overlap, the amount of a transaction is the price of
\* the order as long as it is awaited or paid, unless one of them committed on
\* what it had read too early (initiate_bank_transfer, proceed_to_checkout).
THEOREM ChargedAsPricedAlways == OrderSpec => []ChargedAsPriced
<1>1. DraftInv => ChargedAsPriced
  BY DEF DraftInv, ChargesOK, ChargedAsPriced
<1>2. QED BY <1>1, DraftAlways, PTL

\* The packages of an order come from one form unless two forms overlapped
\* (update_shipment_details).
THEOREM PackagesOfOneFormAlways == OrderSpec => []PackagesOfOneForm
<1>1. DraftInv => PackagesOfOneForm
  BY DEF DraftInv
<1>2. QED BY <1>1, DraftAlways, PTL

\* The price of a saved form is of one of the packages it saved, until a mark
\* says why not (_persist_recalc).
THEOREM PricedAsSavedAlways == OrderSpec => []PricedAsSaved
<1>1. DraftInv => PricedAsSaved
  BY DEF DraftInv
<1>2. QED BY <1>1, DraftAlways, PTL
====
