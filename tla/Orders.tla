-------------------------------- MODULE Orders --------------------------------
(***************************************************************************)
(* From a quote to an order that is paid for: one quote session, the order  *)
(* a customer makes of it (at most one: the two ids are unique together),   *)
(* its packages and its price.  Requests overlap: each reads in one step    *)
(* and commits in another, with the row locks PostgreSQL takes between, and *)
(* the form's also asks the carrier for a price.                            *)
(*                                                                         *)
(* A parcel is its weight; parties and services are saved with packages.   *)
(***************************************************************************)
EXTENDS Integers, FiniteSets

CONSTANTS
  Rates,      \* tariffs that may be offered
  CseRates,   \* those of CSE; the others are of one other carrier
  Offers,     \* what a calculation may find: sets of tariffs
  Weights,    \* weights of packages
  Parcels,    \* what a form may hold: sets of weights
  QuoteKg,    \* the weight the quote was asked for
  Reqs,       \* requests under way
  MaxForms,   \* bound: forms whose packages are told apart
  MaxOrders   \* bound: orders that are told apart

\* The id of a rate that is not set.
NoRate == "none"

ASSUME OrdersAssumption ==
  /\ NoRate \notin Rates /\ CseRates \subseteq Rates /\ Offers \subseteq SUBSET Rates /\ QuoteKg \in Weights
  /\ Parcels \subseteq SUBSET Weights /\ {} \notin Parcels
  /\ MaxForms \in Nat /\ MaxOrders \in Nat

VARIABLES
  quote,    \* quote_sessions and its rate_quotes: state, rates, selected rates
  order,    \* the order_drafts row with its packages, id 0 when there is none
  charges,  \* amounts of the payment transactions of the order
  req,      \* what each request is doing and what it has read
  marks     \* what has happened to the order that its state does not show

orderVars == <<quote, order, charges, req, marks>>

\* What a price was computed from; markup is a function of it.
Prices == [rate: Rates, kg: Weights]
Price(rate, kg) == [rate |-> rate, kg |-> kg]
NoPrice == [rate |-> NoRate, kg |-> 0]
\* Rows of shipment_packages, by the form that wrote them.
Forms == 1..MaxForms
PackageRows == [form: Forms, kg: Weights]
DraftStatuses == {"draft", "shipment_details_completed", "ready_for_checkout",
                  "awaiting_payment", "paid"}
EditableStatuses == {"draft", "shipment_details_completed"}
NoOrder == [id |-> 0, status |-> "draft", rate |-> NoRate, price |-> NoPrice, packages |-> {}]

Ops == {"idle", "select", "create", "edit", "price", "checkout", "pay", "delete"}
NoReq == [op |-> "idle", id |-> 0, status |-> "draft", rate |-> NoRate,
         price |-> NoPrice, next |-> NoPrice, rows |-> {}, kgs |-> {}, picked |-> {}]
\* A request that has read the order; the first kind goes by its status alone.
Checking(op) == [NoReq EXCEPT !.op = op, !.id = order.id, !.status = order.status]
Reading(op) == [Checking(op) EXCEPT !.price = order.price]

OrderInit ==
  /\ quote = [state |-> "none", rates |-> {}, picked |-> {}]
  /\ order = NoOrder
  /\ charges = {} /\ marks = {}
  /\ req = [r \in Reqs |-> NoReq]

Becomes(r, doing) == req' = [req EXCEPT ![r] = doing]
HasOrder == order.id # 0
\* The order that r has read still exists.
Found(r) == HasOrder /\ order.id = req[r].id
\* What r goes by has changed since r has read it.
Late(r) ==
  IF /\ order.status = req[r].status
     /\ req[r].rate \in {NoRate, order.rate}
     /\ order.price = req[r].price
  THEN {} ELSE {"late"}
\* Keys of new rows: neither in use nor remembered by a request.
IsNewForm(f) ==
  LET known == order.packages \cup UNION {req[s].rows : s \in Reqs}
      free == Forms \ {p.form : p \in known} IN
  f \in free /\ \A g \in free : f <= g
IsNewOrder(i) ==
  LET free == (1..MaxOrders) \ {req[s].id : s \in Reqs} IN
  i \in free /\ \A j \in free : i <= j
\* A column is written when it differs from the value that was loaded.
Write(loaded, new, current) == IF new = loaded THEN current ELSE new

-----------------------------------------------------------------------------
(* The quote.                                                                *)

Calculate(rates) ==
  /\ quote.state = "none"
  /\ quote' = [state |-> "live", rates |-> rates, picked |-> {}]
  /\ UNCHANGED <<order, charges, req, marks>>

Expire ==
  /\ quote.state = "live"
  /\ quote' = [quote EXCEPT !.state = "expired"]
  /\ UNCHANGED <<order, charges, req, marks>>

\* One DELETE of the expired sessions: the foreign key of their rates fails it.
CleanUp ==
  /\ quote.state = "expired" /\ quote.rates = {}
  /\ quote' = [quote EXCEPT !.state = "gone"]
  /\ UNCHANGED <<order, charges, req, marks>>

\* Locks the row of the chosen rate, and finds the rates selected before.
SelectRead(r, c) ==
  /\ req[r] = NoReq /\ quote.state = "live" /\ c \in quote.rates
  /\ \A s \in Reqs : req[s].op = "select" => req[s].rate # c
  /\ Becomes(r, [NoReq EXCEPT !.op = "select", !.rate = c, !.picked = quote.picked])
  /\ UNCHANGED <<quote, order, charges, marks>>

\* Clears what it found, waiting for the locks on it; nobody locks the session.
SelectCommit(r) ==
  /\ req[r].op = "select"
  /\ \A s \in Reqs \ {r} : req[s].op = "select" => req[s].rate \notin req[r].picked
  /\ quote' = [quote EXCEPT !.picked = (@ \ req[r].picked) \cup {req[r].rate}]
  /\ Becomes(r, NoReq)
  /\ UNCHANGED <<order, charges, marks>>

-----------------------------------------------------------------------------
(* The order is made of the quote, or its snapshot is renewed.               *)

\* One of the selected rates, whichever comes first.
CreateRead(r) ==
  /\ req[r] = NoReq /\ quote.state = "live"
  /\ \E c \in quote.picked : Becomes(r, [Reading("create") EXCEPT !.rate = order.rate, !.picked = {c}])
  /\ UNCHANGED <<quote, order, charges, marks>>

\* Renewing asks for no status: an order past the form gets another price too.
CreateCommit(r) ==
  LET c == CHOOSE x \in req[r].picked : TRUE
      price == Price(c, QuoteKg) IN
  /\ req[r].op = "create" /\ Becomes(r, NoReq)
  /\ IF req[r].id = 0 /\ ~HasOrder
     THEN /\ \E i \in 1..MaxOrders, f \in Forms :
               /\ IsNewOrder(i) /\ IsNewForm(f)
               /\ order' = [id |-> i, status |-> "draft", rate |-> c, price |-> price,
                            packages |-> {[form |-> f, kg |-> QuoteKg]}]
          /\ marks' = {}
     ELSE IF Found(r)
     THEN /\ order' = [order EXCEPT !.rate = Write(req[r].rate, c, @),
                                    !.price = Write(req[r].price, price, @)]
          /\ marks' = marks \cup {"renewed"} \cup Late(r)
                      \cup (IF order.status \in EditableStatuses THEN {} ELSE {"late"})
     ELSE UNCHANGED <<order, marks>>  \* unique constraint, or row not found
  /\ UNCHANGED <<quote, charges>>

-----------------------------------------------------------------------------
(* The customer saves the form.                                              *)

\* Mutant of EditRead: the status is not asked for.
EditRead_AnyStatus(r, kgs) ==
  /\ req[r] = NoReq /\ HasOrder
  /\ Becomes(r, [Checking("edit") EXCEPT !.rows = order.packages, !.kgs = kgs])
  /\ UNCHANGED <<quote, order, charges, marks>>

\* Checks the status and deletes the rows it sees.
EditRead(r, kgs) ==
  /\ req[r] = NoReq /\ HasOrder /\ order.status \in EditableStatuses
  /\ Becomes(r, [Checking("edit") EXCEPT !.rows = order.packages, !.kgs = kgs])
  /\ UNCHANGED <<quote, order, charges, marks>>

Written(r) == {[form |-> f, kg |-> k] : f \in {x \in Forms : IsNewForm(x)}, k \in req[r].kgs}

\* CSE's own calculator, asked for one tariff.
CseRecalc(rate, kgs) == {Price(rate, k) : k \in kgs}

\* The tariff engine: another tariff of the carrier when this one is not found.
GenericRecalc(rate, kgs) == {Price(c, k) : c \in Rates \ CseRates, k \in kgs}

\* Mutant of Recalc: the weight of the quote, not of the package.
Recalc_QuoteWeight(rate, rows) == {NoPrice, Price(rate, QuoteKg)}

\* For the first package, in no fixed order; or no price can be had.
Recalc(rate, rows) ==
  LET kgs == {p.kg : p \in rows} IN
  {NoPrice} \cup (IF rate \in CseRates THEN CseRecalc(rate, kgs) ELSE GenericRecalc(rate, kgs))

\* Two forms delete the same rows one after the other.
RowsLocked(r) ==
  \E s \in Reqs \ {r} : req[s].op = "price" /\ req[s].rows \cap req[r].rows # {}

\* Refreshes the order and asks for the price.
EditPrice(r) ==
  /\ req[r].op = "edit" /\ ~RowsLocked(r)
  /\ IF Found(r)
     THEN \E p \in Recalc(order.rate, (order.packages \ req[r].rows) \cup Written(r)) :
            Becomes(r, [req[r] EXCEPT !.op = "price", !.rate = order.rate,
                                      !.price = order.price, !.next = p])
     ELSE Becomes(r, NoReq)
  /\ UNCHANGED <<quote, order, charges, marks>>

\* Mutant of Replaced: the rows of earlier forms stay.
Replaced_Keeps(r) == order.packages \cup Written(r)

\* The rows that were seen go; those of a form committed since then stay.
Replaced(r) == (order.packages \ req[r].rows) \cup Written(r)

EditCommit(r) ==
  LET next == req[r].next
      priced == next # NoPrice IN
  /\ req[r].op = "price" /\ Found(r) /\ Written(r) # {}
  /\ order' = [order EXCEPT
       !.status = "shipment_details_completed",
       !.packages = Replaced(r),
       !.price = IF priced THEN Write(req[r].price, next, @) ELSE @]
  /\ marks' = (marks \ {"renewed", "unpriced"}) \cup Late(r)
       \cup (IF order.packages = req[r].rows THEN {} ELSE {"missed"})
       \cup (IF priced /\ next.rate = req[r].rate THEN {} ELSE {"unpriced"})
  /\ Becomes(r, NoReq)
  /\ UNCHANGED <<quote, charges>>

-----------------------------------------------------------------------------
(* The customer checks out and pays.                                         *)

\* A CSE order is priced again, without the weight of its package.
CheckoutRead(r) ==
  /\ req[r] = NoReq /\ HasOrder /\ order.status = "shipment_details_completed"
  /\ order.packages # {}
  /\ \E p \in {NoPrice} \cup (IF order.rate \in CseRates THEN CseRecalc(order.rate, {QuoteKg}) ELSE {}) :
       Becomes(r, [Reading("checkout") EXCEPT !.next = p])
  /\ UNCHANGED <<quote, order, charges, marks>>

CheckoutCommit(r) ==
  /\ req[r].op = "checkout" /\ Found(r)
  /\ order' = [order EXCEPT
       !.status = "ready_for_checkout",
       !.price = IF req[r].next = NoPrice THEN @ ELSE Write(req[r].price, req[r].next, @)]
  /\ marks' = marks \cup Late(r) \cup (IF req[r].next = NoPrice THEN {"unpriced"} ELSE {})
  /\ Becomes(r, NoReq)
  /\ UNCHANGED <<quote, charges>>

PayRead(r) ==
  /\ req[r] = NoReq /\ HasOrder /\ order.status \in {"ready_for_checkout", "awaiting_payment"}
  /\ charges = {}
  /\ Becomes(r, Reading("pay"))
  /\ UNCHANGED <<quote, order, charges, marks>>

\* The amount is the price that was read.
PayCommit(r) ==
  /\ req[r].op = "pay" /\ Found(r)
  /\ charges' = charges \cup {req[r].price}
  /\ order' = [order EXCEPT !.status = "awaiting_payment"]
  /\ marks' = marks \cup Late(r)
  /\ Becomes(r, NoReq)
  /\ UNCHANGED quote

Approve ==
  /\ HasOrder /\ order.status = "awaiting_payment" /\ charges # {}
  /\ order' = [order EXCEPT !.status = "paid"]
  /\ UNCHANGED <<quote, charges, req, marks>>

\* Outside production, a payment that is only confirmed.
Mock ==
  /\ HasOrder /\ order.status \in {"ready_for_checkout", "awaiting_payment"}
  /\ order' = [order EXCEPT !.status = "paid"]
  /\ UNCHANGED <<quote, charges, req, marks>>

-----------------------------------------------------------------------------
(* The customer deletes the draft.                                           *)

DeleteRead(r) ==
  /\ req[r] = NoReq /\ HasOrder /\ order.status \in EditableStatuses
  /\ Becomes(r, Checking("delete"))
  /\ UNCHANGED <<quote, order, charges, marks>>

\* By id, whatever has become of it, its payments included (ON DELETE CASCADE);
\* waits for a form that holds its packages.
DeleteCommit(r) ==
  /\ req[r].op = "delete" /\ Found(r)
  /\ \A s \in Reqs : req[s].op = "price" => req[s].id # order.id
  /\ order' = NoOrder /\ charges' = {} /\ marks' = {}
  /\ Becomes(r, NoReq)
  /\ UNCHANGED quote

\* A request fails (its row is gone, a key is violated, a deadlock is broken)
\* or dies, and writes nothing.
GiveUp(r) ==
  /\ req[r] # NoReq
  /\ Becomes(r, NoReq)
  /\ UNCHANGED <<quote, order, charges, marks>>

OrderNext ==
  \/ Expire \/ CleanUp \/ Approve \/ Mock
  \/ \E rates \in Offers : Calculate(rates)
  \/ \E r \in Reqs :
       \/ \E c \in Rates : SelectRead(r, c)
       \/ \E kgs \in Parcels : EditRead(r, kgs)
       \/ SelectCommit(r) \/ CreateRead(r) \/ CreateCommit(r)
       \/ EditPrice(r) \/ EditCommit(r) \/ CheckoutRead(r) \/ CheckoutCommit(r)
       \/ PayRead(r) \/ PayCommit(r)
       \/ DeleteRead(r) \/ DeleteCommit(r) \/ GiveUp(r)

OrderSpec == OrderInit /\ [][OrderNext]_orderVars

-----------------------------------------------------------------------------
(* Properties.                                                               *)

OrderTypeOK ==
  /\ quote \in [state: {"none", "live", "expired", "gone"},
                rates: SUBSET Rates, picked: SUBSET Rates]
  /\ order = NoOrder \/ order \in [id: 1..MaxOrders, status: DraftStatuses, rate: Rates,
                                   price: Prices, packages: SUBSET PackageRows]
  /\ charges \subseteq Prices
  /\ req \in [Reqs -> [op: Ops, id: 0..MaxOrders, status: DraftStatuses,
                       rate: Rates \cup {NoRate}, price: Prices \cup {NoPrice},
                       next: Prices \cup {NoPrice}, rows: SUBSET PackageRows,
                       kgs: Parcels \cup {{}}, picked: SUBSET Rates]]
  /\ marks \subseteq {"late", "missed", "renewed", "unpriced"}

\* What a customer is asked to pay is the price of the order: the amount of a
\* transaction is its price_snapshot as long as it is awaited or paid, unless a
\* request has committed on what it had read too early, or the draft was made
\* anew after checkout (initiate_bank_transfer, update_shipment_details,
\* proceed_to_checkout, create_draft_from_quote).
ChargedAsPriced ==
  order.status \in {"awaiting_payment", "paid"} /\ "late" \notin marks
    => \A c \in charges : c = order.price

\* The packages of an order come from one form, all of them, unless two forms
\* overlapped: the second does not see, nor delete, what the first has written
\* (update_shipment_details).
PackagesOfOneForm ==
  "missed" \notin marks => \A p, q \in order.packages : p.form = q.form

\* Once the form is saved, the price is that of one of the packages it saved;
\* until checkout, and for other carriers than CSE after it as well.  Except
\* when no price could be had, the snapshot was renewed from the quote, or
\* requests overlapped (_persist_recalc).
PricedAsSaved ==
  /\ order.status \in DraftStatuses \ {"draft"} /\ marks = {}
  /\ order.rate \in CseRates => order.status = "shipment_details_completed"
  => \E p \in order.packages : order.price = Price(order.rate, p.kg)

\* What delete_draft tells the customer: "only an unpaid order can be deleted".
\* It holds of what the request has read; the DELETE goes by id.
PaidIsKept ==
  [][HasOrder /\ order.status = "paid" => order'.id = order.id]_orderVars

\* What the payment gateway charges equals what CSE will bill, the weight of the
\* saved packages: the promise of proceed_to_checkout.
CheckoutPricesParcel ==
  order.status = "ready_for_checkout" /\ order.rate \in CseRates /\ marks = {}
    => \E p \in order.packages : order.price = Price(order.rate, p.kg)
=============================================================================
