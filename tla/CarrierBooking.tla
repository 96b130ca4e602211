---------------------------- MODULE CarrierBooking ----------------------------
(***************************************************************************)
(* What dispatching promises about the carrier, seen from one order: an    *)
(* invoice is created, and its number recorded; once a number is recorded  *)
(* no further invoice is created; a second invoice can only follow one     *)
(* whose number was lost before it was recorded.  (Docstring of            *)
(* DispatchWorker._process_job: "retrying would create a duplicate         *)
(* waybill".)                                                              *)
(***************************************************************************)
EXTENDS Naturals

CONSTANT Orders

VARIABLES
  phase,   \* how far the booking of each order is
  count    \* invoices the carrier has created for it

Phases == {"open", "held", "lost", "recorded"}

Init ==
  /\ phase = [o \in Orders |-> "open"]
  /\ count = [o \in Orders |-> 0]

\* The carrier creates an invoice; we hold its number, or we do not know it.
Book(o) ==
  /\ phase[o] \in {"open", "lost"}
  /\ \E p \in {"held", "lost"} : phase' = [phase EXCEPT ![o] = p]
  /\ count' = [count EXCEPT ![o] = @ + 1]

\* A number is stored: the one we hold, a late one, or one typed in by staff.
Record(o) ==
  /\ phase[o] # "recorded"
  /\ phase' = [phase EXCEPT ![o] = "recorded"]
  /\ UNCHANGED count

\* The number we hold is lost before it is stored.
Lose(o) ==
  /\ phase[o] = "held"
  /\ phase' = [phase EXCEPT ![o] = "lost"]
  /\ UNCHANGED count

Next == \E o \in Orders : Book(o) \/ Record(o) \/ Lose(o)

Spec == Init /\ [][Next]_<<phase, count>>

=============================================================================
