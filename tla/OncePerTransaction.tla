------------------------- MODULE OncePerTransaction -------------------------
(***************************************************************************)
(* What a buyer promises about money: at most one payment is in flight, a   *)
(* payment is never put in flight for a transaction that is already paid,   *)
(* and money moves only for the transaction in flight.                      *)
(***************************************************************************)
EXTENDS Naturals

CONSTANT Transactions
VARIABLES paid, inFlight

Init == paid = {} /\ inFlight = {}

Issue ==
  /\ inFlight = {} /\ inFlight' # {}
  /\ \A s, t \in inFlight' : s = t
  /\ inFlight' \subseteq Transactions \ paid
  /\ UNCHANGED paid

(* The money moves; the buyer may or may not learn of it in the same step. *)
Charge(tx) ==
  /\ tx \in inFlight \ paid
  /\ paid' = paid \cup {tx}
  /\ inFlight' \in {inFlight, {}}

(* The buyer knows how the payment in flight ended. *)
Resolve ==
  /\ inFlight # {}
  /\ inFlight' = {}
  /\ UNCHANGED paid

Next == Issue \/ Resolve \/ \E tx \in inFlight : Charge(tx)
Spec == Init /\ [][Next]_<<paid, inFlight>>
=============================================================================
