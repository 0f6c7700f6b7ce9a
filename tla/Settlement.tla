----------------------------- MODULE Settlement -----------------------------
(***************************************************************************)
(* What billing promises about the money of one order, whoever reports it  *)
(* and however often: an order is opened, is settled at most once, and     *)
(* what was settled can only be reversed, at most once.  An order that is  *)
(* cancelled stays open: the payer may still pay it.                       *)
(***************************************************************************)
CONSTANT Orders

VARIABLE state

States == {"none", "open", "settled", "reversed"}

Init == state = [o \in Orders |-> "none"]

OpenOrder(o) ==
  /\ state[o] = "none"
  /\ state' = [state EXCEPT ![o] = "open"]

(* A purchase from the balance is opened and settled in one step. *)
Buy(o) ==
  /\ state[o] = "none"
  /\ state' = [state EXCEPT ![o] = "settled"]

Settle(o) ==
  /\ state[o] = "open"
  /\ state' = [state EXCEPT ![o] = "settled"]

Reverse(o) ==
  /\ state[o] = "settled"
  /\ state' = [state EXCEPT ![o] = "reversed"]

Next == \E o \in Orders : OpenOrder(o) \/ Buy(o) \/ Settle(o) \/ Reverse(o)

Spec == Init /\ [][Next]_state
=============================================================================
