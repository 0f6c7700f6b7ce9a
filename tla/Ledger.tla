------------------------------- MODULE Ledger -------------------------------
(***************************************************************************)
(* Whether the balances add up (internal/store/wallet.go, balance_tx).     *)
(***************************************************************************)
EXTENDS Billing, Functions

ASSUME LedgerAssumption == IsFiniteSet(Orders)

(* What an order left on its payer's balance: a top-up its money, a        *)
(* delivered purchase the part the balance paid, then its refunds.         *)
OrderNet(row) ==
  IF row.status # "paid" THEN 0
  ELSE (IF row.kind = "topup" THEN row.amount * Kop ELSE -row.bal)
       + row.refunded - row.taken

(* What an order left on the balance of u, who paid it or invited the payer. *)
Entry(u, row) ==
  (IF row.user = u THEN OrderNet(row) ELSE 0)
  + (IF row.user # NoUser /\ Referrer[row.user] = u THEN row.refkop ELSE 0)

(* Every balance is what its orders, the referral shares its owner earned  *)
(* and the lines no order stands behind add up to, whatever was delivered, *)
(* turned into a top-up, refunded or charged back, in whichever order.     *)
BooksBalance ==
  \A u \in Users :
    users[u].balance = gifts[u] + SumFunction([o \in Orders |-> Entry(u, orders[o])])

(* Why they add up: an order that was not paid, and the draft of one, has  *)
(* given and refunded nothing; only an order the provider took the money   *)
(* of back has been charged, and one nobody refunded has no refund.        *)
Unbooked(row) == row.refkop = 0 /\ row.refunded = 0 /\ row.taken = 0

RowBooked(row) ==
  /\ row.status # "paid" => Unbooked(row)
  /\ row.source = "none" => row.refunded = 0
  /\ row.source # "provider" => row.taken = 0

BooksKept ==
  /\ \A o \in Orders : RowBooked(orders[o])
  /\ \A s \in Shoppers : shop[s].pc # "idle" => Unbooked(shop[s].draft)
=============================================================================
