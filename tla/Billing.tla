------------------------------ MODULE Billing ------------------------------
(***************************************************************************)
(* The panel's billing as a whole: orders paid from outside (Checkout) and *)
(* subscriptions living on without them (Subscription), on one set of      *)
(* tables and one clock.                                                   *)
(***************************************************************************)
EXTENDS Checkout, Subscription

CONSTANT StartUsers   \* the users table as the operator left it

ASSUME BillingAssumption == StartUsers \in [Users -> UserRow]

vars == <<db, checkoutVars, subscriptionVars>>

StoreInit ==
  /\ users = StartUsers
  /\ orders = [o \in Orders |-> Blank]
  /\ promoUses = {}
  /\ uses = [c \in Codes |-> 0]
  /\ now = 0
  /\ claims = [o \in Orders |-> 0]
  /\ paidUntil = [u \in Users |-> 0]
  /\ gifts = [u \in Users |-> StartUsers[u].balance]

Init == StoreInit /\ CheckoutInit /\ SubscriptionInit

(* The process restarts: the tables and the provider stay. *)
Crash == CheckoutCrash /\ tap' = [t \in Taps |-> IdleTap] /\ job' = IdleJob

Next ==
  \/ CheckoutNext /\ UNCHANGED subscriptionVars
  \/ SubscriptionNext /\ UNCHANGED checkoutVars
  \/ Crash

Spec == Init /\ [][Next]_vars

----------------------------------------------------------------------------
(* Fairness.                                                               *)

(* A provider repeats a callback until it is answered, and a callback       *)
(* handler that started gets to its end; restarts may come in between.     *)
SpecHooks ==
  /\ Spec
  /\ \A o \in Orders : SF_vars(\E h \in Hooks : ReceiveCallback(h, o, "paid")
                                 /\ UNCHANGED subscriptionVars)
  /\ \A h \in Hooks : /\ SF_vars(Confirm(h) /\ UNCHANGED subscriptionVars)
                       /\ WF_vars(Handling(h) /\ UNCHANGED subscriptionVars)

(* The stats poller calls EnforceBilling over and over. *)
SpecEnforce ==
  /\ Spec
  /\ WF_vars(EnforceBilling /\ UNCHANGED checkoutVars)

----------------------------------------------------------------------------
(* Every variable keeps to the values its columns and its code allow; a    *)
(* balance in particular never goes below zero.                            *)
TypeOK == StoreTypeOK /\ CheckoutTypeOK /\ SubscriptionTypeOK

(* What TypeOK rests on: the rows there are fit their kind, and a thread   *)
(* that is on its way holds on to an order or a user there is.             *)
RowFits(o) ==
  /\ orders[o].status # "none" => Fits(orders[o])
  /\ orders[o].linked => orders[o].status # "none"

ShopperFits(s) ==
  /\ shop[s].pc # "idle" =>
       /\ Fits(shop[s].draft) /\ shop[s].draft.method # "balance"
       /\ ~shop[s].draft.linked /\ shop[s].draft.source = "none"
  /\ shop[s].pc \in {"create", "link", "supersede"} =>
       shop[s].order \in Orders /\ orders[shop[s].order].status # "none"

HandlerFits(h) ==
  hand[h].pc # "idle" =>
    /\ hand[h].order \in Orders
    /\ orders[hand[h].order].status # "none"
    /\ hand[h].pc \in {"takeback", "shorten", "endplan"} =>
         orders[hand[h].order].plan \in Plans
    /\ hand[h].pc = "revert" => orders[hand[h].order].from \in Plans

TapFits(t) == tap[t].pc # "idle" => tap[t].user \in Users

JobFits == job.pc \in {"list", "end"} => FreePlan # NoPlan

WellFormed ==
  /\ \A o \in Orders : RowFits(o)
  /\ \A o \in batch : orders[o].linked
  /\ \A s \in Shoppers : ShopperFits(s)
  /\ \A h \in Handlers : HandlerFits(h)
  /\ \A t \in Taps : TapFits(t)
  /\ JobFits

(* However often, in whatever order and by whomever a payment is reported  *)
(* (callbacks, the poll, the operator), its order is claimed at most once: *)
(* ConfirmOrder's claim and its deliveries.                                *)
PaidOnce == \A o \in Orders : claims[o] <= 1

(* Why PaidOnce holds when the operator leaves alone an order whose invoice *)
(* is being made: an order a failing invoice may cancel is claimed by      *)
(* nobody, since only linked orders are heard of from outside, and each    *)
(* request makes the invoice of an order of its own.                       *)
RowUnclaimed(o) ==
  /\ orders[o].status # "paid" => claims[o] = 0 /\ orders[o].source = "none"
  /\ claims[o] <= 1

InvoiceApart(s) ==
  shop[s].pc = "create" =>
    /\ orders[shop[s].order].status \in {"pending", "cancelled"}
    /\ ~orders[shop[s].order].linked
    /\ hand[Operator].pc = "confirm" => hand[Operator].order # shop[s].order

Making(s) == shop[s].pc \in {"create", "link"}

HearsLinked(h) == hand[h].pc # "idle" => orders[hand[h].order].linked

ClaimsApart ==
  /\ \A o \in Orders : RowUnclaimed(o)
  /\ \A s \in Shoppers : InvoiceApart(s)
  /\ \A s, t \in Shoppers :
       s # t /\ Making(s) /\ Making(t) => shop[s].order # shop[t].order
  /\ \A h \in Handlers \ {Operator} : HearsLinked(h)

(* Orders as Settlement sees them. *)
Stage(row) ==
  CASE row.status = "none" -> "none"
    [] row.status \in {"pending", "cancelled"} -> "open"
    [] row.status = "paid" /\ row.source # "provider" -> "settled"
    [] row.status = "paid" /\ row.source = "provider" -> "reversed"

SettlementState == [o \in Orders |-> Stage(orders[o])]

Money == INSTANCE Settlement WITH state <- SettlementState

(* The handlers and transactions together implement Settlement: a paid     *)
(* order never goes back to unpaid, and is reversed at most once.          *)
Settles == Money!Spec

(* A discount code buys a user one plan: whichever of the checkouts opened *)
(* with it are paid, also after they were superseded.                      *)
OneDiscountPerUser ==
  \A o1, o2 \in Orders :
    /\ orders[o1].status = "paid" /\ orders[o2].status = "paid"
    /\ orders[o1].kind = "plan" /\ orders[o2].kind = "plan"
    /\ orders[o1].user = orders[o2].user
    /\ orders[o1].promo = orders[o2].promo /\ orders[o1].promo # NoCode
    => o1 = o2

(* Two checkouts of a user are open on the same code only while the newer  *)
(* one is still on its way to supersede the other (supersedePromoOrders).  *)
OneOpenCheckout ==
  \A o1, o2 \in Orders :
    /\ orders[o1].status = "pending" /\ orders[o2].status = "pending"
    /\ orders[o1].user = orders[o2].user /\ o1 # o2
    /\ orders[o1].promo = orders[o2].promo /\ orders[o1].promo # NoCode
    => \E s \in Shoppers : /\ shop[s].pc \in {"create", "link", "supersede"}
                           /\ shop[s].order \in {o1, o2}

(* Nothing but money that came in for a checkout opened with the code      *)
(* takes a use over its limit: no purchase from the balance, no redeeming. *)
OverLimitByMoneyOnly ==
  [][\A c \in Codes :
       CodeMax[c] > 0 /\ uses[c] >= CodeMax[c] /\ uses'[c] > uses[c]
       => \E o \in Orders : /\ orders[o].status # "paid" /\ orders'[o].status = "paid"
                            /\ orders[o].promo = c /\ orders'[o].method # "balance"]_vars

(* Time that was paid for stays: until its end the user is on a paid plan  *)
(* that lasts at least as long, whatever renews, confirms, changes or ends *)
(* terms meanwhile.  A refund may take more back than it is for (TakeBack  *)
(* reads and writes in two critical sections), so this is for those who    *)
(* have none.                                                              *)
PaidTimeKept ==
  \A u \in Users : paidUntil[u] > now =>
    /\ ActivePaidPlan(users, u) # NoPlan
    /\ Period[users[u].plan] > 0 => users[u].expire >= paidUntil[u]

(* Of a tap delivered twice only one buys (the stamp of the screen).       *)
TapBuysOnce ==
  [][\A t \in Taps : tap[t].done /\ tap[t].pc = "buy" /\ tap'[t].pc # "buy"
       => orders' = orders]_vars

(* Whoever has days left has them from a paid plan, not by the operator's  *)
(* hand alone.                                                             *)
DaysAreOfPlan(u) == users[u].expire > now => ActivePaidPlan(users, u) # NoPlan

(* A tap that has bought leaves its twin nothing to buy then and there,    *)
(* whatever was bought: what its screen held it to has changed ("a second  *)
(* tap of the same button finds it changed", PurchaseStamp), or what it    *)
(* bought is not for sale to its user any more.  A term the operator set   *)
(* to end on the very day the purchase ends on is excepted.                *)
TwinRefused ==
  [][\A t \in Taps, u \in Users, p \in Buys :
       /\ tap[t].pc = "buy" /\ tap[t].user = u /\ tap[t].buy = p /\ DaysAreOfPlan(u)
       /\ \E o \in Orders : TapBuys(t, o)
       => tap[t].stamp # Stamp(u, p.kind)' \/ Quotes(u, p)' = {}]_vars

(* EnforceBilling charges a renewal only to users whose term is at its end *)
(* and whose renewal is on now, not when the pass listed them.             *)
RenewsOnTime ==
  [][\A u \in Users : u \in job.renew \ job'.renew /\ orders' # orders
       => users[u].auto /\ users[u].expire <= now + RenewAhead]_vars

(* Money taken by the provider is in the books in the end, or has gone back *)
(* by then; also when its order was cancelled before it came in.           *)
CapturedIsClaimed ==
  \A o \in Orders :
    charge[o] = "paid" ~> (orders[o].status = "paid" \/ charge[o] = "refunded")

(* A term that ran out does not go on being served as a paid plan.         *)
ExpiredIsEnded ==
  \A u \in Users :
    (users[u].plan # NoPlan /\ users[u].plan # FreePlan
       /\ users[u].expire # 0 /\ users[u].expire <= now)
    ~> (users[u].plan = FreePlan \/ users[u].expire > now)
=============================================================================
