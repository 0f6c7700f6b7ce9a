------------------------------ MODULE Checkout ------------------------------
(***************************************************************************)
(* Taking money from outside (internal/core/manager_payments.go, the order *)
(* half of manager_billing.go, manager_wallet_extra.go).                   *)
(*                                                                         *)
(* An order is opened by a request of the payer (a shopper), paid, voided  *)
(* or refunded at a payment provider, and confirmed by whoever hears of it *)
(* first: a callback handler, the 25 s poll, or the operator.  Callbacks   *)
(* are delivered any number of times, in any order, or never.  Each        *)
(* handler is a thread: what it read at one step may be stale at its next. *)
(* confirmOrderPaid holds applyPlanMu from its read of the user to the     *)
(* commit, so a confirmation is one step; the network call that creates an *)
(* invoice, and the steps of a take-back after a refund, are not under it. *)
(***************************************************************************)
EXTENDS Pricing

CONSTANTS
  Shoppers,        \* requests that open orders, handled in parallel
  Hooks,           \* callback handlers running in parallel
  Poller,          \* the thread of PollPendingPayments
  Operator,        \* the operator's (or the external system's) request
  Purchases,       \* what users ask to buy
  Methods,         \* how they pay: "provider", "manual", "external"
  OperatorActs,    \* what the operator does: "confirm", "cancel", "refund"
  ProviderActs,    \* what happens to an invoice: "pay", "odd", "void", "refund"
  MayFail,         \* "create": the provider call may fail; "crash": restarts
  ConfirmEarly,    \* the operator confirms orders whose invoice is being made
  StatusAPI,       \* the provider can be asked about an invoice
  TopupCap         \* maxPendingTopups

Handlers == Hooks \cup {Poller, Operator}

ASSUME CheckoutAssumption ==
  /\ Poller \notin Hooks /\ Operator \notin Hooks /\ Poller # Operator
  /\ Purchases \subseteq PurchaseRow
  /\ Methods \subseteq {"provider", "manual", "external"}
  /\ ConfirmEarly \in BOOLEAN /\ StatusAPI \in BOOLEAN
  /\ TopupCap \in Nat

VARIABLES
  shop,    \* shopper -> [pc, draft, order]
  hand,    \* handler -> [pc, order]
  batch,   \* the orders of the poll's list it has not come to yet
  charge   \* the provider's side: the state of each order's invoice

threads == <<shop, hand, batch>>
checkoutVars == <<threads, charge>>

Charges == {"none", "open", "paid", "odd", "void", "refunded"}
ShopPcs == {"idle", "reuse", "insert", "create", "link", "supersede"}
HandPcs == {"idle", "confirm", "void", "sweep", "refund", "takeback", "shorten",
            "endplan", "addonback", "revert"}

IdleShop == [pc |-> "idle", draft |-> Blank, order |-> NoOrder]
IdleHand == [pc |-> "idle", order |-> NoOrder]

CheckoutTypeOK ==
  /\ shop \in [Shoppers -> [pc : ShopPcs, draft : OrderRow,
                            order : Orders \cup {NoOrder}]]
  /\ hand \in [Handlers -> [pc : HandPcs, order : Orders \cup {NoOrder}]]
  /\ batch \subseteq Orders
  /\ charge \in [Orders -> Charges]

CheckoutInit ==
  /\ shop = [s \in Shoppers |-> IdleShop]
  /\ hand = [h \in Handlers |-> IdleHand]
  /\ batch = {}
  /\ charge = [o \in Orders |-> "none"]

----------------------------------------------------------------------------
(* Opening an order: purchaseDraft reads and prices without a lock, the    *)
(* rest follows step by step (startProviderOrder, manualOrder,             *)
(* externalOrder).                                                         *)

StartPurchase(s, u, p, m) ==
  /\ shop[s].pc = "idle"
  /\ \E q \in Quotes(u, p) :
       /\ q.money > 0
       /\ shop' = [shop EXCEPT ![s] =
            [pc |-> IF m = "external" THEN "insert" ELSE "reuse",
             draft |-> [Draft(u, p, q) EXCEPT !.method = m],
             order |-> NoOrder]]
  /\ UNCHANGED <<db, hand, batch, charge>>

SameOrder(x, d) ==
  /\ x.kind = d.kind /\ x.amount = d.amount /\ x.bal = d.bal
  /\ x.promo = d.promo /\ x.periods = d.periods
  /\ x.devices = d.devices /\ x.from = d.from
  /\ x.expect = d.expect /\ x.pack = d.pack

(* The pending orders the request may pick up: LatestPendingManualOrder    *)
(* takes any without a provider, LatestPendingProviderOrderForPlan the     *)
(* linked ones.                                                            *)
PendingLike(d) ==
  LET mine == {o \in Orders : /\ orders[o].status = "pending"
                              /\ orders[o].user = d.user
                              /\ orders[o].plan = d.plan
                              /\ IF d.method = "manual"
                                 THEN orders[o].method = "manual" \/ ~orders[o].linked
                                 ELSE orders[o].method = d.method /\ orders[o].linked}
  IN {o \in mine : \A x \in mine : orders[x].created <= orders[o].created}

ReuseOrder(s) ==
  /\ shop[s].pc = "reuse"
  /\ LET d == shop[s].draft
         same == {o \in PendingLike(d) : SameOrder(orders[o], d)}
     IN \/ /\ same # {}
           /\ shop' = [shop EXCEPT ![s] = IdleShop]
        \/ \* another is the latest, or the hosted page is past its window
           /\ \/ same = {} \/ same # PendingLike(d) \/ d.method = "provider"
           /\ shop' = [shop EXCEPT ![s].pc = "insert"]
  /\ UNCHANGED <<db, hand, batch, charge>>

(* Checked in the INSERT itself. *)
UnderCap(d) ==
  d.kind = "topup" =>
    Cardinality({o \in Orders : /\ orders[o].user = d.user
                                /\ orders[o].kind = "topup"
                                /\ orders[o].status = "pending"
                                /\ orders[o].created >= now}) < TopupCap

InsertOrder(s, o) ==
  /\ shop[s].pc = "insert"
  /\ orders[o].status = "none"
  /\ UnderCap(shop[s].draft)
  /\ orders' = [orders EXCEPT ![o] =
       [shop[s].draft EXCEPT !.status = "pending", !.created = now]]
  /\ shop' = [shop EXCEPT ![s].order = o,
       ![s].pc = CASE shop[s].draft.method = "provider" -> "create"
                   [] shop[s].draft.method = "external" -> "link"
                   [] shop[s].draft.method = "manual" -> "supersede"]
  /\ UNCHANGED <<users, promoUses, uses, now, history, hand, batch, charge>>

InsertRefused(s) ==
  /\ shop[s].pc = "insert"
  /\ ~UnderCap(shop[s].draft)
  /\ shop' = [shop EXCEPT ![s] = IdleShop]
  /\ UNCHANGED <<db, hand, batch, charge>>

(* client.Create, up to 20 s on the network, with the order already there. *)
CreateInvoice(s) ==
  /\ shop[s].pc = "create"
  /\ charge' = [charge EXCEPT ![shop[s].order] = "open"]
  /\ shop' = [shop EXCEPT ![s].pc = "link"]
  /\ UNCHANGED <<db, hand, batch>>

CreateFails(s) ==
  /\ "create" \in MayFail
  /\ shop[s].pc = "create"
  /\ SetCancelled(shop[s].order)
  /\ shop' = [shop EXCEPT ![s] = IdleShop]
  /\ UNCHANGED <<users, promoUses, uses, now, history, hand, batch, charge>>

(* SetPaymentOrderProvider: from here the payer has the page and callbacks *)
(* find the order.                                                         *)
LinkOrder(s) ==
  /\ shop[s].pc = "link"
  /\ orders' = [orders EXCEPT ![shop[s].order].linked = TRUE]
  /\ shop' = [shop EXCEPT ![s].pc = "supersede"]
  /\ UNCHANGED <<users, promoUses, uses, now, history, hand, batch, charge>>

SupersedeOrders(s) ==
  /\ shop[s].pc = "supersede"
  /\ CancelIfPending(OpenWithCode(shop[s].draft.user, shop[s].draft.promo,
                                  shop[s].order))
  /\ shop' = [shop EXCEPT ![s] = IdleShop]
  /\ UNCHANGED <<users, promoUses, uses, now, history, hand, batch, charge>>

----------------------------------------------------------------------------
(* The payment provider (external): an invoice is paid for the right sum   *)
(* or another one, voided, or its money given back.                        *)

ProviderStep(o, act) ==
  /\ act \in ProviderActs /\ orders[o].linked
  /\ CASE act = "pay" -> charge[o] = "open"
       [] act = "odd" -> charge[o] = "open"
       [] act = "void" -> charge[o] = "open"
       [] act = "refund" -> charge[o] = "paid"
  /\ charge' = [charge EXCEPT ![o] =
       CASE act = "pay" -> "paid" [] act = "odd" -> "odd"
         [] act = "void" -> "void" [] act = "refund" -> "refunded"]
  /\ UNCHANGED <<db, threads>>

(* The callbacks an invoice has ever given rise to. *)
Callbacks(o) ==
  CASE charge[o] = "paid" -> {"paid"}
    [] charge[o] = "odd" -> {"odd"}
    [] charge[o] = "void" -> {"void"}
    [] charge[o] = "refunded" -> {"paid", "refunded"}
    [] OTHER -> {}

----------------------------------------------------------------------------
(* Hearing of a payment.                                                   *)

ReactionToPending(o, report) ==   \* mutant
  CASE report = "paid" -> IF orders[o].status # "pending" THEN "idle" ELSE "confirm"
    [] report = "void" -> "void"
    [] report = "refunded" -> IF orders[o].status = "paid" THEN "refund" ELSE "void"
    [] OTHER -> "idle"

(* What a callback or a status answer makes of the order it finds: nothing *)
(* when there is nothing to do, a payment of another sum left alone.       *)
Reaction(o, report) ==
  CASE report = "paid" -> IF orders[o].status = "paid" THEN "idle" ELSE "confirm"
    [] report = "void" -> "void"
    [] report = "refunded" -> IF orders[o].status = "paid" THEN "refund" ELSE "void"
    [] OTHER -> "idle"

(* handleProviderWebhook up to its read of the order. *)
ReceiveCallback(h, o, report) ==
  /\ hand[h].pc = "idle"
  /\ orders[o].linked /\ orders[o].method = "provider"
  /\ report \in Callbacks(o)
  /\ Reaction(o, report) # "idle"
  /\ hand' = [hand EXCEPT ![h] = [pc |-> Reaction(o, report), order |-> o]]
  /\ UNCHANGED <<db, shop, batch, charge>>

(* PendingProviderOrders. *)
ToPoll ==
  {o \in Orders : /\ orders[o].status = "pending" /\ orders[o].linked
                  /\ orders[o].method = "provider"}

(* PollPendingPayments: the list first, then one order at a time. *)
PollList ==
  /\ hand[Poller].pc = "idle" /\ batch = {}
  /\ ToPoll # {} /\ batch' = ToPoll
  /\ UNCHANGED <<db, shop, hand, charge>>

(* Older than paymentOrderMaxAge, a day. *)
Stale(o) == orders[o].created + 1 < now

(* The answer to a status request: a refund reads like a voided invoice    *)
(* here, and only an order asked about in vain is given up for its age.    *)
PollAsk(o) ==
  /\ StatusAPI
  /\ hand[Poller].pc = "idle" /\ o \in batch
  /\ batch' = batch \ {o}
  /\ hand' = [hand EXCEPT ![Poller] =
       CASE charge[o] = "paid" /\ orders[o].status # "paid" ->
              [pc |-> "confirm", order |-> o]
         [] charge[o] \in {"void", "refunded"} ->
              [pc |-> "void", order |-> o]
         [] charge[o] = "open" /\ Stale(o) ->
              [pc |-> "sweep", order |-> o]
         [] OTHER -> IdleHand]
  /\ UNCHANGED <<db, shop, charge>>

(* No answer: no status endpoint or an error leave age to decide, a        *)
(* provider that is unavailable leaves the order for the next cycle.       *)
PollFails(o) ==
  /\ ~StatusAPI \/ "poll" \in MayFail
  /\ hand[Poller].pc = "idle" /\ o \in batch
  /\ batch' = batch \ {o}
  /\ \/ hand' = [hand EXCEPT ![Poller] =
          IF Stale(o) THEN [pc |-> "sweep", order |-> o]
          ELSE IdleHand]
     \/ StatusAPI /\ hand' = hand
  /\ UNCHANGED <<db, shop, charge>>

(* ConfirmPayment: by hand, of a pending order or a cancelled one. *)
OperatorConfirms(o) ==
  /\ "confirm" \in OperatorActs
  /\ hand[Operator].pc = "idle"
  /\ Open(o)
  /\ ConfirmEarly \/ \A s \in Shoppers : shop[s].pc = "create" => shop[s].order # o
  /\ hand' = [hand EXCEPT ![Operator] = [pc |-> "confirm", order |-> o]]
  /\ UNCHANGED <<db, shop, batch, charge>>

----------------------------------------------------------------------------
(* The user's use of the order's code went to another checkout. *)
CodeNeverTaken(o) == FALSE   \* mutant
CodeTaken(o) ==
  orders[o].promo # NoCode /\ <<orders[o].promo, orders[o].user>> \in promoUses

(* confirmOrderPaid: what the order delivers to the user as they are now.  *)
ConfirmSpec(o) ==
  LET row == orders[o]
      u == row.user
      money == row.amount * Kop
      cur == ActivePaidPlan(users, u)
      toBalance == [EmptySpec EXCEPT !.credit = money, !.asTopup = TRUE]
      moved == cur # NoPlan /\ (cur # row.plan \/ Period[cur] = 0)
      w == PlanWriteForDays(users, u, row.plan, cur = row.plan, TRUE,
                            Period[row.plan] * row.periods, row.devices)
      bonus == IF w.expire > 0 THEN users[u].bonus ELSE 0
      viaBalance == [EmptySpec EXCEPT !.credit = money, !.debit = money + row.bal]
  IN CASE row.kind = "topup" -> [EmptySpec EXCEPT !.credit = money]
       [] row.kind = "change" ->
            [viaBalance EXCEPT !.what = "plan",
               !.write = ChangeWrite(users, u, row.plan, row.devices, row.expect,
                                     row.from, row.expect)]
       [] row.kind \in {"devices", "traffic"} ->
            [viaBalance EXCEPT !.what = "addon",
               !.addon = [NoAddon EXCEPT !.plan = row.plan, !.pack = row.pack,
                            !.devices = IF row.kind = "devices"
                                        THEN row.devices ELSE 0,
                            !.reqExpire = row.expect]]
       [] row.kind = "plan" ->
            IF \/ WalletEnabled /\ (CodeTaken(o) \/ moved)
               \/ cur = row.plan /\ HeldDevices(users, u, row.plan) # row.devices
            THEN toBalance
            ELSE [EmptySpec EXCEPT !.what = "plan", !.promo = row.promo,
                    !.write = [w EXCEPT !.expire = @ + bonus], !.bonus = bonus,
                    !.days = Period[row.plan] * row.periods,
                    !.credit = IF row.bal > 0 THEN money ELSE 0,
                    !.debit = IF row.bal > 0 THEN money + row.bal ELSE 0]

(* A handler that decided to confirm: claims, or finds it claimed. *)
Confirm(h) ==
  /\ hand[h].pc = "confirm"
  /\ ConfirmOrder(hand[h].order, ConfirmSpec(hand[h].order))
  /\ hand' = [hand EXCEPT ![h] = IdleHand]
  /\ UNCHANGED <<now, shop, batch, charge>>

(* cancelPendingOrder: a no-op on an order someone else resolved.          *)
CancelPending(h) ==
  LET o == hand[h].order
  IN /\ hand[h].pc \in {"void", "sweep"}
     /\ CancelIfPending({o})
     /\ hand' = [hand EXCEPT ![h] = IdleHand]
     /\ UNCHANGED <<users, promoUses, uses, now, history, shop, batch, charge>>

(* CancelPayment. *)
OperatorCancels(o) ==
  /\ "cancel" \in OperatorActs
  /\ orders[o].status = "pending"
  /\ CancelIfPending({o})
  /\ UNCHANGED <<users, promoUses, uses, now, history, checkoutVars>>

----------------------------------------------------------------------------
(* Refunds.                                                                *)

(* RefundOrder by the operator, with or without the term taken back. *)
OperatorRefunds(o, cancelPlan) ==
  /\ "refund" \in OperatorActs /\ WalletEnabled
  /\ hand[Operator].pc = "idle"
  /\ RefundToBalance(o)
  /\ hand' = [hand EXCEPT ![Operator] =
       IF cancelPlan THEN [pc |-> "takeback", order |-> o]
       ELSE IdleHand]
  /\ UNCHANGED <<promoUses, uses, now, history, shop, batch, charge>>

(* providerRefunded: the transaction, then what the order bought is taken  *)
(* back in steps of its own unless it had been refunded to the balance.    *)
RefundByProvider(h) ==
  LET o == hand[h].order
      next == IF orders[o].source = "balance" THEN "idle"
              ELSE CASE orders[o].kind = "plan" -> "takeback"
                     [] orders[o].kind = "change" -> "revert"
                     [] orders[o].kind \in {"devices", "traffic"} -> "addonback"
                     [] orders[o].kind = "topup" -> "idle"
      go(pc) == hand' = [hand EXCEPT ![h] =
                  IF pc = "idle" THEN IdleHand ELSE [hand[h] EXCEPT !.pc = pc]]
  IN /\ hand[h].pc = "refund"
     /\ IF Refundable(o) THEN ProviderRefund(o) /\ go(next)
        ELSE go("idle") /\ UNCHANGED <<users, orders>>
     /\ UNCHANGED <<promoUses, uses, now, history, shop, batch, charge>>

(* takeBackTerm reads the user without the lock ... *)
TakeBackTerm(h) ==
  LET o == hand[h].order
      active == ActivePaidPlan(users, orders[o].user)
  IN /\ hand[h].pc = "takeback"
     /\ hand' = [hand EXCEPT ![h] =
          IF active # orders[o].plan \/ active = NoPlan THEN IdleHand
          ELSE [hand[h] EXCEPT !.pc = IF Period[orders[o].plan] = 0 THEN "endplan"
                                      ELSE "shorten"]]
     /\ UNCHANGED <<db, shop, batch, charge>>

(* ... shortens the term under it ... *)
TakeBackDays(h) ==
  LET o == hand[h].order
      u == orders[o].user
      p == orders[o].plan
      days == Period[p] * orders[o].periods
      us == ShortenTerm(u, p, days)
  IN /\ hand[h].pc = "shorten"
     /\ users' = us
     /\ paidUntil' = [paidUntil EXCEPT ![u] =
          IF us # users THEN Most(@ - days, 0) ELSE @]
     /\ hand' = [hand EXCEPT ![h] =
          IF us # users /\ us[u].expire <= now
          THEN [hand[h] EXCEPT !.pc = "endplan"] ELSE IdleHand]
     /\ UNCHANGED <<orders, promoUses, uses, now, claims, gifts, shop, batch,
                    charge>>

(* ... and ends the plan afterwards, in another critical section, when     *)
(* nothing was left of it.                                                 *)
TakeBackPlan(h) ==
  /\ hand[h].pc = "endplan"
  /\ users' = EndPlan(users, orders[hand[h].order].user)
  /\ hand' = [hand EXCEPT ![h] = IdleHand]
  /\ UNCHANGED <<orders, promoUses, uses, now, history, shop, batch, charge>>

TakeAddonBack(h) ==
  /\ hand[h].pc = "addonback"
  /\ users' = TakeBackAddon(users, hand[h].order)
  /\ hand' = [hand EXCEPT ![h] = IdleHand]
  /\ UNCHANGED <<orders, promoUses, uses, now, history, shop, batch, charge>>

(* revertChange, under applyPlanMu: only the term the change bought. *)
RevertChange(h) ==
  LET o == hand[h].order
      u == orders[o].user
      from == orders[o].from
      devices == IF SellsDevices(from) THEN Least(orders[o].before, DeviceMax[from])
                 ELSE 0
  IN /\ hand[h].pc = "revert"
     /\ users' = IF users[u].plan = orders[o].plan /\ users[u].expire = orders[o].expect
                 THEN ApplyUserPlan(users, u,
                        ChangeWrite(users, u, from, devices, users[u].expire, NoPlan, 0))
                 ELSE users
     /\ hand' = [hand EXCEPT ![h] = IdleHand]
     /\ UNCHANGED <<orders, promoUses, uses, now, history, shop, batch, charge>>

----------------------------------------------------------------------------
(* Every request in progress is gone with the process. *)
CheckoutCrash ==
  /\ "crash" \in MayFail
  /\ shop' = [s \in Shoppers |-> IdleShop]
  /\ hand' = [h \in Handlers |-> IdleHand]
  /\ batch' = {}
  /\ UNCHANGED <<db, charge>>

Tick ==
  /\ now < MaxNow
  /\ now' = now + 1
  /\ UNCHANGED <<tables, history, checkoutVars>>

Shopping(s) ==
  \/ \E u \in Users, p \in Purchases, m \in Methods : StartPurchase(s, u, p, m)
  \/ ReuseOrder(s)
  \/ \E o \in Orders : InsertOrder(s, o)
  \/ InsertRefused(s)
  \/ CreateInvoice(s)
  \/ CreateFails(s)
  \/ LinkOrder(s)
  \/ SupersedeOrders(s)

Handling(h) ==
  \/ Confirm(h)
  \/ CancelPending(h)
  \/ RefundByProvider(h)
  \/ TakeBackTerm(h)
  \/ TakeBackDays(h)
  \/ TakeBackPlan(h)
  \/ TakeAddonBack(h)
  \/ RevertChange(h)

Callback(h) ==
  \E o \in Orders : \E report \in {"paid", "void", "refunded"} :
    ReceiveCallback(h, o, report)

Polling ==
  \/ PollList
  \/ \E o \in Orders : PollAsk(o) \/ PollFails(o)

CheckoutNext ==
  \/ \E s \in Shoppers : Shopping(s)
  \/ \E o \in Orders, act \in {"pay", "odd", "void", "refund"} : ProviderStep(o, act)
  \/ \E h \in Hooks : Callback(h)
  \/ Polling
  \/ \E o \in Orders : OperatorConfirms(o) \/ OperatorCancels(o)
  \/ \E o \in Orders, cancelPlan \in BOOLEAN : OperatorRefunds(o, cancelPlan)
  \/ \E h \in Handlers : Handling(h)
  \/ Tick
=============================================================================
