------------------------------ MODULE Pricing ------------------------------
(***************************************************************************)
(* What a purchase costs a user right now and the order opened for it      *)
(* (internal/core/manager_purchase.go, the quotes of manager_wallet.go).   *)
(*                                                                         *)
(* Quotes(u, p) is the set of quotes the code may give for purchase p: it  *)
(* is empty when the purchase is refused, and has several members only     *)
(* where the code picks the latest of two orders paid at the same time.    *)
(* Discounts for several periods and plugin prices change the figure, not  *)
(* the flow, and are left out.                                             *)
(***************************************************************************)
EXTENDS BillingStore

CONSTANTS
  CodeKind,       \* code -> "discount", "balance" or "days"
  CodeValue,      \* code -> roubles off, roubles given, or days given
  FirstOnlyCodes, \* discount codes for a first plan purchase only
  PackSize,       \* a traffic pack, and its price in roubles
  PackPrice

ASSUME PricingAssumption ==
  /\ CodeKind \in [Codes -> {"discount", "balance", "days"}]
  /\ CodeValue \in [Codes -> Nat \ {0}]   \* SavePromo asks for 1 at least
  /\ FirstOnlyCodes \subseteq Codes
  /\ PackSize \in Nat \ {0} /\ PackPrice \in Nat   \* 1 GB at least

(* How long a pending discounted order keeps a use of its code spoken for, *)
(* in days (promoHoldWindow).                                              *)
HoldDays == 1

(* Asks a purchase for the extra devices already held. *)
KeepDevices == -1

(* What is asked for: a purchase and its options. *)
PurchaseRow ==
  {p \in [kind : Kinds, plan : Plans \cup {NoPlan}, periods : Nat \ {0},
          devices : Nat \cup {KeepDevices}, sum : Nat] :
     p.kind \in {"plan", "change"} => p.plan \in Plans}

PeriodRub(p, devices) == Price[p] + devices * DevicePrice[p]

TermValueKop(rub, periodDays, left) ==
  IF periodDays = 0 \/ left <= 0 THEN 0
  ELSE (rub * Kop * left) \div periodDays

CeilRub(kop) == IF kop <= 0 THEN 0 ELSE (kop + Kop - 1) \div Kop

(* The money part is rounded UP to whole roubles and the balance covers    *)
(* the rest, so the kopecks left over stay on it.                          *)
SplitBalance(u, total) ==
  LET b == users[u].balance
      t == total * Kop
      money == CeilRub(t - b)
  IN IF ~WalletEnabled \/ total = 0 \/ b = 0 THEN [money |-> total, bal |-> 0]
     ELSE [money |-> money, bal |-> t - money * Kop]

----------------------------------------------------------------------------
(* Promo codes.                                                            *)

(* Other users' open checkouts that a use of the code is spoken for by. *)
PromoPendingHolders(c, u) ==
  Cardinality({v \in Users \ {u} : \E o \in Orders :
     /\ orders[o].promo = c /\ orders[o].status = "pending"
     /\ orders[o].user = v /\ orders[o].created > now - HoldDays})

PromoOpen(c, u) ==
  /\ CodeMax[c] > 0 => uses[c] < CodeMax[c]
  /\ (CodeKind[c] = "discount" /\ CodeMax[c] > 0) =>
       uses[c] + PromoPendingHolders(c, u) < CodeMax[c]
  /\ <<c, u>> \notin promoUses

HasBoughtPlan(u) ==
  \E o \in Orders : orders[o].user = u /\ orders[o].status = "paid"
                    /\ orders[o].kind = "plan"

DiscountUsable(c, u) ==
  /\ CodeKind[c] = "discount"
  /\ PromoOpen(c, u)
  /\ c \in FirstOnlyCodes => ~HasBoughtPlan(u)

----------------------------------------------------------------------------
(* Plans.                                                                  *)

CheckPlanPurchase(u, p) ==
  LET cur == ActivePaidPlan(users, u)
  IN /\ ~IsFree(p)
     /\ ~(cur = p /\ Period[p] = 0)
     /\ users[u].plan # p => cur = NoPlan

(* A renewal of a running term keeps the devices held. *)
RenewalDevices(u, p, n) ==
  IF ActivePaidPlan(users, u) = p \/ n = KeepDevices THEN HeldDevices(users, u, p)
  ELSE n

DevicesSold(p, n) == n = 0 \/ (SellsDevices(p) /\ n <= DeviceMax[p])

QuotePlan(u, p, periods, devices) ==
  LET base == PeriodRub(p, devices) * periods
      c == users[u].promo
      code == IF c # NoCode /\ DiscountUsable(c, u) THEN c ELSE NoCode
      off == IF code = NoCode THEN 0 ELSE Least(CodeValue[code], base)
      split == SplitBalance(u, base - off)
  IN [money |-> split.money, bal |-> split.bal, promo |-> code,
      devices |-> devices, expire |-> users[u].expire]

----------------------------------------------------------------------------
(* Changes and add-ons, priced for the term the user has.                  *)

RunningTerm(u) ==
  LET p == ActivePaidPlan(users, u)
  IN p # NoPlan /\ Period[p] > 0 /\ users[u].expire > now

QuoteDevices(u, n) ==
  LET cur == ActivePaidPlan(users, u)
      each == Most(CeilRub(TermValueKop(DevicePrice[cur], Period[cur],
                                        users[u].expire - now)), 1)
      split == SplitBalance(u, n * each)
  IN IF /\ RunningTerm(u) /\ SellsDevices(cur) /\ n >= 1
        /\ HeldDevices(users, u, cur) + n <= DeviceMax[cur]
     THEN {[money |-> split.money, bal |-> split.bal, promo |-> NoCode,
            devices |-> n, expire |-> users[u].expire]}
     ELSE {}

QuoteTraffic(u) ==
  LET cur == ActivePaidPlan(users, u)
      split == SplitBalance(u, PackPrice)
  IN IF cur # NoPlan /\ Quota[cur]
     THEN {[money |-> split.money, bal |-> split.bal, promo |-> NoCode,
            devices |-> 0, expire |-> users[u].expire]}
     ELSE {}

(* paidPeriodRub: what a period of the held plan counts for in a change,   *)
(* its list price but never more than what was last paid for one.          *)
PaidPeriodRub(u, p) ==
  LET mine == {o \in Orders : /\ orders[o].user = u /\ orders[o].plan = p
                              /\ orders[o].status = "paid"
                              /\ orders[o].source = "none"}
      bought == {o \in mine : orders[o].kind = "plan"}
      latest == {o \in bought : \A x \in bought :
                                  orders[x].paidAt <= orders[o].paidAt}
      list == PeriodRub(p, HeldDevices(users, u, p))
      paid(o) == (orders[o].amount * Kop + orders[o].bal) \div orders[o].periods
  IN IF bought # {} THEN {Least(list, paid(o) \div Kop) : o \in latest}
     ELSE IF \E o \in mine : orders[o].kind = "change" THEN {list}
     ELSE {0}

(* quoteChange: a dearer plan keeps the end date and costs the difference; *)
(* a cheaper one costs nothing and turns what is left into its own days.   *)
QuoteChange(u, to, n) ==
  LET cur == ActivePaidPlan(users, u)
      left == users[u].expire - now
      keep == IF SellsDevices(to) THEN Least(HeldDevices(users, u, cur), DeviceMax[to])
              ELSE 0
      devices == IF n = KeepDevices THEN keep ELSE n
      want == TermValueKop(PeriodRub(to, devices), Period[to], left)
      quote(paidRub) ==
        LET have == TermValueKop(paidRub, Period[cur], left)
            split == SplitBalance(u, Most(CeilRub(want - have), 1))
            days == (have * Period[to]) \div (PeriodRub(to, devices) * Kop)
        IN IF want > have
           THEN [money |-> split.money, bal |-> split.bal, promo |-> NoCode,
                 devices |-> devices, expire |-> users[u].expire]
           ELSE [money |-> 0, bal |-> 0, promo |-> NoCode,
                 devices |-> devices, expire |-> now + Most(days, left)]
  IN IF /\ RunningTerm(u) /\ to # cur /\ ~IsFree(to) /\ Period[to] > 0
        /\ DevicesSold(to, devices)
     THEN {quote(rub) : rub \in PaidPeriodRub(u, cur)}
     ELSE {}

(* quotePurchase, with the checks purchaseDraft makes on a plan. *)
Quotes(u, p) ==
  CASE p.kind = "plan" ->
         LET devices == RenewalDevices(u, p.plan, p.devices)
         IN IF CheckPlanPurchase(u, p.plan) /\ DevicesSold(p.plan, devices)
            THEN {QuotePlan(u, p.plan, p.periods, devices)} ELSE {}
    [] p.kind = "change" -> QuoteChange(u, p.plan, p.devices)
    [] p.kind = "devices" -> QuoteDevices(u, p.devices)
    [] p.kind = "traffic" -> QuoteTraffic(u)
    [] p.kind = "topup" ->
         IF WalletEnabled
         THEN {[money |-> p.sum, bal |-> 0, promo |-> NoCode, devices |-> 0,
                expire |-> 0]}
         ELSE {}

(* purchaseDraft / addonDraft / topupDraft: the order row of a quote. *)
Draft(u, p, q) ==
  LET cur == users[u].plan
      row == [Blank EXCEPT !.user = u, !.kind = p.kind, !.amount = q.money,
                !.bal = q.bal, !.devices = q.devices,
                !.plan = IF p.kind \in {"plan", "change"} THEN p.plan ELSE cur]
  IN CASE p.kind = "plan" -> [row EXCEPT !.promo = q.promo, !.periods = p.periods]
       [] p.kind = "change" ->
            [row EXCEPT !.from = cur, !.expect = users[u].expire,
                        !.before = HeldDevices(users, u, cur)]
       [] p.kind = "devices" -> [row EXCEPT !.expect = users[u].expire]
       [] p.kind = "traffic" -> [row EXCEPT !.pack = PackSize]
       [] p.kind = "topup" -> [row EXCEPT !.plan = NoPlan]
=============================================================================
