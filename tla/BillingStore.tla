---------------------------- MODULE BillingStore ----------------------------
(***************************************************************************)
(* The tables behind the panel's money (internal/store/wallet.go and       *)
(* billing.go) and the transactions that write them.                       *)
(*                                                                         *)
(* SQLite has a single writer connection, so one transaction is one step.  *)
(* Each transaction is an operator over the tables; the actions of         *)
(* Checkout and Subscription run them under the conditions the manager     *)
(* (internal/core) checks before and between them.                         *)
(*                                                                         *)
(* Roubles and kopecks are kept apart as in the code: order.amount is      *)
(* whole roubles, a balance is kopecks, Kop of them to the rouble (100 in  *)
(* the code).  Terms are counted in days.                                  *)
(***************************************************************************)
EXTENDS Integers, FiniteSets

CONSTANTS
  Users, NoUser,
  Orders, NoOrder,   \* the order ids the instance may hand out
  Plans, NoPlan,
  FreePlan,          \* the plan an ended term falls back to (NoPlan: none set)
  Codes, NoCode,     \* promo codes
  Kop,               \* kopecks in a rouble
  Price,             \* plan -> roubles for one period (0: a free plan)
  Period,            \* plan -> days of one period (0: no term)
  DevicePrice,       \* plan -> roubles for one extra device for one period
  DeviceMax,         \* plan -> extra devices it sells (0: none)
  Quota,             \* plan -> whether it has a traffic quota
  CodeMax,           \* code -> max_uses (0: unlimited)
  Referrer,          \* user -> who invited them, or NoUser
  RefMode,           \* the referral programme: "off", "percent", "days"
  RefPercent, RefDays, RefFirstOnly,
  WalletEnabled,
  MaxNow             \* the bound on the clock

ASSUME StoreAssumption ==
  /\ NoUser \notin Users /\ NoOrder \notin Orders
  /\ NoPlan \notin Plans /\ NoCode \notin Codes
  /\ FreePlan \in Plans \cup {NoPlan}
  /\ Kop \in Nat \ {0}
  /\ Price \in [Plans -> Nat] /\ Period \in [Plans -> Nat]
  /\ DevicePrice \in [Plans -> Nat] /\ DeviceMax \in [Plans -> Nat]
  /\ Quota \in [Plans -> BOOLEAN]
  /\ CodeMax \in [Codes -> Nat]
  /\ Referrer \in [Users -> Users \cup {NoUser}]
  /\ \A u \in Users : Referrer[u] # u
  /\ RefMode \in {"off", "percent", "days"}
  /\ RefPercent \in Nat /\ RefDays \in Nat
  /\ RefFirstOnly \in BOOLEAN /\ WalletEnabled \in BOOLEAN
  /\ MaxNow \in Nat

VARIABLES
  users,      \* the users table: balance, plan, term, what was added to it
  orders,     \* the payment_orders table; status "none": no such row
  promoUses,  \* the promo_uses table: pairs <<code, user>>
  uses,       \* promo_codes.uses
  now,        \* the clock, in days
  claims,     \* history: how often each order was claimed paid
  paidUntil,  \* history: the end of the time each user has paid for
  gifts       \* history: ledger lines no order stands behind (admin, promo)

tables == <<users, orders, promoUses, uses>>
history == <<claims, paidUntil, gifts>>
db == <<tables, now, history>>

Statuses == {"none", "pending", "paid", "cancelled"}
Kinds == {"plan", "topup", "change", "devices", "traffic"}

UserRow ==
  [balance : Nat, plan : Plans \cup {NoPlan}, expire : Nat, bonus : Nat,
   extra : Nat, pack : Nat, promo : Codes \cup {NoCode}, auto : BOOLEAN]

OrderRow ==
  [status : Statuses, user : Users \cup {NoUser}, kind : Kinds,
   plan : Plans \cup {NoPlan}, amount : Nat, bal : Nat,
   promo : Codes \cup {NoCode}, periods : Nat \ {0}, devices : Nat, pack : Nat,
   from : Plans \cup {NoPlan}, expect : Nat, before : Nat,
   method : {"provider", "manual", "external", "balance"}, linked : BOOLEAN,
   created : Nat, paidAt : Nat,
   source : {"none", "balance", "provider"}, refdays : Nat, refkop : Nat,
   refunded : Nat, taken : Nat]

(* What a row an order was opened with always has: a payer, a plan unless  *)
(* it is a top-up, the plan a change left, an inviter for a share it gave. *)
Fits(row) ==
  /\ row.user \in Users
  /\ row.kind # "topup" => row.plan \in Plans
  /\ row.kind = "change" => row.from \in Plans
  /\ row.refkop > 0 => Referrer[row.user] \in Users

(* A row that does not exist yet. *)
Blank ==
  [status |-> "none", user |-> NoUser, kind |-> "plan", plan |-> NoPlan,
   amount |-> 0, bal |-> 0, promo |-> NoCode, periods |-> 1, devices |-> 0,
   pack |-> 0, from |-> NoPlan, expect |-> 0, before |-> 0,
   method |-> "manual", linked |-> FALSE, created |-> 0, paidAt |-> 0,
   source |-> "none", refdays |-> 0, refkop |-> 0, refunded |-> 0,
   taken |-> 0]

StoreTypeOK ==
  /\ users \in [Users -> UserRow]
  /\ orders \in [Orders -> OrderRow]
  /\ promoUses \subseteq Codes \X Users
  /\ uses \in [Codes -> Nat]
  /\ now \in Nat
  /\ claims \in [Orders -> Nat]
  /\ paidUntil \in [Users -> Nat]
  /\ gifts \in [Users -> Int]

Least(a, b) == IF a <= b THEN a ELSE b
Most(a, b) == IF a >= b THEN a ELSE b

----------------------------------------------------------------------------
(* Balances.  Every write goes through one of these in the transaction of  *)
(* its cause, which also writes the ledger line.                           *)

Credit(us, u, kop) == [us EXCEPT ![u].balance = @ + kop]

CoversIfAny(us, u, kop) == us[u].balance > 0   \* mutant
Covers(us, u, kop) == us[u].balance >= kop

Debit(us, u, kop) == [us EXCEPT ![u].balance = @ - kop]

DebitUpTo(us, u, kop) == Least(us[u].balance, kop)

----------------------------------------------------------------------------
(* Plans and terms.                                                        *)

IsFree(p) == Price[p] = 0

SellsDevices(p) == DevicePrice[p] > 0 /\ DeviceMax[p] > 0 /\ Period[p] > 0

(* The paid plan the user is locked into, NoPlan when there is none. *)
ActivePaidPlan(us, u) ==
  LET p == us[u].plan
  IN IF p # NoPlan /\ ~IsFree(p) /\ (Period[p] > 0 => us[u].expire > now)
     THEN p ELSE NoPlan

HeldDevices(us, u, p) ==
  IF us[u].plan # p \/ ~SellsDevices(p) THEN 0
  ELSE Least(us[u].extra, DeviceMax[p])

(* Where a term being written starts. *)
TermBase(us, u, extend) ==
  IF extend /\ us[u].expire > now THEN us[u].expire ELSE now

(* The row a plan assignment leaves: the term of so many days, from the    *)
(* current end when it extends one, the devices asked for, and bought      *)
(* traffic only while the counter it is measured against runs on.          *)
PlanWriteForDays(us, u, p, extend, paidPeriod, days, devices) ==
  LET keeps == us[u].plan = p /\ ~(paidPeriod /\ ~IsFree(p) /\ Quota[p])
  IN [plan |-> p,
      expire |-> IF IsFree(p) \/ days = 0 THEN 0 ELSE TermBase(us, u, extend) + days,
      extra |-> IF SellsDevices(p) THEN Least(devices, DeviceMax[p]) ELSE 0,
      pack |-> IF keeps /\ Quota[p] THEN us[u].pack ELSE 0,
      reqPlan |-> NoPlan, reqExpire |-> 0]

(* A plan change keeps the counter and the packs, and holds itself to the  *)
(* plan and the term it was priced for.                                    *)
ChangeWrite(us, u, to, devices, expire, reqPlan, reqExpire) ==
  [PlanWriteForDays(us, u, to, FALSE, FALSE, Period[to], devices) EXCEPT
     !.expire = expire, !.reqPlan = reqPlan, !.reqExpire = reqExpire,
     !.pack = IF Quota[to] THEN us[u].pack ELSE 0]

ApplyUserPlan(us, u, w) ==
  [us EXCEPT ![u] = [@ EXCEPT !.plan = w.plan, !.expire = w.expire,
                              !.extra = w.extra, !.pack = w.pack]]

(* cancelUserPlan: to the free plan, or with none set no plan and a term   *)
(* that ends now.                                                          *)
EndPlan(us, u) ==
  IF FreePlan # NoPlan
  THEN ApplyUserPlan(us, u, PlanWriteForDays(us, u, FreePlan, FALSE, FALSE,
                                             Period[FreePlan],
                                             HeldDevices(us, u, FreePlan)))
  ELSE [us EXCEPT ![u] = [@ EXCEPT !.plan = NoPlan, !.expire = now,
                                   !.extra = 0, !.pack = 0]]

AddonFits(us, u, a) ==
  /\ us[u].plan = a.plan
  /\ a.reqExpire # 0 => us[u].expire = a.reqExpire
  /\ a.devices > 0 => us[u].extra + a.devices <= DeviceMax[a.plan]
  /\ a.pack > 0 => Quota[a.plan]
  /\ a.reqExtra >= 0 => us[u].extra = a.reqExtra
  /\ a.reqPack >= 0 => us[u].pack = a.reqPack

ApplyAddon(us, u, a) ==
  [us EXCEPT ![u].extra = @ + a.devices, ![u].pack = @ + a.pack]

(* History: the end of the time paid for once so many days more are.  A     *)
(* plan taken up anew counts from now, one without a term has no end.       *)
PaidTo(u, w, days) ==
  IF w.expire = 0 THEN 0
  ELSE days + IF users[u].plan = w.plan THEN Most(paidUntil[u], now) ELSE now

----------------------------------------------------------------------------
(* What an order delivers when it is paid (store.ConfirmSpec): a plan, an  *)
(* add-on or nothing, the money that lands on the balance and the price    *)
(* taken back off it.                                                      *)
NoWrite == [plan |-> NoPlan, expire |-> 0, extra |-> 0, pack |-> 0,
            reqPlan |-> NoPlan, reqExpire |-> 0]
NoAddon == [plan |-> NoPlan, devices |-> 0, pack |-> 0, reqExpire |-> 0,
            reqExtra |-> -1, reqPack |-> -1]
EmptySpec == [what |-> "nothing", write |-> NoWrite, addon |-> NoAddon,
              credit |-> 0, debit |-> 0, days |-> 0, bonus |-> 0, promo |-> NoCode,
              asTopup |-> FALSE]

Deliverable(us, u, sp) ==
  IF sp.what = "addon" THEN AddonFits(us, u, sp.addon)
  ELSE \/ sp.write.reqPlan = NoPlan
       \/ /\ us[u].plan = sp.write.reqPlan
          /\ sp.write.reqExpire # 0 => us[u].expire = sp.write.reqExpire

(* deliverPlan / applyAddonOn: the plan or add-on is written, the banked   *)
(* days it includes are spent and the code attached to the user is gone.   *)
Deliver(us, u, sp) ==
  IF sp.what = "addon" THEN ApplyAddon(us, u, sp.addon)
  ELSE LET w == ApplyUserPlan(us, u, sp.write)
       IN [w EXCEPT ![u].bonus = Most(@ - sp.bonus, 0),
                    ![u].promo = IF @ = sp.promo THEN NoCode ELSE @]

(* A use of the code is left, and this user has had none. *)
CodeLeftToUser(c, u) == <<c, u>> \notin promoUses   \* mutant
CodeLeft(c, u) ==
  /\ CodeMax[c] = 0 \/ uses[c] < CodeMax[c]
  /\ <<c, u>> \notin promoUses

(* The use of a code a delivered plan takes, once per user. *)
TakeUse(c, u) ==
  IF c = NoCode \/ <<c, u>> \in promoUses
  THEN UNCHANGED <<promoUses, uses>>
  ELSE /\ promoUses' = promoUses \cup {<<c, u>>}
       /\ uses' = [uses EXCEPT ![c] = @ + 1]

(* rewardReferrer: a share of the money for the inviter, or days on their  *)
(* running paid term, banked when there is none.                           *)
RewardReferrer(us, o, price, planBought) ==
  LET u == orders[o].user
      r == Referrer[u]
      money == orders[o].amount
      earlier == {x \in Orders \ {o} :
                    /\ orders[x].user = u /\ orders[x].status = "paid"
                    /\ orders[x].amount > 0
                    /\ RefMode = "days" => orders[x].kind = "plan"}
      due == money > 0 /\ r # NoUser /\ (RefFirstOnly => earlier = {})
      kop == IF due /\ RefMode = "percent" THEN money * RefPercent ELSE 0
      p == IF r = NoUser THEN NoPlan ELSE us[r].plan
      running == p # NoPlan /\ ~IsFree(p) /\ Period[p] > 0 /\ us[r].expire > now
      lifetime == p # NoPlan /\ ~IsFree(p) /\ Period[p] = 0
      days == IF /\ due /\ RefMode = "days" /\ planBought
                 /\ money * 2 * Kop >= price /\ ~lifetime
              THEN RefDays ELSE 0
  IN [us |-> IF kop > 0 THEN Credit(us, r, kop)
             ELSE IF days = 0 THEN us
             ELSE IF running THEN [us EXCEPT ![r].expire = @ + days]
             ELSE [us EXCEPT ![r].bonus = @ + days],
      kop |-> kop, days |-> days]

----------------------------------------------------------------------------
(* markPaidIfOpenOn: an order is claimed from pending and from cancelled.  *)
OpenUnlessNone(o) == orders[o].status # "none"   \* mutant
Open(o) == orders[o].status \in {"pending", "cancelled"}

(* ConfirmOrder: claim, money, delivery, code and referral in one          *)
(* transaction.  Claiming nothing changes nothing.                         *)
ConfirmOrder(o, sp) ==
  LET u == orders[o].user
      us1 == Credit(users, u, sp.credit)
      buys == sp.what # "nothing"
      ok == buys /\ Deliverable(us1, u, sp) /\ Covers(us1, u, sp.debit)
      us2 == IF ok THEN Deliver(Debit(us1, u, sp.debit), u, sp) ELSE us1
      price == IF sp.debit = 0 THEN orders[o].amount * Kop ELSE sp.debit
      rw == RewardReferrer(us2, o, price, orders[o].kind = "plan" /\ ok)
  IN IF ~Open(o) THEN UNCHANGED <<tables, history>>
     ELSE /\ users' = rw.us
          /\ orders' = [orders EXCEPT ![o] =
               [@ EXCEPT !.status = "paid", !.paidAt = now,
                         !.kind = IF sp.asTopup \/ (buys /\ ~ok)
                                  THEN "topup" ELSE orders[o].kind,
                         !.refkop = rw.kop, !.refdays = rw.days]]
          /\ IF ok /\ sp.what = "plan" THEN TakeUse(sp.promo, u)
             ELSE UNCHANGED <<promoUses, uses>>
          /\ claims' = [claims EXCEPT ![o] = @ + 1]
          /\ paidUntil' = IF ok /\ orders[o].kind = "plan"
                          THEN [paidUntil EXCEPT ![u] =
                                  PaidTo(u, sp.write, sp.days)]
                          ELSE paidUntil
          /\ UNCHANGED gifts

CancelAnyway(os) ==   \* mutant
  orders' = [o \in Orders |->
               IF o \in os THEN [orders[o] EXCEPT !.status = "cancelled"]
               ELSE orders[o]]

(* CancelPaymentOrderIfPending, for one order or a list of them. *)
CancelIfPending(os) ==
  orders' = [o \in Orders |->
               IF o \in os /\ orders[o].status = "pending"
               THEN [orders[o] EXCEPT !.status = "cancelled"]
               ELSE orders[o]]

OpenEarlierWithCode(u, c, keep) ==   \* mutant
  {o \in Orders \ {keep} : orders[o].user = u /\ c # NoCode
                           /\ orders[o].promo = c /\ orders[o].status = "pending"
                           /\ orders[o].created < now}

(* The user's other open checkouts with code c: a code serves one at a     *)
(* time.                                                                   *)
OpenWithCode(u, c, keep) ==
  {o \in Orders \ {keep} : orders[o].user = u /\ c # NoCode
                           /\ orders[o].promo = c /\ orders[o].status = "pending"}

(* SetPaymentOrderStatus(id, "cancelled", 0): no condition. *)
SetCancelled(o) ==
  orders' = [orders EXCEPT ![o].status = "cancelled", ![o].paidAt = 0]

(* A purchase paid from the balance alone goes through whole or not at     *)
(* all; sp.debit is its price, row the order it records.                   *)
BuyFromBalance(o, row, sp, at) ==
  LET u == row.user
  IN /\ orders[o].status = "none"
     /\ Deliverable(users, u, sp)
     /\ Covers(users, u, sp.debit)
     /\ sp.promo # NoCode => CodeLeft(sp.promo, u)
     /\ orders' = [orders EXCEPT ![o] =
          [row EXCEPT !.status = "paid", !.method = "balance", !.amount = 0,
                      !.bal = sp.debit, !.created = at, !.paidAt = at]]
     /\ users' = Deliver(Debit(users, u, sp.debit), u, sp)
     /\ TakeUse(sp.promo, u)
     /\ paidUntil' = IF row.kind = "plan"
                     THEN [paidUntil EXCEPT ![u] = PaidTo(u, sp.write, sp.days)]
                     ELSE paidUntil
     /\ UNCHANGED <<claims, gifts>>

----------------------------------------------------------------------------
(* Refunds.                                                                *)

(* RefundOrder: the whole price of a paid plan order onto the balance,     *)
(* once.                                                                   *)
RefundToBalance(o) ==
  LET kop == orders[o].amount * Kop + orders[o].bal
  IN /\ orders[o].status = "paid" /\ orders[o].kind = "plan"
     /\ orders[o].source = "none" /\ kop > 0
     /\ users' = Credit(users, orders[o].user, kop)
     /\ orders' = [orders EXCEPT ![o].source = "balance", ![o].refunded = kop]

RefundableAgain(o) == orders[o].status = "paid"   \* mutant
Refundable(o) == orders[o].status = "paid" /\ orders[o].source # "provider"

(* ProviderRefundOrder: the payment system returned the money.  What it    *)
(* put on the balance comes off as far as the balance goes; the balance    *)
(* part of a delivered order goes back on; the inviter loses the reward.   *)
ProviderRefund(o) ==
  LET u == orders[o].user
      r == Referrer[u]
      money == orders[o].amount * Kop
      onBalance == orders[o].source = "balance" \/ orders[o].kind = "topup"
      taken == IF onBalance THEN DebitUpTo(users, u, money) ELSE 0
      us1 == IF onBalance THEN Debit(users, u, taken)
             ELSE Credit(users, u, orders[o].bal)
      back == IF orders[o].refkop > 0
              THEN DebitUpTo(us1, r, orders[o].refkop) ELSE 0
      us2 == IF back > 0 THEN Debit(us1, r, back) ELSE us1
      days == IF r = NoUser THEN 0 ELSE orders[o].refdays
      banked == IF days > 0 THEN Least(us2[r].bonus, days) ELSE 0
      us3 == IF days = 0 THEN us2
             ELSE [us2 EXCEPT
                    ![r].bonus = @ - banked,
                    ![r].expire = IF days > banked /\ @ > now
                                  THEN Most(@ - (days - banked), now) ELSE @]
  IN /\ users' = us3
     /\ orders' = [orders EXCEPT ![o] =
          [@ EXCEPT !.source = "provider", !.taken = taken,
                    !.refunded = orders[o].refunded
                                 + (IF onBalance THEN 0 ELSE orders[o].bal),
                    !.refkop = orders[o].refkop - back]]

(* ShortenTerm: days off the end of a running term of plan p, never below  *)
(* now.                                                                    *)
ShortenTerm(u, p, days) ==
  IF users[u].plan = p /\ users[u].expire > now
  THEN [users EXCEPT ![u].expire = Most(@ - days, now)]
  ELSE users

(* TakeBackAddon: devices or traffic an order added, never below what the  *)
(* plan itself gives.                                                      *)
TakeBackAddon(us, o) ==
  LET u == orders[o].user
  IN IF us[u].plan # orders[o].plan THEN us
     ELSE [us EXCEPT
            ![u].extra = @ - (IF orders[o].kind = "devices"
                              THEN Least(@, orders[o].devices) ELSE 0),
            ![u].pack = @ - Least(@, orders[o].pack)]
=============================================================================
