---------------------------- MODULE BillingProofs ----------------------------
(***************************************************************************)
(* Type correctness of Billing, for every number of users, orders, plans,  *)
(* codes and threads and every price list: TypeOK together with WellFormed *)
(* is inductive.  First what the transactions of BillingStore and the      *)
(* quotes of Pricing return: rows of their tables, balances that do not go *)
(* below zero.                                                             *)
(*                                                                         *)
(* Then: an order is claimed once, Billing implements Settlement and the   *)
(* balances add up, provided the operator does not confirm an order whose  *)
(* invoice is still being made.  (With ConfirmEarly = TRUE TLC finds one   *)
(* claimed twice.)                                                         *)
(*                                                                         *)
(* A balance is a sum over all orders, and the library's sums are a        *)
(* recursive function: what changing one entry does to them is proved here *)
(* by induction over the subsets of a finite set, with the set of those it *)
(* holds for in place of a predicate, so that no operator is a parameter.  *)
(***************************************************************************)
EXTENDS Billing, Ledger, TLAPS, FiniteSetTheorems, WellFoundedInduction

Table == [Users -> UserRow]

WriteRow == [plan : Plans \cup {NoPlan}, expire : Nat, extra : Nat, pack : Nat,
             reqPlan : Plans \cup {NoPlan}, reqExpire : Nat]

AddonRow == [plan : Plans \cup {NoPlan}, devices : Nat, pack : Nat,
             reqExpire : Nat, reqExtra : Int, reqPack : Int]

SpecRow == [what : {"nothing", "plan", "addon"}, write : WriteRow,
            addon : AddonRow, credit : Nat, debit : Nat, days : Nat,
            bonus : Nat, promo : Codes \cup {NoCode}, asTopup : BOOLEAN]

QuoteRow == [money : Nat, bal : Nat, promo : Codes \cup {NoCode},
             devices : Nat, expire : Nat]

----------------------------------------------------------------------------
(* Arithmetic. *)

(* A product of naturals is a natural, stated once for the solver.         *)
LEMMA ProductNat == ASSUME NEW a \in Nat, NEW b \in Nat PROVE a * b \in Nat
OBVIOUS

(* Rounding down keeps naturals (the divisions of manager_purchase.go).    *)
LEMMA QuotientNat ==
  ASSUME NEW a \in Nat, NEW b \in Nat \ {0} PROVE a \div b \in Nat
OBVIOUS

(* CeilRub rounds up: a whole rouble more than the kopecks, at most. *)
LEMMA CeilRubFits ==
  ASSUME NEW n \in Nat, NEW b \in Nat
  PROVE /\ CeilRub(n * Kop - b) \in Nat
        /\ CeilRub(n * Kop - b) * Kop <= n * Kop
<1>1. Kop \in Nat \ {0} BY StoreAssumption
<1>2. n * Kop \in Nat BY <1>1, ProductNat
<1>3. CASE n * Kop - b <= 0 BY <1>1, <1>2, <1>3 DEF CeilRub
<1>4. CASE n * Kop - b > 0
  <2> DEFINE m == (n * Kop - b + Kop - 1) \div Kop
  <2>1. CeilRub(n * Kop - b) = m BY <1>2, <1>4 DEF CeilRub
  <2>2. m \in Nat BY <1>1, <1>2, <1>4, QuotientNat
  <2>3. m * Kop <= n * Kop - b + Kop - 1 BY <1>1, <1>2, <1>4
  <2> HIDE DEF m
  <2>4. CASE m > n
    <3>1. m >= n + 1 BY <2>2, <2>4
    <3>2. m * Kop >= (n + 1) * Kop BY <1>1, <2>2, <3>1
    <3> QED BY <1>1, <1>2, <2>2, <2>3, <3>2
  <2>5. CASE m <= n BY <1>1, <2>1, <2>2, <2>5
  <2> QED BY <2>1, <2>2, <2>4, <2>5
<1> QED BY <1>1, <1>2, <1>3, <1>4

(* A price rounded up to roubles is never negative.                        *)
LEMMA CeilRubNat == ASSUME NEW n \in Int PROVE CeilRub(n) \in Nat
<1>1. Kop \in Nat \ {0} BY StoreAssumption
<1>2. CASE n <= 0 BY <1>2 DEF CeilRub
<1>3. CASE n > 0
  <2>1. n + Kop - 1 \in Nat BY <1>1, <1>3
  <2> QED BY <1>1, <1>3, <2>1, QuotientNat DEF CeilRub
<1> QED BY <1>2, <1>3

(* The balance is asked for what the money part leaves of the price. *)
LEMMA SplitBalanceType ==
  ASSUME NEW u \in Users, users \in Table, NEW total \in Nat
  PROVE SplitBalance(u, total) \in [money : Nat, bal : Nat]
<1>1. users[u].balance \in Nat BY DEF Table, UserRow
<1>2. Kop \in Nat \ {0} BY StoreAssumption
<1>3. total * Kop \in Nat BY <1>2, ProductNat
<1>4. /\ CeilRub(total * Kop - users[u].balance) \in Nat
      /\ CeilRub(total * Kop - users[u].balance) * Kop <= total * Kop
  BY <1>1, CeilRubFits
<1>5. total * Kop - CeilRub(total * Kop - users[u].balance) * Kop \in Nat
  BY <1>2, <1>3, <1>4, ProductNat
<1> QED BY <1>4, <1>5 DEF SplitBalance

----------------------------------------------------------------------------
(* Balances. *)

(* A credit keeps the users table well typed.                              *)
LEMMA CreditType ==
  ASSUME NEW us \in Table, NEW u \in Users, NEW kop \in Int,
         us[u].balance + kop >= 0
  PROVE Credit(us, u, kop) \in Table
<1>1. us[u] \in UserRow BY DEF Table
<1>2. [us[u] EXCEPT !.balance = us[u].balance + kop] \in UserRow BY <1>1 DEF UserRow
<1> QED BY <1>2 DEF Credit, Table

(* A debit that the balance covers does not take it below zero.            *)
LEMMA DebitType ==
  ASSUME NEW us \in Table, NEW u \in Users, NEW kop \in Int,
         us[u].balance >= kop
  PROVE Debit(us, u, kop) \in Table
<1>1. us[u] \in UserRow BY DEF Table
<1>2. [us[u] EXCEPT !.balance = us[u].balance - kop] \in UserRow BY <1>1 DEF UserRow
<1> QED BY <1>2 DEF Debit, Table

(* A partial debit is between nothing and the balance.                     *)
LEMMA DebitUpToType ==
  ASSUME NEW us \in Table, NEW u \in Users, NEW kop \in Nat
  PROVE /\ DebitUpTo(us, u, kop) \in Nat
        /\ DebitUpTo(us, u, kop) <= kop
        /\ us[u].balance >= DebitUpTo(us, u, kop)
<1>1. us[u].balance \in Nat BY DEF Table, UserRow
<1> QED BY <1>1 DEF DebitUpTo, Least

----------------------------------------------------------------------------
(* Plans and terms. *)

(* The paid plan a user is locked into is a plan, or none.                 *)
LEMMA ActivePaidPlanType ==
  ASSUME NEW us \in Table, NEW u \in Users
  PROVE /\ ActivePaidPlan(us, u) \in Plans \cup {NoPlan}
        /\ ActivePaidPlan(us, u) # NoPlan =>
             /\ ActivePaidPlan(us, u) = us[u].plan
             /\ us[u].plan \in Plans
             /\ ~IsFree(us[u].plan)
<1>1. us[u].plan \in Plans \cup {NoPlan} BY DEF Table, UserRow
<1> QED BY <1>1 DEF ActivePaidPlan

(* The devices held are a count.                                           *)
LEMMA HeldDevicesType ==
  ASSUME NEW us \in Table, NEW u \in Users, NEW p \in Plans
  PROVE HeldDevices(us, u, p) \in Nat
<1>1. us[u].extra \in Nat BY DEF Table, UserRow
<1>2. DeviceMax[p] \in Nat BY StoreAssumption
<1> QED BY <1>1, <1>2 DEF HeldDevices, Least

(* A plan assignment writes a plan, a term and what was added to it.       *)
LEMMA PlanWriteType ==
  ASSUME NEW us \in Table, NEW u \in Users, NEW p \in Plans, NEW extend,
         NEW paidPeriod, NEW days \in Nat, NEW devices \in Nat, now \in Nat
  PROVE PlanWriteForDays(us, u, p, extend, paidPeriod, days, devices) \in WriteRow
<1>1. us[u].expire \in Nat /\ us[u].pack \in Nat BY DEF Table, UserRow
<1>2. TermBase(us, u, extend) \in Nat BY <1>1 DEF TermBase
<1>3. DeviceMax[p] \in Nat BY StoreAssumption
<1>4. Least(devices, DeviceMax[p]) \in Nat BY <1>3 DEF Least
<1> DEFINE w == PlanWriteForDays(us, u, p, extend, paidPeriod, days, devices)
           e == IF IsFree(p) \/ days = 0 THEN 0 ELSE TermBase(us, u, extend) + days
           x == IF SellsDevices(p) THEN Least(devices, DeviceMax[p]) ELSE 0
           k == IF /\ us[u].plan = p /\ ~(paidPeriod /\ ~IsFree(p) /\ Quota[p])
                   /\ Quota[p]
                THEN us[u].pack ELSE 0
<1>5. e \in Nat /\ x \in Nat /\ k \in Nat BY <1>1, <1>2, <1>4
<1>6. w = [plan |-> p, expire |-> e, extra |-> x, pack |-> k,
           reqPlan |-> NoPlan, reqExpire |-> 0]
  BY Zenon DEF PlanWriteForDays
<1> HIDE DEF w, e, x, k
<1>7. w \in WriteRow BY <1>5, <1>6 DEF WriteRow
<1> QED BY <1>7 DEF w

(* So does the write of a change, which also names what it requires.       *)
LEMMA ChangeWriteType ==
  ASSUME NEW us \in Table, NEW u \in Users, NEW to \in Plans,
         NEW devices \in Nat, NEW expire \in Nat,
         NEW reqPlan \in Plans \cup {NoPlan}, NEW reqExpire \in Nat, now \in Nat
  PROVE ChangeWrite(us, u, to, devices, expire, reqPlan, reqExpire) \in WriteRow
<1>1. Period[to] \in Nat BY StoreAssumption
<1> DEFINE w == PlanWriteForDays(us, u, to, FALSE, FALSE, Period[to], devices)
<1>2. w \in WriteRow BY <1>1, PlanWriteType
<1>3. us[u].pack \in Nat BY DEF Table, UserRow
<1>4. ChangeWrite(us, u, to, devices, expire, reqPlan, reqExpire) =
        [w EXCEPT !.expire = expire, !.reqPlan = reqPlan, !.reqExpire = reqExpire,
                  !.pack = IF Quota[to] THEN us[u].pack ELSE 0]
  BY DEF ChangeWrite
<1> DEFINE k == IF Quota[to] THEN us[u].pack ELSE 0
<1>5. k \in Nat BY <1>3
<1> HIDE DEF w, k
<1>6. [w EXCEPT !.expire = expire, !.reqPlan = reqPlan, !.reqExpire = reqExpire,
                !.pack = k] \in WriteRow
  BY <1>2, <1>5 DEF WriteRow
<1> QED BY <1>4, <1>6 DEF k

(* Applying a plan write keeps the users table well typed.                 *)
LEMMA ApplyUserPlanType ==
  ASSUME NEW us \in Table, NEW u \in Users, NEW w \in WriteRow
  PROVE ApplyUserPlan(us, u, w) \in Table
<1>1. us[u] \in UserRow BY DEF Table
<1>2. [us[u] EXCEPT !.plan = w.plan, !.expire = w.expire, !.extra = w.extra,
                    !.pack = w.pack] \in UserRow
  BY <1>1 DEF UserRow, WriteRow
<1> QED BY <1>2 DEF ApplyUserPlan, Table

(* So does ending a plan, with a free plan set or without.                 *)
LEMMA EndPlanType ==
  ASSUME NEW us \in Table, NEW u \in Users, now \in Nat
  PROVE EndPlan(us, u) \in Table
<1>1. CASE FreePlan # NoPlan
  <2>1. FreePlan \in Plans BY <1>1, StoreAssumption
  <2>2. Period[FreePlan] \in Nat BY <2>1, StoreAssumption
  <2>3. HeldDevices(us, u, FreePlan) \in Nat BY <2>1, HeldDevicesType
  <2>4. PlanWriteForDays(us, u, FreePlan, FALSE, FALSE, Period[FreePlan],
                         HeldDevices(us, u, FreePlan)) \in WriteRow
    BY <2>1, <2>2, <2>3, PlanWriteType
  <2> QED BY <1>1, <2>4, ApplyUserPlanType DEF EndPlan
<1>2. CASE FreePlan = NoPlan
  <2>1. us[u] \in UserRow BY DEF Table
  <2>2. [us[u] EXCEPT !.plan = NoPlan, !.expire = now, !.extra = 0, !.pack = 0]
          \in UserRow
    BY <2>1 DEF UserRow
  <2> QED BY <1>2, <2>2 DEF EndPlan, Table
<1> QED BY <1>1, <1>2

(* So do bought devices and traffic.                                       *)
LEMMA ApplyAddonType ==
  ASSUME NEW us \in Table, NEW u \in Users, NEW a \in AddonRow
  PROVE ApplyAddon(us, u, a) \in Table
<1>1. us[u] \in UserRow BY DEF Table
<1>2. [us[u] EXCEPT !.extra = us[u].extra + a.devices,
                    !.pack = us[u].pack + a.pack] \in UserRow
  <2>1. us[u].extra + a.devices \in Nat /\ us[u].pack + a.pack \in Nat
    BY <1>1 DEF UserRow, AddonRow
  <2> QED BY <1>1, <2>1 DEF UserRow
<1>3. ApplyAddon(us, u, a) =
        [us EXCEPT ![u] = [us[u] EXCEPT !.extra = us[u].extra + a.devices,
                                        !.pack = us[u].pack + a.pack]]
  BY <1>1 DEF ApplyAddon, Table, UserRow
<1> QED BY <1>2, <1>3 DEF Table

(* Delivering what an order bought keeps the users table well typed.       *)
LEMMA DeliverType ==
  ASSUME NEW us \in Table, NEW u \in Users, NEW sp \in SpecRow
  PROVE Deliver(us, u, sp) \in Table
<1>1. sp.write \in WriteRow /\ sp.addon \in AddonRow /\ sp.bonus \in Nat
  BY DEF SpecRow
<1>2. CASE sp.what = "addon" BY <1>1, <1>2, ApplyAddonType DEF Deliver
<1>3. CASE sp.what # "addon"
  <2> DEFINE w == ApplyUserPlan(us, u, sp.write)
             r == [w[u] EXCEPT !.bonus = Most(w[u].bonus - sp.bonus, 0),
                               !.promo = IF w[u].promo = sp.promo THEN NoCode
                                         ELSE w[u].promo]
  <2>1. w \in Table BY <1>1, ApplyUserPlanType
  <2>2. Deliver(us, u, sp) =
          [w EXCEPT ![u].bonus = Most(@ - sp.bonus, 0),
                    ![u].promo = IF @ = sp.promo THEN NoCode ELSE @]
    BY <1>3 DEF Deliver
  <2> HIDE DEF w
  <2>3. w[u] \in UserRow BY <2>1 DEF Table
  <2>4. r \in UserRow
    <3> DEFINE b == Most(w[u].bonus - sp.bonus, 0)
               c == IF w[u].promo = sp.promo THEN NoCode ELSE w[u].promo
    <3>1. b \in Nat /\ c \in Codes \cup {NoCode} BY <1>1, <2>3 DEF UserRow, Most
    <3> HIDE DEF b, c
    <3>2. [w[u] EXCEPT !.bonus = b, !.promo = c] \in UserRow
      BY <2>3, <3>1 DEF UserRow
    <3> QED BY <3>2 DEF b, c
  <2>5. Deliver(us, u, sp) = [w EXCEPT ![u] = r]
    BY <2>1, <2>2, <2>3 DEF Table, UserRow
  <2> HIDE DEF r
  <2> QED BY <2>1, <2>4, <2>5 DEF Table
<1> QED BY <1>2, <1>3
----------------------------------------------------------------------------
(* What an order delivers. *)

(* An order that delivers nothing is a specification to confirm with.      *)
LEMMA EmptySpecType == EmptySpec \in SpecRow
<1>1. NoWrite \in WriteRow BY DEF NoWrite, WriteRow
<1>2. NoAddon \in AddonRow BY DEF NoAddon, AddonRow
<1> QED BY <1>1, <1>2 DEF EmptySpec, SpecRow

(* The inviter, if there is one, gets a credit or days. *)
LEMMA RewardType ==
  ASSUME NEW us \in Table, NEW o \in Orders, NEW price, NEW planBought,
         orders \in [Orders -> OrderRow], orders[o].user \in Users, now \in Nat
  PROVE LET rw == RewardReferrer(us, o, price, planBought)
        IN /\ rw.us \in Table /\ rw.kop \in Nat /\ rw.days \in Nat
           /\ rw.kop > 0 => Referrer[orders[o].user] \in Users
<1> DEFINE r == Referrer[orders[o].user]
           money == orders[o].amount
           earlier == {x \in Orders \ {o} :
                    /\ orders[x].user = orders[o].user /\ orders[x].status = "paid"
                    /\ orders[x].amount > 0
                    /\ RefMode = "days" => orders[x].kind = "plan"}
           due == money > 0 /\ r # NoUser /\ (RefFirstOnly => earlier = {})
           kop == IF due /\ RefMode = "percent" THEN money * RefPercent ELSE 0
           p == IF r = NoUser THEN NoPlan ELSE us[r].plan
           running == p # NoPlan /\ ~IsFree(p) /\ Period[p] > 0 /\ us[r].expire > now
           lifetime == p # NoPlan /\ ~IsFree(p) /\ Period[p] = 0
           days == IF /\ due /\ RefMode = "days" /\ planBought
                      /\ money * 2 * Kop >= price /\ ~lifetime
                   THEN RefDays ELSE 0
           after == IF kop > 0 THEN Credit(us, r, kop)
                    ELSE IF days = 0 THEN us
                    ELSE IF running THEN [us EXCEPT ![r].expire = @ + days]
                    ELSE [us EXCEPT ![r].bonus = @ + days]
<1>1. RewardReferrer(us, o, price, planBought) =
        [us |-> after, kop |-> kop, days |-> days]
  BY Zenon DEF RewardReferrer
<1>2. money \in Nat BY DEF OrderRow
<1>3. r \in Users \cup {NoUser} BY StoreAssumption
<1>4. kop \in Nat
  <2>1. RefPercent \in Nat BY StoreAssumption
  <2>2. money * RefPercent \in Nat BY <1>2, <2>1, ProductNat
  <2> HIDE DEF due
  <2> QED BY <2>2
<1>5. days \in Nat BY StoreAssumption
<1>6. kop > 0 => r \in Users BY <1>3
<1>7. days # 0 => r \in Users BY <1>3
<1> HIDE DEF kop, days, r, running
<1>8. after \in Table
  <2>1. CASE kop > 0
    <3>1. r \in Users BY <1>6, <2>1
    <3>2. us[r].balance \in Nat BY <3>1 DEF Table, UserRow
    <3>3. Credit(us, r, kop) \in Table BY <1>4, <3>1, <3>2, CreditType
    <3> QED BY <2>1, <3>3
  <2>2. CASE ~(kop > 0) /\ days # 0
    <3>1. r \in Users BY <1>7, <2>2
    <3>2. us[r] \in UserRow BY <3>1 DEF Table
    <3>3. [us[r] EXCEPT !.expire = us[r].expire + days] \in UserRow
      BY <1>5, <3>2 DEF UserRow
    <3>4. [us[r] EXCEPT !.bonus = us[r].bonus + days] \in UserRow
      BY <1>5, <3>2 DEF UserRow
    <3>5. [us EXCEPT ![r].expire = @ + days] \in Table BY <3>1, <3>3 DEF Table
    <3>6. [us EXCEPT ![r].bonus = @ + days] \in Table BY <3>1, <3>4 DEF Table
    <3> QED BY <2>2, <3>5, <3>6
  <2>3. CASE ~(kop > 0) /\ days = 0 BY <2>3
  <2> QED BY <2>1, <2>2, <2>3
<1> HIDE DEF after
<1>9. /\ RewardReferrer(us, o, price, planBought).us = after
      /\ RewardReferrer(us, o, price, planBought).kop = kop
      /\ RewardReferrer(us, o, price, planBought).days = days
  BY <1>1
<1> QED BY <1>4, <1>5, <1>6, <1>8, <1>9 DEF r

----------------------------------------------------------------------------
(* Quotes and the orders opened for them. *)

(* The price of a period with its devices is never negative.               *)
LEMMA PeriodRubNat ==
  ASSUME NEW p \in Plans, NEW n \in Nat
  PROVE PeriodRub(p, n) \in Nat /\ (~IsFree(p) => PeriodRub(p, n) > 0)
<1>1. Price[p] \in Nat /\ DevicePrice[p] \in Nat BY StoreAssumption
<1>2. n * DevicePrice[p] \in Nat BY <1>1, ProductNat
<1> QED BY <1>1, <1>2 DEF PeriodRub, IsFree

(* What is left of a term is worth nothing or more.                        *)
LEMMA TermValueKopNat ==
  ASSUME NEW rub \in Nat, NEW days \in Nat, NEW left \in Int
  PROVE TermValueKop(rub, days, left) \in Nat
<1>1. CASE days = 0 \/ left <= 0 BY <1>1 DEF TermValueKop
<1>2. CASE days > 0 /\ left > 0
  <2>1. Kop \in Nat BY StoreAssumption
  <2>2. rub * Kop \in Nat BY <2>1, ProductNat
  <2>3. rub * Kop * left \in Nat BY <1>2, <2>2, ProductNat
  <2>4. (rub * Kop * left) \div days \in Nat BY <1>2, <2>3, QuotientNat
  <2> QED BY <1>2, <2>4 DEF TermValueKop
<1> QED BY <1>1, <1>2

(* The fields of a quote, one by one.                                      *)
LEMMA QuoteRowType ==
  ASSUME NEW split \in [money : Nat, bal : Nat], NEW c \in Codes \cup {NoCode},
         NEW devices \in Nat, NEW expire \in Nat
  PROVE [money |-> split.money, bal |-> split.bal, promo |-> c,
         devices |-> devices, expire |-> expire] \in QuoteRow
BY DEF QuoteRow

(* A plan is quoted in whole roubles and a part of the balance.            *)
LEMMA QuotePlanType ==
  ASSUME users \in Table, NEW u \in Users, NEW p \in Plans,
         NEW periods \in Nat, NEW devices \in Nat
  PROVE QuotePlan(u, p, periods, devices) \in QuoteRow
<1> DEFINE base == PeriodRub(p, devices) * periods
           c == users[u].promo
           code == IF c # NoCode /\ DiscountUsable(c, u) THEN c ELSE NoCode
           off == IF code = NoCode THEN 0 ELSE Least(CodeValue[code], base)
           split == SplitBalance(u, base - off)
<1>1. base \in Nat BY PeriodRubNat, ProductNat
<1>2. code \in Codes \cup {NoCode} BY DEF Table, UserRow
<1>3. users[u].expire \in Nat BY DEF Table, UserRow
<1> HIDE DEF base, code
<1>4. code # NoCode => CodeValue[code] \in Nat BY <1>2, PricingAssumption
<1>5. off \in Nat /\ off <= base BY <1>1, <1>4 DEF Least
<1> HIDE DEF off
<1>6. base - off \in Nat BY <1>1, <1>5
<1>7. split \in [money : Nat, bal : Nat] BY <1>6, SplitBalanceType
<1> HIDE DEF split
<1>8. QuotePlan(u, p, periods, devices) =
        [money |-> split.money, bal |-> split.bal, promo |-> code,
         devices |-> devices, expire |-> users[u].expire]
  BY Zenon DEF QuotePlan, split, off, code, base
<1> QED BY <1>2, <1>3, <1>7, <1>8, QuoteRowType

(* So is a change, whichever of the latest orders it is priced from; its   *)
(* plan costs money and its term ends no earlier.                          *)
LEMMA QuoteChangeType ==
  ASSUME users \in Table, orders \in [Orders -> OrderRow], now \in Nat,
         NEW u \in Users, NEW to \in Plans, NEW n \in Nat \cup {KeepDevices},
         NEW q \in QuoteChange(u, to, n)
  PROVE /\ q \in QuoteRow /\ ~IsFree(to)
        /\ users[u].expire > now /\ q.expire >= users[u].expire
<1> DEFINE cur == ActivePaidPlan(users, u)
           left == users[u].expire - now
           keep == IF SellsDevices(to) THEN Least(HeldDevices(users, u, cur), DeviceMax[to])
                   ELSE 0
           devices == IF n = KeepDevices THEN keep ELSE n
           want == TermValueKop(PeriodRub(to, devices), Period[to], left)
           have(rub) == TermValueKop(rub, Period[cur], left)
           split(rub) == SplitBalance(u, Most(CeilRub(want - have(rub)), 1))
           days(rub) == (have(rub) * Period[to]) \div (PeriodRub(to, devices) * Kop)
           quote(rub) ==
             IF want > have(rub)
             THEN [money |-> split(rub).money, bal |-> split(rub).bal, promo |-> NoCode,
                   devices |-> devices, expire |-> users[u].expire]
             ELSE [money |-> 0, bal |-> 0, promo |-> NoCode,
                   devices |-> devices, expire |-> now + Most(days(rub), left)]
<1>1. /\ RunningTerm(u) /\ ~IsFree(to) /\ Period[to] > 0
      /\ \E rub \in PaidPeriodRub(u, cur) : q = quote(rub)
  BY DEF QuoteChange
<1>2. PICK rub \in PaidPeriodRub(u, cur) : q = quote(rub) BY <1>1
<1>3. /\ cur \in Plans /\ left \in Nat /\ users[u].expire \in Nat
      /\ users[u].expire > now /\ now + left = users[u].expire
  <2>1. users[u].expire \in Nat BY DEF Table, UserRow
  <2> QED BY <1>1, <2>1, ActivePaidPlanType DEF RunningTerm
<1>4. devices \in Nat
  <2>1. HeldDevices(users, u, cur) \in Nat BY <1>3, HeldDevicesType
  <2>2. DeviceMax[to] \in Nat BY StoreAssumption
  <2>3. keep \in Nat BY <2>1, <2>2 DEF Least
  <2> QED BY <2>3
<1> HIDE DEF cur, left, devices
<1>5. rub \in Nat
  <2> DEFINE mine == {o \in Orders : /\ orders[o].user = u /\ orders[o].plan = cur
                                     /\ orders[o].status = "paid"
                                     /\ orders[o].source = "none"}
             bought == {o \in mine : orders[o].kind = "plan"}
             latest == {o \in bought : \A x \in bought :
                                         orders[x].paidAt <= orders[o].paidAt}
             list == PeriodRub(cur, HeldDevices(users, u, cur))
             paid(o) == (orders[o].amount * Kop + orders[o].bal) \div orders[o].periods
  <2>1. list \in Nat BY <1>3, HeldDevicesType, PeriodRubNat
  <2>2. \A o \in Orders : Least(list, paid(o) \div Kop) \in Nat
    <3>1. TAKE o \in Orders
    <3>2. /\ orders[o].amount \in Nat /\ orders[o].bal \in Nat
          /\ orders[o].periods \in Nat \ {0}
      BY DEF OrderRow
    <3>3. Kop \in Nat \ {0} BY StoreAssumption
    <3>4. orders[o].amount * Kop \in Nat BY <3>2, <3>3, ProductNat
    <3>5. paid(o) \in Nat BY <3>2, <3>4, QuotientNat
    <3>6. paid(o) \div Kop \in Nat BY <3>3, <3>5, QuotientNat
    <3> QED BY <2>1, <3>6 DEF Least
  <2>3. latest \subseteq Orders OBVIOUS
  <2> HIDE DEF list, paid
  <2>4. PaidPeriodRub(u, cur) =
          IF bought # {} THEN {Least(list, paid(o) \div Kop) : o \in latest}
          ELSE IF \E o \in mine : orders[o].kind = "change" THEN {list}
          ELSE {0}
    BY Zenon DEF PaidPeriodRub, list, paid
  <2> HIDE DEF latest, bought, mine
  <2> QED BY <1>2, <2>1, <2>2, <2>3, <2>4
<1>6. Period[to] \in Nat /\ Period[cur] \in Nat BY <1>3, StoreAssumption
<1>7. PeriodRub(to, devices) \in Nat \ {0} BY <1>1, <1>4, PeriodRubNat
<1>8. want \in Nat
  <2>1. PeriodRub(to, devices) \in Nat /\ left \in Int BY <1>3, <1>7
  <2> QED BY <1>6, <2>1, TermValueKopNat
<1>9. have(rub) \in Nat
  <2>1. left \in Int BY <1>3
  <2> QED BY <1>5, <1>6, <2>1, TermValueKopNat
<1> HIDE DEF want, have
<1>10. split(rub) \in [money : Nat, bal : Nat]
  <2>1. CeilRub(want - have(rub)) \in Nat BY <1>8, <1>9, CeilRubNat
  <2>2. Most(CeilRub(want - have(rub)), 1) \in Nat BY <2>1 DEF Most
  <2> QED BY <2>2, SplitBalanceType
<1>11. /\ now + Most(days(rub), left) \in Nat
       /\ now + Most(days(rub), left) >= users[u].expire
  <2>1. Kop \in Nat \ {0} BY StoreAssumption
  <2>2. PeriodRub(to, devices) * Kop \in Nat \ {0} BY <1>7, <2>1
  <2>3. have(rub) * Period[to] \in Nat BY <1>6, <1>9, ProductNat
  <2>4. days(rub) \in Nat BY <2>2, <2>3, QuotientNat
  <2> QED BY <1>3, <2>4 DEF Most
<1> HIDE DEF split, days
<1>12. q \in QuoteRow BY <1>2, <1>3, <1>4, <1>10, <1>11, QuoteRowType DEF QuoteRow
<1>13. q.expire >= users[u].expire BY <1>2, <1>3, <1>11
<1> QED BY <1>1, <1>3, <1>12, <1>13

(* So is every purchase.                                                   *)
LEMMA QuotesType ==
  ASSUME users \in Table, orders \in [Orders -> OrderRow], now \in Nat,
         NEW u \in Users, NEW p \in PurchaseRow,
         NEW q \in Quotes(u, p)
  PROVE /\ q \in QuoteRow
        /\ p.kind \in {"change", "devices", "traffic"} => users[u].plan \in Plans
<1>1. /\ p.kind \in Kinds /\ p.periods \in Nat \ {0} /\ p.sum \in Nat
      /\ p.devices \in Nat \cup {KeepDevices}
      /\ p.kind \in {"plan", "change"} => p.plan \in Plans
  BY DEF PurchaseRow
<1>2. users[u].expire \in Nat BY DEF Table, UserRow
<1>3. CASE p.kind = "plan"
  <2> DEFINE devices == RenewalDevices(u, p.plan, p.devices)
  <2>1. p.plan \in Plans BY <1>1, <1>3
  <2>2. devices \in Nat
    BY <1>1, <2>1, HeldDevicesType DEF RenewalDevices, KeepDevices
  <2>3. q = QuotePlan(u, p.plan, p.periods, devices) BY <1>3 DEF Quotes
  <2> QED BY <1>1, <1>3, <2>1, <2>2, <2>3, QuotePlanType
<1>4. CASE p.kind = "change"
  <2>1. q \in QuoteChange(u, p.plan, p.devices) BY <1>4 DEF Quotes
  <2>2. RunningTerm(u) BY <2>1 DEF QuoteChange
  <2> QED BY <1>1, <1>4, <2>1, <2>2, QuoteChangeType, ActivePaidPlanType DEF RunningTerm
<1>5. CASE p.kind = "devices"
  <2> DEFINE cur == ActivePaidPlan(users, u)
             n == p.devices
             each == Most(CeilRub(TermValueKop(DevicePrice[cur], Period[cur],
                                               users[u].expire - now)), 1)
             split == SplitBalance(u, n * each)
  <2>1. q \in QuoteDevices(u, p.devices) BY <1>5 DEF Quotes
  <2>2. RunningTerm(u) /\ n >= 1 BY <2>1 DEF QuoteDevices
  <2>3. n \in Nat BY <1>1, <2>2 DEF KeepDevices
  <2>4. cur \in Plans /\ users[u].plan \in Plans
    BY <2>2, ActivePaidPlanType DEF RunningTerm
  <2>5. DevicePrice[cur] \in Nat /\ Period[cur] \in Nat BY <2>4, StoreAssumption
  <2>6. each \in Nat
    <3> DEFINE value == TermValueKop(DevicePrice[cur], Period[cur],
                                     users[u].expire - now)
    <3>1. users[u].expire - now \in Int BY <1>2
    <3>2. value \in Nat BY <2>5, <3>1, TermValueKopNat
    <3> HIDE DEF value
    <3>3. CeilRub(value) \in Nat BY <3>2, CeilRubNat
    <3>4. Most(CeilRub(value), 1) \in Nat BY <3>3 DEF Most
    <3> QED BY <3>4 DEF value
  <2>7. n * each \in Nat BY <2>3, <2>6, ProductNat
  <2>8. split \in [money : Nat, bal : Nat] BY <2>7, SplitBalanceType
  <2>9. q = [money |-> split.money, bal |-> split.bal, promo |-> NoCode,
             devices |-> n, expire |-> users[u].expire]
    BY <2>1 DEF QuoteDevices
  <2> HIDE DEF split
  <2> QED BY <1>2, <1>5, <2>3, <2>4, <2>8, <2>9, QuoteRowType
<1>6. CASE p.kind = "traffic"
  <2> DEFINE split == SplitBalance(u, PackPrice)
  <2>1. q \in QuoteTraffic(u) BY <1>6 DEF Quotes
  <2>2. ActivePaidPlan(users, u) # NoPlan BY <2>1 DEF QuoteTraffic
  <2>3. users[u].plan \in Plans BY <2>2, ActivePaidPlanType
  <2>4. split \in [money : Nat, bal : Nat] BY PricingAssumption, SplitBalanceType
  <2>5. q = [money |-> split.money, bal |-> split.bal, promo |-> NoCode,
             devices |-> 0, expire |-> users[u].expire]
    BY <2>1 DEF QuoteTraffic
  <2> HIDE DEF split
  <2> QED BY <1>2, <1>6, <2>3, <2>4, <2>5, QuoteRowType
<1>7. CASE p.kind = "topup"
  <2>1. q = [money |-> p.sum, bal |-> 0, promo |-> NoCode, devices |-> 0,
             expire |-> 0]
    BY <1>7 DEF Quotes
  <2> QED BY <1>1, <1>7, <2>1 DEF QuoteRow
<1> QED BY <1>1, <1>3, <1>4, <1>5, <1>6, <1>7 DEF Kinds

(* A row that does not exist yet is a row.                                 *)
LEMMA BlankType == Blank \in OrderRow
BY DEF Blank, OrderRow, Statuses, Kinds

(* The order opened for a quote fits the table and its kind. *)
LEMMA DraftType ==
  ASSUME users \in Table, orders \in [Orders -> OrderRow], now \in Nat,
         NEW u \in Users, NEW p \in PurchaseRow,
         NEW q \in Quotes(u, p)
  PROVE LET d == Draft(u, p, q)
        IN /\ d \in OrderRow /\ Fits(d) /\ ~d.linked /\ d.source = "none"
           /\ d.kind = p.kind /\ d.user = u /\ d.bal = q.bal
           /\ p.kind = "plan" => d.plan = p.plan /\ d.periods = p.periods
           /\ p.kind = "change" => d.plan = p.plan /\ d.expect = users[u].expire
           /\ p.kind \in {"devices", "traffic"} => d.plan = users[u].plan
<1> DEFINE cur == users[u].plan
           plan == IF p.kind \in {"plan", "change"} THEN p.plan ELSE cur
           row == [Blank EXCEPT !.user = u, !.kind = p.kind, !.amount = q.money,
                     !.bal = q.bal, !.devices = q.devices, !.plan = plan]
<1>1. q \in QuoteRow BY QuotesType
<1>2. p.kind \in {"change", "devices", "traffic"} => cur \in Plans BY QuotesType
<1>3. /\ q.money \in Nat /\ q.bal \in Nat /\ q.devices \in Nat
      /\ q.promo \in Codes \cup {NoCode}
  BY <1>1 DEF QuoteRow
<1>4. /\ p.kind \in Kinds /\ p.periods \in Nat \ {0} /\ p.plan \in Plans \cup {NoPlan}
      /\ p.kind \in {"plan", "change"} => p.plan \in Plans
  BY DEF PurchaseRow
<1>5. cur \in Plans \cup {NoPlan} /\ users[u].expire \in Nat BY DEF Table, UserRow
<1>6. plan \in Plans \cup {NoPlan} BY <1>4, <1>5
<1>7. p.kind # "topup" => plan \in Plans BY <1>2, <1>4 DEF Kinds
<1> HIDE DEF plan
<1>8. row \in OrderRow
  BY <1>3, <1>4, <1>6, BlankType DEF OrderRow
<1>9. /\ row.user = u /\ row.kind = p.kind /\ row.bal = q.bal /\ row.plan = plan
      /\ ~row.linked /\ row.source = "none" /\ row.refkop = 0
  BY DEF Blank
<1> HIDE DEF row
<1>10. Draft(u, p, q) =
         CASE p.kind = "plan" -> [row EXCEPT !.promo = q.promo, !.periods = p.periods]
           [] p.kind = "change" ->
                [row EXCEPT !.from = cur, !.expect = users[u].expire,
                            !.before = HeldDevices(users, u, cur)]
           [] p.kind = "devices" -> [row EXCEPT !.expect = users[u].expire]
           [] p.kind = "traffic" -> [row EXCEPT !.pack = PackSize]
           [] p.kind = "topup" -> [row EXCEPT !.plan = NoPlan]
  BY DEF Draft, row, plan
<1>11. CASE p.kind = "plan"
  <2>1. Draft(u, p, q) = [row EXCEPT !.promo = q.promo, !.periods = p.periods]
    BY <1>10, <1>11
  <2>2. Draft(u, p, q) \in OrderRow BY <1>3, <1>4, <1>8, <2>1 DEF OrderRow
  <2> QED BY <1>3, <1>4, <1>7, <1>8, <1>9, <1>11, <2>1, <2>2 DEF OrderRow, Fits, plan
<1>12. CASE p.kind = "change"
  <2>1. Draft(u, p, q) = [row EXCEPT !.from = cur, !.expect = users[u].expire,
                            !.before = HeldDevices(users, u, cur)]
    BY <1>10, <1>12
  <2>2. cur \in Plans /\ HeldDevices(users, u, cur) \in Nat
    BY <1>2, <1>12, HeldDevicesType
  <2> DEFINE held == HeldDevices(users, u, cur)
  <2>3. Draft(u, p, q) \in OrderRow
    <3>1. held \in Nat BY <2>2
    <3> HIDE DEF held, cur
    <3>2. cur \in Plans \cup {NoPlan} BY <2>2
    <3>3. users[u].expire \in Nat BY <1>5
    <3>4. [row EXCEPT !.from = cur, !.expect = users[u].expire, !.before = held]
            \in OrderRow
      BY <1>8, <3>1, <3>2, <3>3 DEF OrderRow
    <3> QED BY <2>1, <3>4 DEF held
  <2> QED BY <1>7, <1>8, <1>9, <1>12, <2>1, <2>2, <2>3 DEF OrderRow, Fits, plan
<1>13. CASE p.kind = "devices"
  <2>1. Draft(u, p, q) = [row EXCEPT !.expect = users[u].expire] BY <1>10, <1>13
  <2>2. Draft(u, p, q) \in OrderRow BY <1>5, <1>8, <2>1 DEF OrderRow
  <2> QED BY <1>7, <1>8, <1>9, <1>13, <2>1, <2>2 DEF OrderRow, Fits, plan
<1>14. CASE p.kind = "traffic"
  <2>1. Draft(u, p, q) = [row EXCEPT !.pack = PackSize] BY <1>10, <1>14
  <2>2. Draft(u, p, q) \in OrderRow BY <1>8, <2>1, PricingAssumption DEF OrderRow
  <2> QED BY <1>7, <1>8, <1>9, <1>14, <2>1, <2>2 DEF OrderRow, Fits, plan
<1>15. CASE p.kind = "topup"
  <2>1. Draft(u, p, q) = [row EXCEPT !.plan = NoPlan] BY <1>10, <1>15
  <2>2. Draft(u, p, q) \in OrderRow BY <1>8, <2>1 DEF OrderRow
  <2> QED BY <1>8, <1>9, <1>15, <2>1, <2>2 DEF OrderRow, Fits
<1> QED BY <1>4, <1>11, <1>12, <1>13, <1>14, <1>15 DEF Kinds

----------------------------------------------------------------------------
(* What every step keeps. *)

Inv == TypeOK /\ WellFormed

(* What no step ever does to a row: remove it, give it another plan, drop  *)
(* its link or leave it unfit.                                             *)
Kept ==
  \A o \in Orders :
    /\ orders[o].status # "none" => /\ orders'[o].status # "none"
                                    /\ orders'[o].plan = orders[o].plan
                                    /\ orders'[o].from = orders[o].from
    /\ orders[o].linked => orders'[o].linked
    /\ RowFits(o)'

(* Threads stay fit when orders only gain what they were missing.          *)
LEMMA KeptThreads ==
  ASSUME Kept
  PROVE /\ \A s \in Shoppers : ShopperFits(s) /\ shop'[s] = shop[s] => ShopperFits(s)'
        /\ \A h \in Handlers : HandlerFits(h) /\ hand'[h] = hand[h] => HandlerFits(h)'
        /\ (\A o \in batch : o \in Orders /\ orders[o].linked) /\ batch' \subseteq batch =>
             \A o \in batch' : orders'[o].linked
BY DEF Kept, ShopperFits, HandlerFits

(* Orders that do not change keep everything the threads rely on.          *)
LEMMA KeptUnchanged == ASSUME UNCHANGED orders, WellFormed PROVE Kept
BY DEF Kept, WellFormed, RowFits

(* A step that leaves the threads alone and keeps the rows. *)
LEMMA KeptWellFormed ==
  ASSUME Inv, Kept, UNCHANGED <<shop, hand, batch, tap, job>>
  PROVE WellFormed'
<1>1. batch \subseteq Orders BY DEF Inv, TypeOK, CheckoutTypeOK
<1>2. \A o \in Orders : RowFits(o)' BY DEF Kept
<1>3. \A s \in Shoppers : ShopperFits(s)' BY KeptThreads DEF Inv, WellFormed
<1>4. \A h \in Handlers : HandlerFits(h)' BY KeptThreads DEF Inv, WellFormed
<1>5. \A o \in batch' : orders'[o].linked BY <1>1, KeptThreads DEF Inv, WellFormed
<1>6. \A t \in Taps : TapFits(t)' BY DEF Inv, WellFormed, TapFits
<1>7. JobFits' BY DEF Inv, WellFormed, JobFits
<1> QED BY <1>2, <1>3, <1>4, <1>5, <1>6, <1>7 DEF WellFormed

----------------------------------------------------------------------------
(* The transactions. *)

(* Taking a use of a code counts it once.                                  *)
LEMMA TakeUseType ==
  ASSUME StoreTypeOK, NEW c \in Codes \cup {NoCode}, NEW u \in Users, TakeUse(c, u)
  PROVE promoUses' \subseteq Codes \X Users /\ uses' \in [Codes -> Nat]
BY DEF StoreTypeOK, TakeUse

(* The end of the time paid for is a point in time.                        *)
LEMMA PaidToType ==
  ASSUME StoreTypeOK, NEW u \in Users, NEW w \in WriteRow, NEW days \in Nat
  PROVE PaidTo(u, w, days) \in Nat
BY DEF StoreTypeOK, PaidTo, WriteRow, Most

(* What confirmOrderPaid decides to deliver is well typed.                 *)
LEMMA ConfirmSpecType ==
  ASSUME StoreTypeOK, NEW o \in Orders, orders[o].status # "none", Fits(orders[o])
  PROVE ConfirmSpec(o) \in SpecRow
<1> DEFINE row == orders[o]
           u == row.user
           money == row.amount * Kop
           cur == ActivePaidPlan(users, u)
           toBalance == [EmptySpec EXCEPT !.credit = money, !.asTopup = TRUE]
           moved == cur # NoPlan /\ (cur # row.plan \/ Period[cur] = 0)
           w == PlanWriteForDays(users, u, row.plan, cur = row.plan, TRUE,
                                 Period[row.plan] * row.periods, row.devices)
           bonus == IF w.expire > 0 THEN users[u].bonus ELSE 0
           viaBalance == [EmptySpec EXCEPT !.credit = money, !.debit = money + row.bal]
           change == ChangeWrite(users, u, row.plan, row.devices, row.expect,
                                 row.from, row.expect)
           addon == [NoAddon EXCEPT !.plan = row.plan, !.pack = row.pack,
                       !.devices = IF row.kind = "devices" THEN row.devices ELSE 0,
                       !.reqExpire = row.expect]
<1>1. /\ users \in Table /\ now \in Nat /\ row \in OrderRow /\ u \in Users
      /\ users[u] \in UserRow
  BY DEF StoreTypeOK, Table, Fits
<1>2. /\ row.amount \in Nat /\ row.bal \in Nat /\ row.devices \in Nat
      /\ row.pack \in Nat /\ row.expect \in Nat /\ row.kind \in Kinds
      /\ row.periods \in Nat /\ row.promo \in Codes \cup {NoCode}
      /\ row.plan \in Plans \cup {NoPlan} /\ row.from \in Plans \cup {NoPlan}
  BY <1>1 DEF OrderRow
<1>3. money \in Nat /\ money + row.bal \in Nat
  BY <1>2, StoreAssumption, ProductNat
<1> HIDE DEF money
<1>4. [EmptySpec EXCEPT !.credit = money] \in SpecRow
  BY <1>3, EmptySpecType DEF SpecRow
<1>5. toBalance \in SpecRow BY <1>3, EmptySpecType DEF SpecRow
<1>6. viaBalance \in SpecRow BY <1>3, EmptySpecType DEF SpecRow
<1> HIDE DEF toBalance, viaBalance
<1>7. CASE row.kind = "topup"
  <2>1. ConfirmSpec(o) = [EmptySpec EXCEPT !.credit = money]
    BY <1>7 DEF ConfirmSpec, money
  <2> QED BY <1>4, <2>1
<1>8. CASE row.kind = "change"
  <2>1. change \in WriteRow BY <1>1, <1>2, <1>8, ChangeWriteType DEF Fits
  <2>2. ConfirmSpec(o) = [viaBalance EXCEPT !.what = "plan", !.write = change]
    BY <1>8 DEF ConfirmSpec, money, viaBalance
  <2> HIDE DEF change
  <2> QED BY <1>6, <2>1, <2>2 DEF SpecRow
<1>9. CASE row.kind \in {"devices", "traffic"}
  <2> DEFINE n == IF row.kind = "devices" THEN row.devices ELSE 0
  <2>1. addon \in AddonRow
    <3>1. n \in Nat BY <1>2
    <3>2. NoAddon \in AddonRow BY DEF NoAddon, AddonRow
    <3> HIDE DEF n, row
    <3>3. [NoAddon EXCEPT !.plan = row.plan, !.pack = row.pack, !.devices = n,
             !.reqExpire = row.expect] \in AddonRow
      BY <1>2, <3>1, <3>2 DEF AddonRow
    <3> QED BY <3>3 DEF n, row
  <2>2. ConfirmSpec(o) = [viaBalance EXCEPT !.what = "addon", !.addon = addon]
    BY <1>9 DEF ConfirmSpec, money, viaBalance
  <2> HIDE DEF addon
  <2> QED BY <1>6, <2>1, <2>2 DEF SpecRow
<1>10. CASE row.kind = "plan"
  <2> DEFINE days == Period[row.plan] * row.periods
  <2>1. row.plan \in Plans BY <1>10 DEF Fits
  <2>2. days \in Nat BY <1>2, <2>1, StoreAssumption, ProductNat
  <2>3. w \in WriteRow BY <1>1, <1>2, <2>1, <2>2, PlanWriteType
  <2>4. bonus \in Nat BY <1>1 DEF UserRow
  <2> DEFINE wb == [w EXCEPT !.expire = @ + bonus]
             credit == IF row.bal > 0 THEN money ELSE 0
             debit == IF row.bal > 0 THEN money + row.bal ELSE 0
             whole == [EmptySpec EXCEPT !.what = "plan", !.promo = row.promo,
                         !.write = wb, !.bonus = bonus, !.days = days,
                         !.credit = credit, !.debit = debit]
  <2>5. ConfirmSpec(o) =
          IF \/ WalletEnabled /\ (CodeTaken(o) \/ moved)
             \/ cur = row.plan /\ HeldDevices(users, u, row.plan) # row.devices
          THEN toBalance ELSE whole
    BY <1>10 DEF ConfirmSpec, money, toBalance
  <2> HIDE DEF w, bonus, days
  <2>6. wb \in WriteRow BY <2>3, <2>4 DEF WriteRow
  <2>7. credit \in Nat /\ debit \in Nat BY <1>3
  <2> HIDE DEF wb, credit, debit
  <2>8. whole \in SpecRow BY <1>2, <2>2, <2>4, <2>6, <2>7, EmptySpecType DEF SpecRow
  <2> HIDE DEF whole
  <2> QED BY <1>5, <2>5, <2>8
<1> QED BY <1>2, <1>7, <1>8, <1>9, <1>10 DEF Kinds

(* A confirmation claims one open order and leaves every row fit. *)
LEMMA ConfirmOrderType ==
  ASSUME StoreTypeOK, NEW o \in Orders, \A x \in Orders : RowFits(x),
         orders[o].status # "none", NEW sp \in SpecRow,
         ConfirmOrder(o, sp), now' = now
  PROVE /\ StoreTypeOK' /\ Kept
        /\ Open(o) => /\ \A x \in Orders \ {o} : orders'[x] = orders[x]
                      /\ orders'[o].status = "paid"
                      /\ orders'[o].source = orders[o].source
                      /\ claims' = [claims EXCEPT ![o] = @ + 1]
<1> DEFINE u == orders[o].user
           us1 == Credit(users, u, sp.credit)
           buys == sp.what # "nothing"
           ok == buys /\ Deliverable(us1, u, sp) /\ Covers(us1, u, sp.debit)
           us2 == IF ok THEN Deliver(Debit(us1, u, sp.debit), u, sp) ELSE us1
           price == IF sp.debit = 0 THEN orders[o].amount * Kop ELSE sp.debit
           rw == RewardReferrer(us2, o, price, orders[o].kind = "plan" /\ ok)
           kind == IF sp.asTopup \/ (buys /\ ~ok) THEN "topup" ELSE orders[o].kind
           row == [orders[o] EXCEPT !.status = "paid", !.paidAt = now, !.kind = kind,
                                    !.refkop = rw.kop, !.refdays = rw.days]
<1>1. /\ users \in Table /\ now \in Nat /\ orders \in [Orders -> OrderRow]
      /\ orders[o] \in OrderRow
  BY DEF StoreTypeOK, Table
<1>2. u \in Users /\ Fits(orders[o]) BY DEF RowFits, Fits
<1>3. /\ sp.credit \in Nat /\ sp.debit \in Nat /\ sp.days \in Nat
      /\ sp.write \in WriteRow /\ sp.promo \in Codes \cup {NoCode}
  BY DEF SpecRow
<1>4. us1 \in Table
  <2>1. users[u].balance \in Nat BY <1>1, <1>2 DEF Table, UserRow
  <2> QED BY <1>1, <1>2, <1>3, <2>1, CreditType
<1> HIDE DEF us1
<1>5. us2 \in Table
  <2>1. CASE ok
    <3>1. Debit(us1, u, sp.debit) \in Table
      BY <1>2, <1>3, <1>4, <2>1, DebitType DEF Covers
    <3> QED BY <1>2, <2>1, <3>1, DeliverType
  <2>2. CASE ~ok BY <1>4, <2>2
  <2> QED BY <2>1, <2>2
<1> HIDE DEF us2
<1>6. /\ rw.us \in Table /\ rw.kop \in Nat /\ rw.days \in Nat
      /\ rw.kop > 0 => Referrer[u] \in Users
  BY <1>1, <1>2, <1>5, RewardType
<1>7. CASE ~Open(o)
  <2>1. UNCHANGED <<tables, now, history>> BY <1>7 DEF ConfirmOrder
  <2>2. StoreTypeOK' BY <2>1 DEF StoreTypeOK, tables, history
  <2>3. Kept BY <2>1 DEF tables, Kept, RowFits
  <2> QED BY <1>7, <2>2, <2>3
<1>8. CASE Open(o)
  <2>1. /\ users' = rw.us
        /\ orders' = [orders EXCEPT ![o] = row]
        /\ IF ok /\ sp.what = "plan" THEN TakeUse(sp.promo, u)
           ELSE UNCHANGED <<promoUses, uses>>
        /\ claims' = [claims EXCEPT ![o] = @ + 1]
        /\ paidUntil' = IF ok /\ orders[o].kind = "plan"
                        THEN [paidUntil EXCEPT ![u] = PaidTo(u, sp.write, sp.days)]
                        ELSE paidUntil
        /\ UNCHANGED gifts
    BY <1>8 DEF ConfirmOrder, us1, us2
  <2> HIDE DEF ok, rw, price, buys
  <2>2. kind \in Kinds /\ (kind # orders[o].kind => kind = "topup")
    BY <1>1 DEF OrderRow, Kinds
  <2> HIDE DEF kind
  <2>3. row \in OrderRow
    BY <1>1, <1>6, <2>2 DEF OrderRow, Statuses
  <2>4. /\ row.status = "paid" /\ row.plan = orders[o].plan
        /\ row.from = orders[o].from /\ row.linked = orders[o].linked
        /\ row.source = orders[o].source /\ Fits(row)
    BY <1>1, <1>2, <1>6, <2>2 DEF OrderRow, Fits
  <2> HIDE DEF row
  <2>5. orders' \in [Orders -> OrderRow] BY <1>1, <2>1, <2>3
  <2>6. promoUses' \subseteq Codes \X Users /\ uses' \in [Codes -> Nat]
    <3>1. CASE ok /\ sp.what = "plan" BY <1>2, <1>3, <2>1, <3>1, TakeUseType
    <3>2. CASE ~(ok /\ sp.what = "plan") BY <2>1, <3>2 DEF StoreTypeOK
    <3> QED BY <3>1, <3>2
  <2>7. claims' \in [Orders -> Nat] BY <2>1 DEF StoreTypeOK
  <2>8. paidUntil' \in [Users -> Nat]
    <3>1. PaidTo(u, sp.write, sp.days) \in Nat BY <1>2, <1>3, PaidToType
    <3> QED BY <1>2, <2>1, <3>1 DEF StoreTypeOK
  <2>9. StoreTypeOK'
    BY <1>6, <2>1, <2>5, <2>6, <2>7, <2>8 DEF StoreTypeOK, Table
  <2>10. Kept BY <1>1, <2>1, <2>4 DEF Kept, RowFits
  <2>11. /\ \A x \in Orders \ {o} : orders'[x] = orders[x]
         /\ orders'[o] = row
    BY <1>1, <2>1
  <2> QED BY <2>1, <2>4, <2>9, <2>10, <2>11
<1> QED BY <1>7, <1>8

(* A purchase from the balance records its order and delivers it. *)
LEMMA BuyFromBalanceType ==
  ASSUME StoreTypeOK, NEW o \in Orders, \A x \in Orders : RowFits(x),
         NEW row \in OrderRow, Fits(row), NEW sp \in SpecRow, NEW at \in Nat,
         BuyFromBalance(o, row, sp, at), now' = now
  PROVE StoreTypeOK' /\ Kept
<1> DEFINE u == row.user
           new == [row EXCEPT !.status = "paid", !.method = "balance", !.amount = 0,
                              !.bal = sp.debit, !.created = at, !.paidAt = at]
<1>1. /\ users \in Table /\ now \in Nat /\ orders \in [Orders -> OrderRow]
      /\ u \in Users
  BY DEF StoreTypeOK, Table, Fits
<1>2. /\ sp.debit \in Nat /\ sp.days \in Nat /\ sp.write \in WriteRow
      /\ sp.promo \in Codes \cup {NoCode}
  BY DEF SpecRow
<1>3. /\ orders[o].status = "none" /\ Covers(users, u, sp.debit)
      /\ orders' = [orders EXCEPT ![o] = new]
      /\ users' = Deliver(Debit(users, u, sp.debit), u, sp)
      /\ TakeUse(sp.promo, u)
      /\ paidUntil' = IF row.kind = "plan"
                      THEN [paidUntil EXCEPT ![u] = PaidTo(u, sp.write, sp.days)]
                      ELSE paidUntil
      /\ UNCHANGED <<claims, gifts>>
  BY DEF BuyFromBalance
<1>4. new \in OrderRow BY <1>2 DEF OrderRow, Statuses
<1>5. new.status = "paid" /\ Fits(new) BY DEF OrderRow, Fits
<1> HIDE DEF new
<1>6. users' \in Table
  <2>1. Debit(users, u, sp.debit) \in Table
    BY <1>1, <1>2, <1>3, DebitType DEF Covers
  <2> QED BY <1>1, <1>3, <2>1, DeliverType
<1>7. promoUses' \subseteq Codes \X Users /\ uses' \in [Codes -> Nat]
  BY <1>1, <1>2, <1>3, TakeUseType
<1>8. paidUntil' \in [Users -> Nat]
  <2>1. PaidTo(u, sp.write, sp.days) \in Nat BY <1>1, <1>2, PaidToType
  <2> QED BY <1>1, <1>3, <2>1 DEF StoreTypeOK
<1>9. StoreTypeOK'
  BY <1>1, <1>3, <1>4, <1>6, <1>7, <1>8 DEF StoreTypeOK, Table
<1>10. Kept BY <1>1, <1>3, <1>5 DEF Kept, RowFits
<1> QED BY <1>9, <1>10

(* Cancelling pending orders keeps the order table and its threads.        *)
LEMMA CancelIfPendingType ==
  ASSUME StoreTypeOK, \A x \in Orders : RowFits(x), NEW os, CancelIfPending(os)
  PROVE orders' \in [Orders -> OrderRow] /\ Kept
<1>1. \A x \in Orders : orders[x] \in OrderRow BY DEF StoreTypeOK
<1>2. \A x \in Orders : [orders[x] EXCEPT !.status = "cancelled"] \in OrderRow
  BY <1>1 DEF OrderRow, Statuses
<1>3. orders' \in [Orders -> OrderRow] BY <1>1, <1>2 DEF CancelIfPending
<1>4. ASSUME NEW x \in Orders
      PROVE /\ orders'[x].status # "none" => orders[x].status # "none"
            /\ orders[x].status # "none" => orders'[x].status # "none"
            /\ orders'[x].plan = orders[x].plan /\ orders'[x].from = orders[x].from
            /\ orders'[x].linked = orders[x].linked
            /\ Fits(orders[x]) => Fits(orders'[x])
  <2>1. \/ orders'[x] = orders[x]
        \/ /\ orders'[x] = [orders[x] EXCEPT !.status = "cancelled"]
           /\ orders[x].status # "none"
    BY DEF CancelIfPending
  <2>2. orders[x] \in OrderRow BY <1>1
  <2> QED BY <2>1, <2>2 DEF OrderRow, Fits
<1> QED BY <1>3, <1>4 DEF Kept, RowFits

(* So does the unconditional cancellation.                                 *)
LEMMA SetCancelledType ==
  ASSUME StoreTypeOK, \A x \in Orders : RowFits(x), NEW o \in Orders,
         orders[o].status # "none", SetCancelled(o)
  PROVE orders' \in [Orders -> OrderRow] /\ Kept
<1> DEFINE row == [orders[o] EXCEPT !.status = "cancelled", !.paidAt = 0]
<1>1. orders[o] \in OrderRow /\ orders \in [Orders -> OrderRow] BY DEF StoreTypeOK
<1>2. row \in OrderRow BY <1>1 DEF OrderRow, Statuses
<1>3. orders' = [orders EXCEPT ![o] = row] BY <1>1 DEF SetCancelled, OrderRow
<1>4. /\ row.status = "cancelled" /\ row.plan = orders[o].plan
      /\ row.from = orders[o].from /\ row.linked = orders[o].linked
      /\ Fits(orders[o]) => Fits(row)
  BY <1>1 DEF OrderRow, Fits
<1> HIDE DEF row
<1> QED BY <1>1, <1>2, <1>3, <1>4 DEF Kept, RowFits

(* A refund to the balance credits the payer and marks the order.          *)
LEMMA RefundToBalanceType ==
  ASSUME StoreTypeOK, \A x \in Orders : RowFits(x), NEW o \in Orders, RefundToBalance(o)
  PROVE /\ users' \in Table /\ orders' \in [Orders -> OrderRow] /\ Kept
        /\ orders[o].status # "none" /\ orders[o].plan \in Plans
<1> DEFINE kop == orders[o].amount * Kop + orders[o].bal
           u == orders[o].user
           row == [orders[o] EXCEPT !.source = "balance", !.refunded = kop]
<1>1. /\ orders[o] \in OrderRow /\ orders \in [Orders -> OrderRow] /\ users \in Table
  BY DEF StoreTypeOK, Table
<1>2. /\ orders[o].status = "paid" /\ orders[o].kind = "plan" /\ kop > 0
      /\ users' = Credit(users, u, kop)
  BY DEF RefundToBalance
<1>3. u \in Users /\ orders[o].plan \in Plans BY <1>2 DEF RowFits, Fits
<1>4. kop \in Nat
  <2>1. orders[o].amount \in Nat /\ orders[o].bal \in Nat BY <1>1 DEF OrderRow
  <2>2. orders[o].amount * Kop \in Nat BY <2>1, StoreAssumption, ProductNat
  <2> QED BY <2>1, <2>2
<1>5. users' \in Table
  <2>1. users[u].balance \in Nat BY <1>1, <1>3 DEF Table, UserRow
  <2> QED BY <1>1, <1>2, <1>3, <1>4, <2>1, CreditType
<1>6. row \in OrderRow BY <1>1, <1>4 DEF OrderRow
<1>7. orders' = [orders EXCEPT ![o] = row] BY <1>1 DEF RefundToBalance, OrderRow
<1>8. /\ row.status = "paid" /\ row.plan = orders[o].plan
      /\ row.from = orders[o].from /\ row.linked = orders[o].linked
      /\ Fits(orders[o]) => Fits(row)
  BY <1>1, <1>2 DEF OrderRow, Fits
<1> HIDE DEF row
<1> QED BY <1>1, <1>2, <1>3, <1>5, <1>6, <1>7, <1>8 DEF Kept, RowFits

(* A chargeback takes no more than there is: no balance goes below zero. *)
LEMMA ProviderRefundType ==
  ASSUME StoreTypeOK, \A x \in Orders : RowFits(x), NEW o \in Orders,
         orders[o].status = "paid", ProviderRefund(o)
  PROVE users' \in Table /\ orders' \in [Orders -> OrderRow] /\ Kept
<1> DEFINE u == orders[o].user
           r == Referrer[u]
           money == orders[o].amount * Kop
           onBalance == orders[o].source = "balance" \/ orders[o].kind = "topup"
           taken == IF onBalance THEN DebitUpTo(users, u, money) ELSE 0
           us1 == IF onBalance THEN Debit(users, u, taken)
                  ELSE Credit(users, u, orders[o].bal)
           back == IF orders[o].refkop > 0
                   THEN DebitUpTo(us1, r, orders[o].refkop) ELSE 0
           us2 == IF back > 0 THEN Debit(us1, r, back) ELSE us1
           days == IF r = NoUser THEN 0 ELSE orders[o].refdays
           banked == IF days > 0 THEN Least(us2[r].bonus, days) ELSE 0
           us3 == IF days = 0 THEN us2
                  ELSE [us2 EXCEPT
                         ![r].bonus = @ - banked,
                         ![r].expire = IF days > banked /\ @ > now
                                       THEN Most(@ - (days - banked), now) ELSE @]
           refunded == orders[o].refunded + (IF onBalance THEN 0 ELSE orders[o].bal)
           refkop == orders[o].refkop - back
           row == [orders[o] EXCEPT !.source = "provider", !.taken = taken,
                                    !.refunded = refunded, !.refkop = refkop]
<1>1. /\ orders[o] \in OrderRow /\ orders \in [Orders -> OrderRow] /\ users \in Table
      /\ now \in Nat
  BY DEF StoreTypeOK, Table
<1>2. /\ orders[o].amount \in Nat /\ orders[o].bal \in Nat /\ orders[o].refkop \in Nat
      /\ orders[o].refdays \in Nat /\ orders[o].refunded \in Nat
  BY <1>1 DEF OrderRow
<1>3. /\ u \in Users /\ Fits(orders[o])
      /\ orders[o].refkop > 0 => r \in Users
  BY DEF RowFits, Fits
<1>4. r \in Users \cup {NoUser} BY <1>3, StoreAssumption
<1>5. money \in Nat BY <1>2, StoreAssumption, ProductNat
<1> HIDE DEF money
<1>6. taken \in Nat /\ (onBalance => users[u].balance >= taken)
  BY <1>1, <1>3, <1>5, DebitUpToType
<1> HIDE DEF taken
<1>7. us1 \in Table
  <2>1. CASE onBalance
    <3>1. Debit(users, u, taken) \in Table BY <1>1, <1>3, <1>6, <2>1, DebitType
    <3> QED BY <2>1, <3>1
  <2>2. CASE ~onBalance
    <3>1. users[u].balance \in Nat BY <1>1, <1>3 DEF Table, UserRow
    <3>2. Credit(users, u, orders[o].bal) \in Table
      BY <1>1, <1>2, <1>3, <3>1, CreditType
    <3> QED BY <2>2, <3>2
  <2> QED BY <2>1, <2>2
<1> HIDE DEF us1
<1>8. /\ back \in Nat /\ back <= orders[o].refkop
      /\ back > 0 => r \in Users /\ us1[r].balance >= back
  BY <1>2, <1>3, <1>7, DebitUpToType
<1> HIDE DEF back
<1>9. us2 \in Table
  <2>1. CASE back > 0
    <3>1. Debit(us1, r, back) \in Table BY <1>7, <1>8, <2>1, DebitType
    <3> QED BY <2>1, <3>1
  <2>2. CASE ~(back > 0) BY <1>7, <2>2
  <2> QED BY <2>1, <2>2
<1> HIDE DEF us2
<1>10. days \in Nat /\ (days # 0 => r \in Users) BY <1>2, <1>4
<1> HIDE DEF days, r
<1>11. us3 \in Table
  <2>1. CASE days = 0 BY <1>9, <2>1
  <2>2. CASE days # 0
    <3>1. us2[r] \in UserRow /\ r \in Users BY <1>9, <1>10, <2>2 DEF Table
    <3>2. banked \in Nat /\ us2[r].bonus >= banked
      BY <1>10, <3>1 DEF UserRow, Least
    <3> DEFINE b == us2[r].bonus - banked
               e == IF days > banked /\ us2[r].expire > now
                    THEN Most(us2[r].expire - (days - banked), now)
                    ELSE us2[r].expire
    <3>3. b \in Nat /\ e \in Nat
      BY <1>1, <1>10, <3>1, <3>2 DEF UserRow, Most
    <3>4. us3 = [us2 EXCEPT ![r].bonus = b, ![r].expire = e]
      BY <1>9, <2>2, <3>1 DEF Table, UserRow
    <3> HIDE DEF b, e
    <3>5. [us2[r] EXCEPT !.bonus = b, !.expire = e] \in UserRow
      BY <3>1, <3>3 DEF UserRow
    <3>6. us3 = [us2 EXCEPT ![r] = [us2[r] EXCEPT !.bonus = b, !.expire = e]]
      BY <1>9, <3>1, <3>4 DEF Table
    <3> QED BY <1>9, <3>1, <3>5, <3>6 DEF Table
  <2> QED BY <2>1, <2>2
<1>12. users' = us3 BY DEF ProviderRefund, us2, us1, back, taken, money, days, r
<1> HIDE DEF us3
<1>13. orders' = [orders EXCEPT ![o] = row]
  BY <1>1 DEF ProviderRefund, us1, back, taken, money, r, OrderRow
<1>14. refunded \in Nat /\ refkop \in Nat /\ refkop <= orders[o].refkop
  BY <1>2, <1>8
<1> HIDE DEF refunded, refkop, onBalance
<1>15. row \in OrderRow BY <1>1, <1>6, <1>14 DEF OrderRow
<1>16. /\ row.status = "paid" /\ row.plan = orders[o].plan
       /\ row.from = orders[o].from /\ row.linked = orders[o].linked
       /\ Fits(row)
  BY <1>1, <1>2, <1>3, <1>14 DEF OrderRow, Fits, r
<1> HIDE DEF row
<1> QED BY <1>1, <1>11, <1>12, <1>13, <1>15, <1>16 DEF Kept, RowFits

(* A shortened term does not end before now.                               *)
LEMMA ShortenTermType ==
  ASSUME StoreTypeOK, NEW u \in Users, NEW p, NEW days \in Nat
  PROVE ShortenTerm(u, p, days) \in Table
<1>1. users \in Table /\ users[u] \in UserRow /\ now \in Nat BY DEF StoreTypeOK, Table
<1> DEFINE e == Most(users[u].expire - days, now)
<1>2. e \in Nat BY <1>1 DEF UserRow, Most
<1> HIDE DEF e
<1>3. [users[u] EXCEPT !.expire = e] \in UserRow BY <1>1, <1>2 DEF UserRow
<1>4. [users EXCEPT ![u].expire = e] \in Table BY <1>1, <1>3 DEF Table
<1> QED BY <1>1, <1>4 DEF ShortenTerm, e

(* Devices and traffic taken back do not go below none.                    *)
LEMMA TakeBackAddonType ==
  ASSUME StoreTypeOK, NEW o \in Orders, orders[o].user \in Users
  PROVE TakeBackAddon(users, o) \in Table
<1> DEFINE u == orders[o].user
           d == IF orders[o].kind = "devices"
                THEN Least(users[u].extra, orders[o].devices) ELSE 0
           t == Least(users[u].pack, orders[o].pack)
           row == [users[u] EXCEPT !.extra = users[u].extra - d,
                                   !.pack = users[u].pack - t]
<1>1. /\ users \in Table /\ users[u] \in UserRow
      /\ orders[o].devices \in Nat /\ orders[o].pack \in Nat
  BY DEF StoreTypeOK, Table, OrderRow
<1>2. users[u].extra - d \in Nat /\ users[u].pack - t \in Nat
  BY <1>1 DEF UserRow, Least
<1>3. row \in UserRow BY <1>1, <1>2 DEF UserRow
<1>4. users[u].plan = orders[o].plan => TakeBackAddon(users, o) = [users EXCEPT ![u] = row]
  BY <1>1 DEF TakeBackAddon, Table, UserRow
<1> HIDE DEF row
<1> QED BY <1>1, <1>3, <1>4 DEF TakeBackAddon, Table
----------------------------------------------------------------------------
(* Moves of one thread, with what it does to the tables typed already.      *)

ShopRow == [pc : ShopPcs, draft : OrderRow, order : Orders \cup {NoOrder}]

HandRow == [pc : HandPcs, order : Orders \cup {NoOrder}]

(* A step that leaves the tables alone keeps their type.                   *)
LEMMA StoreUnchanged ==
  ASSUME Inv, UNCHANGED db PROVE StoreTypeOK' /\ Kept
<1>1. StoreTypeOK' BY DEF Inv, TypeOK, StoreTypeOK, db, tables, history
<1>2. Kept BY KeptUnchanged DEF Inv, db, tables
<1> QED BY <1>1, <1>2

(* A step of one shopper keeps the others fit.                             *)
LEMMA ShopMoves ==
  ASSUME Inv, StoreTypeOK', Kept, NEW s \in Shoppers, NEW v \in ShopRow,
         shop' = [shop EXCEPT ![s] = v], charge' \in [Orders -> Charges],
         UNCHANGED <<hand, batch, subscriptionVars>>, ShopperFits(s)'
  PROVE Inv'
<1>1. TypeOK'
  BY DEF Inv, TypeOK, CheckoutTypeOK, SubscriptionTypeOK, subscriptionVars, ShopRow
<1>2. \A o \in Orders : RowFits(o)' BY DEF Kept
<1>3. \A x \in Shoppers : ShopperFits(x)'
  <2>1. TAKE x \in Shoppers
  <2>2. x # s => shop'[x] = shop[x] BY DEF Inv, TypeOK, CheckoutTypeOK
  <2> QED BY <2>2, KeptThreads DEF Inv, WellFormed
<1>4. \A h \in Handlers : HandlerFits(h)' BY KeptThreads DEF Inv, WellFormed
<1>5. \A o \in batch' : orders'[o].linked
  BY KeptThreads DEF Inv, WellFormed, TypeOK, CheckoutTypeOK
<1>6. (\A t \in Taps : TapFits(t)') /\ JobFits'
  BY DEF Inv, WellFormed, TapFits, JobFits, subscriptionVars
<1> QED BY <1>1, <1>2, <1>3, <1>4, <1>5, <1>6 DEF Inv, WellFormed

(* A step of one handler keeps the others fit.                             *)
LEMMA HandMoves ==
  ASSUME Inv, StoreTypeOK', Kept, NEW h \in Handlers, NEW v \in HandRow,
         hand' = [hand EXCEPT ![h] = v], batch' \subseteq batch,
         UNCHANGED <<shop, charge, subscriptionVars>>, HandlerFits(h)'
  PROVE Inv'
<1>1. TypeOK'
  BY DEF Inv, TypeOK, CheckoutTypeOK, SubscriptionTypeOK, subscriptionVars, HandRow
<1>2. \A o \in Orders : RowFits(o)' BY DEF Kept
<1>3. \A s \in Shoppers : ShopperFits(s)' BY KeptThreads DEF Inv, WellFormed
<1>4. \A x \in Handlers : HandlerFits(x)'
  <2>1. TAKE x \in Handlers
  <2>2. x # h => hand'[x] = hand[x] BY DEF Inv, TypeOK, CheckoutTypeOK
  <2> QED BY <2>2, KeptThreads DEF Inv, WellFormed
<1>5. \A o \in batch' : orders'[o].linked
  BY KeptThreads DEF Inv, WellFormed, TypeOK, CheckoutTypeOK
<1>6. (\A t \in Taps : TapFits(t)') /\ JobFits'
  BY DEF Inv, WellFormed, TapFits, JobFits, subscriptionVars
<1> QED BY <1>1, <1>2, <1>3, <1>4, <1>5, <1>6 DEF Inv, WellFormed

(* A step that leaves checkout alone keeps its threads fit.                *)
LEMMA SubscriptionMoves ==
  ASSUME Inv, StoreTypeOK', Kept, UNCHANGED checkoutVars, SubscriptionTypeOK',
         \A t \in Taps : TapFits(t)', JobFits'
  PROVE Inv'
<1>1. TypeOK'
  BY DEF Inv, TypeOK, CheckoutTypeOK, checkoutVars, threads
<1>2. \A o \in Orders : RowFits(o)' BY DEF Kept
<1>3. \A s \in Shoppers : ShopperFits(s)'
  BY KeptThreads DEF Inv, WellFormed, checkoutVars, threads
<1>4. \A h \in Handlers : HandlerFits(h)'
  BY KeptThreads DEF Inv, WellFormed, checkoutVars, threads
<1>5. \A o \in batch' : orders'[o].linked
  BY KeptThreads DEF Inv, WellFormed, TypeOK, CheckoutTypeOK, checkoutVars, threads
<1> QED BY <1>1, <1>2, <1>3, <1>4, <1>5 DEF Inv, WellFormed

----------------------------------------------------------------------------
(* Checkout, one step per action.                                          *)

(* Idle threads are well typed.                                            *)
LEMMA IdleRows == IdleShop \in ShopRow /\ IdleHand \in HandRow
BY BlankType DEF IdleShop, IdleHand, ShopRow, HandRow, ShopPcs, HandPcs, Statuses


(* What the invariant says of one shopper.                                 *)
LEMMA ShopperRow ==
  ASSUME Inv, NEW s \in Shoppers
  PROVE shop[s] \in ShopRow /\ ShopperFits(s)
BY DEF Inv, TypeOK, CheckoutTypeOK, WellFormed, ShopRow

(* What the invariant says of one handler.                                 *)
LEMMA HandlerRow ==
  ASSUME Inv, NEW h \in Handlers
  PROVE hand[h] \in HandRow /\ HandlerFits(h)
BY DEF Inv, TypeOK, CheckoutTypeOK, WellFormed, HandRow

(* Opening an order keeps the invariant, step by step.                     *)
LEMMA ShoppingInv ==
  ASSUME Inv, NEW s \in Shoppers, Shopping(s), UNCHANGED subscriptionVars
  PROVE Inv'
<1>1. /\ shop[s] \in ShopRow /\ ShopperFits(s) /\ shop \in [Shoppers -> ShopRow]
      /\ orders \in [Orders -> OrderRow] /\ users \in Table /\ now \in Nat
      /\ charge \in [Orders -> Charges] /\ StoreTypeOK
      /\ \A x \in Orders : RowFits(x)
  BY ShopperRow DEF Inv, TypeOK, StoreTypeOK, CheckoutTypeOK, Table, WellFormed, ShopRow
<1>2. IdleShop \in ShopRow /\ IdleShop.pc = "idle" BY IdleRows DEF IdleShop
<1>3. ASSUME NEW u \in Users, NEW p \in Purchases, NEW m \in Methods,
             StartPurchase(s, u, p, m)
      PROVE Inv'
  <2>1. p \in PurchaseRow /\ m \in {"provider", "manual", "external"}
    BY CheckoutAssumption
  <2>2. PICK q \in Quotes(u, p) :
          shop' = [shop EXCEPT ![s] =
            [pc |-> IF m = "external" THEN "insert" ELSE "reuse",
             draft |-> [Draft(u, p, q) EXCEPT !.method = m],
             order |-> NoOrder]]
    BY <1>3 DEF StartPurchase
  <2> DEFINE d == Draft(u, p, q)
             draft == [d EXCEPT !.method = m]
             v == [pc |-> IF m = "external" THEN "insert" ELSE "reuse",
                   draft |-> draft, order |-> NoOrder]
  <2>3. d \in OrderRow /\ Fits(d) /\ ~d.linked /\ d.source = "none"
    BY <1>1, <2>1, DraftType
  <2> HIDE DEF d
  <2>4. /\ draft \in OrderRow /\ Fits(draft) /\ draft.method # "balance"
        /\ ~draft.linked /\ draft.source = "none"
    BY <2>1, <2>3 DEF OrderRow, Fits
  <2> HIDE DEF draft
  <2>5. v \in ShopRow /\ v.pc \in {"insert", "reuse"} /\ v.draft = draft
    BY <2>4 DEF ShopRow, ShopPcs
  <2>6. shop' = [shop EXCEPT ![s] = v] BY <2>2 DEF d, draft
  <2> HIDE DEF v
  <2>7. ShopperFits(s)' BY <1>1, <2>4, <2>5, <2>6 DEF ShopperFits
  <2>8. StoreTypeOK' /\ Kept BY <1>3, StoreUnchanged DEF StartPurchase
  <2> QED BY <1>1, <1>3, <2>5, <2>6, <2>7, <2>8, ShopMoves DEF StartPurchase
<1>4. CASE ReuseOrder(s)
  <2>1. StoreTypeOK' /\ Kept BY <1>4, StoreUnchanged DEF ReuseOrder
  <2>2. CASE shop' = [shop EXCEPT ![s] = IdleShop]
    <3>1. ShopperFits(s)' BY <1>1, <1>2, <2>2 DEF ShopperFits
    <3> QED BY <1>1, <1>2, <1>4, <2>1, <2>2, <3>1, ShopMoves DEF ReuseOrder
  <2>3. CASE shop' = [shop EXCEPT ![s].pc = "insert"]
    <3> DEFINE v == [shop[s] EXCEPT !.pc = "insert"]
    <3>1. v \in ShopRow BY <1>1 DEF ShopRow, ShopPcs
    <3>2. shop' = [shop EXCEPT ![s] = v] BY <2>3
    <3>3. ShopperFits(s)' BY <1>1, <1>4, <3>1, <3>2 DEF ShopperFits, ReuseOrder, ShopRow
    <3> QED BY <1>1, <1>4, <2>1, <3>1, <3>2, <3>3, ShopMoves DEF ReuseOrder
  <2> QED BY <1>4, <2>2, <2>3 DEF ReuseOrder
<1>5. ASSUME NEW o \in Orders, InsertOrder(s, o) PROVE Inv'
  <2> DEFINE d == shop[s].draft
             row == [d EXCEPT !.status = "pending", !.created = now]
             pc == CASE d.method = "provider" -> "create"
                     [] d.method = "external" -> "link"
                     [] d.method = "manual" -> "supersede"
             v == [shop[s] EXCEPT !.order = o, !.pc = pc]
  <2>1. shop[s].pc = "insert" /\ orders[o].status = "none" BY <1>5 DEF InsertOrder
  <2>2. d \in OrderRow /\ Fits(d) BY <1>1, <2>1 DEF ShopRow, ShopperFits
  <2>3. row \in OrderRow /\ row.status = "pending" /\ Fits(row)
    BY <1>1, <2>2 DEF OrderRow, Statuses, Fits
  <2>4. orders' = [orders EXCEPT ![o] = row] BY <1>5 DEF InsertOrder
  <2> HIDE DEF row
  <2>5. StoreTypeOK'
    BY <1>1, <1>5, <2>3, <2>4 DEF StoreTypeOK, InsertOrder, history
  <2>6. ~orders[o].linked BY <1>1, <2>1 DEF RowFits
  <2>7. Kept BY <1>1, <2>1, <2>3, <2>4, <2>6 DEF Kept, RowFits
  <2>8. pc \in {"create", "link", "supersede"}
    BY <1>1, <2>1, <2>2 DEF OrderRow, ShopperFits
  <2>9. shop' = [shop EXCEPT ![s].order = o, ![s].pc = pc] BY <1>5 DEF InsertOrder
  <2> HIDE DEF pc
  <2>10. shop' = [shop EXCEPT ![s] = v] BY <1>1, <2>9 DEF ShopRow
  <2>11. v \in ShopRow /\ v.order = o /\ v.draft = d
    BY <1>1, <2>8 DEF ShopRow, ShopPcs
  <2> HIDE DEF v
  <2>12. ShopperFits(s)'
    BY <1>1, <2>1, <2>3, <2>4, <2>10, <2>11 DEF ShopperFits
  <2> QED BY <1>1, <1>5, <2>5, <2>7, <2>10, <2>11, <2>12, ShopMoves DEF InsertOrder
<1>6. CASE InsertRefused(s)
  <2>1. StoreTypeOK' /\ Kept BY <1>6, StoreUnchanged DEF InsertRefused
  <2>2. ShopperFits(s)' BY <1>1, <1>2, <1>6 DEF ShopperFits, InsertRefused
  <2> QED BY <1>1, <1>2, <1>6, <2>1, <2>2, ShopMoves DEF InsertRefused
<1>7. CASE CreateInvoice(s)
  <2> DEFINE v == [shop[s] EXCEPT !.pc = "link"]
  <2>1. StoreTypeOK' /\ Kept BY <1>7, StoreUnchanged DEF CreateInvoice
  <2>2. v \in ShopRow BY <1>1 DEF ShopRow, ShopPcs
  <2>3. shop' = [shop EXCEPT ![s] = v] BY <1>7 DEF CreateInvoice
  <2>4. ShopperFits(s)'
    BY <1>1, <1>7, <2>3 DEF ShopperFits, CreateInvoice, ShopRow, db, tables
  <2>5. charge' \in [Orders -> Charges] BY <1>1, <1>7 DEF CreateInvoice, Charges
  <2> QED BY <1>7, <2>1, <2>2, <2>3, <2>4, <2>5, ShopMoves DEF CreateInvoice
<1>8. CASE CreateFails(s)
  <2> DEFINE o == shop[s].order
  <2>1. o \in Orders /\ orders[o].status # "none"
    BY <1>1, <1>8 DEF ShopperFits, CreateFails
  <2>2. orders' \in [Orders -> OrderRow] /\ Kept
    BY <1>1, <1>8, <2>1, SetCancelledType DEF CreateFails
  <2>3. StoreTypeOK' BY <1>1, <1>8, <2>2 DEF StoreTypeOK, CreateFails, history
  <2>4. ShopperFits(s)' BY <1>1, <1>2, <1>8 DEF ShopperFits, CreateFails
  <2> QED BY <1>1, <1>2, <1>8, <2>2, <2>3, <2>4, ShopMoves DEF CreateFails
<1>9. CASE LinkOrder(s)
  <2> DEFINE o == shop[s].order
             row == [orders[o] EXCEPT !.linked = TRUE]
             v == [shop[s] EXCEPT !.pc = "supersede"]
  <2>1. o \in Orders /\ orders[o].status # "none" /\ Fits(orders[o])
    BY <1>1, <1>9 DEF ShopperFits, LinkOrder, RowFits
  <2>2. row \in OrderRow
    <3>1. orders[o] \in OrderRow BY <1>1, <2>1
    <3> HIDE DEF o
    <3> QED BY <3>1 DEF OrderRow
  <2>3. /\ row.status = orders[o].status /\ row.plan = orders[o].plan
        /\ row.from = orders[o].from /\ row.linked /\ Fits(row)
    BY <1>1, <2>1 DEF OrderRow, Fits
  <2>4. orders' = [orders EXCEPT ![o] = row] BY <1>9 DEF LinkOrder
  <2> HIDE DEF row
  <2>5. Kept BY <1>1, <2>1, <2>3, <2>4 DEF Kept, RowFits
  <2>6. StoreTypeOK' BY <1>1, <1>9, <2>2, <2>4 DEF StoreTypeOK, LinkOrder, history
  <2>7. v \in ShopRow BY <1>1 DEF ShopRow, ShopPcs
  <2>8. shop' = [shop EXCEPT ![s] = v] BY <1>9 DEF LinkOrder
  <2>9. ShopperFits(s)'
    BY <1>1, <1>9, <2>1, <2>5, <2>8 DEF ShopperFits, LinkOrder, ShopRow, Kept
  <2> QED BY <1>1, <1>9, <2>5, <2>6, <2>7, <2>8, <2>9, ShopMoves DEF LinkOrder
<1>10. CASE SupersedeOrders(s)
  <2>1. orders' \in [Orders -> OrderRow] /\ Kept
    BY <1>1, <1>10, CancelIfPendingType DEF SupersedeOrders
  <2>2. StoreTypeOK' BY <1>1, <1>10, <2>1 DEF StoreTypeOK, SupersedeOrders, history
  <2>3. ShopperFits(s)' BY <1>1, <1>2, <1>10 DEF ShopperFits, SupersedeOrders
  <2> QED BY <1>1, <1>2, <1>10, <2>1, <2>2, <2>3, ShopMoves DEF SupersedeOrders
<1> QED BY <1>3, <1>4, <1>5, <1>6, <1>7, <1>8, <1>9, <1>10 DEF Shopping

(* Hearing of payments: what a thread decides to do next concerns an order *)
(* there is.                                                               *)
LEMMA HearingInv ==
  ASSUME Inv, UNCHANGED subscriptionVars,
         \/ \E h \in Hooks : Callback(h)
         \/ Polling
         \/ \E o \in Orders : OperatorConfirms(o)
  PROVE Inv'
<1>1. /\ hand \in [Handlers -> HandRow] /\ orders \in [Orders -> OrderRow]
      /\ \A x \in Orders : RowFits(x)
      /\ batch \subseteq Orders /\ \A x \in batch : orders[x].linked
      /\ Poller \in Handlers /\ Operator \in Handlers /\ Hooks \subseteq Handlers
  BY DEF Inv, TypeOK, StoreTypeOK, CheckoutTypeOK, WellFormed, HandRow, Handlers
<1>2. IdleHand \in HandRow /\ IdleHand.pc = "idle" BY IdleRows DEF IdleHand
<1>3. ASSUME NEW h \in Handlers, NEW o \in Orders, orders[o].status # "none",
             NEW pc \in {"confirm", "void", "refund", "sweep"},
             hand' = [hand EXCEPT ![h] = [pc |-> pc, order |-> o]],
             batch' \subseteq batch, UNCHANGED <<db, shop, charge>>
      PROVE Inv'
  <2> DEFINE v == [pc |-> pc, order |-> o]
  <2>1. v \in HandRow /\ v.pc = pc /\ v.order = o BY <1>3 DEF HandRow, HandPcs
  <2>2. hand' = [hand EXCEPT ![h] = v] BY <1>3
  <2> HIDE DEF v
  <2>3. StoreTypeOK' /\ Kept BY <1>3, StoreUnchanged
  <2>4. HandlerFits(h)' BY <1>1, <1>3, <2>1, <2>2, <2>3 DEF HandlerFits, Kept
  <2> QED BY <1>1, <1>3, <2>1, <2>2, <2>3, <2>4, HandMoves
<1>4. ASSUME hand' = [hand EXCEPT ![Poller] = IdleHand], batch' \subseteq batch,
             UNCHANGED <<db, shop, charge>>
      PROVE Inv'
  <2>1. StoreTypeOK' /\ Kept BY <1>4, StoreUnchanged
  <2>2. HandlerFits(Poller)' BY <1>1, <1>2, <1>4 DEF HandlerFits
  <2> QED BY <1>1, <1>2, <1>4, <2>1, <2>2, HandMoves
<1>5. ASSUME NEW h \in Hooks, Callback(h) PROVE Inv'
  <2>1. PICK o \in Orders, report \in {"paid", "void", "refunded"} :
          ReceiveCallback(h, o, report)
    BY <1>5 DEF Callback
  <2>2. /\ orders[o].linked /\ Reaction(o, report) # "idle"
        /\ hand' = [hand EXCEPT ![h] = [pc |-> Reaction(o, report), order |-> o]]
        /\ UNCHANGED <<db, shop, batch, charge>>
    BY <2>1 DEF ReceiveCallback
  <2>3. Reaction(o, report) \in {"confirm", "void", "refund"}
    BY <2>2 DEF Reaction
  <2>4. orders[o].status \in Statuses /\ orders[o].status # "none"
    BY <1>1, <2>2 DEF OrderRow, RowFits
  <2> QED BY <1>1, <1>3, <2>2, <2>3, <2>4
<1>6. ASSUME NEW o \in Orders, OperatorConfirms(o) PROVE Inv'
  <2>1. orders[o].status \in Statuses /\ orders[o].status # "none"
    BY <1>1, <1>6 DEF OrderRow, OperatorConfirms, Open
  <2> QED BY <1>1, <1>3, <1>6, <2>1 DEF OperatorConfirms
<1>7. CASE PollList
  <2>1. /\ batch' \subseteq Orders /\ (\A x \in batch' : orders'[x].linked)
        /\ UNCHANGED <<db, shop, hand, charge>>
    BY <1>7 DEF PollList, ToPoll, db, tables
  <2>2. StoreTypeOK' /\ Kept BY <2>1, StoreUnchanged
  <2>3. TypeOK'
    BY <2>1, <2>2 DEF Inv, TypeOK, CheckoutTypeOK, SubscriptionTypeOK, subscriptionVars
  <2>4. \A x \in Orders : RowFits(x)' BY <2>2 DEF Kept
  <2>5. \A s \in Shoppers : ShopperFits(s)'
    BY <2>1, <2>2, KeptThreads DEF Inv, WellFormed
  <2>6. \A h \in Handlers : HandlerFits(h)'
    BY <2>1, <2>2, KeptThreads DEF Inv, WellFormed
  <2>7. (\A t \in Taps : TapFits(t)') /\ JobFits'
    BY DEF Inv, WellFormed, TapFits, JobFits, subscriptionVars
  <2> QED BY <2>1, <2>3, <2>4, <2>5, <2>6, <2>7 DEF Inv, WellFormed
<1>8. ASSUME NEW o \in Orders, PollAsk(o) PROVE Inv'
  <2> DEFINE to(pc) == [hand EXCEPT ![Poller] = [pc |-> pc, order |-> o]]
  <2>1. /\ o \in batch /\ batch' \subseteq batch /\ "pending" \in Statuses
        /\ UNCHANGED <<db, shop, charge>>
    BY <1>8 DEF PollAsk, Statuses
  <2>2. orders[o].status # "none" BY <1>1, <2>1 DEF RowFits
  <2>3. \/ hand' = to("confirm") \/ hand' = to("void") \/ hand' = to("sweep")
        \/ hand' = [hand EXCEPT ![Poller] = IdleHand]
    BY <1>8 DEF PollAsk
  <2> QED BY <1>1, <1>3, <1>4, <2>1, <2>2, <2>3
<1>9. ASSUME NEW o \in Orders, PollFails(o) PROVE Inv'
  <2>1. /\ o \in batch /\ batch' \subseteq batch /\ "pending" \in Statuses
        /\ UNCHANGED <<db, shop, charge>>
        /\ hand[Poller].pc = "idle"
    BY <1>9 DEF PollFails, Statuses
  <2>2. orders[o].status # "none" BY <1>1, <2>1 DEF RowFits
  <2>3. CASE hand' = [hand EXCEPT ![Poller] =
                        [pc |-> "sweep", order |-> o]]
    BY <1>1, <1>3, <2>1, <2>2, <2>3
  <2>4. CASE hand' = [hand EXCEPT ![Poller] = IdleHand]
    BY <1>1, <1>4, <2>1, <2>4
  <2>5. CASE hand' = hand
    <3>1. hand[Poller] \in HandRow /\ hand' = [hand EXCEPT ![Poller] = hand[Poller]]
      BY <1>1, <2>5
    <3>2. StoreTypeOK' /\ Kept BY <2>1, StoreUnchanged
    <3>3. HandlerFits(Poller)' BY <2>1, <2>5 DEF HandlerFits
    <3> QED BY <1>1, <2>1, <3>1, <3>2, <3>3, HandMoves
  <2> QED BY <1>9, <2>3, <2>4, <2>5 DEF PollFails
<1> QED BY <1>5, <1>6, <1>7, <1>8, <1>9 DEF Polling

(* Confirming, cancelling, refunding and taking back keep the invariant.   *)
LEMMA HandlingInv ==
  ASSUME Inv, NEW h \in Handlers, Handling(h), UNCHANGED subscriptionVars
  PROVE Inv'
<1> DEFINE o == hand[h].order
           u == orders[o].user
           p == orders[o].plan
<1>1. /\ hand \in [Handlers -> HandRow] /\ orders \in [Orders -> OrderRow]
      /\ hand[h] \in HandRow /\ HandlerFits(h) /\ users \in Table /\ now \in Nat
      /\ (\A x \in Orders : RowFits(x)) /\ StoreTypeOK
  BY HandlerRow
  DEF Inv, TypeOK, StoreTypeOK, CheckoutTypeOK, WellFormed, HandRow, Table
<1>2. IdleHand \in HandRow /\ IdleHand.pc = "idle" BY IdleRows DEF IdleHand
<1>3. hand[h].pc # "idle" BY DEF Handling, Confirm, CancelPending, RefundByProvider,
        TakeBackTerm, TakeBackDays, TakeBackPlan, TakeAddonBack, RevertChange
<1>4. o \in Orders /\ orders[o].status # "none" BY <1>1, <1>3 DEF HandlerFits
<1>5. orders[o] \in OrderRow /\ Fits(orders[o]) /\ u \in Users /\ users[u] \in UserRow
  BY <1>1, <1>4 DEF RowFits, Fits, Table
<1>6. ASSUME StoreTypeOK', Kept, hand' = [hand EXCEPT ![h] = IdleHand],
             UNCHANGED <<shop, batch, charge>>
      PROVE Inv'
  <2>1. HandlerFits(h)' BY <1>1, <1>2, <1>6 DEF HandlerFits
  <2> QED BY <1>2, <1>6, <2>1, HandMoves
<1>7. ASSUME StoreTypeOK', Kept, NEW pc \in HandPcs,
             hand' = [hand EXCEPT ![h] = [hand[h] EXCEPT !.pc = pc]],
             pc \in {"takeback", "shorten", "endplan"} => p \in Plans,
             pc = "revert" => orders[o].from \in Plans,
             UNCHANGED <<shop, batch, charge>>
      PROVE Inv'
  <2> DEFINE v == [hand[h] EXCEPT !.pc = pc]
  <2>1. v \in HandRow /\ v.pc = pc /\ v.order = o BY <1>1 DEF HandRow
  <2>2. hand' = [hand EXCEPT ![h] = v] BY <1>7
  <2> HIDE DEF v
  <2>3. HandlerFits(h)' BY <1>1, <1>4, <1>7, <2>1, <2>2 DEF HandlerFits, Kept
  <2> QED BY <1>1, <1>7, <2>1, <2>2, <2>3, HandMoves
<1>8. ASSUME users' \in Table, orders' = orders,
             UNCHANGED <<promoUses, uses, now, claims, gifts>>,
             paidUntil' \in [Users -> Nat]
      PROVE StoreTypeOK' /\ Kept
  <2>1. StoreTypeOK' BY <1>1, <1>8 DEF StoreTypeOK, Table
  <2>2. Kept BY <1>8, KeptUnchanged DEF Inv
  <2> QED BY <2>1, <2>2
<1>9. CASE Confirm(h)
  <2>1. ConfirmSpec(o) \in SpecRow BY <1>1, <1>4, <1>5, ConfirmSpecType
  <2>2. ConfirmOrder(o, ConfirmSpec(o)) /\ now' = now BY <1>9 DEF Confirm
  <2>3. StoreTypeOK' /\ Kept BY <1>1, <1>4, <2>1, <2>2, ConfirmOrderType
  <2> QED BY <1>1, <1>6, <1>9, <2>3 DEF Confirm
<1>10. CASE CancelPending(h)
  <2>1. orders' \in [Orders -> OrderRow] /\ Kept
    BY <1>1, <1>10, CancelIfPendingType DEF CancelPending
  <2>2. StoreTypeOK' BY <1>1, <1>10, <2>1 DEF StoreTypeOK, CancelPending, history
  <2> QED BY <1>6, <1>10, <2>1, <2>2 DEF CancelPending
<1>11. CASE RefundByProvider(h)
  <2> DEFINE next == IF orders[o].source = "balance" THEN "idle"
                     ELSE CASE orders[o].kind = "plan" -> "takeback"
                            [] orders[o].kind = "change" -> "revert"
                            [] orders[o].kind \in {"devices", "traffic"} -> "addonback"
                            [] orders[o].kind = "topup" -> "idle"
  <2>1. StoreTypeOK' /\ Kept
    <3>1. CASE Refundable(o)
      <4>1. ProviderRefund(o) /\ UNCHANGED <<promoUses, uses, now, history>>
        BY <1>11, <3>1 DEF RefundByProvider
      <4>2. users' \in Table /\ orders' \in [Orders -> OrderRow] /\ Kept
        BY <1>1, <1>4, <3>1, <4>1, ProviderRefundType DEF Refundable
      <4>3. StoreTypeOK' BY <1>1, <4>1, <4>2 DEF StoreTypeOK, Table, history
      <4> QED BY <4>2, <4>3
    <3>2. CASE ~Refundable(o)
      <4>1. UNCHANGED db BY <1>11, <3>2 DEF RefundByProvider, db, tables, history
      <4> QED BY <4>1, StoreUnchanged
    <3> QED BY <3>1, <3>2
  <2>2. \/ hand' = [hand EXCEPT ![h] = IdleHand]
        \/ /\ next # "idle"
           /\ hand' = [hand EXCEPT ![h] = [hand[h] EXCEPT !.pc = next]]
    BY <1>11 DEF RefundByProvider
  <2>3. next \in {"idle", "takeback", "revert", "addonback"}
    BY <1>5 DEF OrderRow, Kinds
  <2>4. /\ next \in {"takeback", "shorten", "endplan"} => p \in Plans
        /\ next = "revert" => orders[o].from \in Plans
    BY <1>5 DEF Fits, OrderRow, Kinds
  <2>5. UNCHANGED <<shop, batch, charge>> BY <1>11 DEF RefundByProvider
  <2> HIDE DEF next
  <2> QED BY <1>1, <1>6, <1>7, <2>1, <2>2, <2>3, <2>4, <2>5 DEF HandPcs
<1>12. CASE TakeBackTerm(h)
  <2>1. StoreTypeOK' /\ Kept BY <1>12, StoreUnchanged DEF TakeBackTerm
  <2>2. p \in Plans BY <1>1, <1>12 DEF HandlerFits, TakeBackTerm
  <2>3. \/ hand' = [hand EXCEPT ![h] = IdleHand]
        \/ hand' = [hand EXCEPT ![h] = [hand[h] EXCEPT !.pc = "endplan"]]
        \/ hand' = [hand EXCEPT ![h] = [hand[h] EXCEPT !.pc = "shorten"]]
    BY <1>12 DEF TakeBackTerm
  <2>4. UNCHANGED <<shop, batch, charge>> BY <1>12 DEF TakeBackTerm
  <2> QED BY <1>1, <1>6, <1>7, <2>1, <2>2, <2>3, <2>4 DEF HandPcs
<1>13. CASE TakeBackDays(h)
  <2> DEFINE days == Period[p] * orders[o].periods
             us == ShortenTerm(u, p, days)
  <2>1. p \in Plans BY <1>1, <1>13 DEF HandlerFits, TakeBackDays
  <2>2. days \in Nat
    BY <1>5, <2>1, StoreAssumption, ProductNat DEF OrderRow
  <2>3. us \in Table BY <1>1, <1>5, <2>2, ShortenTermType
  <2>4. /\ users' = us
        /\ paidUntil' = [paidUntil EXCEPT ![u] = IF us # users THEN Most(@ - days, 0) ELSE @]
        /\ UNCHANGED <<orders, promoUses, uses, now, claims, gifts, shop, batch,
                       charge>>
    BY <1>13 DEF TakeBackDays
  <2>5. \/ hand' = [hand EXCEPT ![h] = IdleHand]
        \/ hand' = [hand EXCEPT ![h] = [hand[h] EXCEPT !.pc = "endplan"]]
    BY <1>13 DEF TakeBackDays
  <2> HIDE DEF us, days
  <2>6. paidUntil' \in [Users -> Nat]
    <3> DEFINE e == IF us # users THEN Most(paidUntil[u] - days, 0) ELSE paidUntil[u]
    <3>1. paidUntil \in [Users -> Nat] /\ paidUntil[u] \in Nat
      BY <1>1, <1>5 DEF StoreTypeOK
    <3>2. e \in Nat BY <2>2, <3>1 DEF Most
    <3>3. paidUntil' = [paidUntil EXCEPT ![u] = e] BY <2>4
    <3> HIDE DEF e
    <3> QED BY <3>1, <3>2, <3>3
  <2>7. StoreTypeOK' /\ Kept BY <1>8, <2>3, <2>4, <2>6
  <2> QED BY <1>1, <1>6, <1>7, <2>1, <2>4, <2>5, <2>7 DEF HandPcs
<1>14. CASE TakeBackPlan(h)
  <2>1. users' \in Table BY <1>1, <1>5, <1>14, EndPlanType DEF TakeBackPlan
  <2>2. StoreTypeOK' /\ Kept
    BY <1>1, <1>8, <1>14, <2>1 DEF TakeBackPlan, history, StoreTypeOK
  <2> QED BY <1>1, <1>6, <1>14, <2>2 DEF TakeBackPlan
<1>15. CASE TakeAddonBack(h)
  <2>1. users' \in Table
    BY <1>1, <1>4, <1>5, <1>15, TakeBackAddonType DEF TakeAddonBack
  <2>2. StoreTypeOK' /\ Kept
    BY <1>1, <1>8, <1>15, <2>1 DEF TakeAddonBack, history, StoreTypeOK
  <2> QED BY <1>1, <1>6, <1>15, <2>2 DEF TakeAddonBack
<1>16. CASE RevertChange(h)
  <2> DEFINE from == orders[o].from
             devices == IF SellsDevices(from) THEN Least(orders[o].before, DeviceMax[from])
                        ELSE 0
             w == ChangeWrite(users, u, from, devices, users[u].expire, NoPlan, 0)
  <2>1. from \in Plans BY <1>1, <1>16 DEF HandlerFits, RevertChange
  <2>2. devices \in Nat
    BY <1>5, <2>1, StoreAssumption DEF OrderRow, Least
  <2>3. users[u].expire \in Nat BY <1>5 DEF UserRow
  <2> HIDE DEF devices
  <2>4. w \in WriteRow BY <1>1, <1>5, <2>1, <2>2, <2>3, ChangeWriteType
  <2> HIDE DEF w
  <2>5. ApplyUserPlan(users, u, w) \in Table BY <1>1, <1>5, <2>4, ApplyUserPlanType
  <2>6. users' = ApplyUserPlan(users, u, w) \/ users' = users
    BY <1>16 DEF RevertChange, w, devices
  <2>7. StoreTypeOK' /\ Kept
    BY <1>1, <1>8, <1>16, <2>5, <2>6 DEF RevertChange, history, StoreTypeOK
  <2> QED BY <1>1, <1>6, <1>16, <2>7 DEF RevertChange
<1> QED BY <1>9, <1>10, <1>11, <1>12, <1>13, <1>14, <1>15, <1>16 DEF Handling

(* The provider, the operator's other requests, the clock. *)
LEMMA OutsideInv ==
  ASSUME Inv, UNCHANGED subscriptionVars,
         \/ \E o \in Orders, act \in {"pay", "odd", "void", "refund"} : ProviderStep(o, act)
         \/ \E o \in Orders : OperatorCancels(o)
         \/ \E o \in Orders, cancelPlan \in BOOLEAN : OperatorRefunds(o, cancelPlan)
         \/ Tick
  PROVE Inv'
<1>1. /\ StoreTypeOK /\ \A x \in Orders : RowFits(x)
      /\ SubscriptionTypeOK' /\ (\A t \in Taps : TapFits(t)') /\ JobFits'
  BY DEF Inv, TypeOK, WellFormed, SubscriptionTypeOK, TapFits, JobFits, subscriptionVars
<1>2. ASSUME NEW o \in Orders, NEW act \in {"pay", "odd", "void", "refund"},
             ProviderStep(o, act)
      PROVE Inv'
  <2>1. StoreTypeOK' /\ Kept BY <1>2, StoreUnchanged DEF ProviderStep
  <2>2. charge' \in [Orders -> Charges]
    <3> DEFINE c == CASE act = "pay" -> "paid" [] act = "odd" -> "odd"
                      [] act = "void" -> "void" [] act = "refund" -> "refunded"
    <3>1. c \in Charges BY DEF Charges
    <3>2. charge' = [charge EXCEPT ![o] = c] BY <1>2 DEF ProviderStep
    <3> HIDE DEF c
    <3> QED BY <3>1, <3>2 DEF Inv, TypeOK, CheckoutTypeOK
  <2>3. UNCHANGED <<shop, hand, batch, tap, job>>
    BY <1>2 DEF ProviderStep, threads, subscriptionVars
  <2>4. WellFormed' BY <2>1, <2>3, KeptWellFormed
  <2> QED BY <1>1, <2>1, <2>2, <2>3, <2>4 DEF Inv, TypeOK, CheckoutTypeOK
<1>3. ASSUME NEW o \in Orders, OperatorCancels(o) PROVE Inv'
  <2>1. orders' \in [Orders -> OrderRow] /\ Kept
    BY <1>1, <1>3, CancelIfPendingType DEF OperatorCancels
  <2>2. StoreTypeOK' BY <1>1, <1>3, <2>1 DEF StoreTypeOK, OperatorCancels, history
  <2> QED BY <1>1, <1>3, <2>1, <2>2, SubscriptionMoves DEF OperatorCancels
<1>4. ASSUME NEW o \in Orders, NEW cancelPlan \in BOOLEAN, OperatorRefunds(o, cancelPlan)
      PROVE Inv'
  <2>1. /\ users' \in Table /\ orders' \in [Orders -> OrderRow] /\ Kept
        /\ orders[o].status # "none" /\ orders[o].plan \in Plans
    BY <1>1, <1>4, RefundToBalanceType DEF OperatorRefunds
  <2>2. StoreTypeOK'
    BY <1>1, <1>4, <2>1 DEF StoreTypeOK, OperatorRefunds, history, Table
  <2> DEFINE v == IF cancelPlan THEN [pc |-> "takeback", order |-> o]
                  ELSE IdleHand
  <2>3. v \in HandRow BY IdleRows DEF HandRow, HandPcs, Statuses
  <2>4. /\ hand' = [hand EXCEPT ![Operator] = v] /\ Operator \in Handlers
        /\ UNCHANGED <<shop, batch, charge>>
    BY <1>4 DEF OperatorRefunds, Handlers
  <2>5. v.pc = "idle" \/ (v.pc = "takeback" /\ v.order = o) BY DEF IdleHand
  <2> HIDE DEF v
  <2>6. hand \in [Handlers -> HandRow]
    BY <2>4 DEF Inv, TypeOK, CheckoutTypeOK, HandRow
  <2>7. HandlerFits(Operator)' BY <2>1, <2>4, <2>5, <2>6 DEF HandlerFits, Kept
  <2> QED BY <2>1, <2>2, <2>3, <2>4, <2>6, <2>7, HandMoves
<1>5. CASE Tick
  <2>1. UNCHANGED <<tables, history, checkoutVars>> /\ now' = now + 1 BY <1>5 DEF Tick
  <2>2. StoreTypeOK' BY <1>1, <2>1 DEF StoreTypeOK, tables, history
  <2>3. Kept BY <2>1, KeptUnchanged DEF Inv, tables
  <2> QED BY <1>1, <2>1, <2>2, <2>3, SubscriptionMoves
<1> QED BY <1>2, <1>3, <1>4, <1>5

----------------------------------------------------------------------------
(* Subscription, one step per action.                                      *)

TapRow == [pc : {"idle", "buy", "supersede", "attach"},
           user : Users \cup {NoUser}, buy : Buys \cup {NoBuy},
           stamp : [expire : Nat, extra : Nat, pack : Nat],
           code : Codes \cup {NoCode},
           order : Orders \cup {NoOrder}, done : BOOLEAN]

JobRow == [pc : {"idle", "renew", "list", "end"}, time : Nat,
           renew : SUBSET Users, expired : SUBSET Users]

(* An idle tap and an idle pass are well typed.                            *)
LEMMA IdleTapRow == IdleTap \in TapRow /\ IdleTap.pc = "idle" /\ IdleJob \in JobRow
BY DEF IdleTap, TapRow, NoStamp, IdleJob, JobRow

(* A step of one tap keeps the others fit.                                 *)
LEMMA TapMoves ==
  ASSUME Inv, StoreTypeOK', Kept, UNCHANGED <<checkoutVars, job>>,
         tap' \in [Taps -> TapRow], \A t \in Taps : TapFits(t)'
  PROVE Inv'
<1>1. SubscriptionTypeOK' BY DEF Inv, TypeOK, SubscriptionTypeOK, TapRow
<1>2. JobFits' BY DEF Inv, WellFormed, JobFits
<1> QED BY <1>1, <1>2, SubscriptionMoves

(* A step of the billing pass keeps it well typed.                         *)
LEMMA JobMoves ==
  ASSUME Inv, StoreTypeOK', Kept, UNCHANGED <<checkoutVars, tap>>,
         job' \in JobRow, JobFits'
  PROVE Inv'
<1>1. SubscriptionTypeOK' BY DEF Inv, TypeOK, SubscriptionTypeOK, JobRow
<1>2. \A t \in Taps : TapFits(t)' BY DEF Inv, WellFormed, TapFits
<1> QED BY <1>1, <1>2, SubscriptionMoves

(* What is bought from the balance is a purchase.                          *)
LEMMA BuyRow ==
  ASSUME NEW p \in Buys \cup {NoBuy}
  PROVE p \in PurchaseRow /\ p.kind # "topup"
<1>1. NoBuy \in PurchaseRow /\ NoBuy.kind # "topup"
  BY DEF NoBuy, PurchaseRow, Kinds
<1> QED BY <1>1, SubscriptionAssumption

(* What a purchase from the balance delivers is well typed.                *)
LEMMA BalanceSpecType ==
  ASSUME StoreTypeOK, NEW u \in Users, NEW p \in PurchaseRow, p.kind # "topup",
         NEW q \in Quotes(u, p)
  PROVE BalanceSpec(u, p, q) \in SpecRow
<1> DEFINE row == Draft(u, p, q)
           days == Period[row.plan] * row.periods
           w == PlanWriteForDays(users, u, row.plan, ActivePaidPlan(users, u) = row.plan,
                                 TRUE, days, row.devices)
           bonus == IF w.expire > 0 THEN users[u].bonus ELSE 0
           sp == [EmptySpec EXCEPT !.debit = q.bal]
           wb == [w EXCEPT !.expire = @ + bonus]
           change == ChangeWrite(users, u, row.plan, row.devices, q.expire,
                                 users[u].plan, users[u].expire)
           n == IF p.kind = "devices" THEN row.devices ELSE 0
           addon == [NoAddon EXCEPT !.plan = row.plan, !.devices = n,
                       !.pack = row.pack, !.reqExpire = row.expect,
                       !.reqExtra = users[u].extra, !.reqPack = users[u].pack]
<1>1. /\ users \in Table /\ orders \in [Orders -> OrderRow] /\ now \in Nat
      /\ users[u] \in UserRow
  BY DEF StoreTypeOK, Table
<1>2. /\ users[u].bonus \in Nat /\ users[u].expire \in Nat /\ users[u].extra \in Nat
      /\ users[u].pack \in Nat /\ users[u].plan \in Plans \cup {NoPlan}
  BY <1>1 DEF UserRow
<1>3. /\ q.bal \in Nat /\ q.expire \in Nat /\ q.promo \in Codes \cup {NoCode}
  BY <1>1, QuotesType DEF QuoteRow
<1>4. p.kind \in {"plan", "change", "devices", "traffic"} BY DEF PurchaseRow, Kinds
<1>5. row \in OrderRow /\ Fits(row) /\ row.kind = p.kind BY <1>1, DraftType
<1> HIDE DEF row
<1>6. /\ row.plan \in Plans /\ row.devices \in Nat /\ row.pack \in Nat
      /\ row.expect \in Nat /\ row.periods \in Nat
  BY <1>4, <1>5 DEF OrderRow, Fits
<1>7. sp \in SpecRow BY <1>3, EmptySpecType DEF SpecRow
<1> HIDE DEF sp
<1>8. CASE p.kind = "plan"
  <2>1. days \in Nat BY <1>6, StoreAssumption, ProductNat
  <2>2. BalanceSpec(u, p, q) =
          [sp EXCEPT !.what = "plan", !.promo = q.promo, !.bonus = bonus,
                     !.days = days, !.write = wb]
    BY <1>8 DEF BalanceSpec, row, sp
  <2> HIDE DEF days
  <2>3. w \in WriteRow BY <1>1, <1>6, <2>1, PlanWriteType
  <2>4. bonus \in Nat BY <1>2
  <2> HIDE DEF w, bonus
  <2>5. wb \in WriteRow BY <2>3, <2>4 DEF WriteRow
  <2> HIDE DEF wb
  <2> QED BY <1>3, <1>7, <2>1, <2>2, <2>4, <2>5 DEF SpecRow
<1>9. CASE p.kind = "change"
  <2>1. BalanceSpec(u, p, q) = [sp EXCEPT !.what = "plan", !.write = change]
    BY <1>9 DEF BalanceSpec, row, sp
  <2>2. change \in WriteRow BY <1>1, <1>2, <1>3, <1>6, ChangeWriteType
  <2> HIDE DEF change
  <2> QED BY <1>7, <2>1, <2>2 DEF SpecRow
<1>10. CASE p.kind \in {"devices", "traffic"}
  <2>1. BalanceSpec(u, p, q) = [sp EXCEPT !.what = "addon", !.addon = addon]
    BY <1>10 DEF BalanceSpec, row, sp
  <2>2. n \in Nat BY <1>6
  <2> HIDE DEF n
  <2>3. NoAddon \in AddonRow BY DEF NoAddon, AddonRow
  <2>4. addon \in AddonRow
    <3> DEFINE x == users[u].extra
               k == users[u].pack
    <3>1. x \in Int /\ k \in Int BY <1>2
    <3> HIDE DEF x, k
    <3>2. [NoAddon EXCEPT !.plan = row.plan, !.devices = n, !.pack = row.pack,
             !.reqExpire = row.expect, !.reqExtra = x, !.reqPack = k] \in AddonRow
      BY <1>6, <2>2, <2>3, <3>1 DEF AddonRow
    <3> QED BY <3>2 DEF x, k
  <2> HIDE DEF addon
  <2> QED BY <1>7, <2>1, <2>4 DEF SpecRow
<1> QED BY <1>4, <1>8, <1>9, <1>10

(* The stamp of a screen is well typed.                                    *)
LEMMA StampType ==
  ASSUME StoreTypeOK, NEW u \in Users, NEW kind
  PROVE Stamp(u, kind) \in [expire : Nat, extra : Nat, pack : Nat]
BY DEF StoreTypeOK, UserRow, Stamp, NoStamp

(* Offers, purchases from the balance and discount codes keep the invariant. *)
LEMMA TappingInv ==
  ASSUME Inv, NEW t \in Taps, Tapping(t), UNCHANGED checkoutVars
  PROVE Inv'
<1>1. /\ StoreTypeOK /\ users \in Table /\ orders \in [Orders -> OrderRow]
      /\ now \in Nat /\ (\A x \in Orders : RowFits(x))
      /\ tap \in [Taps -> TapRow] /\ tap[t] \in TapRow
      /\ \A s \in Taps : TapFits(s)
  BY DEF Inv, TypeOK, StoreTypeOK, WellFormed, SubscriptionTypeOK, TapRow, Table
<1>2. IdleTap \in TapRow /\ IdleTap.pc = "idle" BY IdleTapRow
<1>3. ASSUME NEW v \in TapRow, v.pc = "idle" \/ v.user \in Users, NEW s \in Taps,
             tap' = [tap EXCEPT ![s] = v], StoreTypeOK', Kept, UNCHANGED job
      PROVE Inv'
  <2>1. tap' \in [Taps -> TapRow] BY <1>1, <1>3
  <2>2. \A x \in Taps : TapFits(x)' BY <1>1, <1>3 DEF TapFits
  <2> QED BY <1>3, <2>1, <2>2, TapMoves
<1>4. ASSUME NEW u \in Users, NEW p \in Buys, ShowOffer(t, u, p) PROVE Inv'
  <2> DEFINE stamp == Stamp(u, p.kind)
             v == [IdleTap EXCEPT !.pc = "buy", !.user = u, !.buy = p, !.stamp = stamp]
  <2>1. stamp \in [expire : Nat, extra : Nat, pack : Nat] BY <1>1, StampType
  <2>2. tap' = [tap EXCEPT ![t] = v] /\ UNCHANGED <<db, job>> BY <1>4 DEF ShowOffer
  <2> HIDE DEF stamp
  <2>3. v \in TapRow /\ v.user = u BY <1>2, <2>1 DEF TapRow
  <2> HIDE DEF v
  <2>4. StoreTypeOK' /\ Kept BY <2>2, StoreUnchanged
  <2> QED BY <1>3, <2>2, <2>3, <2>4
<1>5. ASSUME NEW s \in Taps, TapTwice(t, s) PROVE Inv'
  <2>1. /\ tap[t].pc = "buy" /\ tap' = [tap EXCEPT ![s] = tap[t]]
        /\ UNCHANGED <<db, job>>
    BY <1>5 DEF TapTwice
  <2>2. StoreTypeOK' /\ Kept BY <2>1, StoreUnchanged
  <2>3. tap[t].user \in Users BY <1>1, <2>1 DEF TapFits
  <2> QED BY <1>1, <1>3, <2>1, <2>2, <2>3
<1>6. ASSUME NEW o \in Orders, TapBuys(t, o) PROVE Inv'
  <2> DEFINE u == tap[t].user
             p == tap[t].buy
  <2>1. tap[t].pc = "buy" BY <1>6 DEF TapBuys
  <2>2. u \in Users BY <1>1, <2>1 DEF TapFits
  <2>3. p \in PurchaseRow /\ p.kind # "topup" BY <1>1, BuyRow DEF TapRow
  <2>4. PICK q \in Quotes(u, p) :
          /\ BuyFromBalance(o, Draft(u, p, q), BalanceSpec(u, p, q), now)
          /\ tap' = [s \in Taps |->
               IF s # t THEN [tap[s] EXCEPT !.done = @ \/ tap[s] = tap[t]]
               ELSE IF q.promo = NoCode THEN IdleTap
               ELSE [IdleTap EXCEPT !.pc = "supersede", !.user = u,
                                    !.code = q.promo, !.order = o]]
    BY <1>6 DEF TapBuys
  <2>5. Draft(u, p, q) \in OrderRow /\ Fits(Draft(u, p, q))
    BY <1>1, <2>2, <2>3, DraftType
  <2>6. BalanceSpec(u, p, q) \in SpecRow BY <1>1, <2>2, <2>3, BalanceSpecType
  <2>7. StoreTypeOK' /\ Kept
    BY <1>1, <1>6, <2>4, <2>5, <2>6, BuyFromBalanceType DEF TapBuys
  <2>8. q.promo \in Codes \cup {NoCode} BY <1>1, <2>2, <2>3, QuotesType DEF QuoteRow
  <2> DEFINE v == [IdleTap EXCEPT !.pc = "supersede", !.user = u, !.code = q.promo,
                                  !.order = o]
  <2>9. v \in TapRow /\ v.user = u BY <1>2, <2>2, <2>8 DEF TapRow
  <2> HIDE DEF v
  <2>10. ASSUME NEW s \in Taps PROVE tap'[s] \in TapRow /\ TapFits(s)'
    <3>1. CASE s = t
      <4>1. tap'[s] = IdleTap \/ tap'[s] = v BY <2>4, <3>1 DEF v
      <4> QED BY <1>2, <2>2, <2>9, <4>1 DEF TapFits
    <3>2. CASE s # t
      <4> DEFINE done == tap[s].done \/ tap[s] = tap[t]
      <4>1. tap'[s] = [tap[s] EXCEPT !.done = done] BY <2>4, <3>2
      <4>2. done \in BOOLEAN /\ tap[s] \in TapRow BY <1>1
      <4> HIDE DEF done
      <4>3. /\ tap'[s] \in TapRow /\ tap'[s].pc = tap[s].pc
            /\ tap'[s].user = tap[s].user
        BY <4>1, <4>2 DEF TapRow
      <4> QED BY <1>1, <4>3 DEF TapFits
    <3> QED BY <3>1, <3>2
  <2>11. tap' \in [Taps -> TapRow] BY <2>4, <2>10
  <2> QED BY <1>6, <2>7, <2>10, <2>11, TapMoves DEF TapBuys
<1>7. CASE TapRefused(t)
  <2>1. StoreTypeOK' /\ Kept BY <1>7, StoreUnchanged DEF TapRefused
  <2> QED BY <1>2, <1>3, <1>7, <2>1 DEF TapRefused
<1>8. CASE TapSupersedes(t)
  <2>1. orders' \in [Orders -> OrderRow] /\ Kept
    BY <1>1, <1>8, CancelIfPendingType DEF TapSupersedes
  <2>2. StoreTypeOK' BY <1>1, <1>8, <2>1 DEF StoreTypeOK, TapSupersedes, history
  <2> QED BY <1>2, <1>3, <1>8, <2>1, <2>2 DEF TapSupersedes
<1>9. ASSUME NEW u \in Users, NEW c \in Codes, EnterDiscount(t, u, c) PROVE Inv'
  <2> DEFINE v == [IdleTap EXCEPT !.pc = "attach", !.user = u, !.code = c]
  <2>1. v \in TapRow /\ v.user = u BY <1>2 DEF TapRow
  <2>2. tap' = [tap EXCEPT ![t] = v] /\ UNCHANGED <<db, job>>
    BY <1>9 DEF EnterDiscount
  <2> HIDE DEF v
  <2>3. StoreTypeOK' /\ Kept BY <2>2, StoreUnchanged
  <2> QED BY <1>3, <2>1, <2>2, <2>3
<1>10. CASE AttachDiscount(t)
  <2> DEFINE u == tap[t].user
             c == tap[t].code
  <2>1. u \in Users BY <1>1, <1>10 DEF AttachDiscount, TapFits
  <2>2. c \in Codes \cup {NoCode} BY <1>1 DEF TapRow
  <2>3. users' = [users EXCEPT ![u].promo = c] BY <1>10 DEF AttachDiscount
  <2> HIDE DEF c
  <2>4. users[u] \in UserRow BY <1>1, <2>1 DEF Table
  <2>5. [users[u] EXCEPT !.promo = c] \in UserRow BY <2>2, <2>4 DEF UserRow
  <2>6. users' \in Table BY <1>1, <2>1, <2>3, <2>5 DEF Table
  <2>7. StoreTypeOK' BY <1>1, <1>10, <2>6 DEF StoreTypeOK, AttachDiscount, history, Table
  <2>8. Kept BY <1>10, KeptUnchanged DEF Inv, AttachDiscount
  <2> QED BY <1>2, <1>3, <1>10, <2>7, <2>8 DEF AttachDiscount
<1> QED BY <1>4, <1>5, <1>6, <1>7, <1>8, <1>9, <1>10 DEF Tapping

(* The requests on an account. *)
LEMMA AccountInv ==
  ASSUME Inv, NEW u \in Users, Account(u), UNCHANGED checkoutVars
  PROVE Inv'
<1>1. /\ StoreTypeOK /\ users \in Table /\ now \in Nat /\ users[u] \in UserRow
      /\ gifts[u] \in Int /\ gifts \in [Users -> Int] /\ users[u].balance \in Nat
  BY DEF Inv, TypeOK, StoreTypeOK, Table, UserRow
<1>2. ASSUME users' \in Table, UNCHANGED <<orders, now, claims, subscriptionVars>>,
             promoUses' \subseteq Codes \X Users, uses' \in [Codes -> Nat],
             paidUntil' \in [Users -> Nat], gifts' \in [Users -> Int]
      PROVE Inv'
  <2>1. StoreTypeOK' BY <1>1, <1>2 DEF StoreTypeOK, Table
  <2>2. Kept BY <1>2, KeptUnchanged DEF Inv
  <2>3. SubscriptionTypeOK' /\ (\A t \in Taps : TapFits(t)') /\ JobFits'
    BY <1>2 DEF Inv, TypeOK, WellFormed, SubscriptionTypeOK, TapFits, JobFits, subscriptionVars
  <2> QED BY <2>1, <2>2, <2>3, SubscriptionMoves
<1>3. ASSUME NEW c \in Codes, RedeemBalance(u, c) PROVE Inv'
  <2>1. CodeValue[c] * Kop \in Nat BY PricingAssumption, StoreAssumption, ProductNat
  <2> DEFINE kop == CodeValue[c] * Kop
  <2>2. users' = Credit(users, u, kop) /\ gifts' = [gifts EXCEPT ![u] = gifts[u] + kop]
    BY <1>3 DEF RedeemBalance
  <2> HIDE DEF kop
  <2>3. kop \in Nat BY <2>1 DEF kop
  <2>4. users' \in Table BY <1>1, <2>2, <2>3, CreditType
  <2>5. promoUses' \subseteq Codes \X Users /\ uses' \in [Codes -> Nat]
    BY <1>1, <1>3, TakeUseType DEF RedeemBalance
  <2>6. gifts' \in [Users -> Int] BY <1>1, <2>2, <2>3
  <2> QED BY <1>1, <1>2, <1>3, <2>4, <2>5, <2>6 DEF RedeemBalance, StoreTypeOK
<1>4. ASSUME NEW c \in Codes, RedeemDays(u, c) PROVE Inv'
  <2> DEFINE active == ActivePaidPlan(users, u)
             p == IF CodePlan[c] = NoPlan THEN active ELSE CodePlan[c]
             w == PlanWriteForDays(users, u, p, active # NoPlan, FALSE, CodeValue[c],
                                   HeldDevices(users, u, p))
  <2>1. p \in Plans
    BY <1>1, <1>4, ActivePaidPlanType, SubscriptionAssumption DEF RedeemDays
  <2>2. users' = ApplyUserPlan(users, u, w) BY <1>4 DEF RedeemDays
  <2>3. HeldDevices(users, u, p) \in Nat BY <1>1, <2>1, HeldDevicesType
  <2>4. CodeValue[c] \in Nat BY PricingAssumption
  <2> HIDE DEF p
  <2>5. w \in WriteRow BY <1>1, <2>1, <2>3, <2>4, PlanWriteType
  <2> HIDE DEF w
  <2>6. users' \in Table BY <1>1, <2>2, <2>5, ApplyUserPlanType
  <2>7. promoUses' \subseteq Codes \X Users /\ uses' \in [Codes -> Nat]
    BY <1>1, <1>4, TakeUseType DEF RedeemDays
  <2> QED BY <1>1, <1>2, <1>4, <2>6, <2>7 DEF RedeemDays, history, StoreTypeOK
<1>5. CASE CancelUserPlan(u)
  <2>1. users' \in Table BY <1>1, <1>5, EndPlanType DEF CancelUserPlan
  <2> QED BY <1>1, <1>2, <1>5, <2>1 DEF CancelUserPlan, StoreTypeOK
<1>6. ASSUME NEW on \in BOOLEAN, SetAutoRenew(u, on) PROVE Inv'
  <2>1. [users[u] EXCEPT !.auto = on] \in UserRow BY <1>1 DEF UserRow
  <2>2. users' \in Table BY <1>1, <1>6, <2>1 DEF SetAutoRenew, Table
  <2> QED BY <1>1, <1>2, <1>6, <2>2 DEF SetAutoRenew, StoreTypeOK, history
<1>7. ASSUME NEW kop \in Adjusts, AdjustBalance(u, kop) PROVE Inv'
  <2>1. kop \in Int BY SubscriptionAssumption
  <2>2. users[u].balance + kop >= 0 BY <1>1, <1>7, <2>1 DEF AdjustBalance, Covers
  <2>3. users' \in Table BY <1>1, <1>7, <2>1, <2>2, CreditType DEF AdjustBalance
  <2>4. gifts' \in [Users -> Int] BY <1>1, <1>7, <2>1 DEF AdjustBalance
  <2> QED BY <1>1, <1>2, <1>7, <2>3, <2>4 DEF AdjustBalance, StoreTypeOK
<1>8. ASSUME NEW p \in Plans, NEW extend \in BOOLEAN, ApplyPlanToUser(u, p, extend)
      PROVE Inv'
  <2> DEFINE w == PlanWriteForDays(users, u, p, extend, FALSE, Period[p],
                                   HeldDevices(users, u, p))
  <2>1. HeldDevices(users, u, p) \in Nat BY <1>1, HeldDevicesType
  <2>2. Period[p] \in Nat BY StoreAssumption
  <2>3. w \in WriteRow BY <1>1, <2>1, <2>2, PlanWriteType
  <2>4. users' = ApplyUserPlan(users, u, w) BY <1>8 DEF ApplyPlanToUser
  <2> HIDE DEF w
  <2>5. users' \in Table BY <1>1, <2>3, <2>4, ApplyUserPlanType
  <2> QED BY <1>1, <1>2, <1>8, <2>5 DEF ApplyPlanToUser, StoreTypeOK
<1> QED BY <1>3, <1>4, <1>5, <1>6, <1>7, <1>8 DEF Account

(* Every step of EnforceBilling keeps the invariant.                       *)
LEMMA EnforceInv ==
  ASSUME Inv, EnforceBilling, UNCHANGED checkoutVars
  PROVE Inv'
<1>1. /\ StoreTypeOK /\ users \in Table /\ now \in Nat /\ job \in JobRow
      /\ (\A x \in Orders : RowFits(x)) /\ JobFits
  BY DEF Inv, TypeOK, StoreTypeOK, SubscriptionTypeOK, WellFormed, JobRow, Table
<1>2. ASSUME NEW v \in JobRow, job' = v, v.pc \in {"list", "end"} => FreePlan # NoPlan,
             UNCHANGED <<db, tap>>
      PROVE Inv'
  <2>1. StoreTypeOK' /\ Kept BY <1>2, StoreUnchanged
  <2>2. JobFits' BY <1>2 DEF JobFits
  <2> QED BY <1>2, <2>1, <2>2, JobMoves
<1>3. CASE BeginPass
  <2> DEFINE due == IF ~WalletEnabled THEN {}
                    ELSE {u \in Users : Renewable(users, u, now)
                                        /\ Covers(users, u, RenewalKop(users, u))}
             v == [IdleJob EXCEPT !.pc = "renew", !.time = now, !.renew = due]
  <2>1. due \subseteq Users OBVIOUS
  <2>2. job' = v BY <1>3 DEF BeginPass
  <2> HIDE DEF due
  <2>3. v \in JobRow /\ v.pc = "renew" BY <1>1, <2>1, IdleTapRow DEF JobRow
  <2> HIDE DEF v
  <2> QED BY <1>2, <1>3, <2>2, <2>3 DEF BeginPass
<1>4. ASSUME NEW u \in Users, NEW o \in Orders, RenewFromBalance(u, o) PROVE Inv'
  <2> DEFINE p == users[u].plan
             devices == HeldDevices(users, u, p)
             w == PlanWriteForDays(users, u, p, TRUE, TRUE, Period[p], devices)
             bonus == IF w.expire > 0 THEN users[u].bonus ELSE 0
             wb == [w EXCEPT !.expire = @ + bonus]
             kop == RenewalKop(users, u)
             row == [Blank EXCEPT !.user = u, !.plan = p, !.devices = devices]
             sp == [EmptySpec EXCEPT !.what = "plan", !.debit = kop, !.bonus = bonus,
                      !.days = Period[p], !.write = wb]
  <2>1. users[u] \in UserRow /\ users[u].bonus \in Nat /\ p \in Plans \cup {NoPlan}
    BY <1>1 DEF Table, UserRow
  <2>2. p \in Plans /\ Period[p] \in Nat
    BY <1>4, <2>1, StoreAssumption DEF RenewFromBalance, StillDue, Renewable
  <2>3. devices \in Nat BY <1>1, <2>2, HeldDevicesType
  <2>4. kop \in Nat
    BY <2>2, <2>3, PeriodRubNat, StoreAssumption, ProductNat DEF RenewalKop
  <2>5. /\ BuyFromBalance(o, row, sp, job.time) /\ now' = now
        /\ job' = [job EXCEPT !.renew = @ \ {u}] /\ job.pc = "renew"
    BY <1>4 DEF RenewFromBalance
  <2>6. w \in WriteRow BY <1>1, <2>2, <2>3, PlanWriteType
  <2> HIDE DEF w, devices, kop
  <2>7. bonus \in Nat BY <2>1
  <2> HIDE DEF bonus
  <2>8. wb \in WriteRow BY <2>6, <2>7 DEF WriteRow
  <2> HIDE DEF wb
  <2>9. sp \in SpecRow BY <2>2, <2>4, <2>7, <2>8, EmptySpecType DEF SpecRow
  <2>10. row \in OrderRow BY <2>2, <2>3, BlankType DEF OrderRow
  <2>11. Fits(row) BY <2>2 DEF Blank, Fits
  <2> HIDE DEF sp, row
  <2>12. job.time \in Nat /\ job' \in JobRow /\ job'.pc = "renew"
    BY <1>1, <2>5 DEF JobRow
  <2>13. StoreTypeOK' /\ Kept
    BY <1>1, <2>5, <2>9, <2>10, <2>11, <2>12, BuyFromBalanceType
  <2>14. JobFits' BY <2>12 DEF JobFits
  <2> QED BY <1>4, <2>12, <2>13, <2>14, JobMoves DEF RenewFromBalance
<1>5. ASSUME NEW u \in Users, RenewalSkipped(u) PROVE Inv'
  <2> DEFINE v == [job EXCEPT !.renew = @ \ {u}]
  <2>1. v \in JobRow /\ v.pc = job.pc BY <1>1 DEF JobRow
  <2> QED BY <1>2, <1>5, <2>1 DEF RenewalSkipped
<1>6. ASSUME NEW u \in Users, DowngradeExpired(u) PROVE Inv'
  <2> DEFINE w == PlanWriteForDays(users, u, FreePlan, FALSE, FALSE, Period[FreePlan],
                                   HeldDevices(users, u, FreePlan))
  <2>1. FreePlan \in Plans
    BY <1>1, <1>6, StoreAssumption DEF JobFits, DowngradeExpired
  <2>2. Period[FreePlan] \in Nat BY <2>1, StoreAssumption
  <2>3. HeldDevices(users, u, FreePlan) \in Nat BY <1>1, <2>1, HeldDevicesType
  <2>4. w \in WriteRow BY <1>1, <2>1, <2>2, <2>3, PlanWriteType
  <2>5. users' = ApplyUserPlan(users, u, w) \/ users' = users
    BY <1>6 DEF DowngradeExpired
  <2> HIDE DEF w
  <2>6. users' \in Table BY <1>1, <2>4, <2>5, ApplyUserPlanType
  <2>7. StoreTypeOK'
    BY <1>1, <1>6, <2>6 DEF StoreTypeOK, DowngradeExpired, history, Table
  <2>8. Kept BY <1>6, KeptUnchanged DEF Inv, DowngradeExpired
  <2>9. job' = [job EXCEPT !.expired = @ \ {u}] /\ job.pc = "end"
    BY <1>6 DEF DowngradeExpired
  <2>10. job' \in JobRow /\ job'.pc = job.pc BY <1>1, <2>9 DEF JobRow
  <2>11. JobFits' BY <1>1, <2>10 DEF JobFits
  <2> QED BY <1>6, <2>7, <2>8, <2>10, <2>11, JobMoves DEF DowngradeExpired
<1>7. CASE RenewalsDone
  <2> DEFINE v == [job EXCEPT !.pc = "list"]
  <2>1. v \in JobRow BY <1>1 DEF JobRow
  <2>2. IdleJob \in JobRow /\ IdleJob.pc = "idle" BY IdleTapRow DEF IdleJob
  <2> QED BY <1>2, <1>7, <2>1, <2>2 DEF RenewalsDone
<1>8. CASE ListExpired
  <2> DEFINE v == [job EXCEPT !.pc = "end", !.expired = Expired(job.time)]
  <2>1. Expired(job.time) \subseteq Users BY DEF Expired
  <2>2. v \in JobRow BY <1>1, <2>1 DEF JobRow
  <2>3. FreePlan # NoPlan BY <1>1, <1>8 DEF JobFits, ListExpired
  <2> QED BY <1>2, <1>8, <2>2, <2>3 DEF ListExpired
<1>9. CASE EndPass
  <2>1. IdleJob \in JobRow /\ IdleJob.pc = "idle" BY IdleTapRow DEF IdleJob
  <2> QED BY <1>2, <1>9, <2>1 DEF EndPass
<1> QED BY <1>3, <1>4, <1>5, <1>6, <1>7, <1>8, <1>9 DEF EnforceBilling

----------------------------------------------------------------------------
(* A restart keeps the invariant: only threads are lost.                   *)
LEMMA CrashInv == ASSUME Inv, Crash PROVE Inv'
<1>1. /\ shop' = [s \in Shoppers |-> IdleShop] /\ hand' = [h \in Handlers |-> IdleHand]
      /\ batch' = {} /\ tap' = [t \in Taps |-> IdleTap] /\ job' = IdleJob
      /\ UNCHANGED <<db, charge>>
  BY DEF Crash, CheckoutCrash
<1>2. StoreTypeOK' /\ Kept BY <1>1, StoreUnchanged
<1>3. TypeOK'
  BY <1>1, <1>2, IdleRows, IdleTapRow
  DEF Inv, TypeOK, CheckoutTypeOK, SubscriptionTypeOK, ShopRow, HandRow, TapRow, JobRow
<1>4. \A o \in Orders : RowFits(o)' BY <1>2 DEF Kept
<1>5. WellFormed'
  BY <1>1, <1>4 DEF WellFormed, ShopperFits, HandlerFits, TapFits, JobFits,
                    IdleShop, IdleHand, IdleTap, IdleJob
<1> QED BY <1>3, <1>5 DEF Inv

(* The invariant holds of the tables as the operator left them.            *)
LEMMA InitInv == Init => Inv
<1> SUFFICES ASSUME Init PROVE Inv OBVIOUS
<1>1. StoreTypeOK
  <2>1. StartUsers \in [Users -> UserRow] BY BillingAssumption
  <2>2. \A u \in Users : StartUsers[u].balance \in Int BY <2>1 DEF UserRow
  <2> QED BY <2>1, <2>2, BlankType DEF Init, StoreInit, StoreTypeOK
<1>2. CheckoutTypeOK
  BY IdleRows DEF Init, CheckoutInit, CheckoutTypeOK, ShopRow, HandRow, Charges
<1>3. SubscriptionTypeOK
  BY IdleTapRow DEF Init, SubscriptionInit, SubscriptionTypeOK, TapRow, JobRow
<1>4. \A o \in Orders : RowFits(o) BY DEF Init, StoreInit, RowFits, Blank
<1>5. WellFormed
  BY <1>4 DEF Init, CheckoutInit, SubscriptionInit, WellFormed, ShopperFits, HandlerFits,
             TapFits, JobFits, IdleShop, IdleHand, IdleTap, IdleJob
<1> QED BY <1>1, <1>2, <1>3, <1>5 DEF Inv, TypeOK

(* Every step of the system keeps the invariant.                           *)
LEMMA StepInv == ASSUME Inv, Next PROVE Inv'
<1>1. CASE CheckoutNext /\ UNCHANGED subscriptionVars
  <2>1. ASSUME NEW s \in Shoppers, Shopping(s) PROVE Inv' BY <1>1, <2>1, ShoppingInv
  <2>2. ASSUME NEW h \in Handlers, Handling(h) PROVE Inv' BY <1>1, <2>2, HandlingInv
  <2>3. CASE \/ \E o \in Orders, act \in {"pay", "odd", "void", "refund"} : ProviderStep(o, act)
             \/ \E o \in Orders : OperatorCancels(o)
             \/ \E o \in Orders, cancelPlan \in BOOLEAN : OperatorRefunds(o, cancelPlan)
             \/ Tick
    BY <1>1, <2>3, OutsideInv
  <2>4. CASE \/ \E h \in Hooks : Callback(h)
             \/ Polling
             \/ \E o \in Orders : OperatorConfirms(o)
    BY <1>1, <2>4, HearingInv
  <2> QED BY <1>1, <2>1, <2>2, <2>3, <2>4 DEF CheckoutNext
<1>2. CASE SubscriptionNext /\ UNCHANGED checkoutVars
  <2>1. ASSUME NEW t \in Taps, Tapping(t) PROVE Inv' BY <1>2, <2>1, TappingInv
  <2>2. ASSUME NEW u \in Users, Account(u) PROVE Inv' BY <1>2, <2>2, AccountInv
  <2>3. CASE EnforceBilling BY <1>2, <2>3, EnforceInv
  <2> QED BY <1>2, <2>1, <2>2, <2>3 DEF SubscriptionNext
<1>3. CASE Crash BY <1>3, CrashInv
<1> QED BY <1>1, <1>2, <1>3 DEF Next

(* A step that changes nothing keeps the invariant.                        *)
LEMMA StutterInv == ASSUME Inv, UNCHANGED vars PROVE Inv'
<1>1. UNCHANGED <<db, checkoutVars, subscriptionVars>> BY DEF vars
<1>2. StoreTypeOK' /\ Kept BY <1>1, StoreUnchanged
<1>3. SubscriptionTypeOK' /\ (\A t \in Taps : TapFits(t)') /\ JobFits'
  BY <1>1 DEF Inv, TypeOK, WellFormed, SubscriptionTypeOK, TapFits, JobFits, subscriptionVars
<1> QED BY <1>1, <1>2, <1>3, SubscriptionMoves

(* The invariant the other proofs start from. *)
THEOREM AlwaysInv == Spec => []Inv
<1>1. Inv /\ [Next]_vars => Inv' BY StepInv, StutterInv
<1> QED BY <1>1, InitInv, PTL DEF Spec

(* Whatever the price list, the number of users and orders and the order   *)
(* in which requests, callbacks, the poll, the operator and the billing    *)
(* pass take their steps, every column keeps to its range; above all no    *)
(* purchase, refund or chargeback takes a balance below zero (credit and   *)
(* debit of internal/store/wallet.go).                                     *)
THEOREM TypeCorrect == Spec => []TypeOK
<1>1. Inv => TypeOK BY DEF Inv
<1> QED BY <1>1, AlwaysInv, PTL

----------------------------------------------------------------------------
(* An order is claimed once. *)

SettleStep == Money!Next \/ UNCHANGED SettlementState

(* Rows an invoice may be being made for stay as they are. *)
Untouched(o) ==
  orders[o].status \in {"pending", "cancelled"} /\ ~orders[o].linked =>
    orders'[o].status \in {"pending", "cancelled"} /\ ~orders'[o].linked

Claimed == \A o \in Orders : RowUnclaimed(o)'

----------------------------------------------------------------------------
(* What each transaction is to Settlement. *)

(* An order that is none of those changed keeps its stage.                 *)
LEMMA OneRow ==
  ASSUME NEW o \in Orders, \A x \in Orders \ {o} : orders'[x] = orders[x]
  PROVE /\ SettlementState' = [SettlementState EXCEPT ![o] = Stage(orders'[o])]
        /\ SettlementState[o] = Stage(orders[o])
        /\ Stage(orders'[o]) = Stage(orders[o]) => SettlementState' = SettlementState
        /\ \A x \in Orders \ {o} : Untouched(x)
BY DEF SettlementState, Untouched

(* Orders that do not change are in the stages they were in.               *)
LEMMA SameStages ==
  ASSUME \A x \in Orders : Stage(orders'[x]) = Stage(orders[x])
  PROVE SettleStep
BY DEF SettleStep, SettlementState

(* Unchanged orders and claims are a stutter of Settlement.                *)
LEMMA SameRows ==
  ASSUME ClaimsApart, UNCHANGED <<orders, claims>>
  PROVE SettleStep /\ Claimed /\ \A x \in Orders : Untouched(x)
BY DEF ClaimsApart, SettleStep, SettlementState, Claimed, RowUnclaimed, Untouched

(* A claim settles an open order, or changes nothing.                      *)
LEMMA ConfirmOrderSettles ==
  ASSUME Inv, ClaimsApart, NEW o \in Orders, orders[o].status # "none",
         NEW sp \in SpecRow, ConfirmOrder(o, sp), now' = now
  PROVE SettleStep /\ Claimed /\ \A x \in Orders \ {o} : Untouched(x)
<1>1. /\ StoreTypeOK /\ claims \in [Orders -> Nat]
      /\ (\A x \in Orders : RowUnclaimed(x)) /\ \A x \in Orders : RowFits(x)
  BY DEF Inv, TypeOK, StoreTypeOK, ClaimsApart, WellFormed
<1>2. CASE ~Open(o)
  <2>1. UNCHANGED <<orders, claims>> BY <1>2 DEF ConfirmOrder, tables, history
  <2> QED BY <2>1, SameRows
<1>3. CASE Open(o)
  <2>1. /\ \A x \in Orders \ {o} : orders'[x] = orders[x]
        /\ orders'[o].status = "paid" /\ orders'[o].source = orders[o].source
        /\ claims' = [claims EXCEPT ![o] = @ + 1]
    BY <1>1, <1>3, ConfirmOrderType
  <2>2. claims[o] = 0 /\ orders[o].source = "none"
    BY <1>1, <1>3 DEF Open, RowUnclaimed
  <2>3. Stage(orders[o]) = "open" /\ Stage(orders'[o]) = "settled"
    BY <1>3, <2>1, <2>2 DEF Open, Stage
  <2>4. Money!Settle(o) BY <2>1, <2>3, OneRow DEF Money!Settle
  <2>5. Claimed BY <1>1, <2>1, <2>2 DEF Claimed, RowUnclaimed
  <2> QED BY <2>1, <2>4, <2>5, OneRow DEF SettleStep, Money!Next
<1> QED BY <1>2, <1>3

(* A purchase from the balance opens and settles in one step.              *)
LEMMA BuyFromBalanceSettles ==
  ASSUME Inv, ClaimsApart, NEW o \in Orders, NEW row \in OrderRow, row.source = "none",
         NEW sp, NEW at, BuyFromBalance(o, row, sp, at)
  PROVE SettleStep /\ Claimed /\ \A x \in Orders : Untouched(x)
<1>1. /\ orders \in [Orders -> OrderRow] /\ \A x \in Orders : RowUnclaimed(x)
  BY DEF Inv, TypeOK, StoreTypeOK, ClaimsApart
<1> DEFINE new == [row EXCEPT !.status = "paid", !.method = "balance", !.amount = 0,
                              !.bal = sp.debit, !.created = at, !.paidAt = at]
<1>2. /\ orders[o].status = "none" /\ UNCHANGED claims
      /\ orders' = [orders EXCEPT ![o] = new]
  BY DEF BuyFromBalance
<1>3. new.status = "paid" /\ new.source = "none" BY DEF OrderRow
<1> HIDE DEF new
<1>4. /\ \A x \in Orders \ {o} : orders'[x] = orders[x]
      /\ orders'[o].status = "paid" /\ orders'[o].source = "none"
  BY <1>1, <1>2, <1>3
<1>5. Stage(orders[o]) = "none" /\ Stage(orders'[o]) = "settled"
  BY <1>2, <1>4 DEF Stage
<1>6. Money!Buy(o) BY <1>4, <1>5, OneRow DEF Money!Buy
<1>7. Claimed BY <1>1, <1>2, <1>4 DEF Claimed, RowUnclaimed
<1>8. Untouched(o) BY <1>2 DEF Untouched
<1> QED BY <1>4, <1>6, <1>7, <1>8, OneRow DEF SettleStep, Money!Next

(* Cancelling pending orders does not touch their settlement.              *)
LEMMA CancelIfPendingSettles ==
  ASSUME Inv, ClaimsApart, NEW os, CancelIfPending(os), UNCHANGED claims
  PROVE SettleStep /\ Claimed /\ \A x \in Orders : Untouched(x)
<1>1. /\ orders \in [Orders -> OrderRow] /\ \A x \in Orders : RowUnclaimed(x)
  BY DEF Inv, TypeOK, StoreTypeOK, ClaimsApart
<1>2. ASSUME NEW x \in Orders
      PROVE Stage(orders'[x]) = Stage(orders[x]) /\ RowUnclaimed(x)' /\ Untouched(x)
  <2>1. \/ orders'[x] = orders[x]
        \/ /\ orders'[x] = [orders[x] EXCEPT !.status = "cancelled"]
           /\ orders[x].status = "pending"
    BY DEF CancelIfPending
  <2>2. orders[x] \in OrderRow BY <1>1
  <2>3. CASE orders'[x] = orders[x] BY <1>1, <2>3 DEF RowUnclaimed, Untouched
  <2>4. CASE /\ orders'[x] = [orders[x] EXCEPT !.status = "cancelled"]
             /\ orders[x].status = "pending"
    <3>1. /\ orders'[x].status = "cancelled" /\ orders'[x].source = orders[x].source
          /\ orders'[x].linked = orders[x].linked
      BY <2>2, <2>4 DEF OrderRow
    <3> QED BY <1>1, <2>4, <3>1 DEF RowUnclaimed, Untouched, Stage
  <2> QED BY <2>1, <2>3, <2>4
<1> QED BY <1>2, SameStages DEF Claimed

(* The one cancellation without a condition meets an order nobody claimed. *)
LEMMA SetCancelledSettles ==
  ASSUME Inv, ClaimsApart, NEW o \in Orders, SetCancelled(o), UNCHANGED claims,
         orders[o].status \in {"pending", "cancelled"}
  PROVE SettleStep /\ Claimed /\ \A x \in Orders : Untouched(x)
<1>1. /\ orders \in [Orders -> OrderRow] /\ \A x \in Orders : RowUnclaimed(x)
  BY DEF Inv, TypeOK, StoreTypeOK, ClaimsApart
<1> DEFINE row == [orders[o] EXCEPT !.status = "cancelled", !.paidAt = 0]
<1>2. orders[o] \in OrderRow BY <1>1
<1>3. orders' = [orders EXCEPT ![o] = row] BY <1>1 DEF SetCancelled, OrderRow
<1>4. /\ row.status = "cancelled" /\ row.source = orders[o].source
      /\ row.linked = orders[o].linked
  BY <1>2 DEF OrderRow
<1> HIDE DEF row
<1>5. /\ \A x \in Orders \ {o} : orders'[x] = orders[x]
      /\ orders'[o] = row
  BY <1>1, <1>3
<1>6. Stage(orders'[o]) = Stage(orders[o]) /\ Untouched(o)
  BY <1>4, <1>5 DEF Stage, Untouched
<1>7. Claimed BY <1>1, <1>4, <1>5 DEF Claimed, RowUnclaimed
<1> QED BY <1>5, <1>6, <1>7, OneRow DEF SettleStep

(* A refund to the balance leaves the order settled, for the provider to reverse. *)
LEMMA RefundToBalanceSettles ==
  ASSUME Inv, ClaimsApart, NEW o \in Orders, RefundToBalance(o), UNCHANGED claims
  PROVE SettleStep /\ Claimed /\ \A x \in Orders : Untouched(x)
<1>1. /\ orders \in [Orders -> OrderRow] /\ \A x \in Orders : RowUnclaimed(x)
  BY DEF Inv, TypeOK, StoreTypeOK, ClaimsApart
<1>2. orders[o] \in OrderRow BY <1>1
<1>3. PICK kop : orders' = [orders EXCEPT ![o].source = "balance", ![o].refunded = kop]
  BY DEF RefundToBalance
<1> DEFINE row == [orders[o] EXCEPT !.source = "balance", !.refunded = kop]
<1>4. orders' = [orders EXCEPT ![o] = row] BY <1>1, <1>3 DEF OrderRow
<1>5. /\ orders[o].status = "paid" /\ orders[o].source = "none"
      /\ row.status = "paid" /\ row.source = "balance"
  BY <1>2 DEF OrderRow, RefundToBalance
<1> HIDE DEF row
<1>6. /\ \A x \in Orders \ {o} : orders'[x] = orders[x]
      /\ orders'[o] = row
  BY <1>1, <1>4
<1>7. Stage(orders'[o]) = Stage(orders[o]) /\ Untouched(o)
  BY <1>5, <1>6 DEF Stage, Untouched
<1>8. Claimed BY <1>1, <1>5, <1>6 DEF Claimed, RowUnclaimed
<1> QED BY <1>6, <1>7, <1>8, OneRow DEF SettleStep

(* A refund by the provider reverses a settled order.                      *)
LEMMA ProviderRefundSettles ==
  ASSUME Inv, ClaimsApart, NEW o \in Orders, Refundable(o), ProviderRefund(o),
         UNCHANGED claims
  PROVE SettleStep /\ Claimed /\ \A x \in Orders : Untouched(x)
<1>1. /\ orders \in [Orders -> OrderRow] /\ \A x \in Orders : RowUnclaimed(x)
  BY DEF Inv, TypeOK, StoreTypeOK, ClaimsApart
<1>2. orders[o] \in OrderRow BY <1>1
<1>3. PICK taken, refunded, refkop :
        orders' = [orders EXCEPT ![o] =
                    [orders[o] EXCEPT !.source = "provider", !.taken = taken,
                                      !.refunded = refunded, !.refkop = refkop]]
  BY DEF ProviderRefund
<1> DEFINE row == [orders[o] EXCEPT !.source = "provider", !.taken = taken,
                                    !.refunded = refunded, !.refkop = refkop]
<1>4. /\ orders[o].status = "paid" /\ orders[o].source # "provider"
      /\ row.status = "paid" /\ row.source = "provider"
  BY <1>2 DEF OrderRow, Refundable
<1>5. orders' = [orders EXCEPT ![o] = row] BY <1>3
<1> HIDE DEF row
<1>6. /\ \A x \in Orders \ {o} : orders'[x] = orders[x]
      /\ orders'[o] = row
  BY <1>1, <1>5
<1>7. Stage(orders[o]) = "settled" /\ Stage(orders'[o]) = "reversed"
  BY <1>4, <1>6 DEF Stage
<1>8. Money!Reverse(o) BY <1>6, <1>7, OneRow DEF Money!Reverse
<1>9. Claimed BY <1>1, <1>4, <1>6 DEF Claimed, RowUnclaimed
<1>10. Untouched(o) BY <1>4 DEF Untouched
<1> QED BY <1>6, <1>8, <1>9, <1>10, OneRow DEF SettleStep, Money!Next
----------------------------------------------------------------------------
(* Keeping ClaimsApart: the threads a step moves stop making an invoice, or *)
(* hold an order that was heard of from outside.                            *)

LinksKept == \A x \in Orders : orders[x].linked => orders'[x].linked

ShopKept(s) ==
  \/ shop'[s] = shop[s] /\ (shop[s].pc = "create" => Untouched(shop[s].order))
  \/ ~Making(s)'

HandKept(h) ==
  \/ hand'[h] = hand[h]
  \/ h = Operator /\ hand'[h].pc # "confirm"
  \/ hand'[h].pc = "idle"
  \/ h # Operator /\ orders'[hand'[h].order].linked

(* Threads stay apart when no order loses its link or its status.          *)
LEMMA ApartKept ==
  ASSUME Inv, ClaimsApart, Claimed, LinksKept,
         \A s \in Shoppers : ShopKept(s), \A h \in Handlers : HandKept(h)
  PROVE ClaimsApart'
<1>1. \A s \in Shoppers : InvoiceApart(s)'
  <2>1. SUFFICES ASSUME NEW s \in Shoppers, shop'[s].pc = "create"
                 PROVE InvoiceApart(s)'
    BY DEF InvoiceApart
  <2>2. shop'[s] = shop[s] /\ Untouched(shop[s].order) /\ InvoiceApart(s)
    BY <2>1 DEF ShopKept, Making, ClaimsApart
  <2>3. hand'[Operator] = hand[Operator] \/ hand'[Operator].pc # "confirm"
    BY DEF HandKept, Handlers
  <2> QED BY <2>1, <2>2, <2>3 DEF InvoiceApart, Untouched
<1>2. \A s, t \in Shoppers :
        s # t /\ Making(s)' /\ Making(t)' => shop'[s].order # shop'[t].order
  BY DEF ShopKept, Making, ClaimsApart
<1>3. \A h \in Handlers \ {Operator} : HearsLinked(h)'
  <2>1. SUFFICES ASSUME NEW h \in Handlers \ {Operator}, hand'[h].pc # "idle"
                 PROVE orders'[hand'[h].order].linked
    BY DEF HearsLinked
  <2>2. CASE hand'[h] = hand[h]
    <3>1. hand[h].order \in Orders BY <2>1, <2>2 DEF Inv, WellFormed, HandlerFits
    <3>2. orders[hand[h].order].linked BY <2>1, <2>2 DEF ClaimsApart, HearsLinked
    <3> QED BY <2>2, <3>1, <3>2 DEF LinksKept
  <2> QED BY <2>1, <2>2 DEF HandKept
<1> QED BY <1>1, <1>2, <1>3 DEF ClaimsApart, Claimed

(* A step of the handlers leaves the requests of the shop alone ... *)
LEMMA HandsApart ==
  ASSUME Inv, ClaimsApart, Claimed, LinksKept, NEW h \in Handlers, NEW v,
         hand' = [hand EXCEPT ![h] = v], shop' = shop,
         \A s \in Shoppers : shop[s].pc = "create" => Untouched(shop[s].order),
         \/ v.pc = "idle"
         \/ h = Operator /\ v.pc # "confirm"
         \/ h # Operator /\ orders'[v.order].linked
  PROVE ClaimsApart'
<1>1. \A s \in Shoppers : ShopKept(s) BY DEF ShopKept
<1>2. \A x \in Handlers : HandKept(x)
  BY DEF HandKept, Inv, TypeOK, CheckoutTypeOK
<1> QED BY <1>1, <1>2, ApartKept

(* ... a step of the shop leaves the handlers alone ... *)
LEMMA ShopsApart ==
  ASSUME Inv, ClaimsApart, Claimed, LinksKept, NEW s \in Shoppers, NEW v,
         shop' = [shop EXCEPT ![s] = v], hand' = hand, v.pc \notin {"create", "link"},
         \A t \in Shoppers \ {s} : shop[t].pc = "create" => Untouched(shop[t].order)
  PROVE ClaimsApart'
<1>1. shop'[s] = v /\ \A t \in Shoppers \ {s} : shop'[t] = shop[t]
  BY DEF Inv, TypeOK, CheckoutTypeOK
<1>2. \A t \in Shoppers : ShopKept(t) BY <1>1 DEF ShopKept, Making
<1>3. \A x \in Handlers : HandKept(x) BY DEF HandKept
<1> QED BY <1>2, <1>3, ApartKept

(* ... and the others leave both alone. *)
LEMMA OthersApart ==
  ASSUME Inv, ClaimsApart, Claimed, LinksKept, UNCHANGED <<shop, hand>>,
         \A x \in Orders : Untouched(x)
  PROVE ClaimsApart'
<1>1. \A s \in Shoppers : ShopKept(s)
  <2>1. TAKE s \in Shoppers
  <2>2. shop[s].pc = "create" => shop[s].order \in Orders
    BY DEF Inv, WellFormed, ShopperFits
  <2> QED BY <2>2 DEF ShopKept
<1>2. \A h \in Handlers : HandKept(h) BY DEF HandKept
<1> QED BY <1>1, <1>2, ApartKept

(* The order of a request on its way is an order.                          *)
LEMMA MakingOrder ==
  ASSUME Inv, NEW s \in Shoppers, shop[s].pc \in {"create", "link", "supersede"}
  PROVE shop[s].order \in Orders /\ orders[shop[s].order].status # "none"
BY DEF Inv, WellFormed, ShopperFits

(* Unchanged orders keep their links.                                      *)
LEMMA SameLinks == ASSUME UNCHANGED orders PROVE LinksKept
BY DEF LinksKept

Apart == ClaimsApart' /\ SettleStep

----------------------------------------------------------------------------
(* The actions. *)

(* A new order belongs to the request that inserted it alone.              *)
LEMMA InsertOrderApart ==
  ASSUME Inv, ClaimsApart, NEW s \in Shoppers, NEW o \in Orders, InsertOrder(s, o)
  PROVE Apart
<1> DEFINE d == shop[s].draft
           row == [d EXCEPT !.status = "pending", !.created = now]
<1>1. /\ shop[s].pc = "insert" /\ orders[o].status = "none"
      /\ orders' = [orders EXCEPT ![o] = row] /\ UNCHANGED <<hand, claims>>
      /\ shop'[s].order = o /\ \A t \in Shoppers \ {s} : shop'[t] = shop[t]
  <2>1. UNCHANGED <<hand, claims>> BY DEF InsertOrder, history
  <2> QED BY <2>1 DEF InsertOrder, Inv, TypeOK, CheckoutTypeOK
<1>2. /\ orders \in [Orders -> OrderRow] /\ \A x \in Orders : RowUnclaimed(x)
  BY DEF Inv, TypeOK, StoreTypeOK, ClaimsApart
<1>3. d \in OrderRow /\ ~d.linked /\ d.source = "none"
  BY <1>1, ShopperRow DEF ShopRow, ShopperFits
<1>4. row.status = "pending" /\ ~row.linked /\ row.source = "none"
  BY <1>3 DEF OrderRow
<1> HIDE DEF d, row
<1>5. orders'[o] = row /\ \A x \in Orders \ {o} : orders'[x] = orders[x]
  BY <1>1, <1>2
<1>6. ~orders[o].linked BY <1>1 DEF Inv, WellFormed, RowFits
<1>7. Money!OpenOrder(o)
  BY <1>1, <1>4, <1>5, OneRow DEF Money!OpenOrder, Stage
<1>8. Claimed BY <1>1, <1>2, <1>4, <1>5 DEF Claimed, RowUnclaimed
<1>9. \A t \in Shoppers : Making(t) => shop[t].order # o
  BY <1>1, MakingOrder DEF Making
<1>10. \A h \in Handlers : hand[h].pc # "idle" =>
         hand[h].order \in Orders /\ hand[h].order # o
  BY <1>1, HandlerRow DEF HandlerFits
<1>11. \A t \in Shoppers : InvoiceApart(t)'
  <2>1. TAKE t \in Shoppers
  <2>2. Operator \in Handlers BY DEF Handlers
  <2>3. CASE t = s BY <1>1, <1>4, <1>5, <1>10, <2>2, <2>3 DEF InvoiceApart
  <2>4. CASE t # s
    <3>1. shop[t].pc = "create" => shop[t].order \in Orders \ {o}
      BY <1>9, MakingOrder DEF Making
    <3> QED BY <1>1, <1>5, <2>4, <3>1 DEF InvoiceApart, ClaimsApart
  <2> QED BY <2>3, <2>4
<1>12. \A t, r \in Shoppers :
         t # r /\ Making(t)' /\ Making(r)' => shop'[t].order # shop'[r].order
  BY <1>1, <1>9 DEF Making, ClaimsApart
<1>13. \A h \in Handlers \ {Operator} : HearsLinked(h)'
  BY <1>1, <1>5, <1>10 DEF HearsLinked, ClaimsApart
<1> QED BY <1>7, <1>8, <1>11, <1>12, <1>13
        DEF Apart, SettleStep, Money!Next, ClaimsApart, Claimed

(* Linking an order ends the making of its invoice.                        *)
LEMMA LinkOrderApart ==
  ASSUME Inv, ClaimsApart, NEW s \in Shoppers, LinkOrder(s)
  PROVE Apart
<1> DEFINE o == shop[s].order
           row == [orders[o] EXCEPT !.linked = TRUE]
<1>1. o \in Orders /\ shop[s].pc = "link" BY MakingOrder DEF LinkOrder
<1>2. /\ orders \in [Orders -> OrderRow] /\ \A x \in Orders : RowUnclaimed(x)
  BY DEF Inv, TypeOK, StoreTypeOK, ClaimsApart
<1>3. /\ UNCHANGED <<hand, claims>>
      /\ shop' = [shop EXCEPT ![s] = [shop[s] EXCEPT !.pc = "supersede"]]
  BY DEF LinkOrder, history, Inv, TypeOK, CheckoutTypeOK
<1>4. orders' = [orders EXCEPT ![o] = row] BY <1>1, <1>2 DEF LinkOrder
<1>5. /\ row.status = orders[o].status /\ row.source = orders[o].source /\ row.linked
  BY <1>1, <1>2 DEF OrderRow
<1> HIDE DEF row
<1>6. orders'[o] = row /\ \A x \in Orders \ {o} : orders'[x] = orders[x]
  BY <1>1, <1>2, <1>4
<1>7. SettleStep
  <2>1. Stage(orders'[o]) = Stage(orders[o]) BY <1>5, <1>6 DEF Stage
  <2> QED BY <1>1, <1>6, <2>1, OneRow DEF SettleStep
<1>8. Claimed BY <1>1, <1>2, <1>3, <1>5, <1>6 DEF Claimed, RowUnclaimed
<1>9. LinksKept BY <1>5, <1>6 DEF LinksKept
<1>10. \A t \in Shoppers \ {s} : shop[t].pc = "create" => Untouched(shop[t].order)
  <2>1. TAKE t \in Shoppers \ {s}
  <2>2. shop[t].pc = "create" => shop[t].order \in Orders \ {o}
    BY <1>1, MakingOrder DEF ClaimsApart, Making
  <2> QED BY <1>6, <2>2 DEF Untouched
<1>11. [shop[s] EXCEPT !.pc = "supersede"].pc = "supersede"
  BY ShopperRow DEF ShopRow
<1>12. ClaimsApart' BY <1>3, <1>8, <1>9, <1>10, <1>11, ShopsApart
<1> QED BY <1>7, <1>12 DEF Apart

(* Opening an order keeps requests apart and settles nothing.              *)
LEMMA ShoppingApart ==
  ASSUME Inv, ClaimsApart, NEW s \in Shoppers, Shopping(s)
  PROVE Apart
<1>1. shop \in [Shoppers -> ShopRow] /\ hand \in [Handlers -> HandRow]
  BY DEF Inv, TypeOK, CheckoutTypeOK, ShopRow, HandRow
<1>2. ASSUME UNCHANGED <<orders, claims, hand>>, NEW v,
             shop' = [shop EXCEPT ![s] = v], v.pc \notin {"create", "link"}
      PROVE Apart
  <2>1. SettleStep /\ Claimed /\ \A x \in Orders : Untouched(x) BY <1>2, SameRows
  <2>2. LinksKept BY <1>2, SameLinks
  <2>3. \A t \in Shoppers \ {s} : shop[t].pc = "create" => Untouched(shop[t].order)
    BY <2>1, MakingOrder
  <2> QED BY <1>2, <2>1, <2>2, <2>3, ShopsApart DEF Apart
<1>3. CASE \E u \in Users, p \in Purchases, m \in Methods : StartPurchase(s, u, p, m)
  <2>1. PICK u \in Users, p \in Purchases, m \in Methods : StartPurchase(s, u, p, m)
    BY <1>3
  <2>2. UNCHANGED <<orders, claims, hand>> BY <2>1 DEF StartPurchase, db, tables, history
  <2> DEFINE v(q) == [pc |-> IF m = "external" THEN "insert" ELSE "reuse",
                      draft |-> [Draft(u, p, q) EXCEPT !.method = m],
                      order |-> NoOrder]
  <2>3. PICK q : shop' = [shop EXCEPT ![s] = v(q)] BY <2>1 DEF StartPurchase
  <2>4. v(q).pc \notin {"create", "link"} OBVIOUS
  <2> HIDE DEF v
  <2> QED BY <1>2, <2>2, <2>3, <2>4
<1>4. CASE ReuseOrder(s)
  <2>1. UNCHANGED <<orders, claims, hand>> BY <1>4 DEF ReuseOrder, db, tables, history
  <2>2. \/ shop' = [shop EXCEPT ![s] = IdleShop]
        \/ shop' = [shop EXCEPT ![s] = [shop[s] EXCEPT !.pc = "insert"]]
    BY <1>1, <1>4 DEF ReuseOrder
  <2>3. [shop[s] EXCEPT !.pc = "insert"].pc = "insert" BY <1>1 DEF ShopRow
  <2> QED BY <1>2, <2>1, <2>2, <2>3 DEF IdleShop
<1>5. CASE \E o \in Orders : InsertOrder(s, o) BY <1>5, InsertOrderApart
<1>6. CASE InsertRefused(s)
  <2>1. /\ UNCHANGED <<orders, claims, hand>>
        /\ shop' = [shop EXCEPT ![s] = IdleShop]
    BY <1>6 DEF InsertRefused, db, tables, history
  <2> QED BY <1>2, <2>1 DEF IdleShop
<1>7. CASE CreateInvoice(s)
  <2>1. /\ UNCHANGED <<orders, claims, hand>> /\ shop[s].pc = "create"
        /\ shop' = [shop EXCEPT ![s] = [shop[s] EXCEPT !.pc = "link"]]
    BY <1>1, <1>7 DEF CreateInvoice, db, tables, history
  <2>2. /\ shop'[s].pc = "link" /\ shop'[s].order = shop[s].order
        /\ \A t \in Shoppers \ {s} : shop'[t] = shop[t]
    BY <1>1, <2>1 DEF ShopRow
  <2>3. SettleStep /\ Claimed BY <2>1, SameRows
  <2>4. \A t \in Shoppers : InvoiceApart(t)'
    BY <2>1, <2>2 DEF InvoiceApart, ClaimsApart
  <2>5. \A t, r \in Shoppers :
          t # r /\ Making(t)' /\ Making(r)' => shop'[t].order # shop'[r].order
    BY <2>1, <2>2 DEF Making, ClaimsApart
  <2>6. \A h \in Handlers \ {Operator} : HearsLinked(h)'
    BY <2>1 DEF HearsLinked, ClaimsApart
  <2> QED BY <2>3, <2>4, <2>5, <2>6 DEF Apart, ClaimsApart, Claimed
<1>8. CASE CreateFails(s)
  <2> DEFINE o == shop[s].order
  <2>1. o \in Orders /\ shop[s].pc = "create" BY <1>8, MakingOrder DEF CreateFails
  <2>2. orders[o].status \in {"pending", "cancelled"} /\ ~orders[o].linked
    BY <2>1 DEF ClaimsApart, InvoiceApart
  <2>3. /\ SetCancelled(o) /\ UNCHANGED <<claims, hand>>
        /\ shop' = [shop EXCEPT ![s] = IdleShop]
    BY <1>8 DEF CreateFails, history
  <2>4. SettleStep /\ Claimed /\ \A x \in Orders : Untouched(x)
    BY <2>1, <2>2, <2>3, SetCancelledSettles
  <2>5. LinksKept
    BY <2>1, <2>2, <2>3 DEF LinksKept, SetCancelled, Inv, TypeOK, StoreTypeOK
  <2>6. \A t \in Shoppers \ {s} : shop[t].pc = "create" => Untouched(shop[t].order)
    BY <2>4, MakingOrder
  <2> QED BY <2>3, <2>4, <2>5, <2>6, ShopsApart DEF Apart, IdleShop
<1>9. CASE LinkOrder(s) BY <1>9, LinkOrderApart
<1>10. CASE SupersedeOrders(s)
  <2> DEFINE os == OpenWithCode(shop[s].draft.user, shop[s].draft.promo, shop[s].order)
  <2>1. /\ CancelIfPending(os) /\ UNCHANGED <<claims, hand>>
        /\ shop' = [shop EXCEPT ![s] = IdleShop]
    BY <1>10 DEF SupersedeOrders, history
  <2> HIDE DEF os
  <2>2. SettleStep /\ Claimed /\ \A x \in Orders : Untouched(x)
    BY <2>1, CancelIfPendingSettles
  <2>3. LinksKept
    BY <2>1, CancelIfPendingType DEF Inv, TypeOK, WellFormed, Kept, LinksKept
  <2>4. \A t \in Shoppers \ {s} : shop[t].pc = "create" => Untouched(shop[t].order)
    BY <2>2, MakingOrder
  <2> QED BY <2>1, <2>2, <2>3, <2>4, ShopsApart DEF Apart, IdleShop
<1> QED BY <1>3, <1>4, <1>5, <1>6, <1>7, <1>8, <1>9, <1>10 DEF Shopping

(* Hearing of a payment or deciding to confirm one: the tables stay. *)
LEMMA HearingApart ==
  ASSUME Inv, ClaimsApart, ~ConfirmEarly, UNCHANGED subscriptionVars,
         \/ \E h \in Hooks : Callback(h)
         \/ Polling
         \/ \E o \in Orders : OperatorConfirms(o)
  PROVE Apart
<1>1. /\ hand \in [Handlers -> HandRow] /\ batch \subseteq Orders
      /\ \A o \in batch : orders[o].linked
  BY DEF Inv, TypeOK, CheckoutTypeOK, HandRow, WellFormed
<1>2. UNCHANGED <<orders, claims, shop>>
  BY DEF Callback, Polling, ReceiveCallback, PollList, PollAsk, PollFails,
         OperatorConfirms, db, tables, history
<1>3. /\ SettleStep /\ Claimed /\ LinksKept
      /\ \A s \in Shoppers : shop[s].pc = "create" => Untouched(shop[s].order)
  BY <1>2, SameRows, SameLinks, MakingOrder
<1>4. CASE \E h \in Hooks : Callback(h)
  <2>1. PICK h \in Hooks, o \in Orders, report \in {"paid", "void", "refunded"} :
          ReceiveCallback(h, o, report)
    BY <1>4 DEF Callback
  <2> DEFINE v == [pc |-> Reaction(o, report), order |-> o]
  <2>2. hand' = [hand EXCEPT ![h] = v] /\ v.order = o /\ orders'[o].linked
    BY <1>2, <2>1 DEF ReceiveCallback
  <2>3. h \in Handlers /\ h # Operator BY CheckoutAssumption DEF Handlers
  <2> HIDE DEF v
  <2>4. ClaimsApart' BY <1>2, <1>3, <2>2, <2>3, HandsApart
  <2> QED BY <1>3, <2>4 DEF Apart
<1>5. CASE Polling
  <2>1. CASE PollList
    <3>1. UNCHANGED hand BY <2>1 DEF PollList
    <3>2. ClaimsApart' BY <1>2, <1>3, <3>1, SameRows, OthersApart
    <3> QED BY <1>3, <3>2 DEF Apart
  <2>2. CASE \E o \in Orders : PollAsk(o) \/ PollFails(o)
    <3>1. PICK o \in Orders : PollAsk(o) \/ PollFails(o) BY <2>2
    <3>2. orders'[o].linked BY <1>1, <1>2, <3>1 DEF PollAsk, PollFails
    <3>3. PICK v : /\ hand' = [hand EXCEPT ![Poller] = v]
                   /\ v.pc = "idle" \/ v.order = o
      <4>1. CASE PollAsk(o)
        <5> DEFINE v == CASE charge[o] = "paid" /\ orders[o].status # "paid" ->
                               [pc |-> "confirm", order |-> o]
                          [] charge[o] \in {"void", "refunded"} ->
                               [pc |-> "void", order |-> o]
                          [] charge[o] = "open" /\ Stale(o) ->
                               [pc |-> "sweep", order |-> o]
                          [] OTHER -> IdleHand
        <5>1. v.pc = "idle" \/ v.order = o BY DEF IdleHand
        <5>2. hand' = [hand EXCEPT ![Poller] = v] BY <4>1 DEF PollAsk
        <5> HIDE DEF v
        <5> QED BY <5>1, <5>2
      <4>2. CASE PollFails(o)
        <5>1. hand[Poller].pc = "idle" BY <4>2 DEF PollFails
        <5>2. CASE hand' = hand
          <6>1. hand' = [hand EXCEPT ![Poller] = hand[Poller]] BY <1>1, <5>2
          <6> QED BY <5>1, <6>1
        <5>3. CASE hand' # hand
          <6> DEFINE v == IF Stale(o) THEN [pc |-> "sweep", order |-> o]
                          ELSE IdleHand
          <6>1. v.pc = "idle" \/ v.order = o BY DEF IdleHand
          <6>2. hand' = [hand EXCEPT ![Poller] = v] BY <4>2, <5>3 DEF PollFails
          <6> HIDE DEF v
          <6> QED BY <6>1, <6>2
        <5> QED BY <5>2, <5>3
      <4> QED BY <3>1, <4>1, <4>2
    <3>4. Poller \in Handlers /\ Poller # Operator BY CheckoutAssumption DEF Handlers
    <3>5. ClaimsApart' BY <1>2, <1>3, <3>2, <3>3, <3>4, HandsApart
    <3> QED BY <1>3, <3>5 DEF Apart
  <2> QED BY <1>5, <2>1, <2>2 DEF Polling
<1>6. CASE \E o \in Orders : OperatorConfirms(o)
  <2>1. PICK o \in Orders : OperatorConfirms(o) BY <1>6
  <2>2. /\ \A s \in Shoppers : shop[s].pc = "create" => shop[s].order # o
        /\ hand'[Operator].order = o
        /\ \A h \in Handlers \ {Operator} : hand'[h] = hand[h]
    BY <1>1, <2>1 DEF OperatorConfirms, Handlers
  <2>3. \A s \in Shoppers : InvoiceApart(s)'
    BY <1>2, <2>2 DEF InvoiceApart, ClaimsApart
  <2>4. \A h \in Handlers \ {Operator} : HearsLinked(h)'
    BY <1>2, <2>2 DEF HearsLinked, ClaimsApart
  <2>5. \A t, r \in Shoppers :
          t # r /\ Making(t)' /\ Making(r)' => shop'[t].order # shop'[r].order
    BY <1>2 DEF Making, ClaimsApart
  <2> QED BY <1>3, <2>3, <2>4, <2>5 DEF Apart, ClaimsApart, Claimed
<1> QED BY <1>4, <1>5, <1>6

(* Acting on what was heard.  A confirmation leaves alone every order whose *)
(* invoice is being made: the operator's is another one, and the others    *)
(* heard of theirs through its link.                                       *)
LEMMA HandlingApart ==
  ASSUME Inv, ClaimsApart, NEW h \in Handlers, Handling(h)
  PROVE Apart
<1> DEFINE o == hand[h].order
<1>1. /\ hand \in [Handlers -> HandRow] /\ StoreTypeOK
      /\ \A x \in Orders : RowFits(x)
  BY DEF Inv, TypeOK, CheckoutTypeOK, HandRow, WellFormed
<1>2. hand[h].pc # "idle" /\ shop' = shop
  BY DEF Handling, Confirm, CancelPending, RefundByProvider,
         TakeBackTerm, TakeBackDays, TakeBackPlan, TakeAddonBack, RevertChange
<1>3. o \in Orders /\ orders[o].status # "none" /\ Fits(orders[o])
  BY <1>1, <1>2, HandlerRow DEF HandlerFits, RowFits
<1>4. h # Operator => orders[o].linked BY <1>2 DEF ClaimsApart, HearsLinked
<1>5. \/ hand' = [hand EXCEPT ![h] = IdleHand]
      \/ \E pc \in {"takeback", "revert", "addonback", "shorten", "endplan"} :
           hand' = [hand EXCEPT ![h] = [hand[h] EXCEPT !.pc = pc]]
  <2> DEFINE next == IF orders[o].source = "balance" THEN "idle"
                     ELSE CASE orders[o].kind = "plan" -> "takeback"
                            [] orders[o].kind = "change" -> "revert"
                            [] orders[o].kind \in {"devices", "traffic"} -> "addonback"
                            [] orders[o].kind = "topup" -> "idle"
  <2>1. next \in {"idle", "takeback", "revert", "addonback"}
    BY <1>1, <1>3 DEF StoreTypeOK, OrderRow, Kinds
  <2>2. RefundByProvider(h) =>
          \/ hand' = [hand EXCEPT ![h] = IdleHand]
          \/ next # "idle" /\ hand' = [hand EXCEPT ![h] = [hand[h] EXCEPT !.pc = next]]
    BY DEF RefundByProvider
  <2>3. TakeBackTerm(h) \/ TakeBackDays(h) =>
          \/ hand' = [hand EXCEPT ![h] = IdleHand]
          \/ hand' = [hand EXCEPT ![h] = [hand[h] EXCEPT !.pc = "endplan"]]
          \/ hand' = [hand EXCEPT ![h] = [hand[h] EXCEPT !.pc = "shorten"]]
    BY DEF TakeBackTerm, TakeBackDays
  <2>4. Confirm(h) \/ CancelPending(h) \/ TakeBackPlan(h) \/ TakeAddonBack(h)
          \/ RevertChange(h) => hand' = [hand EXCEPT ![h] = IdleHand]
    BY DEF Confirm, CancelPending, TakeBackPlan, TakeAddonBack, RevertChange
  <2> HIDE DEF next
  <2> QED BY <2>1, <2>2, <2>3, <2>4 DEF Handling
<1>6. ASSUME SettleStep, Claimed, LinksKept,
             \A s \in Shoppers : shop[s].pc = "create" => Untouched(shop[s].order)
      PROVE Apart
  <2>1. CASE hand' = [hand EXCEPT ![h] = IdleHand]
    BY <1>2, <1>6, <2>1, HandsApart DEF Apart, IdleHand
  <2>2. ASSUME NEW pc \in {"takeback", "revert", "addonback", "shorten", "endplan"},
               hand' = [hand EXCEPT ![h] = [hand[h] EXCEPT !.pc = pc]]
        PROVE Apart
    <3> DEFINE v == [hand[h] EXCEPT !.pc = pc]
    <3>1. v.pc = pc /\ v.order = o BY <1>1 DEF HandRow
    <3>2. hand' = [hand EXCEPT ![h] = v] BY <2>2
    <3> HIDE DEF v
    <3>3. h # Operator => orders'[v.order].linked
      BY <1>3, <1>4, <1>6, <3>1 DEF LinksKept
    <3>4. v.pc # "confirm" BY <3>1
    <3>5. ClaimsApart' BY <1>2, <1>6, <3>2, <3>3, <3>4, HandsApart
    <3> QED BY <1>6, <3>5 DEF Apart
  <2> QED BY <1>5, <2>1, <2>2
<1>7. ASSUME UNCHANGED <<orders, claims>> PROVE Apart
  <2>1. SettleStep /\ Claimed /\ \A x \in Orders : Untouched(x) BY <1>7, SameRows
  <2>2. \A s \in Shoppers : shop[s].pc = "create" => Untouched(shop[s].order)
    BY <2>1, MakingOrder
  <2>3. LinksKept BY <1>7, SameLinks
  <2> QED BY <1>6, <2>1, <2>2, <2>3
<1>8. CASE Confirm(h)
  <2> DEFINE sp == ConfirmSpec(o)
  <2>1. sp \in SpecRow BY <1>1, <1>3, ConfirmSpecType
  <2>2. ConfirmOrder(o, sp) /\ now' = now /\ hand[h].pc = "confirm" BY <1>8 DEF Confirm
  <2> HIDE DEF sp
  <2>3. SettleStep /\ Claimed /\ \A x \in Orders \ {o} : Untouched(x)
    BY <1>3, <2>1, <2>2, ConfirmOrderSettles
  <2>4. LinksKept BY <1>1, <1>3, <2>1, <2>2, ConfirmOrderType DEF Kept, LinksKept
  <2>5. \A s \in Shoppers : shop[s].pc = "create" => shop[s].order \in Orders \ {o}
    <3>1. TAKE s \in Shoppers
    <3>2. InvoiceApart(s) BY DEF ClaimsApart
    <3> QED BY <1>4, <2>2, <3>2, MakingOrder DEF InvoiceApart
  <2> QED BY <1>6, <2>3, <2>4, <2>5
<1>9. CASE CancelPending(h)
  <2>1. CancelIfPending({o}) /\ UNCHANGED claims BY <1>9 DEF CancelPending, history
  <2>2. SettleStep /\ Claimed /\ \A x \in Orders : Untouched(x)
    BY <2>1, CancelIfPendingSettles
  <2>3. LinksKept BY <1>1, <2>1, CancelIfPendingType DEF Kept, LinksKept
  <2> QED BY <1>6, <2>2, <2>3, MakingOrder
<1>10. CASE RefundByProvider(h)
  <2>1. UNCHANGED claims BY <1>10 DEF RefundByProvider, history
  <2>2. CASE Refundable(o)
    <3>1. ProviderRefund(o) BY <1>10, <2>2 DEF RefundByProvider
    <3>2. SettleStep /\ Claimed /\ \A x \in Orders : Untouched(x)
      BY <1>3, <2>1, <2>2, <3>1, ProviderRefundSettles
    <3>3. LinksKept
      BY <1>1, <1>3, <2>2, <3>1, ProviderRefundType DEF Kept, LinksKept, Refundable
    <3> QED BY <1>6, <3>2, <3>3, MakingOrder
  <2>3. CASE ~Refundable(o)
    <3>1. UNCHANGED orders BY <1>10, <2>3 DEF RefundByProvider
    <3> QED BY <1>7, <2>1, <3>1
  <2> QED BY <2>2, <2>3
<1>11. CASE TakeBackTerm(h) BY <1>7, <1>11 DEF TakeBackTerm, db, tables, history
<1>12. CASE TakeBackDays(h) BY <1>7, <1>12 DEF TakeBackDays
<1>13. CASE TakeBackPlan(h) BY <1>7, <1>13 DEF TakeBackPlan, history
<1>14. CASE TakeAddonBack(h) BY <1>7, <1>14 DEF TakeAddonBack, history
<1>15. CASE RevertChange(h) BY <1>7, <1>15 DEF RevertChange, history
<1> QED BY <1>8, <1>9, <1>10, <1>11, <1>12, <1>13, <1>14, <1>15 DEF Handling

(* The provider, the operator's other requests, the clock. *)
LEMMA OutsideApart ==
  ASSUME Inv, ClaimsApart,
         \/ \E o \in Orders, act \in {"pay", "odd", "void", "refund"} : ProviderStep(o, act)
         \/ \E o \in Orders : OperatorCancels(o)
         \/ \E o \in Orders, cancelPlan \in BOOLEAN : OperatorRefunds(o, cancelPlan)
         \/ Tick
  PROVE Apart
<1>1. StoreTypeOK /\ \A x \in Orders : RowFits(x) BY DEF Inv, TypeOK, WellFormed
<1>2. ASSUME UNCHANGED <<orders, claims, shop, hand>> PROVE Apart
  BY <1>2, SameRows, SameLinks, OthersApart DEF Apart
<1>3. ASSUME NEW o \in Orders, NEW act \in {"pay", "odd", "void", "refund"},
             ProviderStep(o, act)
      PROVE Apart
  BY <1>2, <1>3 DEF ProviderStep, db, tables, history, threads
<1>4. ASSUME NEW o \in Orders, OperatorCancels(o) PROVE Apart
  <2>1. CancelIfPending({o}) /\ UNCHANGED <<claims, shop, hand>>
    BY <1>4 DEF OperatorCancels, history, checkoutVars, threads
  <2>2. SettleStep /\ Claimed /\ \A x \in Orders : Untouched(x)
    BY <2>1, CancelIfPendingSettles
  <2>3. LinksKept BY <1>1, <2>1, CancelIfPendingType DEF Kept, LinksKept
  <2> QED BY <2>1, <2>2, <2>3, OthersApart DEF Apart
<1>5. ASSUME NEW o \in Orders, NEW cancelPlan \in BOOLEAN, OperatorRefunds(o, cancelPlan)
      PROVE Apart
  <2> DEFINE v == IF cancelPlan THEN [pc |-> "takeback", order |-> o]
                  ELSE IdleHand
  <2>1. /\ RefundToBalance(o) /\ UNCHANGED <<claims, shop>>
        /\ hand' = [hand EXCEPT ![Operator] = v]
    BY <1>5 DEF OperatorRefunds, history
  <2>2. v.pc # "confirm" BY DEF IdleHand
  <2> HIDE DEF v
  <2>3. SettleStep /\ Claimed /\ \A x \in Orders : Untouched(x)
    BY <2>1, RefundToBalanceSettles
  <2>4. LinksKept BY <1>1, <2>1, RefundToBalanceType DEF Kept, LinksKept
  <2>5. Operator \in Handlers BY DEF Handlers
  <2>6. \A s \in Shoppers : shop[s].pc = "create" => Untouched(shop[s].order)
    BY <2>3, MakingOrder
  <2>7. ClaimsApart' BY <2>1, <2>2, <2>3, <2>4, <2>5, <2>6, HandsApart
  <2> QED BY <2>3, <2>7 DEF Apart
<1>6. CASE Tick BY <1>2, <1>6 DEF Tick, tables, history, checkoutVars, threads
<1> QED BY <1>3, <1>4, <1>5, <1>6

(* A purchase from the balance takes an order of its own. *)
LEMMA BuyingApart ==
  ASSUME Inv, ClaimsApart, NEW o \in Orders, NEW row \in OrderRow, row.source = "none",
         NEW sp, NEW at, BuyFromBalance(o, row, sp, at), UNCHANGED <<shop, hand>>
  PROVE Apart
<1>1. SettleStep /\ Claimed /\ \A x \in Orders : Untouched(x) BY BuyFromBalanceSettles
<1>2. ~orders[o].linked BY DEF BuyFromBalance, Inv, WellFormed, RowFits
<1>3. \A x \in Orders \ {o} : orders'[x] = orders[x]
  BY DEF BuyFromBalance, Inv, TypeOK, StoreTypeOK
<1>4. LinksKept BY <1>2, <1>3 DEF LinksKept
<1> QED BY <1>1, <1>4, OthersApart DEF Apart

(* Subscriptions settle only what they buy, and leave requests apart.      *)
LEMMA SubscriptionApart ==
  ASSUME Inv, ClaimsApart, SubscriptionNext, UNCHANGED checkoutVars
  PROVE Apart
<1>1. /\ users \in Table /\ orders \in [Orders -> OrderRow] /\ now \in Nat
      /\ StoreTypeOK /\ \A x \in Orders : RowFits(x)
  BY DEF Inv, TypeOK, StoreTypeOK, Table, WellFormed
<1>2. UNCHANGED <<shop, hand>> BY DEF checkoutVars, threads
<1>3. ASSUME UNCHANGED <<orders, claims>> PROVE Apart
  BY <1>2, <1>3, SameRows, SameLinks, OthersApart DEF Apart
<1>4. ASSUME NEW t \in Taps, Tapping(t) PROVE Apart
  <2>1. ASSUME NEW o \in Orders, TapBuys(t, o) PROVE Apart
    <3> DEFINE u == tap[t].user
               p == tap[t].buy
    <3>1. u \in Users BY <2>1 DEF TapBuys, Inv, WellFormed, TapFits
    <3>2. p \in PurchaseRow
      BY BuyRow DEF Inv, TypeOK, SubscriptionTypeOK
    <3>3. PICK q \in Quotes(u, p) :
            BuyFromBalance(o, Draft(u, p, q), BalanceSpec(u, p, q), now)
      BY <2>1 DEF TapBuys
    <3> DEFINE d == Draft(u, p, q)
               sp == BalanceSpec(u, p, q)
    <3>4. d \in OrderRow /\ d.source = "none" BY <1>1, <3>1, <3>2, DraftType
    <3>5. BuyFromBalance(o, d, sp, now) BY <3>3
    <3> HIDE DEF d, sp
    <3> QED BY <1>2, <3>4, <3>5, BuyingApart
  <2>2. CASE TapSupersedes(t)
    <3>1. UNCHANGED claims
          /\ CancelIfPending(OpenWithCode(tap[t].user, tap[t].code, tap[t].order))
      BY <2>2 DEF TapSupersedes, history
    <3>2. SettleStep /\ Claimed /\ \A x \in Orders : Untouched(x)
      BY <3>1, CancelIfPendingSettles
    <3>3. LinksKept BY <1>1, <3>1, CancelIfPendingType DEF Kept, LinksKept
    <3> QED BY <1>2, <3>2, <3>3, OthersApart DEF Apart
  <2>3. ASSUME \/ \E u \in Users, p \in Buys : ShowOffer(t, u, p)
               \/ \E s \in Taps : TapTwice(t, s)
               \/ TapRefused(t)
               \/ \E u \in Users, c \in Codes : EnterDiscount(t, u, c)
               \/ AttachDiscount(t)
        PROVE UNCHANGED <<orders, claims>>
    BY <2>3 DEF ShowOffer, TapTwice, TapRefused, EnterDiscount, AttachDiscount,
                db, tables, history
  <2> QED BY <1>3, <1>4, <2>1, <2>2, <2>3 DEF Tapping
<1>5. ASSUME NEW u \in Users, Account(u) PROVE Apart
  <2>1. UNCHANGED <<orders, claims>>
    BY <1>5 DEF Account, RedeemBalance, RedeemDays, CancelUserPlan, SetAutoRenew,
                AdjustBalance, ApplyPlanToUser, history
  <2> QED BY <1>3, <2>1
<1>6. CASE EnforceBilling
  <2>1. ASSUME NEW u \in Users, NEW o \in Orders, RenewFromBalance(u, o) PROVE Apart
    <3> DEFINE p == users[u].plan
               devices == HeldDevices(users, u, p)
               row == [Blank EXCEPT !.user = u, !.plan = p, !.devices = devices]
    <3>1. PICK sp : BuyFromBalance(o, row, sp, job.time)
      BY <2>1 DEF RenewFromBalance
    <3>2. p \in Plans
      BY <1>1, <2>1 DEF RenewFromBalance, StillDue, Renewable, Table, UserRow
    <3>3. devices \in Nat BY <1>1, <3>2, HeldDevicesType
    <3> HIDE DEF devices, p
    <3>4. row \in OrderRow /\ row.source = "none"
      BY <3>2, <3>3, BlankType DEF OrderRow, Blank
    <3> HIDE DEF row
    <3> QED BY <1>2, <3>1, <3>4, BuyingApart
  <2>2. ASSUME \/ BeginPass \/ RenewalsDone \/ ListExpired \/ EndPass
               \/ \E u \in Users : RenewalSkipped(u) \/ DowngradeExpired(u)
        PROVE UNCHANGED <<orders, claims>>
    BY <2>2 DEF BeginPass, RenewalsDone, ListExpired, EndPass, RenewalSkipped,
                DowngradeExpired, db, tables, history
  <2> QED BY <1>3, <1>6, <2>1, <2>2 DEF EnforceBilling
<1> QED BY <1>4, <1>5, <1>6 DEF SubscriptionNext

(* A restart leaves no requests to keep apart.                             *)
LEMMA CrashApart == ASSUME Inv, ClaimsApart, Crash PROVE Apart
<1>1. UNCHANGED <<orders, claims>> BY DEF Crash, CheckoutCrash, db, tables, history
<1>2. SettleStep /\ Claimed BY <1>1, SameRows
<1>3. \A s \in Shoppers : shop'[s] = IdleShop BY DEF Crash, CheckoutCrash
<1>4. \A h \in Handlers : hand'[h] = IdleHand BY DEF Crash, CheckoutCrash
<1>5. \A s \in Shoppers : ShopKept(s) BY <1>3 DEF ShopKept, Making, IdleShop
<1>6. \A h \in Handlers : HandKept(h) BY <1>4 DEF HandKept, IdleHand
<1>7. LinksKept BY <1>1, SameLinks
<1> QED BY <1>2, <1>5, <1>6, <1>7, ApartKept DEF Apart

----------------------------------------------------------------------------
(* At the start no order is there and no request is on its way.            *)
LEMMA InitApart == ASSUME Init PROVE ClaimsApart /\ Money!Init
<1>1. /\ orders = [o \in Orders |-> Blank] /\ claims = [o \in Orders |-> 0]
      /\ shop = [s \in Shoppers |-> IdleShop] /\ hand = [h \in Handlers |-> IdleHand]
  BY DEF Init, StoreInit, CheckoutInit
<1>2. \A o \in Orders : RowUnclaimed(o) BY <1>1 DEF RowUnclaimed, Blank
<1>3. \A s \in Shoppers : shop[s].pc = "idle" BY <1>1 DEF IdleShop
<1>4. \A h \in Handlers : hand[h].pc = "idle" BY <1>1 DEF IdleHand
<1>5. ClaimsApart
  BY <1>2, <1>3, <1>4 DEF ClaimsApart, InvoiceApart, Making, HearsLinked
<1>6. \A o \in Orders : Stage(orders[o]) = "none" BY <1>1 DEF Stage, Blank
<1>7. SettlementState = [o \in Orders |-> "none"] BY <1>6 DEF SettlementState
<1> QED BY <1>5, <1>7 DEF Money!Init

(* Every step keeps requests apart and is a step of Settlement or a stutter. *)
LEMMA StepApart ==
  ASSUME ~ConfirmEarly, Inv, ClaimsApart, [Next]_vars
  PROVE Apart
<1>1. CASE CheckoutNext /\ UNCHANGED subscriptionVars
  BY <1>1, ShoppingApart, HearingApart, HandlingApart, OutsideApart DEF CheckoutNext
<1>2. CASE SubscriptionNext /\ UNCHANGED checkoutVars BY <1>2, SubscriptionApart
<1>3. CASE Crash BY <1>3, CrashApart
<1>4. CASE UNCHANGED vars
  <2>1. UNCHANGED <<orders, claims, shop, hand>>
    BY <1>4 DEF vars, db, tables, history, checkoutVars, threads
  <2> QED BY <2>1, SameRows, SameLinks, OthersApart DEF Apart
<1> QED BY <1>1, <1>2, <1>3, <1>4 DEF Next

(* Nobody claims an order an invoice is being made for, and no two requests *)
(* make the invoice of the same order (startProviderOrder).                *)
THEOREM AlwaysApart == ASSUME ~ConfirmEarly PROVE Spec => []ClaimsApart
<1>1. ClaimsApart /\ Inv /\ [Next]_vars => ClaimsApart'
  BY StepApart DEF Apart
<1>2. Init => ClaimsApart BY InitApart
<1> QED BY <1>1, <1>2, AlwaysInv, PTL DEF Spec

(* However often a payment is reported, by however many callback handlers, *)
(* by the poll and by the operator, and whatever cancels or supersedes its *)
(* order meanwhile, markPaidIfOpenOn lets one report through and the order *)
(* delivers once.  The operator must leave alone an order whose invoice is *)
(* being made: startProviderOrder cancels it without a condition when that *)
(* fails.                                                                  *)
THEOREM ClaimedOnce == ASSUME ~ConfirmEarly PROVE Spec => []PaidOnce
<1>1. ClaimsApart => PaidOnce BY DEF ClaimsApart, RowUnclaimed, PaidOnce
<1> QED BY <1>1, AlwaysApart, PTL

(* The tables, the handlers and the billing pass together implement        *)
(* Settlement: every transaction that touches an order opens, settles or   *)
(* reverses it, or is nothing to its money; a settled order never opens    *)
(* again and is reversed at most once.                                     *)
THEOREM SettlesOnce == ASSUME ~ConfirmEarly PROVE Spec => Settles
<1>1. Init => Money!Init BY InitApart
<1>2. Inv /\ ClaimsApart /\ [Next]_vars => [Money!Next]_SettlementState
  BY StepApart DEF Apart, SettleStep
<1> QED BY <1>1, <1>2, AlwaysInv, AlwaysApart, PTL DEF Spec, Settles, Money!Spec
----------------------------------------------------------------------------
(* Sums over finite sets (Functions!SumFunction). *)

(* The library takes a set apart at an element that depends on the set alone. *)
First(s) == CHOOSE x \in s : TRUE

(* What a function has to satisfy to be the sums of f over the subsets of S. *)
Sums(f, S, g) ==
  g = [s \in SUBSET S |-> IF s = {} THEN 0 ELSE f[First(s)] + g[s \ {First(s)}]]

(* A sum of the library is a value of some such function, if there is one. *)
LEMMA SumIsChosen ==
  ASSUME NEW f, NEW S
  PROVE SumFunctionOnSet(f, S) = (CHOOSE g : Sums(f, S, g))[S]
BY DEF SumFunctionOnSet, FoldFunctionOnSet, MapThenFoldSet, Sums, First

(* Induction over the subsets of a finite set, for a set of good ones: of  *)
(* the bad ones a smallest would be good.                                  *)
LEMMA SubsetInduction ==
  ASSUME NEW S, IsFiniteSet(S), NEW Good,
         \A T \in SUBSET S : (\A U \in SUBSET T : U # T => U \in Good) => T \in Good
  PROVE SUBSET S \subseteq Good
<1> DEFINE Bad == {T \in SUBSET S : T \notin Good}
<1>1. SUFFICES ASSUME Bad # {} PROVE FALSE OBVIOUS
<1>2. IsWellFoundedOn(StrictSubsetOrdering(S), SUBSET S)
  BY FS_StrictSubsetOrderingWellFounded, FS_FiniteSubsetsOfFinite
<1>3. PICK T \in Bad : \A U \in Bad : <<U, T>> \notin StrictSubsetOrdering(S)
  <2>1. Bad \subseteq SUBSET S OBVIOUS
  <2> HIDE DEF Bad
  <2> QED BY <1>1, <1>2, <2>1, WFMin
<1>4. ASSUME NEW U \in SUBSET T, U # T PROVE U \in Good
  <2>1. U \in SUBSET S BY <1>3
  <2>2. <<U, T>> \in StrictSubsetOrdering(S)
    BY <1>3, <1>4, <2>1, Zenon DEF StrictSubsetOrdering
  <2> QED BY <1>3, <2>1, <2>2
<1> QED BY <1>3, <1>4

(* Two such functions agree where both are defined. *)
LEMMA SumsAgree ==
  ASSUME NEW f, NEW T, NEW U, IsFiniteSet(T), NEW g, NEW h, Sums(f, T, g), Sums(f, U, h)
  PROVE \A s \in SUBSET (T \intersect U) : g[s] = h[s]
<1> DEFINE Both == T \intersect U
           Good == {s \in SUBSET Both : g[s] = h[s]}
<1>1. IsFiniteSet(Both) BY FS_Subset
<1>2. ASSUME NEW s \in SUBSET Both, \A r \in SUBSET s : r # s => r \in Good
      PROVE s \in Good
  <2>1. /\ g[s] = IF s = {} THEN 0 ELSE f[First(s)] + g[s \ {First(s)}]
        /\ h[s] = IF s = {} THEN 0 ELSE f[First(s)] + h[s \ {First(s)}]
    <3> s \in SUBSET T /\ s \in SUBSET U OBVIOUS
    <3> QED BY DEF Sums
  <2>2. CASE s = {} BY <2>1, <2>2
  <2>3. CASE s # {}
    <3>1. First(s) \in s BY <2>3 DEF First
    <3>2. s \ {First(s)} \in Good BY <1>2, <3>1
    <3> QED BY <2>1, <2>3, <3>2
  <2> QED BY <2>2, <2>3
<1> HIDE DEF Good, Both
<1>3. SUBSET Both \subseteq Good BY <1>1, <1>2, SubsetInduction
<1> QED BY <1>3 DEF Good, Both

(* There is one over every finite set. *)
LEMMA SumsExist ==
  ASSUME NEW f, NEW S, IsFiniteSet(S)
  PROVE \A T \in SUBSET S : \E g : Sums(f, T, g)
<1> DEFINE Good == {T \in SUBSET S : \E g : Sums(f, T, g)}
<1>1. ASSUME NEW T \in SUBSET S, \A U \in SUBSET T : U # T => U \in Good
      PROVE T \in Good
  <2> DEFINE h(U) == CHOOSE g : Sums(f, U, g)
             top == IF T = {} THEN 0 ELSE f[First(T)] + h(T \ {First(T)})[T \ {First(T)}]
             g == [s \in SUBSET T |-> IF s = T THEN top ELSE h(s)[s]]
  <2>1. \A U \in SUBSET T : U # T => Sums(f, U, h(U)) BY <1>1
  <2> HIDE DEF h
  <2>2. ASSUME NEW s \in SUBSET T
        PROVE g[s] = IF s = {} THEN 0 ELSE f[First(s)] + g[s \ {First(s)}]
    <3> DEFINE r == s \ {First(s)}
    <3>1. s # {} => First(s) \in s BY DEF First
    <3>2. s # {} => r \in SUBSET T /\ r # T /\ r # s /\ r \in SUBSET s BY <3>1
    <3>3. CASE s = T BY <3>2, <3>3
    <3>4. CASE s # T /\ s = {}
      <4>1. Sums(f, {}, h({})) BY <2>1, <3>4
      <4>2. h({})[{}] = 0 BY <4>1 DEF Sums
      <4> QED BY <3>4, <4>2
    <3>5. CASE s # T /\ s # {}
      <4>1. Sums(f, s, h(s)) /\ Sums(f, r, h(r)) BY <2>1, <3>2, <3>5
      <4>2. h(s)[s] = f[First(s)] + h(s)[r] BY <3>5, <4>1 DEF Sums
      <4>3. IsFiniteSet(s) BY FS_Subset
      <4>4. r \in SUBSET (s \intersect r) BY <3>2, <3>5
      <4> HIDE DEF r
      <4>5. h(s)[r] = h(r)[r] BY <4>1, <4>3, <4>4, SumsAgree
      <4>6. g[s] = h(s)[s] BY <3>5
      <4>7. g[r] = h(r)[r] BY <3>2, <3>5
      <4> QED BY <3>5, <4>2, <4>5, <4>6, <4>7 DEF r
    <3> QED BY <3>3, <3>4, <3>5
  <2>3. Sums(f, T, g)
    <3>1. g = [s \in SUBSET T |-> g[s]] OBVIOUS
    <3> HIDE DEF g
    <3> QED BY <2>2, <3>1 DEF Sums
  <2> QED BY <2>3
<1> HIDE DEF Good
<1>2. SUBSET S \subseteq Good BY <1>1, SubsetInduction
<1> QED BY <1>2 DEF Good

(* A sum over a finite set: one element, and the sum over the rest. *)
LEMMA SumStep ==
  ASSUME NEW f, NEW S, IsFiniteSet(S)
  PROVE SumFunctionOnSet(f, S) =
          IF S = {} THEN 0 ELSE f[First(S)] + SumFunctionOnSet(f, S \ {First(S)})
<1> DEFINE h(U) == CHOOSE g : Sums(f, U, g)
           r == S \ {First(S)}
<1>1. \A U \in SUBSET S : Sums(f, U, h(U)) BY SumsExist
<1>2. \A U \in SUBSET S : SumFunctionOnSet(f, U) = h(U)[U] BY SumIsChosen
<1> HIDE DEF h
<1>3. h(S)[S] = IF S = {} THEN 0 ELSE f[First(S)] + h(S)[r] BY <1>1 DEF Sums
<1>4. r \in SUBSET (S \intersect r) /\ r \in SUBSET S OBVIOUS
<1> HIDE DEF r
<1>5. h(S)[r] = h(r)[r] BY <1>1, <1>4, SumsAgree
<1> QED BY <1>2, <1>3, <1>4, <1>5 DEF r

(* A sum of integers is an integer. *)
LEMMA SumType ==
  ASSUME NEW S, IsFiniteSet(S), NEW f \in [S -> Int]
  PROVE \A T \in SUBSET S : SumFunctionOnSet(f, T) \in Int
<1> DEFINE Good == {T \in SUBSET S : SumFunctionOnSet(f, T) \in Int}
<1>1. ASSUME NEW T \in SUBSET S, \A U \in SUBSET T : U # T => U \in Good
      PROVE T \in Good
  <2>1. SumFunctionOnSet(f, T) =
          IF T = {} THEN 0 ELSE f[First(T)] + SumFunctionOnSet(f, T \ {First(T)})
    BY FS_Subset, SumStep
  <2>2. CASE T # {}
    <3>1. First(T) \in T BY <2>2 DEF First
    <3>2. T \ {First(T)} \in Good BY <1>1, <3>1
    <3> QED BY <2>1, <2>2, <3>1, <3>2
  <2> QED BY <2>1, <2>2
<1> HIDE DEF Good
<1>2. SUBSET S \subseteq Good BY <1>1, SubsetInduction
<1> QED BY <1>2 DEF Good

(* Where two functions differ in one value, their sums differ by as much.   *)
LEMMA SumChange ==
  ASSUME NEW S, IsFiniteSet(S), NEW f \in [S -> Int], NEW g \in [S -> Int], NEW o \in S,
         \A x \in S \ {o} : g[x] = f[x]
  PROVE SumFunctionOnSet(g, S) = SumFunctionOnSet(f, S) + g[o] - f[o]
<1> DEFINE d(T) == IF o \in T THEN g[o] - f[o] ELSE 0
           Good == {T \in SUBSET S : SumFunctionOnSet(g, T) = SumFunctionOnSet(f, T) + d(T)}
<1>1. ASSUME NEW T \in SUBSET S, \A U \in SUBSET T : U # T => U \in Good
      PROVE T \in Good
  <2> DEFINE a == First(T)
             r == T \ {a}
  <2>1. IsFiniteSet(T) /\ IsFiniteSet(r) BY FS_Subset
  <2>2. /\ SumFunctionOnSet(f, T) = IF T = {} THEN 0 ELSE f[a] + SumFunctionOnSet(f, r)
        /\ SumFunctionOnSet(g, T) = IF T = {} THEN 0 ELSE g[a] + SumFunctionOnSet(g, r)
    BY <2>1, SumStep
  <2>3. SumFunctionOnSet(f, r) \in Int
    <3>1. r \in SUBSET S OBVIOUS
    <3> QED BY <3>1, SumType
  <2>4. CASE T = {} BY <2>2, <2>4
  <2>5. CASE T # {}
    <3>1. a \in T BY <2>5 DEF First
    <3>2. r \in Good BY <1>1, <3>1
    <3>3. SumFunctionOnSet(g, r) = SumFunctionOnSet(f, r) + d(r) BY <3>2
    <3>4. a = o => g[a] = f[a] + (g[o] - f[o]) /\ d(r) = 0 /\ d(T) = g[o] - f[o] BY <3>1
    <3>5. a # o => g[a] = f[a] /\ d(r) = d(T) BY <3>1
    <3>6. f[a] \in Int /\ g[a] \in Int /\ d(r) \in Int /\ d(T) \in Int BY <3>1
    <3> HIDE DEF a, r, d
    <3>7. SumFunctionOnSet(g, T) = SumFunctionOnSet(f, T) + d(T)
      BY <2>2, <2>3, <2>5, <3>3, <3>4, <3>5, <3>6
    <3> QED BY <3>7
  <2> QED BY <2>4, <2>5
<1> HIDE DEF Good
<1>2. SUBSET S \subseteq Good BY <1>1, SubsetInduction
<1>3. S \in Good BY <1>2
<1> QED BY <1>3 DEF Good
(* A sum of nothing but zeros is zero. *)
LEMMA SumOfZeros ==
  ASSUME NEW S, IsFiniteSet(S), NEW f, \A x \in S : f[x] = 0
  PROVE SumFunctionOnSet(f, S) = 0
<1> DEFINE Good == {T \in SUBSET S : SumFunctionOnSet(f, T) = 0}
<1>1. ASSUME NEW T \in SUBSET S, \A U \in SUBSET T : U # T => U \in Good
      PROVE T \in Good
  <2>1. SumFunctionOnSet(f, T) =
          IF T = {} THEN 0 ELSE f[First(T)] + SumFunctionOnSet(f, T \ {First(T)})
    BY FS_Subset, SumStep
  <2>2. CASE T # {}
    <3>1. First(T) \in T BY <2>2 DEF First
    <3>2. T \ {First(T)} \in Good BY <1>1, <3>1
    <3> QED BY <2>1, <2>2, <3>1, <3>2
  <2> QED BY <2>1, <2>2
<1> HIDE DEF Good
<1>2. SUBSET S \subseteq Good BY <1>1, SubsetInduction
<1>3. S \in Good BY <1>2
<1> QED BY <1>3 DEF Good

----------------------------------------------------------------------------
(* The entries of the books, and how one transaction changes them.         *)

BooksInv == BooksBalance /\ BooksKept

(* What an order left on a balance is a whole number of kopecks.           *)
LEMMA EntryType ==
  ASSUME NEW row \in OrderRow, NEW v \in Users
  PROVE Entry(v, row) \in Int /\ OrderNet(row) \in Int /\ (row.status # "paid" => OrderNet(row) = 0)
<1>1. /\ row.amount \in Nat /\ row.bal \in Nat /\ row.refunded \in Nat
      /\ row.taken \in Nat /\ row.refkop \in Nat
  BY DEF OrderRow
<1>2. row.amount * Kop \in Nat BY <1>1, ProductNat, StoreAssumption
<1>3. OrderNet(row) \in Int BY <1>1, <1>2 DEF OrderNet
<1> QED BY <1>1, <1>3 DEF Entry, OrderNet

(* An order that was not paid has left nothing on any balance.             *)
LEMMA NoEntry ==
  ASSUME NEW row, row.status # "paid", Unbooked(row), NEW v
  PROVE Entry(v, row) = 0
BY DEF Entry, OrderNet, Unbooked

(* The step books order o: what it adds to the entries of o, and to no     *)
(* other, it adds to the balances.                                         *)
Books(o) ==
  /\ gifts' = gifts /\ \A x \in Orders \ {o} : orders'[x] = orders[x]
  /\ RowBooked(orders'[o])
  /\ \A v \in Users :
       users'[v].balance = users[v].balance + Entry(v, orders'[o]) - Entry(v, orders[o])

(* The step leaves the entries of every order as they are.                 *)
SameEntries ==
  \A x \in Orders : /\ RowBooked(orders'[x])
                    /\ \A v \in Users : Entry(v, orders'[x]) = Entry(v, orders[x])

DraftsKept == \A s \in Shoppers : shop'[s].pc # "idle" => Unbooked(shop'[s].draft)

Booked == BooksBalance' /\ \A x \in Orders : RowBooked(orders'[x])

(* Then the books add up after it. *)
LEMMA BooksStep ==
  ASSUME StoreTypeOK, StoreTypeOK', BooksInv, NEW o \in Orders, Books(o)
  PROVE Booked
<1>1. ASSUME NEW v \in Users
      PROVE users'[v].balance = gifts'[v] + SumFunction([x \in Orders |-> Entry(v, orders'[x])])
  <2> DEFINE f == [x \in Orders |-> Entry(v, orders[x])]
             g == [x \in Orders |-> Entry(v, orders'[x])]
  <2>1. f \in [Orders -> Int] /\ g \in [Orders -> Int] BY EntryType DEF StoreTypeOK
  <2>2. \A x \in Orders \ {o} : g[x] = f[x] BY DEF Books
  <2>3. /\ f[o] = Entry(v, orders[o]) /\ g[o] = Entry(v, orders'[o])
        /\ DOMAIN f = Orders /\ DOMAIN g = Orders
    OBVIOUS
  <2>4. users[v].balance = gifts[v] + SumFunction(f) BY DEF BooksInv, BooksBalance
  <2>5. gifts[v] \in Int /\ gifts'[v] = gifts[v] BY DEF StoreTypeOK, Books
  <2>6. users'[v].balance = users[v].balance + g[o] - f[o] BY <2>3 DEF Books
  <2> HIDE DEF f, g
  <2>7. SumFunctionOnSet(g, Orders) = SumFunctionOnSet(f, Orders) + g[o] - f[o]
    BY <2>1, <2>2, SumChange, LedgerAssumption
  <2>8. SumFunctionOnSet(f, Orders) \in Int BY <2>1, SumType, LedgerAssumption
  <2>9. f[o] \in Int /\ g[o] \in Int BY <2>1
  <2>10. SumFunction(f) = SumFunctionOnSet(f, Orders) /\ SumFunction(g) = SumFunctionOnSet(g, Orders)
    BY <2>3 DEF SumFunction
  <2>11. users'[v].balance = gifts'[v] + SumFunction(g)
    BY <2>4, <2>5, <2>6, <2>7, <2>8, <2>9, <2>10
  <2> QED BY <2>11 DEF g
<1>2. \A x \in Orders : RowBooked(orders'[x]) BY DEF Books, BooksInv, BooksKept
<1> QED BY <1>1, <1>2 DEF Booked, BooksBalance

(* They do when a step changes no entry, and a balance by what it gives.   *)
LEMMA QuietBooks ==
  ASSUME StoreTypeOK, StoreTypeOK', BooksInv, SameEntries,
         \A v \in Users : users'[v].balance - gifts'[v] = users[v].balance - gifts[v]
  PROVE Booked
<1>1. ASSUME NEW v \in Users
      PROVE users'[v].balance = gifts'[v] + SumFunction([x \in Orders |-> Entry(v, orders'[x])])
  <2> DEFINE f == [x \in Orders |-> Entry(v, orders[x])]
             g == [x \in Orders |-> Entry(v, orders'[x])]
  <2>1. f = g BY DEF SameEntries
  <2>2. f \in [Orders -> Int] /\ DOMAIN f = Orders BY EntryType DEF StoreTypeOK
  <2>3. users[v].balance = gifts[v] + SumFunction(f) BY DEF BooksInv, BooksBalance
  <2>4. /\ gifts[v] \in Int /\ gifts'[v] \in Int /\ users[v].balance \in Int
        /\ users'[v].balance \in Int
    BY DEF StoreTypeOK, UserRow
  <2> HIDE DEF f, g
  <2>5. SumFunction(f) \in Int BY <2>2, SumType, LedgerAssumption DEF SumFunction
  <2>6. users'[v].balance = gifts'[v] + SumFunction(g) BY <2>1, <2>3, <2>4, <2>5
  <2> QED BY <2>6 DEF g
<1> QED BY <1>1 DEF Booked, BooksBalance, SameEntries

----------------------------------------------------------------------------
(* Balances: what each write of the users table adds to them.              *)

(* A credit adds to one balance. *)
LEMMA CreditAdds ==
  ASSUME NEW us \in Table, NEW u \in Users, NEW kop \in Int, NEW v \in Users
  PROVE Credit(us, u, kop)[v].balance = us[v].balance + (IF v = u THEN kop ELSE 0)
<1>1. us[v] \in UserRow /\ us[u] \in UserRow BY DEF Table
<1>2. us[v].balance \in Nat BY <1>1 DEF UserRow
<1>3. Credit(us, u, kop) = [us EXCEPT ![u] = [us[u] EXCEPT !.balance = us[u].balance + kop]]
  BY <1>1 DEF Credit, Table, UserRow
<1>4. [us[u] EXCEPT !.balance = us[u].balance + kop].balance = us[u].balance + kop
  BY <1>1 DEF UserRow
<1> QED BY <1>2, <1>3, <1>4 DEF Table

(* A debit takes from one. *)
LEMMA DebitTakes ==
  ASSUME NEW us \in Table, NEW u \in Users, NEW kop \in Int, NEW v \in Users
  PROVE Debit(us, u, kop)[v].balance = us[v].balance - (IF v = u THEN kop ELSE 0)
<1>1. us[v] \in UserRow /\ us[u] \in UserRow BY DEF Table
<1>2. us[v].balance \in Nat BY <1>1 DEF UserRow
<1>3. Debit(us, u, kop) = [us EXCEPT ![u] = [us[u] EXCEPT !.balance = us[u].balance - kop]]
  BY <1>1 DEF Debit, Table, UserRow
<1>4. [us[u] EXCEPT !.balance = us[u].balance - kop].balance = us[u].balance - kop
  BY <1>1 DEF UserRow
<1> QED BY <1>2, <1>3, <1>4 DEF Table

(* Plans and terms are written without touching a balance ... *)
LEMMA ApplyUserPlanKeepsBalance ==
  ASSUME NEW us \in Table, NEW u \in Users, NEW w, NEW v \in Users
  PROVE ApplyUserPlan(us, u, w)[v].balance = us[v].balance
BY DEF ApplyUserPlan, Table, UserRow

(* ... add-ons as well ... *)
LEMMA ApplyAddonKeepsBalance ==
  ASSUME NEW us \in Table, NEW u \in Users, NEW a, NEW v \in Users
  PROVE ApplyAddon(us, u, a)[v].balance = us[v].balance
BY DEF ApplyAddon, Table, UserRow

(* ... so a delivery does not ... *)
LEMMA DeliverKeepsBalance ==
  ASSUME NEW us \in Table, NEW u \in Users, NEW sp \in SpecRow, NEW v \in Users
  PROVE Deliver(us, u, sp)[v].balance = us[v].balance
<1>1. CASE sp.what = "addon" BY <1>1, ApplyAddonKeepsBalance DEF Deliver
<1>2. CASE sp.what # "addon"
  <2> DEFINE w == ApplyUserPlan(us, u, sp.write)
  <2>1. w \in Table BY ApplyUserPlanType DEF SpecRow
  <2>2. w[v].balance = us[v].balance BY ApplyUserPlanKeepsBalance
  <2>3. Deliver(us, u, sp) = [w EXCEPT ![u].bonus = Most(@ - sp.bonus, 0),
                                       ![u].promo = IF @ = sp.promo THEN NoCode ELSE @]
    BY <1>2 DEF Deliver
  <2> HIDE DEF w
  <2>4. Deliver(us, u, sp)[v].balance = w[v].balance BY <2>1, <2>3 DEF Table, UserRow
  <2> QED BY <2>2, <2>4
<1> QED BY <1>1, <1>2

(* ... nor the end of a plan, a term shortened or an add-on taken back.    *)
LEMMA TakingBackKeepsBalance ==
  ASSUME users \in Table, NEW u \in Users, NEW v \in Users
  PROVE /\ EndPlan(users, u)[v].balance = users[v].balance
        /\ \A p, days : ShortenTerm(u, p, days)[v].balance = users[v].balance
        /\ \A o \in Orders : orders[o].user \in Users =>
             TakeBackAddon(users, o)[v].balance = users[v].balance
<1>1. EndPlan(users, u)[v].balance = users[v].balance
  <2>1. CASE FreePlan # NoPlan BY <2>1, ApplyUserPlanKeepsBalance DEF EndPlan
  <2>2. CASE FreePlan = NoPlan BY <2>2 DEF EndPlan, Table, UserRow
  <2> QED BY <2>1, <2>2
<1>2. \A p, days : ShortenTerm(u, p, days)[v].balance = users[v].balance
  BY DEF ShortenTerm, Table, UserRow
<1>3. ASSUME NEW o \in Orders, orders[o].user \in Users
      PROVE TakeBackAddon(users, o)[v].balance = users[v].balance
  BY <1>3 DEF TakeBackAddon, Table, UserRow
<1> QED BY <1>1, <1>2, <1>3

(* A reward in money is on the inviter's balance, one in days on none.     *)
LEMMA RewardAdds ==
  ASSUME NEW us \in Table, NEW o \in Orders, NEW price, NEW planBought, NEW v \in Users,
         orders \in [Orders -> OrderRow], orders[o].user \in Users, now \in Nat
  PROVE LET rw == RewardReferrer(us, o, price, planBought)
        IN rw.us[v].balance
             = us[v].balance + (IF v = Referrer[orders[o].user] THEN rw.kop ELSE 0)
<1> DEFINE r == Referrer[orders[o].user]
           rw == RewardReferrer(us, o, price, planBought)
<1>1. rw.kop \in Nat /\ (rw.kop > 0 => r \in Users) BY RewardType
<1>2. \/ rw.kop > 0 /\ rw.us = Credit(us, r, rw.kop)
      \/ ~(rw.kop > 0) /\ rw.us = us
      \/ ~(rw.kop > 0) /\ \E days : rw.us = [us EXCEPT ![r].expire = @ + days]
      \/ ~(rw.kop > 0) /\ \E days : rw.us = [us EXCEPT ![r].bonus = @ + days]
  BY DEF RewardReferrer
<1> HIDE DEF rw
<1>3. us[v].balance \in Nat BY DEF Table, UserRow
<1>4. rw.us[v].balance = us[v].balance + (IF v = r THEN rw.kop ELSE 0)
  <2>1. CASE rw.kop > 0 /\ rw.us = Credit(us, r, rw.kop)
    BY <1>1, <2>1, CreditAdds
  <2>2. CASE ~(rw.kop > 0) /\ rw.us = us BY <1>1, <1>3, <2>2
  <2>3. CASE ~(rw.kop > 0) /\ \E days : rw.us = [us EXCEPT ![r].expire = @ + days]
    <3>1. rw.us[v].balance = us[v].balance BY <2>3 DEF Table, UserRow
    <3> QED BY <1>1, <1>3, <2>3, <3>1
  <2>4. CASE ~(rw.kop > 0) /\ \E days : rw.us = [us EXCEPT ![r].bonus = @ + days]
    <3>1. rw.us[v].balance = us[v].balance BY <2>4 DEF Table, UserRow
    <3> QED BY <1>1, <1>3, <2>4, <3>1
  <2> QED BY <1>2, <2>1, <2>2, <2>3, <2>4
<1> QED BY <1>4 DEF rw

----------------------------------------------------------------------------
(* Transactions and the entries they leave. *)

(* What confirmOrderPaid asks for in money: the order's on the balance and *)
(* nothing else, or in the end its balance part off it; a plan that costs  *)
(* the balance nothing is always delivered.                                *)
LEMMA ConfirmSpecMoney ==
  ASSUME StoreTypeOK, NEW o \in Orders, orders[o].status # "none", Fits(orders[o]),
         NEW sp, sp = ConfirmSpec(o)
  PROVE \/ /\ sp.what = "nothing" /\ sp.credit = orders[o].amount * Kop
           /\ sp.asTopup \/ orders[o].kind = "topup"
        \/ /\ sp.what # "nothing" /\ ~sp.asTopup /\ orders[o].kind # "topup"
           /\ sp.credit - sp.debit = -orders[o].bal
           /\ \/ sp.credit = orders[o].amount * Kop
              \/ /\ sp.debit = 0 /\ sp.what = "plan"
                 /\ sp.write.reqPlan = NoPlan
<1> DEFINE row == orders[o]
           u == row.user
           money == row.amount * Kop
           cur == ActivePaidPlan(users, u)
           toBalance == [EmptySpec EXCEPT !.credit = money, !.asTopup = TRUE]
           moved == cur # NoPlan /\ (cur # row.plan \/ Period[cur] = 0)
           w == PlanWriteForDays(users, u, row.plan, cur = row.plan, TRUE,
                                 Period[row.plan] * row.periods, row.devices)
           bonus == IF w.expire > 0 THEN users[u].bonus ELSE 0
           viaBalance == [EmptySpec EXCEPT !.credit = money, !.debit = money + row.bal]
           change == ChangeWrite(users, u, row.plan, row.devices, row.expect,
                                 row.from, row.expect)
           addon == [NoAddon EXCEPT !.plan = row.plan, !.pack = row.pack,
                       !.devices = IF row.kind = "devices" THEN row.devices ELSE 0,
                       !.reqExpire = row.expect]
<1>1. row \in OrderRow BY DEF StoreTypeOK
<1>2. row.amount \in Nat /\ row.bal \in Nat /\ row.kind \in Kinds
  BY <1>1 DEF OrderRow
<1>3. money \in Nat BY <1>2, StoreAssumption, ProductNat
<1> HIDE DEF money
<1>4. money - (money + row.bal) = -row.bal BY <1>2, <1>3
<1>5. CASE row.kind = "topup"
  <2>1. sp = [EmptySpec EXCEPT !.credit = money] BY <1>5 DEF ConfirmSpec, money
  <2> QED BY <1>5, <2>1 DEF EmptySpec, money
<1>6. CASE row.kind = "change"
  <2>1. sp = [viaBalance EXCEPT !.what = "plan", !.write = change]
    BY <1>6 DEF ConfirmSpec, money
  <2> HIDE DEF change
  <2>2. sp.what = "plan" /\ ~sp.asTopup /\ sp.credit = money /\ sp.debit = money + row.bal
    BY <2>1 DEF EmptySpec
  <2> QED BY <1>4, <1>6, <2>2 DEF money
<1>7. CASE row.kind \in {"devices", "traffic"}
  <2>1. sp = [viaBalance EXCEPT !.what = "addon", !.addon = addon]
    BY <1>7 DEF ConfirmSpec, money
  <2> HIDE DEF addon
  <2>2. sp.what = "addon" /\ ~sp.asTopup /\ sp.credit = money /\ sp.debit = money + row.bal
    BY <2>1 DEF EmptySpec
  <2> QED BY <1>4, <1>7, <2>2 DEF money
<1>8. CASE row.kind = "plan"
  <2> DEFINE wb == [w EXCEPT !.expire = @ + bonus]
             credit == IF row.bal > 0 THEN money ELSE 0
             debit == IF row.bal > 0 THEN money + row.bal ELSE 0
             whole == [EmptySpec EXCEPT !.what = "plan", !.promo = row.promo,
                         !.write = wb, !.bonus = bonus,
                         !.days = Period[row.plan] * row.periods,
                         !.credit = credit, !.debit = debit]
  <2>1. sp = IF \/ WalletEnabled /\ (CodeTaken(o) \/ moved)
                \/ cur = row.plan /\ HeldDevices(users, u, row.plan) # row.devices
             THEN toBalance ELSE whole
    BY <1>8 DEF ConfirmSpec, money
  <2>2. wb.reqPlan = NoPlan BY DEF PlanWriteForDays
  <2> HIDE DEF wb, bonus
  <2>3. CASE sp = toBalance BY <2>3 DEF EmptySpec, money
  <2>4. CASE sp = whole
    <3>1. /\ sp.what = "plan" /\ ~sp.asTopup /\ sp.credit = credit /\ sp.debit = debit
          /\ sp.write.reqPlan = NoPlan
      BY <2>2, <2>4 DEF EmptySpec
    <3>2. credit - debit = -row.bal /\ (credit = money \/ debit = 0)
      BY <1>2, <1>3, <1>4
    <3> QED BY <1>8, <3>1, <3>2 DEF money
  <2> QED BY <2>1, <2>3, <2>4
<1> QED BY <1>2, <1>5, <1>6, <1>7, <1>8 DEF Kinds

(* A confirmation books its order: the money as a top-up or the balance    *)
(* part of what it delivered, and the inviter's share.                     *)
LEMMA ConfirmOrderBooks ==
  ASSUME StoreTypeOK, NEW o \in Orders, \A x \in Orders : RowFits(x), RowUnclaimed(o),
         RowBooked(orders[o]), orders[o].status # "none", Open(o),
         ConfirmOrder(o, ConfirmSpec(o)), now' = now
  PROVE Books(o)
<1> DEFINE sp == ConfirmSpec(o)
           u == orders[o].user
           money == orders[o].amount * Kop
           us1 == Credit(users, u, sp.credit)
           buys == sp.what # "nothing"
           ok == buys /\ Deliverable(us1, u, sp) /\ Covers(us1, u, sp.debit)
           us2 == IF ok THEN Deliver(Debit(us1, u, sp.debit), u, sp) ELSE us1
           price == IF sp.debit = 0 THEN orders[o].amount * Kop ELSE sp.debit
           rw == RewardReferrer(us2, o, price, orders[o].kind = "plan" /\ ok)
           kind == IF sp.asTopup \/ (buys /\ ~ok) THEN "topup" ELSE orders[o].kind
           row == [orders[o] EXCEPT !.status = "paid", !.paidAt = now, !.kind = kind,
                                    !.refkop = rw.kop, !.refdays = rw.days]
           net == IF kind = "topup" THEN money ELSE -orders[o].bal
           cost == IF ok THEN sp.debit ELSE 0
<1>1. /\ users \in Table /\ now \in Nat /\ orders \in [Orders -> OrderRow]
      /\ orders[o] \in OrderRow
  BY DEF StoreTypeOK, Table
<1>2. u \in Users /\ u # NoUser /\ Fits(orders[o])
  BY StoreAssumption DEF RowFits, Fits
<1>3. sp \in SpecRow BY <1>2, ConfirmSpecType
<1>4. /\ users' = rw.us /\ gifts' = gifts
      /\ orders' = [orders EXCEPT ![o] = row]
  BY DEF ConfirmOrder
<1>5. \/ /\ sp.what = "nothing" /\ sp.credit = money
         /\ sp.asTopup \/ orders[o].kind = "topup"
      \/ /\ sp.what # "nothing" /\ ~sp.asTopup /\ orders[o].kind # "topup"
         /\ sp.credit - sp.debit = -orders[o].bal
         /\ \/ sp.credit = money
            \/ /\ sp.debit = 0 /\ sp.what = "plan"
               /\ sp.write.reqPlan = NoPlan
  BY <1>2, ConfirmSpecMoney
<1> HIDE DEF sp
<1>6. sp.credit \in Nat /\ sp.debit \in Nat BY <1>3 DEF SpecRow
<1>7. us1 \in Table
  <2>1. users[u].balance \in Nat BY <1>1, <1>2 DEF Table, UserRow
  <2> QED BY <1>1, <1>2, <1>6, <2>1, CreditType
<1>8. us1[u].balance \in Nat BY <1>2, <1>7 DEF Table, UserRow
<1>9. money \in Nat /\ orders[o].bal \in Nat /\ orders[o].kind \in Kinds
  <2>1. orders[o].amount \in Nat /\ orders[o].bal \in Nat /\ orders[o].kind \in Kinds
    BY <1>1 DEF OrderRow
  <2> QED BY <2>1, StoreAssumption, ProductNat
<1>10. sp.credit - cost = net
  <2>1. CASE sp.what = "nothing" BY <1>5, <1>6, <2>1
  <2>2. CASE sp.what # "nothing" /\ ok BY <1>5, <2>2
  <2>3. CASE sp.what # "nothing" /\ ~ok
    <3>1. sp.credit = money BY <1>5, <1>8, <2>3 DEF Deliverable, Covers
    <3> QED BY <1>9, <2>3, <3>1
  <2> QED BY <2>1, <2>2, <2>3
<1>11. cost \in Nat /\ net \in Int BY <1>6, <1>9
<1>12. us2 \in Table /\ \A v \in Users : us2[v].balance = us1[v].balance - (IF v = u THEN cost ELSE 0)
  <2>1. CASE ok
    <3>1. Debit(us1, u, sp.debit) \in Table BY <1>2, <1>6, <1>7, <2>1, DebitType DEF Covers
    <3>2. \A v \in Users : Debit(us1, u, sp.debit)[v].balance
                             = us1[v].balance - (IF v = u THEN sp.debit ELSE 0)
      BY <1>2, <1>6, <1>7, DebitTakes
    <3>3. us2 = Deliver(Debit(us1, u, sp.debit), u, sp) BY <2>1
    <3> HIDE DEF us1, us2, ok
    <3> QED BY <1>2, <1>3, <2>1, <3>1, <3>2, <3>3, DeliverType, DeliverKeepsBalance
  <2>2. CASE ~ok
    <3>1. \A v \in Users : us1[v].balance \in Nat BY <1>7 DEF Table, UserRow
    <3>2. us2 = us1 /\ cost = 0 BY <2>2
    <3> QED BY <1>7, <3>1, <3>2
  <2> QED BY <2>1, <2>2
<1>13. \A v \in Users : us1[v].balance = users[v].balance + (IF v = u THEN sp.credit ELSE 0)
  BY <1>1, <1>2, <1>6, CreditAdds
<1> HIDE DEF us1, us2, ok, cost, net, money
<1>14. /\ rw.kop \in Nat
       /\ \A v \in Users : rw.us[v].balance
                             = us2[v].balance + (IF v = Referrer[u] THEN rw.kop ELSE 0)
  BY <1>1, <1>2, <1>12, RewardType, RewardAdds
<1> HIDE DEF rw, price
<1>15. /\ row.user = u /\ row.status = "paid" /\ row.kind = kind /\ row.refkop = rw.kop
       /\ row.amount = orders[o].amount /\ row.bal = orders[o].bal
       /\ row.refunded = orders[o].refunded /\ row.taken = orders[o].taken
       /\ row.source = orders[o].source
  BY <1>1 DEF OrderRow
<1>16. /\ orders[o].status # "paid" /\ orders[o].source = "none"
       /\ orders[o].refunded = 0 /\ orders[o].taken = 0 /\ orders[o].refkop = 0
  BY DEF Open, RowUnclaimed, RowBooked, Unbooked
<1> HIDE DEF kind, row
<1>17. orders'[o] = row /\ \A x \in Orders \ {o} : orders'[x] = orders[x] BY <1>1, <1>4
<1>18. RowBooked(orders'[o]) BY <1>15, <1>16, <1>17 DEF RowBooked
<1>19. OrderNet(row) = net BY <1>11, <1>15, <1>16 DEF OrderNet, net, money
<1>20. ASSUME NEW v \in Users
       PROVE users'[v].balance = users[v].balance + Entry(v, orders'[o]) - Entry(v, orders[o])
  <2>1. Entry(v, orders[o]) = 0 BY <1>16, NoEntry DEF Unbooked
  <2>2. Entry(v, row) = (IF v = u THEN net ELSE 0) + (IF v = Referrer[u] THEN rw.kop ELSE 0)
    BY <1>2, <1>15, <1>19 DEF Entry
  <2>3. users'[v].balance = us2[v].balance + (IF v = Referrer[u] THEN rw.kop ELSE 0)
    BY <1>4, <1>14
  <2>4. us2[v].balance = us1[v].balance - (IF v = u THEN cost ELSE 0) BY <1>12
  <2>5. us1[v].balance = users[v].balance + (IF v = u THEN sp.credit ELSE 0) BY <1>13
  <2>6. users[v].balance \in Nat BY <1>1 DEF Table, UserRow
  <2> QED BY <1>6, <1>10, <1>11, <1>14, <1>17, <2>1, <2>2, <2>3, <2>4, <2>5, <2>6
<1> QED BY <1>4, <1>17, <1>18, <1>20 DEF Books

(* A purchase from the balance books what it cost. *)
LEMMA BuyFromBalanceBooks ==
  ASSUME StoreTypeOK, NEW o \in Orders, RowBooked(orders[o]),
         NEW row \in OrderRow, Fits(row), row.kind # "topup", row.source = "none",
         Unbooked(row), NEW sp \in SpecRow, NEW at, BuyFromBalance(o, row, sp, at)
  PROVE Books(o)
<1> DEFINE u == row.user
           new == [row EXCEPT !.status = "paid", !.method = "balance", !.amount = 0,
                              !.bal = sp.debit, !.created = at, !.paidAt = at]
<1>1. /\ users \in Table /\ orders \in [Orders -> OrderRow] /\ u \in Users
      /\ sp.debit \in Nat /\ orders[o] \in OrderRow
  BY DEF StoreTypeOK, Table, Fits, SpecRow
<1>2. /\ orders[o].status = "none" /\ Covers(users, u, sp.debit) /\ gifts' = gifts
      /\ orders' = [orders EXCEPT ![o] = new]
      /\ users' = Deliver(Debit(users, u, sp.debit), u, sp)
  BY DEF BuyFromBalance
<1>3. /\ new.status = "paid" /\ new.source = "none" /\ new.kind = row.kind
      /\ new.user = u /\ new.bal = sp.debit
      /\ new.refkop = 0 /\ new.refunded = 0 /\ new.taken = 0
  BY DEF OrderRow, Unbooked
<1> HIDE DEF new
<1>4. orders'[o] = new /\ \A x \in Orders \ {o} : orders'[x] = orders[x] BY <1>1, <1>2
<1>5. RowBooked(orders'[o]) BY <1>3, <1>4 DEF RowBooked
<1>6. ASSUME NEW v \in Users
      PROVE users'[v].balance = users[v].balance + Entry(v, orders'[o]) - Entry(v, orders[o])
  <2>1. Entry(v, orders[o]) = 0 BY <1>2, NoEntry DEF RowBooked
  <2>2. Entry(v, new) = IF v = u THEN -sp.debit ELSE 0
    BY <1>1, <1>3 DEF Entry, OrderNet
  <2>3. Debit(users, u, sp.debit) \in Table BY <1>1, <1>2, DebitType DEF Covers
  <2>4. users'[v].balance = Debit(users, u, sp.debit)[v].balance
    BY <1>1, <1>2, <2>3, DeliverKeepsBalance
  <2>5. Debit(users, u, sp.debit)[v].balance
          = users[v].balance - (IF v = u THEN sp.debit ELSE 0)
    BY <1>1, DebitTakes
  <2>6. users[v].balance \in Nat BY <1>1 DEF Table, UserRow
  <2> QED BY <1>1, <1>4, <2>1, <2>2, <2>4, <2>5, <2>6
<1> QED BY <1>2, <1>4, <1>5, <1>6 DEF Books

(* A refund to the balance books what it gave. *)
LEMMA RefundToBalanceBooks ==
  ASSUME StoreTypeOK, NEW o \in Orders, RowFits(o), RowBooked(orders[o]),
         RefundToBalance(o), gifts' = gifts
  PROVE Books(o)
<1> DEFINE kop == orders[o].amount * Kop + orders[o].bal
           u == orders[o].user
           row == [orders[o] EXCEPT !.source = "balance", !.refunded = kop]
<1>1. /\ users \in Table /\ orders \in [Orders -> OrderRow] /\ orders[o] \in OrderRow
  BY DEF StoreTypeOK, Table
<1>2. /\ orders[o].status = "paid" /\ orders[o].kind = "plan"
      /\ orders[o].source = "none" /\ users' = Credit(users, u, kop)
  BY DEF RefundToBalance
<1>3. u \in Users /\ u # NoUser BY <1>2, StoreAssumption DEF RowFits, Fits
<1>4. orders' = [orders EXCEPT ![o] = row] BY <1>1 DEF RefundToBalance, OrderRow
<1>5. /\ orders[o].amount \in Nat /\ orders[o].bal \in Nat /\ orders[o].refkop \in Nat
      /\ orders[o].taken = 0 /\ orders[o].refunded = 0
  BY <1>1, <1>2 DEF OrderRow, RowBooked
<1>6. kop \in Nat BY <1>5, StoreAssumption, ProductNat
<1>7. /\ row.status = "paid" /\ row.source = "balance" /\ row.kind = "plan"
      /\ row.user = u /\ row.bal = orders[o].bal /\ row.refkop = orders[o].refkop
      /\ row.refunded = kop /\ row.taken = 0
  BY <1>1, <1>2, <1>5 DEF OrderRow
<1> HIDE DEF row, kop
<1>8. orders'[o] = row /\ \A x \in Orders \ {o} : orders'[x] = orders[x] BY <1>1, <1>4
<1>9. RowBooked(orders'[o]) BY <1>7, <1>8 DEF RowBooked
<1>10. ASSUME NEW v \in Users
       PROVE users'[v].balance = users[v].balance + Entry(v, orders'[o]) - Entry(v, orders[o])
  <2> DEFINE share == IF Referrer[u] = v THEN orders[o].refkop ELSE 0
  <2>1. Entry(v, orders[o]) = (IF u = v THEN -orders[o].bal ELSE 0) + share
    BY <1>2, <1>3, <1>5 DEF Entry, OrderNet
  <2>2. Entry(v, row) = (IF u = v THEN kop - orders[o].bal ELSE 0) + share
    BY <1>3, <1>5, <1>6, <1>7 DEF Entry, OrderNet
  <2>3. users'[v].balance = users[v].balance + (IF v = u THEN kop ELSE 0)
    BY <1>1, <1>2, <1>3, <1>6, CreditAdds
  <2>4. users[v].balance \in Nat /\ share \in Nat BY <1>1, <1>5 DEF Table, UserRow
  <2> HIDE DEF share
  <2> QED BY <1>5, <1>6, <1>8, <2>1, <2>2, <2>3, <2>4
<1> QED BY <1>8, <1>9, <1>10 DEF Books

(* A refund by the provider books what it took or gave back, and what the  *)
(* inviter lost of the share.                                              *)
LEMMA ProviderRefundBooks ==
  ASSUME StoreTypeOK, NEW o \in Orders, RowFits(o), RowBooked(orders[o]),
         Refundable(o), ProviderRefund(o), gifts' = gifts
  PROVE Books(o)
<1> DEFINE u == orders[o].user
           r == Referrer[u]
           money == orders[o].amount * Kop
           onBalance == orders[o].source = "balance" \/ orders[o].kind = "topup"
           taken == IF onBalance THEN DebitUpTo(users, u, money) ELSE 0
           us1 == IF onBalance THEN Debit(users, u, taken)
                  ELSE Credit(users, u, orders[o].bal)
           back == IF orders[o].refkop > 0
                   THEN DebitUpTo(us1, r, orders[o].refkop) ELSE 0
           us2 == IF back > 0 THEN Debit(us1, r, back) ELSE us1
           days == IF r = NoUser THEN 0 ELSE orders[o].refdays
           banked == IF days > 0 THEN Least(us2[r].bonus, days) ELSE 0
           us3 == IF days = 0 THEN us2
                  ELSE [us2 EXCEPT
                         ![r].bonus = @ - banked,
                         ![r].expire = IF days > banked /\ @ > now
                                       THEN Most(@ - (days - banked), now) ELSE @]
           given == IF onBalance THEN 0 ELSE orders[o].bal
           row == [orders[o] EXCEPT !.source = "provider", !.taken = taken,
                                    !.refunded = orders[o].refunded + given,
                                    !.refkop = orders[o].refkop - back]
<1>1. /\ users \in Table /\ orders \in [Orders -> OrderRow] /\ orders[o] \in OrderRow
  BY DEF StoreTypeOK, Table
<1>2. orders[o].status = "paid" /\ orders[o].source # "provider" BY DEF Refundable
<1>3. /\ u \in Users /\ u # NoUser /\ (orders[o].refkop > 0 => r \in Users)
  BY <1>2, StoreAssumption DEF RowFits, Fits
<1>4. users' = us3 /\ orders' = [orders EXCEPT ![o] = row] BY DEF ProviderRefund
<1>5. /\ orders[o].amount \in Nat /\ orders[o].bal \in Nat /\ orders[o].refkop \in Nat
      /\ orders[o].refunded \in Nat /\ orders[o].taken = 0
  BY <1>1, <1>2 DEF OrderRow, RowBooked
<1>6. money \in Nat BY <1>5, StoreAssumption, ProductNat
<1> HIDE DEF money
<1>7. taken \in Nat /\ (taken > 0 => onBalance) /\ users[u].balance >= taken
  <2>1. users[u].balance \in Nat BY <1>1, <1>3 DEF Table, UserRow
  <2> QED BY <1>1, <1>3, <1>6, <2>1, DebitUpToType
<1>8. given \in Nat BY <1>5
<1> HIDE DEF taken
<1>9. /\ us1 \in Table
      /\ \A v \in Users : us1[v].balance = users[v].balance + (IF v = u THEN given - taken ELSE 0)
  <2>1. \A v \in Users : users[v].balance \in Nat BY <1>1 DEF Table, UserRow
  <2>2. CASE onBalance
    <3>1. us1 = Debit(users, u, taken) /\ given = 0 BY <2>2
    <3> HIDE DEF us1, given, onBalance
    <3>2. us1 \in Table BY <1>1, <1>3, <1>7, <3>1, DebitType
    <3>3. \A v \in Users : us1[v].balance = users[v].balance - (IF v = u THEN taken ELSE 0)
      BY <1>1, <1>3, <1>7, <3>1, DebitTakes
    <3> QED BY <1>7, <2>1, <3>1, <3>2, <3>3
  <2>3. CASE ~onBalance
    <3>1. us1 = Credit(users, u, given) /\ taken = 0 BY <1>7, <2>3
    <3> HIDE DEF us1, given, onBalance
    <3>2. us1 \in Table BY <1>1, <1>3, <1>8, <2>1, <3>1, CreditType
    <3>3. \A v \in Users : us1[v].balance = users[v].balance + (IF v = u THEN given ELSE 0)
      BY <1>1, <1>3, <1>8, <3>1, CreditAdds
    <3> QED BY <1>8, <2>1, <3>1, <3>2, <3>3
  <2> QED BY <2>2, <2>3
<1> HIDE DEF us1
<1>10. back \in Nat /\ back <= orders[o].refkop
       /\ (back > 0 => r \in Users /\ us1[r].balance >= back)
  <2>1. CASE orders[o].refkop > 0 BY <1>3, <1>5, <1>9, <2>1, DebitUpToType
  <2>2. CASE ~(orders[o].refkop > 0) BY <1>5, <2>2
  <2> QED BY <2>1, <2>2
<1> HIDE DEF back
<1>11. /\ us2 \in Table
       /\ \A v \in Users : us2[v].balance = us1[v].balance - (IF v = r THEN back ELSE 0)
  <2>1. CASE back > 0
    <3>1. us2 = Debit(us1, r, back) BY <2>1
    <3> HIDE DEF us2
    <3> QED BY <1>9, <1>10, <2>1, <3>1, DebitType, DebitTakes
  <2>2. CASE ~(back > 0)
    <3>1. us2 = us1 /\ back = 0 BY <1>10, <2>2
    <3>2. \A v \in Users : us1[v].balance \in Nat BY <1>9 DEF Table, UserRow
    <3> QED BY <1>9, <3>1, <3>2
  <2> QED BY <2>1, <2>2
<1> HIDE DEF us2, banked, days
<1>12. \A v \in Users : us3[v].balance = us2[v].balance
  BY <1>11 DEF Table, UserRow
<1> HIDE DEF us3, onBalance
<1>13. /\ row.status = "paid" /\ row.source = "provider" /\ row.kind = orders[o].kind
       /\ row.user = u /\ row.bal = orders[o].bal /\ row.amount = orders[o].amount
       /\ row.refkop = orders[o].refkop - back
       /\ row.refunded = orders[o].refunded + given /\ row.taken = taken
  BY <1>1, <1>2 DEF OrderRow
<1> HIDE DEF row, given
<1>14. orders'[o] = row /\ \A x \in Orders \ {o} : orders'[x] = orders[x] BY <1>1, <1>4
<1>15. RowBooked(orders'[o]) BY <1>13, <1>14 DEF RowBooked
<1>16. OrderNet(row) = OrderNet(orders[o]) + given - taken
  BY <1>2, <1>5, <1>6, <1>7, <1>8, <1>13 DEF OrderNet, money
<1>17. ASSUME NEW v \in Users
       PROVE users'[v].balance = users[v].balance + Entry(v, orders'[o]) - Entry(v, orders[o])
  <2>1. OrderNet(orders[o]) \in Int BY <1>1, EntryType
  <2>2. Entry(v, orders[o]) = (IF u = v THEN OrderNet(orders[o]) ELSE 0)
                              + (IF r = v THEN orders[o].refkop ELSE 0)
    BY <1>3 DEF Entry
  <2>3. Entry(v, row) = (IF u = v THEN OrderNet(orders[o]) + given - taken ELSE 0)
                        + (IF r = v THEN orders[o].refkop - back ELSE 0)
    BY <1>3, <1>13, <1>16 DEF Entry
  <2>4. users'[v].balance = us1[v].balance - (IF v = r THEN back ELSE 0)
    BY <1>4, <1>11, <1>12
  <2>5. us1[v].balance = users[v].balance + (IF v = u THEN given - taken ELSE 0)
    BY <1>9
  <2>6. users[v].balance \in Nat BY <1>1 DEF Table, UserRow
  <2> QED BY <1>5, <1>7, <1>8, <1>10, <1>14, <2>1, <2>2, <2>3, <2>4, <2>5, <2>6
<1> QED BY <1>14, <1>15, <1>17 DEF Books

(* Cancelling, with a condition or without, touches only what is not paid. *)
LEMMA CancelBooks ==
  ASSUME StoreTypeOK, \A x \in Orders : RowBooked(orders[x]) /\ RowUnclaimed(x),
         \/ \E os : CancelIfPending(os)
         \/ \E o \in Orders : SetCancelled(o) /\ orders[o].status # "paid"
  PROVE SameEntries
<1> SUFFICES ASSUME NEW x \in Orders
             PROVE RowBooked(orders'[x]) /\ \A v \in Users : Entry(v, orders'[x]) = Entry(v, orders[x])
  BY DEF SameEntries
<1>1. orders[x] \in OrderRow BY DEF StoreTypeOK
<1>2. \/ orders'[x] = orders[x]
      \/ /\ orders[x].status # "paid"
         /\ orders'[x] = [orders[x] EXCEPT !.status = "cancelled"]
      \/ /\ orders[x].status # "paid"
         /\ orders'[x] = [orders[x] EXCEPT !.status = "cancelled", !.paidAt = 0]
  <2>1. CASE \E os : CancelIfPending(os) BY <2>1 DEF CancelIfPending
  <2>2. ASSUME NEW o \in Orders, SetCancelled(o), orders[o].status # "paid"
        PROVE \/ orders'[x] = orders[x]
              \/ /\ orders[x].status # "paid"
                 /\ orders'[x] = [orders[x] EXCEPT !.status = "cancelled", !.paidAt = 0]
    <3>1. orders' = [orders EXCEPT ![o] = [orders[o] EXCEPT !.status = "cancelled", !.paidAt = 0]]
      BY <2>2 DEF SetCancelled, StoreTypeOK, OrderRow
    <3> QED BY <2>2, <3>1 DEF StoreTypeOK
  <2> QED BY <2>1, <2>2
<1>3. CASE orders'[x] = orders[x] BY <1>3
<1>4. CASE /\ orders[x].status # "paid"
           /\ \/ orders'[x] = [orders[x] EXCEPT !.status = "cancelled"]
              \/ orders'[x] = [orders[x] EXCEPT !.status = "cancelled", !.paidAt = 0]
  <2>1. /\ orders'[x].status = "cancelled" /\ orders'[x].refkop = orders[x].refkop
        /\ orders'[x].refunded = orders[x].refunded /\ orders'[x].taken = orders[x].taken
    BY <1>1, <1>4 DEF OrderRow
  <2>2. Unbooked(orders[x]) BY <1>4 DEF RowBooked
  <2>3. Unbooked(orders'[x]) BY <2>1, <2>2 DEF Unbooked
  <2>4. RowBooked(orders'[x]) BY <2>3 DEF RowBooked, Unbooked
  <2> QED BY <1>4, <2>1, <2>2, <2>3, <2>4, NoEntry
<1> QED BY <1>2, <1>3, <1>4

----------------------------------------------------------------------------
(* The actions. *)

(* A step that books one order, or none, keeps the books.                  *)
LEMMA KeepsBooks ==
  ASSUME Inv, Inv', BooksInv, DraftsKept,
         \/ \E o \in Orders : Books(o)
         \/ /\ SameEntries
            /\ \A v \in Users : users'[v].balance - gifts'[v] = users[v].balance - gifts[v]
  PROVE BooksInv'
<1>1. StoreTypeOK /\ StoreTypeOK' BY DEF Inv, TypeOK
<1>2. Booked BY <1>1, BooksStep, QuietBooks
<1> QED BY <1>2 DEF Booked, BooksInv, BooksKept, DraftsKept

(* Orders that do not change keep their entries ...                        *)
LEMMA SameOrders == ASSUME BooksInv, UNCHANGED orders PROVE SameEntries
BY DEF BooksInv, BooksKept, SameEntries

(* ... and so do requests their drafts.                                    *)
LEMMA SameDrafts == ASSUME BooksInv, UNCHANGED shop PROVE DraftsKept
BY DEF BooksInv, BooksKept, DraftsKept

(* Balances that do not change, but for what they are given.               *)
LEMMA QuietStepBooks ==
  ASSUME Inv, Inv', BooksInv, DraftsKept, SameEntries, gifts' = gifts,
         \A v \in Users : users'[v].balance = users[v].balance
  PROVE BooksInv'
BY KeepsBooks

(* The order opened for a quote has booked nothing.                        *)
LEMMA DraftUnbooked == ASSUME NEW u, NEW p \in PurchaseRow, NEW q PROVE Unbooked(Draft(u, p, q))
<1>1. p.kind \in Kinds BY DEF PurchaseRow
<1> DEFINE plan == IF p.kind \in {"plan", "change"} THEN p.plan ELSE users[u].plan
           row == [Blank EXCEPT !.user = u, !.kind = p.kind, !.amount = q.money,
                     !.bal = q.bal, !.devices = q.devices, !.plan = plan]
<1>2. row.refkop = 0 /\ row.refunded = 0 /\ row.taken = 0 BY DEF Blank
<1>3. {"refkop", "refunded", "taken"} \subseteq DOMAIN row BY DEF Blank
<1>4. \/ Draft(u, p, q) = [row EXCEPT !.promo = q.promo, !.periods = p.periods]
      \/ Draft(u, p, q) = [row EXCEPT !.from = users[u].plan, !.expect = users[u].expire,
                                      !.before = HeldDevices(users, u, users[u].plan)]
      \/ Draft(u, p, q) = [row EXCEPT !.expect = users[u].expire]
      \/ Draft(u, p, q) = [row EXCEPT !.pack = PackSize]
      \/ Draft(u, p, q) = [row EXCEPT !.plan = NoPlan]
  BY <1>1 DEF Draft, Kinds
<1> HIDE DEF row
<1> QED BY <1>2, <1>3, <1>4 DEF Unbooked

(* Opening an order books nothing. *)
LEMMA ShoppingBooks ==
  ASSUME Inv, Inv', ClaimsApart, BooksInv, NEW s \in Shoppers, Shopping(s)
  PROVE BooksInv'
<1>1. /\ shop \in [Shoppers -> ShopRow] /\ shop[s] \in ShopRow
      /\ orders \in [Orders -> OrderRow] /\ StoreTypeOK
      /\ (\A x \in Orders : RowUnclaimed(x) /\ RowBooked(orders[x]))
      /\ users \in Table /\ now \in Nat
  BY ShopperRow DEF Inv, TypeOK, CheckoutTypeOK, StoreTypeOK, ShopRow, ClaimsApart,
                    BooksInv, BooksKept, Table
<1>2. gifts' = gifts /\ users' = users
  BY DEF Shopping, StartPurchase, ReuseOrder, InsertOrder, InsertRefused, CreateInvoice,
         CreateFails, LinkOrder, SupersedeOrders, db, tables, history
<1>3. ASSUME SameEntries, NEW v, shop' = [shop EXCEPT ![s] = v],
             v.pc # "idle" => Unbooked(v.draft)
      PROVE BooksInv'
  <2>1. DraftsKept BY <1>1, <1>3 DEF DraftsKept, BooksInv, BooksKept
  <2> QED BY <1>2, <1>3, <2>1, QuietStepBooks
<1>4. ASSUME SameEntries, NEW pc, shop[s].pc # "idle",
             shop' = [shop EXCEPT ![s] = [shop[s] EXCEPT !.pc = pc]]
      PROVE BooksInv'
  <2> DEFINE v == [shop[s] EXCEPT !.pc = pc]
  <2>1. v.draft = shop[s].draft BY <1>1 DEF ShopRow
  <2>2. shop' = [shop EXCEPT ![s] = v] BY <1>4
  <2>3. Unbooked(v.draft) BY <1>4, <2>1 DEF BooksInv, BooksKept
  <2> HIDE DEF v
  <2> QED BY <1>3, <1>4, <2>2, <2>3
<1>5. ASSUME SameEntries, shop' = [shop EXCEPT ![s] = IdleShop] PROVE BooksInv'
  BY <1>3, <1>5 DEF IdleShop
<1>6. CASE \E u \in Users, p \in Purchases, m \in Methods : StartPurchase(s, u, p, m)
  <2>1. PICK u \in Users, p \in Purchases, m \in Methods : StartPurchase(s, u, p, m)
    BY <1>6
  <2>2. UNCHANGED orders BY <2>1 DEF StartPurchase, db, tables
  <2>3. p \in PurchaseRow BY CheckoutAssumption
  <2> DEFINE d(q) == [Draft(u, p, q) EXCEPT !.method = m]
             v(q) == [pc |-> IF m = "external" THEN "insert" ELSE "reuse",
                      draft |-> d(q), order |-> NoOrder]
  <2>4. PICK q : q \in Quotes(u, p) /\ shop' = [shop EXCEPT ![s] = v(q)]
    BY <2>1 DEF StartPurchase
  <2>5. Draft(u, p, q) \in OrderRow BY <1>1, <2>3, <2>4, DraftType
  <2>6. Unbooked(Draft(u, p, q)) BY <2>3, DraftUnbooked
  <2>7. Unbooked(d(q)) BY <2>5, <2>6 DEF Unbooked, OrderRow
  <2>8. v(q).draft = d(q) OBVIOUS
  <2> HIDE DEF v, d
  <2>9. Unbooked(v(q).draft) BY <2>7, <2>8
  <2> QED BY <1>3, <2>2, <2>4, <2>9, SameOrders
<1>7. CASE ReuseOrder(s)
  <2>1. UNCHANGED orders /\ shop[s].pc = "reuse" BY <1>7 DEF ReuseOrder, db, tables
  <2>2. \/ shop' = [shop EXCEPT ![s] = IdleShop]
        \/ shop' = [shop EXCEPT ![s] = [shop[s] EXCEPT !.pc = "insert"]]
    BY <1>1, <1>7 DEF ReuseOrder
  <2> QED BY <1>4, <1>5, <2>1, <2>2, SameOrders
<1>8. CASE \E o \in Orders : InsertOrder(s, o)
  <2>1. PICK o \in Orders : InsertOrder(s, o) BY <1>8
  <2> DEFINE row == [shop[s].draft EXCEPT !.status = "pending", !.created = now]
             pc == CASE shop[s].draft.method = "provider" -> "create"
                     [] shop[s].draft.method = "external" -> "link"
                     [] shop[s].draft.method = "manual" -> "supersede"
             v == [shop[s] EXCEPT !.order = o, !.pc = pc]
  <2>2. /\ shop[s].pc = "insert" /\ orders[o].status = "none"
        /\ orders' = [orders EXCEPT ![o] = row]
        /\ shop' = [shop EXCEPT ![s].order = o, ![s].pc = pc]
    BY <2>1 DEF InsertOrder
  <2> HIDE DEF pc
  <2>3. shop' = [shop EXCEPT ![s] = v] /\ v.draft = shop[s].draft
    BY <1>1, <2>2 DEF ShopRow
  <2>4. Unbooked(shop[s].draft) BY <2>2 DEF BooksInv, BooksKept
  <2>5. shop[s].draft \in OrderRow BY <1>1 DEF ShopRow
  <2>6. row.status = "pending" /\ Unbooked(row) BY <2>4, <2>5 DEF Unbooked, OrderRow
  <2> HIDE DEF row, v
  <2>7. orders'[o] = row /\ \A x \in Orders \ {o} : orders'[x] = orders[x] BY <1>1, <2>2
  <2>8. Unbooked(orders[o]) BY <1>1, <2>2 DEF RowBooked
  <2>9. SameEntries
    <3>1. \A w \in Users : Entry(w, row) = 0 /\ Entry(w, orders[o]) = 0
      BY <2>2, <2>6, <2>8, NoEntry
    <3>2. RowBooked(row) BY <2>6 DEF RowBooked, Unbooked
    <3> QED BY <1>1, <2>7, <3>1, <3>2 DEF SameEntries
  <2> QED BY <1>3, <2>3, <2>4, <2>9
<1>9. CASE InsertRefused(s)
  BY <1>5, <1>9, SameOrders DEF InsertRefused, db, tables
<1>10. CASE CreateInvoice(s)
  <2>1. /\ UNCHANGED orders /\ shop[s].pc = "create"
        /\ shop' = [shop EXCEPT ![s] = [shop[s] EXCEPT !.pc = "link"]]
    BY <1>1, <1>10 DEF CreateInvoice, db, tables
  <2> QED BY <1>4, <2>1, SameOrders
<1>11. CASE CreateFails(s)
  <2>1. /\ SetCancelled(shop[s].order) /\ shop[s].pc = "create"
        /\ shop' = [shop EXCEPT ![s] = IdleShop]
    BY <1>11 DEF CreateFails
  <2>2. shop[s].order \in Orders /\ orders[shop[s].order].status # "paid"
    BY <2>1, MakingOrder DEF ClaimsApart, InvoiceApart
  <2>3. SameEntries BY <1>1, <2>1, <2>2, CancelBooks
  <2> QED BY <1>5, <2>1, <2>3
<1>12. CASE LinkOrder(s)
  <2> DEFINE o == shop[s].order
             row == [orders[o] EXCEPT !.linked = TRUE]
  <2>1. o \in Orders /\ shop[s].pc = "link" BY <1>12, MakingOrder DEF LinkOrder
  <2>2. /\ shop' = [shop EXCEPT ![s] = [shop[s] EXCEPT !.pc = "supersede"]]
        /\ orders' = [orders EXCEPT ![o] = row]
    BY <1>1, <1>12, <2>1 DEF LinkOrder
  <2>3. orders[o] \in OrderRow BY <1>1, <2>1
  <2>4. /\ row.status = orders[o].status /\ row.source = orders[o].source
        /\ row.user = orders[o].user /\ row.kind = orders[o].kind
        /\ row.amount = orders[o].amount /\ row.bal = orders[o].bal
        /\ row.refkop = orders[o].refkop /\ row.refunded = orders[o].refunded
        /\ row.taken = orders[o].taken
    BY <2>3 DEF OrderRow
  <2> HIDE DEF row
  <2>5. orders'[o] = row /\ \A x \in Orders \ {o} : orders'[x] = orders[x] BY <1>1, <2>1, <2>2
  <2>6. OrderNet(row) = OrderNet(orders[o]) BY <2>4 DEF OrderNet
  <2>7. \A w \in Users : Entry(w, row) = Entry(w, orders[o]) BY <2>4, <2>6 DEF Entry
  <2>8. RowBooked(row) BY <1>1, <2>1, <2>4 DEF RowBooked, Unbooked
  <2>9. SameEntries BY <1>1, <2>5, <2>7, <2>8 DEF SameEntries
  <2> QED BY <1>4, <2>1, <2>2, <2>9
<1>13. CASE SupersedeOrders(s)
  <2>1. /\ \E os : CancelIfPending(os)
        /\ shop' = [shop EXCEPT ![s] = IdleShop]
    BY <1>13 DEF SupersedeOrders
  <2>2. SameEntries BY <1>1, <2>1, CancelBooks
  <2> QED BY <1>5, <2>1, <2>2
<1> QED BY <1>6, <1>7, <1>8, <1>9, <1>10, <1>11, <1>12, <1>13 DEF Shopping

(* What a handler does to the balances is booked with its order.           *)
LEMMA HandlingBooks ==
  ASSUME Inv, Inv', ClaimsApart, BooksInv, NEW h \in Handlers, Handling(h)
  PROVE BooksInv'
<1> DEFINE o == hand[h].order
           u == orders[o].user
<1>1. hand[h].pc # "idle" /\ UNCHANGED shop
  BY DEF Handling, Confirm, CancelPending, RefundByProvider, TakeBackTerm, TakeBackDays,
         TakeBackPlan, TakeAddonBack, RevertChange
<1>2. /\ users \in Table /\ now \in Nat /\ StoreTypeOK
      /\ \A x \in Orders : RowFits(x) /\ RowUnclaimed(x) /\ RowBooked(orders[x])
  BY DEF Inv, TypeOK, StoreTypeOK, Table, WellFormed, ClaimsApart, BooksInv, BooksKept
<1>3. o \in Orders /\ orders[o].status # "none" /\ u \in Users
  BY <1>1, <1>2, HandlerRow DEF HandlerFits, RowFits, Fits
<1>4. DraftsKept BY <1>1, SameDrafts
<1>5. ASSUME UNCHANGED <<orders, gifts>>,
             \A v \in Users : users'[v].balance = users[v].balance
      PROVE BooksInv'
  BY <1>4, <1>5, SameOrders, QuietStepBooks
<1>6. ASSUME Books(o) PROVE BooksInv' BY <1>3, <1>4, <1>6, KeepsBooks
<1>7. CASE Confirm(h)
  <2>1. ConfirmOrder(o, ConfirmSpec(o)) /\ now' = now BY <1>7 DEF Confirm
  <2>2. CASE Open(o)
    <3>1. Books(o) BY <1>2, <1>3, <2>1, <2>2, ConfirmOrderBooks
    <3> QED BY <1>6, <3>1
  <2>3. CASE ~Open(o)
    <3>1. UNCHANGED <<orders, gifts, users>>
      BY <2>1, <2>3 DEF ConfirmOrder, tables, history
    <3> QED BY <1>5, <3>1
  <2> QED BY <2>2, <2>3
<1>8. CASE CancelPending(h)
  <2>1. (\E os : CancelIfPending(os)) /\ UNCHANGED <<users, gifts>>
    BY <1>8 DEF CancelPending, history
  <2>2. SameEntries BY <1>2, <2>1, CancelBooks
  <2> QED BY <1>4, <2>1, <2>2, QuietStepBooks
<1>9. CASE RefundByProvider(h)
  <2>1. UNCHANGED gifts BY <1>9 DEF RefundByProvider, history
  <2>2. CASE Refundable(o)
    <3>1. ProviderRefund(o) BY <1>9, <2>2 DEF RefundByProvider
    <3>2. Books(o) BY <1>2, <1>3, <2>1, <2>2, <3>1, ProviderRefundBooks
    <3> QED BY <1>6, <3>2
  <2>3. CASE ~Refundable(o)
    <3>1. UNCHANGED <<orders, users>> BY <1>9, <2>3 DEF RefundByProvider
    <3> QED BY <1>5, <2>1, <3>1
  <2> QED BY <2>2, <2>3
<1>10. CASE TakeBackTerm(h) BY <1>5, <1>10 DEF TakeBackTerm, db, tables, history
<1>11. CASE TakeBackDays(h)
  <2>1. UNCHANGED <<orders, gifts>> /\ \E p, days : users' = ShortenTerm(u, p, days)
    BY <1>11 DEF TakeBackDays
  <2> QED BY <1>2, <1>3, <1>5, <2>1, TakingBackKeepsBalance
<1>12. CASE TakeBackPlan(h)
  <2>1. UNCHANGED <<orders, gifts>> /\ users' = EndPlan(users, u)
    BY <1>12 DEF TakeBackPlan, history
  <2> QED BY <1>2, <1>3, <1>5, <2>1, TakingBackKeepsBalance
<1>13. CASE TakeAddonBack(h)
  <2>1. UNCHANGED <<orders, gifts>> /\ users' = TakeBackAddon(users, o)
    BY <1>13 DEF TakeAddonBack, history
  <2> QED BY <1>2, <1>3, <1>5, <2>1, TakingBackKeepsBalance
<1>14. CASE RevertChange(h)
  <2>1. /\ UNCHANGED <<orders, gifts>>
        /\ users' = users \/ \E w : users' = ApplyUserPlan(users, u, w)
    BY <1>14 DEF RevertChange, history
  <2> QED BY <1>2, <1>3, <1>5, <2>1, ApplyUserPlanKeepsBalance
<1> QED BY <1>7, <1>8, <1>9, <1>10, <1>11, <1>12, <1>13, <1>14 DEF Handling

(* Nobody else outside moves a balance but the operator, in a refund.      *)
LEMMA OutsideBooks ==
  ASSUME Inv, Inv', ClaimsApart, BooksInv,
         \/ \E o \in Orders, act \in {"pay", "odd", "void", "refund"} : ProviderStep(o, act)
         \/ \E h \in Hooks : Callback(h)
         \/ Polling
         \/ \E o \in Orders : OperatorConfirms(o) \/ OperatorCancels(o)
         \/ \E o \in Orders, cancelPlan \in BOOLEAN : OperatorRefunds(o, cancelPlan)
         \/ Tick
  PROVE BooksInv'
<1>1. /\ StoreTypeOK
      /\ \A x \in Orders : RowFits(x) /\ RowUnclaimed(x) /\ RowBooked(orders[x])
  BY DEF Inv, TypeOK, WellFormed, ClaimsApart, BooksInv, BooksKept
<1>2. UNCHANGED shop
  BY DEF ProviderStep, Callback, ReceiveCallback, Polling, PollList, PollAsk, PollFails,
         OperatorConfirms, OperatorCancels, OperatorRefunds, Tick, checkoutVars, threads
<1>3. DraftsKept BY <1>2, SameDrafts
<1>4. CASE \/ \E o \in Orders, act \in {"pay", "odd", "void", "refund"} : ProviderStep(o, act)
           \/ \E h \in Hooks : Callback(h)
           \/ Polling
           \/ \E o \in Orders : OperatorConfirms(o)
           \/ Tick
  <2>1. UNCHANGED <<orders, users, gifts>>
    BY <1>4 DEF ProviderStep, Callback, ReceiveCallback, Polling, PollList, PollAsk,
                PollFails, OperatorConfirms, Tick, db, tables, history
  <2> QED BY <1>3, <2>1, SameOrders, QuietStepBooks
<1>5. CASE \E o \in Orders : OperatorCancels(o)
  <2>1. (\E os : CancelIfPending(os)) /\ UNCHANGED <<users, gifts>>
    BY <1>5 DEF OperatorCancels, history
  <2>2. SameEntries BY <1>1, <2>1, CancelBooks
  <2> QED BY <1>3, <2>1, <2>2, QuietStepBooks
<1>6. ASSUME NEW o \in Orders, NEW cancelPlan \in BOOLEAN, OperatorRefunds(o, cancelPlan)
      PROVE BooksInv'
  <2>1. RefundToBalance(o) /\ gifts' = gifts BY <1>6 DEF OperatorRefunds, history
  <2>2. Books(o) BY <1>1, <2>1, RefundToBalanceBooks
  <2> QED BY <1>3, <2>2, KeepsBooks
<1> QED BY <1>4, <1>5, <1>6

(* Subscriptions book what they buy, and gifts as gifts.                   *)
LEMMA SubscriptionBooks ==
  ASSUME Inv, Inv', ClaimsApart, BooksInv, SubscriptionNext, UNCHANGED checkoutVars
  PROVE BooksInv'
<1>1. /\ users \in Table /\ orders \in [Orders -> OrderRow] /\ now \in Nat
      /\ StoreTypeOK /\ gifts \in [Users -> Int]
      /\ \A x \in Orders : RowFits(x) /\ RowUnclaimed(x) /\ RowBooked(orders[x])
  BY DEF Inv, TypeOK, StoreTypeOK, Table, WellFormed, ClaimsApart, BooksInv, BooksKept
<1>2. DraftsKept BY SameDrafts DEF checkoutVars, threads
<1>3. ASSUME UNCHANGED <<orders, gifts>>,
             \A v \in Users : users'[v].balance = users[v].balance
      PROVE BooksInv'
  BY <1>2, <1>3, SameOrders, QuietStepBooks
<1>4. ASSUME NEW o \in Orders, NEW row \in OrderRow, Fits(row), row.kind # "topup",
             row.source = "none", Unbooked(row), NEW sp \in SpecRow, NEW at,
             BuyFromBalance(o, row, sp, at)
      PROVE BooksInv'
  <2>1. Books(o) BY <1>1, <1>4, BuyFromBalanceBooks
  <2> QED BY <1>2, <2>1, KeepsBooks
<1>5. ASSUME NEW u \in Users, NEW kop \in Int, users' = Credit(users, u, kop),
             gifts' = [gifts EXCEPT ![u] = @ + kop], UNCHANGED orders
      PROVE BooksInv'
  <2>1. ASSUME NEW v \in Users
        PROVE users'[v].balance - gifts'[v] = users[v].balance - gifts[v]
    <3>1. users'[v].balance = users[v].balance + (IF v = u THEN kop ELSE 0)
      BY <1>1, <1>5, CreditAdds
    <3>2. gifts'[v] = gifts[v] + (IF v = u THEN kop ELSE 0) BY <1>1, <1>5
    <3>3. users[v].balance \in Nat /\ gifts[v] \in Int BY <1>1 DEF Table, UserRow
    <3> QED BY <3>1, <3>2, <3>3
  <2> QED BY <1>2, <1>5, <2>1, SameOrders, KeepsBooks
<1>6. ASSUME NEW t \in Taps, Tapping(t) PROVE BooksInv'
  <2>1. ASSUME NEW o \in Orders, TapBuys(t, o) PROVE BooksInv'
    <3> DEFINE u == tap[t].user
               p == tap[t].buy
    <3>1. u \in Users BY <2>1 DEF TapBuys, Inv, WellFormed, TapFits
    <3>2. p \in PurchaseRow /\ p.kind # "topup"
      BY BuyRow DEF Inv, TypeOK, SubscriptionTypeOK
    <3>3. PICK q \in Quotes(u, p) :
            BuyFromBalance(o, Draft(u, p, q), BalanceSpec(u, p, q), now)
      BY <2>1 DEF TapBuys
    <3> DEFINE d == Draft(u, p, q)
               sp == BalanceSpec(u, p, q)
    <3>4. d \in OrderRow /\ Fits(d) /\ d.kind # "topup" /\ d.source = "none"
      BY <1>1, <3>1, <3>2, DraftType
    <3>5. Unbooked(d) BY <3>2, DraftUnbooked
    <3>6. sp \in SpecRow BY <1>1, <3>1, <3>2, BalanceSpecType
    <3>7. BuyFromBalance(o, d, sp, now) BY <3>3
    <3> HIDE DEF d, sp
    <3> QED BY <1>4, <3>4, <3>5, <3>6, <3>7
  <2>2. CASE TapSupersedes(t)
    <3>1. (\E os : CancelIfPending(os)) /\ UNCHANGED <<users, gifts>>
      BY <2>2 DEF TapSupersedes, history
    <3>2. SameEntries BY <1>1, <3>1, CancelBooks
    <3> QED BY <1>2, <3>1, <3>2, QuietStepBooks
  <2>3. CASE AttachDiscount(t)
    <3>1. /\ UNCHANGED <<orders, gifts>>
          /\ users' = [users EXCEPT ![tap[t].user].promo = tap[t].code]
      BY <2>3 DEF AttachDiscount, history
    <3>2. \A v \in Users : users'[v].balance = users[v].balance
      BY <1>1, <3>1 DEF Table, UserRow
    <3> QED BY <1>3, <3>1, <3>2
  <2>4. ASSUME \/ \E u \in Users, p \in Buys : ShowOffer(t, u, p)
               \/ \E s \in Taps : TapTwice(t, s)
               \/ TapRefused(t)
               \/ \E u \in Users, c \in Codes : EnterDiscount(t, u, c)
        PROVE UNCHANGED <<orders, users, gifts>>
    BY <2>4 DEF ShowOffer, TapTwice, TapRefused, EnterDiscount, db, tables, history
  <2> QED BY <1>3, <1>6, <2>1, <2>2, <2>3, <2>4 DEF Tapping
<1>7. ASSUME NEW u \in Users, Account(u) PROVE BooksInv'
  <2>1. ASSUME NEW c \in Codes, RedeemBalance(u, c) PROVE BooksInv'
    <3> DEFINE kop == CodeValue[c] * Kop
    <3>1. kop \in Int BY PricingAssumption, StoreAssumption, ProductNat
    <3>2. /\ users' = Credit(users, u, kop) /\ UNCHANGED orders
          /\ gifts' = [gifts EXCEPT ![u] = @ + kop]
      BY <2>1 DEF RedeemBalance
    <3> HIDE DEF kop
    <3> QED BY <1>5, <3>1, <3>2
  <2>2. ASSUME NEW kop \in Adjusts, AdjustBalance(u, kop) PROVE BooksInv'
    BY <1>5, <2>2, SubscriptionAssumption DEF AdjustBalance
  <2>3. ASSUME \/ \E c \in Codes : RedeemDays(u, c)
               \/ \E p \in Plans, extend \in BOOLEAN : ApplyPlanToUser(u, p, extend)
        PROVE BooksInv'
    <3>1. UNCHANGED <<orders, gifts>> /\ \E w : users' = ApplyUserPlan(users, u, w)
      BY <2>3 DEF RedeemDays, ApplyPlanToUser, history
    <3> QED BY <1>1, <1>3, <3>1, ApplyUserPlanKeepsBalance
  <2>4. CASE CancelUserPlan(u)
    <3>1. UNCHANGED <<orders, gifts>> /\ users' = EndPlan(users, u)
      BY <2>4 DEF CancelUserPlan
    <3> QED BY <1>1, <1>3, <3>1, TakingBackKeepsBalance
  <2>5. ASSUME NEW on \in BOOLEAN, SetAutoRenew(u, on) PROVE BooksInv'
    <3>1. UNCHANGED <<orders, gifts>> /\ users' = [users EXCEPT ![u].auto = on]
      BY <2>5 DEF SetAutoRenew, history
    <3>2. \A v \in Users : users'[v].balance = users[v].balance
      BY <1>1, <3>1 DEF Table, UserRow
    <3> QED BY <1>3, <3>1, <3>2
  <2> QED BY <1>7, <2>1, <2>2, <2>3, <2>4, <2>5 DEF Account
<1>8. CASE EnforceBilling
  <2>1. ASSUME NEW u \in Users, NEW o \in Orders, RenewFromBalance(u, o) PROVE BooksInv'
    <3> DEFINE p == users[u].plan
               devices == HeldDevices(users, u, p)
               w == PlanWriteForDays(users, u, p, TRUE, TRUE, Period[p], devices)
               bonus == IF w.expire > 0 THEN users[u].bonus ELSE 0
               price == RenewalKop(users, u)
               row == [Blank EXCEPT !.user = u, !.plan = p, !.devices = devices]
               wb == [w EXCEPT !.expire = @ + bonus]
               sp == [EmptySpec EXCEPT !.what = "plan", !.debit = price,
                        !.bonus = bonus, !.days = Period[p], !.write = wb]
    <3>1. BuyFromBalance(o, row, sp, job.time) BY <2>1 DEF RenewFromBalance
    <3>2. p \in Plans /\ users[u] \in UserRow
      BY <1>1, <2>1 DEF RenewFromBalance, StillDue, Renewable, Table, UserRow
    <3>3. devices \in Nat BY <1>1, <3>2, HeldDevicesType
    <3>4. Period[p] \in Nat BY <3>2, StoreAssumption
    <3>5. price \in Nat
      <4>1. PeriodRub(p, devices) \in Nat BY <3>2, <3>3, PeriodRubNat
      <4> QED BY <4>1, StoreAssumption, ProductNat DEF RenewalKop
    <3>6. w \in WriteRow BY <1>1, <3>2, <3>3, <3>4, PlanWriteType
    <3>7. bonus \in Nat BY <3>2 DEF UserRow
    <3> HIDE DEF w, bonus, price, devices, p
    <3>8. wb \in WriteRow BY <3>6, <3>7 DEF WriteRow
    <3> HIDE DEF wb
    <3>9. sp \in SpecRow BY <3>4, <3>5, <3>7, <3>8, EmptySpecType DEF SpecRow
    <3>10. /\ row \in OrderRow /\ Fits(row) /\ row.kind # "topup" /\ row.source = "none"
           /\ Unbooked(row)
      <4>1. row \in OrderRow BY <3>2, <3>3, BlankType DEF OrderRow
      <4>2. /\ row.user = u /\ row.plan = p /\ row.kind = "plan" /\ row.source = "none"
            /\ row.refkop = 0 /\ row.refunded = 0 /\ row.taken = 0
        BY DEF Blank
      <4> HIDE DEF row
      <4> QED BY <3>2, <4>1, <4>2 DEF Fits, Unbooked
    <3> HIDE DEF row, sp
    <3> QED BY <1>4, <3>1, <3>9, <3>10
  <2>2. ASSUME NEW u \in Users, DowngradeExpired(u) PROVE BooksInv'
    <3>1. /\ UNCHANGED <<orders, gifts>>
          /\ users' = users \/ \E w : users' = ApplyUserPlan(users, u, w)
      BY <2>2 DEF DowngradeExpired, history
    <3> QED BY <1>1, <1>3, <3>1, ApplyUserPlanKeepsBalance
  <2>3. ASSUME \/ BeginPass \/ RenewalsDone \/ ListExpired \/ EndPass
               \/ \E u \in Users : RenewalSkipped(u)
        PROVE UNCHANGED <<orders, users, gifts>>
    BY <2>3 DEF BeginPass, RenewalsDone, ListExpired, EndPass, RenewalSkipped,
                db, tables, history
  <2> QED BY <1>3, <1>8, <2>1, <2>2, <2>3 DEF EnforceBilling
<1> QED BY <1>6, <1>7, <1>8 DEF SubscriptionNext

(* At the start there are the balances the operator left, and no orders.   *)
LEMMA InitBooks == ASSUME Init PROVE BooksInv
<1>1. /\ orders = [o \in Orders |-> Blank] /\ users = StartUsers
      /\ gifts = [u \in Users |-> StartUsers[u].balance]
      /\ shop = [s \in Shoppers |-> IdleShop]
  BY DEF Init, StoreInit, CheckoutInit
<1>2. Blank.status = "none" /\ Blank.source = "none" /\ Unbooked(Blank)
  BY DEF Blank, Unbooked
<1>3. BooksKept
  BY <1>1, <1>2 DEF BooksKept, RowBooked, Unbooked, IdleShop
<1>4. ASSUME NEW u \in Users
      PROVE users[u].balance = gifts[u] + SumFunction([o \in Orders |-> Entry(u, orders[o])])
  <2> DEFINE f == [o \in Orders |-> Entry(u, orders[o])]
  <2>1. Entry(u, Blank) = 0 BY <1>2, NoEntry
  <2>2. (\A x \in Orders : f[x] = 0) /\ DOMAIN f = Orders BY <1>1, <2>1
  <2> HIDE DEF f
  <2>3. SumFunction(f) = 0 BY <2>2, SumOfZeros, LedgerAssumption DEF SumFunction
  <2>4. users[u].balance \in Nat BY <1>1, BillingAssumption DEF UserRow
  <2>5. users[u].balance = gifts[u] + SumFunction(f) BY <1>1, <2>3, <2>4
  <2> QED BY <2>5 DEF f
<1> QED BY <1>3, <1>4 DEF BooksInv, BooksBalance

(* Every step keeps the books. *)
LEMMA StepBooks ==
  ASSUME Inv, Inv', ClaimsApart, BooksInv, [Next]_vars
  PROVE BooksInv'
<1>1. CASE CheckoutNext /\ UNCHANGED subscriptionVars
  BY <1>1, ShoppingBooks, HandlingBooks, OutsideBooks DEF CheckoutNext
<1>2. CASE SubscriptionNext /\ UNCHANGED checkoutVars BY <1>2, SubscriptionBooks
<1>3. CASE Crash
  <2>1. UNCHANGED <<orders, users, gifts>>
    BY <1>3 DEF Crash, CheckoutCrash, db, tables, history
  <2>2. DraftsKept BY <1>3 DEF Crash, CheckoutCrash, DraftsKept, IdleShop
  <2> QED BY <2>1, <2>2, SameOrders, QuietStepBooks
<1>4. CASE UNCHANGED vars
  <2>1. UNCHANGED <<orders, users, gifts, shop>>
    BY <1>4 DEF vars, db, tables, history, checkoutVars, threads
  <2> QED BY <2>1, SameOrders, SameDrafts, QuietStepBooks
<1> QED BY <1>1, <1>2, <1>3, <1>4 DEF Next

(* Whatever is bought, delivered, turned into a top-up, refunded by the     *)
(* operator, the provider or both, and shared with the inviter, in any     *)
(* order and from any thread, each balance is the sum of what the orders   *)
(* booked on it and of its gifts: the balance and the ledger, which        *)
(* wallet.go writes in one transaction, never part.  The operator must     *)
(* leave alone an order whose invoice is being made, or its cancellation   *)
(* could take a paid order out of the books.                               *)
THEOREM BooksAlwaysBalance == ASSUME ~ConfirmEarly PROVE Spec => []BooksBalance
<1>1. Init => BooksInv BY InitBooks
<1>2. Inv /\ Inv' /\ ClaimsApart /\ BooksInv /\ [Next]_vars => BooksInv'
  BY StepBooks
<1>3. BooksInv => BooksBalance BY DEF BooksInv
<1> QED BY <1>1, <1>2, <1>3, AlwaysInv, AlwaysApart, PTL DEF Spec
=============================================================================
