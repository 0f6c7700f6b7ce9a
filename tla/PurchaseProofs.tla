----------------------------- MODULE PurchaseProofs -----------------------------
(***************************************************************************)
(* What Billing promises to who pays, for every number of users, orders,   *)
(* codes and threads and every price list: a code discounts one plan per   *)
(* user, serves one open checkout of a user at a time and goes over its    *)
(* limit by money alone; a renewal is charged when it is due; time that was *)
(* paid for is not cut; a tap delivered twice buys once then and there.     *)
(***************************************************************************)
EXTENDS BillingProofs

OnTheWay(s) == shop[s].pc \in {"create", "link", "supersede"}

(* The order of a request on its way is the one it drafted.                *)
OwnOrder(s) ==
  OnTheWay(s) => /\ orders[shop[s].order].user = shop[s].draft.user
                 /\ orders[shop[s].order].promo = shop[s].draft.promo
                 /\ orders[shop[s].order].method # "balance"

(* A discounted plan that was paid has taken its use of the code.          *)
Sold(o) ==
  orders[o].status = "paid" /\ orders[o].kind = "plan" /\ orders[o].promo # NoCode
    => <<orders[o].promo, orders[o].user>> \in promoUses

(* Who waits for money is not paid from the balance.                       *)
FromOutside(o) == Open(o) => orders[o].method # "balance"

Discounts ==
  /\ \A s \in Shoppers : OwnOrder(s)
  /\ \A o \in Orders : Sold(o) /\ FromOutside(o)

----------------------------------------------------------------------------
(* The kinds of steps, as far as codes and orders tell them apart.          *)

(* An order that is neither opened nor paid by the step.                   *)
Stays(o) ==
  /\ orders[o].status = "none" <=> orders'[o].status = "none"
  /\ orders'[o].status # "none" =>
       /\ orders'[o].user = orders[o].user /\ orders'[o].promo = orders[o].promo
       /\ orders'[o].method = orders[o].method /\ orders'[o].kind = orders[o].kind
  /\ orders'[o].status \in {"pending", "paid"} => orders'[o].status = orders[o].status
  /\ orders[o].status = "paid" /\ orders[o].method = "balance" =>
       orders'[o].status = "paid"

ShopStays(s) ==
  OnTheWay(s)' => /\ OnTheWay(s)
                  /\ shop'[s].order = shop[s].order /\ shop'[s].draft = shop[s].draft

(* Uses are only ever added, over the limit of the code by money alone.     *)
UsesKept ==
  /\ promoUses \subseteq promoUses'
  /\ \A c \in Codes : uses'[c] > uses[c] => CodeMax[c] = 0 \/ uses[c] < CodeMax[c]

QuietStep == /\ \A o \in Orders : Stays(o)
             /\ \A s \in Shoppers : ShopStays(s)
             /\ UsesKept

(* A confirmation of order o. *)
ClaimStep(o) ==
  /\ orders[o].status # "none"
  /\ ConfirmOrder(o, ConfirmSpec(o))
  /\ UNCHANGED <<now, shop>>

(* A purchase from the balance recorded as order o. *)
BuyAs(o, row, sp, at) ==
  /\ BuyFromBalance(o, row, sp, at)
  /\ row.user \in Users /\ sp.promo \in Codes \cup {NoCode}
  /\ row.kind = "plan" => sp.promo = row.promo

BuyStep(o) ==
  /\ \E sp : \E row \in OrderRow, at \in Nat : BuyAs(o, row, sp, at)
  /\ UNCHANGED shop

OpenStep(o) == \E s \in Shoppers : InsertOrder(s, o)

(* A request that is done holds no order another is open next to.          *)
Released(s) ==
  OnTheWay(s) =>
    \/ OnTheWay(s)' /\ shop'[s].order = shop[s].order
    \/ LET o == shop[s].order
       IN \A x \in Orders \ {o} :
            ~ /\ orders'[x].status = "pending" /\ orders'[o].status = "pending"
              /\ orders[x].user = orders[o].user
              /\ orders[x].promo = orders[o].promo /\ orders[o].promo # NoCode

StepKind ==
  \/ QuietStep /\ ("crash" \notin MayFail => \A s \in Shoppers : Released(s))
  \/ \E o \in Orders : ClaimStep(o) \/ BuyStep(o) \/ OpenStep(o)

----------------------------------------------------------------------------
(* What the transactions are. *)

(* Rows that do not change stay.                                           *)
LEMMA AllStay == ASSUME UNCHANGED orders PROVE \A o \in Orders : Stays(o)
BY DEF Stays

(* Nobody takes a use.                                                     *)
LEMMA SameUses == ASSUME StoreTypeOK, UNCHANGED <<promoUses, uses>> PROVE UsesKept
BY DEF UsesKept, StoreTypeOK

(* A cancelled order stays what it was. *)
LEMMA CancelStays ==
  ASSUME StoreTypeOK, NEW os, CancelIfPending(os)
  PROVE \A o \in Orders : Stays(o)
<1>1. TAKE o \in Orders
<1>2. orders[o] \in OrderRow BY DEF StoreTypeOK
<1>3. \/ orders'[o] = orders[o]
      \/ /\ orders'[o] = [orders[o] EXCEPT !.status = "cancelled"]
         /\ orders[o].status = "pending"
  BY DEF CancelIfPending
<1> QED BY <1>2, <1>3 DEF Stays, OrderRow

(* The unconditional cancellation meets no purchase from the balance.      *)
LEMMA SetCancelledStays ==
  ASSUME StoreTypeOK, NEW x \in Orders, orders[x].status # "none",
         orders[x].method # "balance", SetCancelled(x)
  PROVE (\A o \in Orders : Stays(o)) /\ orders'[x].status = "cancelled"
<1>1. orders \in [Orders -> OrderRow] BY DEF StoreTypeOK
<1> DEFINE row == [orders[x] EXCEPT !.status = "cancelled", !.paidAt = 0]
<1>2. orders' = [orders EXCEPT ![x] = row] BY <1>1 DEF SetCancelled, OrderRow
<1>3. orders[x] \in OrderRow BY <1>1
<1>4. /\ row.status = "cancelled" /\ row.user = orders[x].user
      /\ row.promo = orders[x].promo /\ row.method = orders[x].method
      /\ row.kind = orders[x].kind
  BY <1>3 DEF OrderRow
<1> HIDE DEF row
<1>5. orders'[x] = row /\ \A o \in Orders \ {x} : orders'[o] = orders[o]
  BY <1>1, <1>2
<1>6. Stays(x) BY <1>4, <1>5 DEF Stays
<1>7. \A o \in Orders \ {x} : Stays(o) BY <1>5 DEF Stays
<1> QED BY <1>4, <1>5, <1>6, <1>7

(* A row of which only what no promise is about changes.                   *)
LEMMA RowStays ==
  ASSUME StoreTypeOK, NEW x \in Orders, NEW row,
         orders' = [orders EXCEPT ![x] = row],
         row.status = orders[x].status, row.user = orders[x].user,
         row.promo = orders[x].promo, row.method = orders[x].method,
         row.kind = orders[x].kind
  PROVE \A o \in Orders : Stays(o)
<1>1. orders'[x] = row /\ \A o \in Orders \ {x} : orders'[o] = orders[o]
  BY DEF StoreTypeOK
<1> QED BY <1>1 DEF Stays

(* A use taken while one is left stays within the limit.                   *)
LEMMA TakeUseKept ==
  ASSUME StoreTypeOK, NEW c \in Codes \cup {NoCode}, NEW u \in Users, TakeUse(c, u),
         c # NoCode => CodeLeft(c, u)
  PROVE UsesKept
BY DEF StoreTypeOK, UsesKept, TakeUse, CodeLeft

(* The code a paid plan order delivers is its own, and it was still free.   *)
LEMMA ConfirmSpecCode ==
  ASSUME NEW o \in Orders, orders[o].kind \in Kinds, NEW sp, sp = ConfirmSpec(o)
  PROVE /\ orders[o].kind # "plan" => sp.promo = NoCode
        /\ orders[o].kind = "plan" =>
             \/ sp.asTopup /\ sp.promo = NoCode
             \/ /\ ~sp.asTopup /\ sp.what = "plan" /\ sp.promo = orders[o].promo
                /\ ~(WalletEnabled /\ CodeTaken(o))
<1> DEFINE row == orders[o]
           u == row.user
           money == row.amount * Kop
           cur == ActivePaidPlan(users, u)
           moved == cur # NoPlan /\ (cur # row.plan \/ Period[cur] = 0)
           w == PlanWriteForDays(users, u, row.plan, cur = row.plan, TRUE,
                                 Period[row.plan] * row.periods, row.devices)
           bonus == IF w.expire > 0 THEN users[u].bonus ELSE 0
           days == Period[row.plan] * row.periods
           wb == [w EXCEPT !.expire = @ + bonus]
           credit == IF row.bal > 0 THEN money ELSE 0
           debit == IF row.bal > 0 THEN money + row.bal ELSE 0
           change == ChangeWrite(users, u, row.plan, row.devices, row.expect,
                                 row.from, row.expect)
           addon == [NoAddon EXCEPT !.plan = row.plan, !.pack = row.pack,
                       !.devices = IF row.kind = "devices" THEN row.devices ELSE 0,
                       !.reqExpire = row.expect]
<1>1. CASE row.kind = "topup"
  <2>1. sp = [EmptySpec EXCEPT !.credit = money] BY <1>1 DEF ConfirmSpec
  <2> QED BY <1>1, <2>1 DEF EmptySpec
<1>2. CASE row.kind = "change"
  <2>1. sp = [EmptySpec EXCEPT !.credit = money, !.debit = money + row.bal,
                               !.what = "plan", !.write = change]
    BY <1>2 DEF ConfirmSpec
  <2> HIDE DEF change
  <2> QED BY <1>2, <2>1 DEF EmptySpec
<1>3. CASE row.kind \in {"devices", "traffic"}
  <2>1. sp = [EmptySpec EXCEPT !.credit = money, !.debit = money + row.bal,
                               !.what = "addon", !.addon = addon]
    BY <1>3 DEF ConfirmSpec
  <2> HIDE DEF addon
  <2> QED BY <1>3, <2>1 DEF EmptySpec
<1>4. CASE row.kind = "plan"
  <2>1. sp = IF \/ WalletEnabled /\ (CodeTaken(o) \/ moved)
                \/ cur = row.plan /\ HeldDevices(users, u, row.plan) # row.devices
             THEN [EmptySpec EXCEPT !.credit = money, !.asTopup = TRUE]
             ELSE [EmptySpec EXCEPT !.what = "plan", !.promo = row.promo,
                     !.write = wb, !.bonus = bonus, !.days = days,
                     !.credit = credit, !.debit = debit]
    BY <1>4 DEF ConfirmSpec
  <2> HIDE DEF wb, bonus, days, credit, debit, cur, moved
  <2> QED BY <1>4, <2>1 DEF EmptySpec
<1> QED BY <1>1, <1>2, <1>3, <1>4 DEF Kinds

(* A claim pays one order and takes its use of the code, if it delivers.    *)
LEMMA ClaimEffect ==
  ASSUME Inv, NEW o \in Orders, ClaimStep(o)
  PROVE /\ \A x \in Orders \ {o} : orders'[x] = orders[x]
        /\ orders'[o].status \in {"paid", orders[o].status}
        /\ orders'[o].user = orders[o].user /\ orders'[o].promo = orders[o].promo
        /\ orders'[o].method = orders[o].method
        /\ promoUses \subseteq promoUses'
        /\ Open(o) => orders'[o].status = "paid"
        /\ ~Open(o) => UNCHANGED <<orders, promoUses, uses>>
        /\ Open(o) /\ orders'[o].kind = "plan" /\ orders[o].promo # NoCode =>
             /\ <<orders[o].promo, orders[o].user>> \in promoUses'
             /\ WalletEnabled => <<orders[o].promo, orders[o].user>> \notin promoUses
        /\ \A c \in Codes : uses'[c] > uses[c] =>
             Open(o) /\ orders[o].promo = c
<1> DEFINE sp == ConfirmSpec(o)
           u == orders[o].user
           us1 == Credit(users, u, sp.credit)
           buys == sp.what # "nothing"
           ok == buys /\ Deliverable(us1, u, sp) /\ Covers(us1, u, sp.debit)
           us2 == IF ok THEN Deliver(Debit(us1, u, sp.debit), u, sp) ELSE us1
           price == IF sp.debit = 0 THEN orders[o].amount * Kop ELSE sp.debit
           rw == RewardReferrer(us2, o, price, orders[o].kind = "plan" /\ ok)
           kind == IF sp.asTopup \/ (buys /\ ~ok) THEN "topup" ELSE orders[o].kind
           kop == rw.kop
           days == rw.days
           row == [orders[o] EXCEPT !.status = "paid", !.paidAt = now, !.kind = kind,
                                    !.refkop = kop, !.refdays = days]
<1>1. /\ StoreTypeOK /\ orders \in [Orders -> OrderRow] /\ orders[o] \in OrderRow
      /\ uses \in [Codes -> Nat] /\ promoUses \subseteq Codes \X Users
      /\ orders[o].kind \in Kinds /\ orders[o].promo \in Codes \cup {NoCode}
  BY DEF Inv, TypeOK, StoreTypeOK, OrderRow
<1>2. CASE ~Open(o)
  <2>1. UNCHANGED <<orders, promoUses, uses>> BY <1>2 DEF ClaimStep, ConfirmOrder, tables
  <2> QED BY <1>1, <1>2, <2>1
<1>3. CASE Open(o)
  <2>1. ConfirmOrder(o, sp) BY DEF ClaimStep
  <2>2. /\ orders[o].kind # "plan" => sp.promo = NoCode
        /\ orders[o].kind = "plan" =>
             \/ sp.asTopup /\ sp.promo = NoCode
             \/ /\ ~sp.asTopup /\ sp.what = "plan" /\ sp.promo = orders[o].promo
                /\ ~(WalletEnabled /\ CodeTaken(o))
    BY <1>1, ConfirmSpecCode
  <2> HIDE DEF sp
  <2>3. /\ orders' = [orders EXCEPT ![o] = row]
        /\ IF ok /\ sp.what = "plan" THEN TakeUse(sp.promo, u)
           ELSE UNCHANGED <<promoUses, uses>>
    BY <1>3, <2>1 DEF ConfirmOrder
  <2> HIDE DEF ok, buys, kop, days
  <2>4. /\ row.status = "paid" /\ row.user = u /\ row.promo = orders[o].promo
        /\ row.method = orders[o].method /\ row.kind = kind
    BY <1>1 DEF OrderRow
  <2> HIDE DEF row
  <2>5. orders'[o] = row /\ \A x \in Orders \ {o} : orders'[x] = orders[x]
    BY <1>1, <2>3
  <2>6. promoUses \subseteq promoUses' BY <2>3 DEF TakeUse
  <2>7. ASSUME kind = "plan", orders[o].promo # NoCode
        PROVE /\ <<orders[o].promo, u>> \in promoUses'
              /\ WalletEnabled => <<orders[o].promo, u>> \notin promoUses
    <3>1. /\ orders[o].kind = "plan" /\ ~sp.asTopup /\ ~(buys /\ ~ok)
          /\ sp.what = "plan" /\ sp.promo = orders[o].promo
          /\ ~(WalletEnabled /\ CodeTaken(o))
      BY <2>2, <2>7
    <3>2. ok BY <3>1 DEF buys
    <3>3. TakeUse(sp.promo, u) BY <2>3, <3>1, <3>2
    <3> QED BY <2>7, <3>1, <3>3 DEF TakeUse, CodeTaken
  <2>8. ASSUME NEW c \in Codes, uses'[c] > uses[c] PROVE orders[o].promo = c
    <3>1. TakeUse(sp.promo, u) /\ ok /\ sp.what = "plan" BY <1>1, <2>3, <2>8
    <3>2. sp.promo = c BY <1>1, <2>8, <3>1 DEF TakeUse
    <3>3. orders[o].kind = "plan" BY <2>2, <3>2, StoreAssumption
    <3> QED BY <2>2, <3>2, <3>3, StoreAssumption
  <2> QED BY <1>3, <2>4, <2>5, <2>6, <2>7, <2>8
<1> QED BY <1>2, <1>3

(* A purchase from the balance takes a use there is.                       *)
LEMMA BuyEffect ==
  ASSUME Inv, NEW o \in Orders, BuyStep(o)
  PROVE /\ \A x \in Orders \ {o} : orders'[x] = orders[x]
        /\ orders[o].status = "none" /\ orders'[o].status = "paid"
        /\ orders'[o].kind = "plan" /\ orders'[o].promo # NoCode =>
             /\ <<orders'[o].promo, orders'[o].user>> \in promoUses'
             /\ <<orders'[o].promo, orders'[o].user>> \notin promoUses
        /\ UsesKept
<1>1. /\ StoreTypeOK /\ orders \in [Orders -> OrderRow]
      /\ promoUses \subseteq Codes \X Users
  BY DEF Inv, TypeOK, StoreTypeOK
<1>spec. PICK sp : \E row \in OrderRow, at \in Nat : BuyAs(o, row, sp, at)
  BY DEF BuyStep
<1>row. PICK row \in OrderRow, at \in Nat : BuyAs(o, row, sp, at) BY <1>spec
<1>2. /\ BuyFromBalance(o, row, sp, at)
      /\ row.user \in Users /\ sp.promo \in Codes \cup {NoCode}
      /\ row.kind = "plan" => sp.promo = row.promo
  BY <1>row DEF BuyAs
<1> DEFINE debit == sp.debit
           new == [row EXCEPT !.status = "paid", !.method = "balance", !.amount = 0,
                              !.bal = debit, !.created = at, !.paidAt = at]
<1>3. /\ orders[o].status = "none" /\ orders' = [orders EXCEPT ![o] = new]
      /\ sp.promo # NoCode => CodeLeft(sp.promo, row.user)
      /\ TakeUse(sp.promo, row.user)
  BY <1>2 DEF BuyFromBalance
<1> HIDE DEF debit
<1>4. /\ new.status = "paid" /\ new.user = row.user
      /\ new.promo = row.promo /\ new.kind = row.kind
  BY DEF OrderRow
<1> HIDE DEF new
<1>5. orders'[o] = new /\ \A x \in Orders \ {o} : orders'[x] = orders[x]
  BY <1>1, <1>3
<1>6. UsesKept BY <1>1, <1>2, <1>3, TakeUseKept
<1>7. ASSUME row.kind = "plan", row.promo # NoCode
      PROVE /\ <<row.promo, row.user>> \in promoUses'
            /\ <<row.promo, row.user>> \notin promoUses
  BY <1>2, <1>3, <1>7 DEF TakeUse, CodeLeft
<1> QED BY <1>3, <1>4, <1>5, <1>6, <1>7

(* An opened order is the one its request drafted.                         *)
LEMMA OpenEffect ==
  ASSUME Inv, NEW o \in Orders, NEW s \in Shoppers, InsertOrder(s, o)
  PROVE /\ \A x \in Orders \ {o} : orders'[x] = orders[x]
        /\ orders[o].status = "none" /\ orders'[o].status = "pending"
        /\ orders'[o].user = shop'[s].draft.user /\ orders'[o].promo = shop'[s].draft.promo
        /\ orders'[o].method # "balance"
        /\ shop'[s].order = o /\ OnTheWay(s)'
        /\ \A t \in Shoppers \ {s} : shop'[t] = shop[t]
        /\ ~OnTheWay(s)
        /\ UNCHANGED <<promoUses, uses>>
<1> DEFINE d == shop[s].draft
           row == [d EXCEPT !.status = "pending", !.created = now]
           pc == CASE d.method = "provider" -> "create"
                   [] d.method = "external" -> "link"
                   [] d.method = "manual" -> "supersede"
           v == [shop[s] EXCEPT !.order = o, !.pc = pc]
<1>1. /\ shop[s].pc = "insert" /\ orders[o].status = "none"
      /\ orders' = [orders EXCEPT ![o] = row]
      /\ shop' = [shop EXCEPT ![s].order = o, ![s].pc = pc]
      /\ UNCHANGED <<promoUses, uses>>
  BY DEF InsertOrder
<1>2. /\ orders \in [Orders -> OrderRow] /\ shop \in [Shoppers -> ShopRow]
      /\ shop[s] \in ShopRow /\ d \in OrderRow /\ d.method # "balance"
  BY <1>1, ShopperRow DEF Inv, TypeOK, StoreTypeOK, CheckoutTypeOK, ShopRow, ShopperFits
<1>3. pc \in {"create", "link", "supersede"} BY <1>2 DEF OrderRow
<1> HIDE DEF pc
<1>4. shop' = [shop EXCEPT ![s] = v] BY <1>1, <1>2 DEF ShopRow
<1>5. v.order = o /\ v.pc = pc /\ v.draft = d BY <1>2 DEF ShopRow
<1> HIDE DEF v
<1>6. /\ row.status = "pending" /\ row.user = d.user /\ row.promo = d.promo
      /\ row.method = d.method
  BY <1>2 DEF OrderRow
<1> HIDE DEF row, d
<1>7. orders'[o] = row /\ \A x \in Orders \ {o} : orders'[x] = orders[x]
  BY <1>1, <1>2
<1>8. shop'[s] = v /\ \A t \in Shoppers \ {s} : shop'[t] = shop[t] BY <1>2, <1>4
<1> QED BY <1>1, <1>2, <1>3, <1>5, <1>6, <1>7, <1>8 DEF OnTheWay, d

----------------------------------------------------------------------------
(* The kinds of steps keep what is promised. *)

(* A request on its way holds an order there is.                           *)
LEMMA WayOrder ==
  ASSUME Inv, NEW s \in Shoppers, OnTheWay(s)
  PROVE shop[s].order \in Orders /\ orders[shop[s].order].status # "none"
BY DEF Inv, WellFormed, ShopperFits, OnTheWay

(* A quiet step sells nothing.                                             *)
LEMMA QuietKeeps ==
  ASSUME Inv, Discounts, QuietStep
  PROVE Discounts' /\ (OneDiscountPerUser => OneDiscountPerUser')
<1>1. \A s \in Shoppers : OwnOrder(s)'
  <2>1. SUFFICES ASSUME NEW s \in Shoppers, OnTheWay(s)' PROVE OwnOrder(s)'
    BY DEF OwnOrder
  <2>2. /\ OnTheWay(s) /\ shop'[s].order = shop[s].order
        /\ shop'[s].draft = shop[s].draft
    BY <2>1 DEF QuietStep, ShopStays
  <2>3. shop[s].order \in Orders /\ orders[shop[s].order].status # "none"
    BY <2>2, WayOrder
  <2>4. Stays(shop[s].order) BY <2>3 DEF QuietStep
  <2> QED BY <2>2, <2>3, <2>4 DEF Stays, OwnOrder, Discounts
<1>2. ASSUME NEW o \in Orders PROVE Sold(o)' /\ FromOutside(o)'
  <2>1. Stays(o) /\ Sold(o) /\ FromOutside(o) /\ promoUses \subseteq promoUses'
    BY DEF QuietStep, Discounts, UsesKept
  <2>2. Sold(o)' BY <2>1 DEF Stays, Sold
  <2>3. orders[o].status \in Statuses BY DEF Inv, TypeOK, StoreTypeOK, OrderRow
  <2>4. FromOutside(o)' BY <2>1, <2>3 DEF Stays, FromOutside, Open, Statuses
  <2> QED BY <2>2, <2>4
<1>3. ASSUME OneDiscountPerUser PROVE OneDiscountPerUser'
  BY <1>3 DEF QuietStep, Stays, OneDiscountPerUser
<1> QED BY <1>1, <1>2, <1>3 DEF Discounts

(* A claim sells a discounted plan only to who has had none.               *)
LEMMA ClaimKeeps ==
  ASSUME Inv, Discounts, NEW o \in Orders, ClaimStep(o)
  PROVE /\ Discounts'
        /\ WalletEnabled /\ OneDiscountPerUser => OneDiscountPerUser'
<1>1. shop' = shop BY DEF ClaimStep
<1>2. \A s \in Shoppers : OwnOrder(s)'
  <2>1. SUFFICES ASSUME NEW s \in Shoppers, OnTheWay(s)' PROVE OwnOrder(s)'
    BY DEF OwnOrder
  <2>2. OnTheWay(s) /\ shop[s].order \in Orders BY <1>1, <2>1, WayOrder DEF OnTheWay
  <2>3. OwnOrder(s) BY DEF Discounts
  <2> QED BY <1>1, <2>2, <2>3, ClaimEffect DEF OwnOrder
<1>3. ASSUME NEW x \in Orders PROVE Sold(x)' /\ FromOutside(x)'
  <2>1. Sold(x) /\ FromOutside(x) BY DEF Discounts
  <2>2. CASE x # o BY <2>1, <2>2, ClaimEffect DEF Sold, FromOutside, Open
  <2>3. CASE x = o /\ Open(o) BY <2>1, <2>3, ClaimEffect DEF Sold, FromOutside, Open
  <2>4. CASE x = o /\ ~Open(o) BY <2>1, <2>4, ClaimEffect DEF Sold, FromOutside, Open
  <2> QED BY <2>2, <2>3, <2>4
<1>4. ASSUME WalletEnabled, OneDiscountPerUser PROVE OneDiscountPerUser'
  <2>1. CASE ~Open(o)
    <3>1. UNCHANGED orders BY <2>1, ClaimEffect
    <3> QED BY <1>4, <3>1 DEF OneDiscountPerUser
  <2>2. CASE Open(o)
    <3>1. SUFFICES ASSUME NEW o1 \in Orders, NEW o2 \in Orders, o1 # o2,
                          orders'[o1].status = "paid", orders'[o2].status = "paid",
                          orders'[o1].kind = "plan", orders'[o2].kind = "plan",
                          orders'[o1].user = orders'[o2].user,
                          orders'[o1].promo = orders'[o2].promo,
                          orders'[o1].promo # NoCode
                   PROVE FALSE
      BY DEF OneDiscountPerUser
    <3>2. Sold(o1) /\ Sold(o2) BY DEF Discounts
    <3>3. CASE o1 = o BY <1>4, <2>2, <3>1, <3>2, <3>3, ClaimEffect DEF Sold
    <3>4. CASE o2 = o BY <1>4, <2>2, <3>1, <3>2, <3>4, ClaimEffect DEF Sold
    <3>5. CASE o1 # o /\ o2 # o
      <4>1. orders'[o1] = orders[o1] /\ orders'[o2] = orders[o2]
        BY <3>5, ClaimEffect
      <4> QED BY <1>4, <3>1, <4>1 DEF OneDiscountPerUser
    <3> QED BY <3>3, <3>4, <3>5
  <2> QED BY <2>1, <2>2
<1> QED BY <1>2, <1>3, <1>4 DEF Discounts

(* So does a purchase from the balance.                                    *)
LEMMA BuyKeeps ==
  ASSUME Inv, Discounts, NEW o \in Orders, BuyStep(o)
  PROVE Discounts' /\ (OneDiscountPerUser => OneDiscountPerUser')
<1>1. shop' = shop BY DEF BuyStep
<1>2. \A s \in Shoppers : OwnOrder(s)'
  <2>1. SUFFICES ASSUME NEW s \in Shoppers, OnTheWay(s)' PROVE OwnOrder(s)'
    BY DEF OwnOrder
  <2>2. OnTheWay(s) /\ shop[s].order \in Orders \ {o}
    BY <1>1, <2>1, WayOrder, BuyEffect DEF OnTheWay
  <2>3. OwnOrder(s) BY DEF Discounts
  <2> QED BY <1>1, <2>2, <2>3, BuyEffect DEF OwnOrder
<1>3. ASSUME NEW x \in Orders PROVE Sold(x)' /\ FromOutside(x)'
  <2>1. Sold(x) /\ FromOutside(x) BY DEF Discounts
  <2>2. promoUses \subseteq promoUses' BY BuyEffect DEF UsesKept
  <2>3. CASE x # o BY <2>1, <2>2, <2>3, BuyEffect DEF Sold, FromOutside, Open
  <2>4. CASE x = o BY <2>4, BuyEffect DEF Sold, FromOutside, Open
  <2> QED BY <2>3, <2>4
<1>4. ASSUME OneDiscountPerUser PROVE OneDiscountPerUser'
  <2>1. SUFFICES ASSUME NEW o1 \in Orders, NEW o2 \in Orders, o1 # o2,
                        orders'[o1].status = "paid", orders'[o2].status = "paid",
                        orders'[o1].kind = "plan", orders'[o2].kind = "plan",
                        orders'[o1].user = orders'[o2].user,
                        orders'[o1].promo = orders'[o2].promo,
                        orders'[o1].promo # NoCode
                 PROVE FALSE
    BY DEF OneDiscountPerUser
  <2>2. Sold(o1) /\ Sold(o2) BY DEF Discounts
  <2>3. CASE o1 = o BY <2>1, <2>2, <2>3, BuyEffect DEF Sold
  <2>4. CASE o2 = o BY <2>1, <2>2, <2>4, BuyEffect DEF Sold
  <2>5. CASE o1 # o /\ o2 # o BY <1>4, <2>1, <2>5, BuyEffect DEF OneDiscountPerUser
  <2> QED BY <2>3, <2>4, <2>5
<1> QED BY <1>2, <1>3, <1>4 DEF Discounts

(* An order that is opened is not paid. *)
LEMMA OpenKeeps ==
  ASSUME Inv, Discounts, NEW o \in Orders, OpenStep(o)
  PROVE Discounts' /\ (OneDiscountPerUser => OneDiscountPerUser')
<1>1. PICK s \in Shoppers : InsertOrder(s, o) BY DEF OpenStep
<1>2. ASSUME NEW t \in Shoppers PROVE OwnOrder(t)'
  <2>1. CASE t = s BY <1>1, <2>1, OpenEffect DEF OwnOrder
  <2>2. CASE t # s
    <3>1. SUFFICES ASSUME OnTheWay(t)' PROVE OwnOrder(t)' BY DEF OwnOrder
    <3>2. OnTheWay(t) /\ shop'[t] = shop[t] BY <1>1, <2>2, <3>1, OpenEffect DEF OnTheWay
    <3>3. shop[t].order \in Orders \ {o} BY <1>1, <3>2, WayOrder, OpenEffect
    <3>4. OwnOrder(t) BY DEF Discounts
    <3> QED BY <1>1, <3>2, <3>3, <3>4, OpenEffect DEF OwnOrder
  <2> QED BY <2>1, <2>2
<1>3. ASSUME NEW x \in Orders PROVE Sold(x)' /\ FromOutside(x)'
  <2>1. Sold(x) /\ FromOutside(x) BY DEF Discounts
  <2>2. CASE x # o BY <1>1, <2>1, <2>2, OpenEffect DEF Sold, FromOutside, Open
  <2>3. CASE x = o BY <1>1, <2>3, OpenEffect DEF Sold, FromOutside, Open
  <2> QED BY <2>2, <2>3
<1>4. ASSUME OneDiscountPerUser PROVE OneDiscountPerUser'
  BY <1>1, <1>4, OpenEffect DEF OneDiscountPerUser
<1> QED BY <1>2, <1>3, <1>4 DEF Discounts

(* Orders still open were so before, next to the same requests.            *)
LEMMA OpenKept ==
  ASSUME OneOpenCheckout, \A s \in Shoppers : Released(s),
         \A s \in Shoppers : OnTheWay(s) => shop[s].order \in Orders,
         \A o \in Orders : orders'[o].status = "pending" =>
           /\ orders[o].status = "pending"
           /\ orders'[o].user = orders[o].user /\ orders'[o].promo = orders[o].promo
  PROVE OneOpenCheckout'
<1>1. SUFFICES ASSUME NEW o1 \in Orders, NEW o2 \in Orders, o1 # o2,
                      orders'[o1].status = "pending", orders'[o2].status = "pending",
                      orders'[o1].user = orders'[o2].user,
                      orders'[o1].promo = orders'[o2].promo, orders'[o1].promo # NoCode
               PROVE \E s \in Shoppers : OnTheWay(s)' /\ shop'[s].order \in {o1, o2}
  BY DEF OneOpenCheckout, OnTheWay
<1>2. PICK s \in Shoppers : OnTheWay(s) /\ shop[s].order \in {o1, o2}
  BY <1>1 DEF OneOpenCheckout, OnTheWay
<1>3. Released(s) OBVIOUS
<1> QED BY <1>1, <1>2, <1>3 DEF Released

(* Every kind of step keeps open checkouts apart. *)
LEMMA KindKeepsOpen ==
  ASSUME Inv, OneOpenCheckout, StepKind, "crash" \notin MayFail
  PROVE OneOpenCheckout'
<1>1. \A s \in Shoppers : OnTheWay(s) => shop[s].order \in Orders BY WayOrder
<1>2. shop' = shop => \A s \in Shoppers : Released(s) BY DEF Released, OnTheWay
<1>3. CASE QuietStep /\ \A s \in Shoppers : Released(s)
  <2>1. \A o \in Orders : Stays(o) BY <1>3 DEF QuietStep
  <2> QED BY <1>1, <1>3, <2>1, OpenKept DEF Stays
<1>4. ASSUME NEW o \in Orders, ClaimStep(o) PROVE OneOpenCheckout'
  <2>1. \A s \in Shoppers : Released(s) BY <1>2, <1>4 DEF ClaimStep
  <2>2. ASSUME NEW x \in Orders, orders'[x].status = "pending"
        PROVE /\ orders[x].status = "pending"
              /\ orders'[x].user = orders[x].user /\ orders'[x].promo = orders[x].promo
    <3>1. CASE x = o BY <1>4, <2>2, <3>1, ClaimEffect
    <3>2. CASE x # o BY <1>4, <2>2, <3>2, ClaimEffect
    <3> QED BY <3>1, <3>2
  <2> QED BY <1>1, <2>1, <2>2, OpenKept
<1>5. ASSUME NEW o \in Orders, BuyStep(o) PROVE OneOpenCheckout'
  <2>1. \A s \in Shoppers : Released(s) BY <1>2, <1>5 DEF BuyStep
  <2>2. ASSUME NEW x \in Orders, orders'[x].status = "pending"
        PROVE orders'[x] = orders[x]
    BY <1>5, <2>2, BuyEffect
  <2> QED BY <1>1, <2>1, <2>2, OpenKept
<1>6. ASSUME NEW o \in Orders, OpenStep(o) PROVE OneOpenCheckout'
  <2>1. PICK s \in Shoppers : InsertOrder(s, o) BY <1>6 DEF OpenStep
  <2>2. SUFFICES ASSUME NEW o1 \in Orders, NEW o2 \in Orders, o1 # o2,
                        orders'[o1].status = "pending", orders'[o2].status = "pending",
                        orders'[o1].user = orders'[o2].user,
                        orders'[o1].promo = orders'[o2].promo, orders'[o1].promo # NoCode
                 PROVE \E t \in Shoppers : OnTheWay(t)' /\ shop'[t].order \in {o1, o2}
    BY DEF OneOpenCheckout, OnTheWay
  <2>3. shop'[s].order = o /\ OnTheWay(s)' BY <2>1, OpenEffect
  <2>4. CASE o \in {o1, o2} BY <2>3, <2>4
  <2>5. CASE o \notin {o1, o2}
    <3>1. orders'[o1] = orders[o1] /\ orders'[o2] = orders[o2]
      BY <2>1, <2>5, OpenEffect
    <3>2. PICK t \in Shoppers : OnTheWay(t) /\ shop[t].order \in {o1, o2}
      BY <2>2, <3>1 DEF OneOpenCheckout, OnTheWay
    <3>3. shop'[t] = shop[t] BY <2>1, <3>2, OpenEffect
    <3> QED BY <3>2, <3>3 DEF OnTheWay
  <2> QED BY <2>4, <2>5
<1> QED BY <1>3, <1>4, <1>5, <1>6 DEF StepKind

(* Every kind of step keeps the discounts. *)
LEMMA KindKeepsDiscounts ==
  ASSUME Inv, Discounts, StepKind
  PROVE Discounts' /\ (WalletEnabled /\ OneDiscountPerUser => OneDiscountPerUser')
BY QuietKeeps, ClaimKeeps, BuyKeeps, OpenKeeps DEF StepKind

(* Who takes a use of a code that has none left is paying money for it. *)
OverByMoney ==
  \A c \in Codes :
    CodeMax[c] > 0 /\ uses[c] >= CodeMax[c] /\ uses'[c] > uses[c]
      => \E o \in Orders : /\ orders[o].status # "paid" /\ orders'[o].status = "paid"
                           /\ orders[o].promo = c /\ orders'[o].method # "balance"

(* Every kind of step goes over a limit by money alone. *)
LEMMA KindOverByMoney == ASSUME Inv, Discounts, StepKind PROVE OverByMoney
<1>1. uses \in [Codes -> Nat] /\ CodeMax \in [Codes -> Nat]
  BY StoreAssumption DEF Inv, TypeOK, StoreTypeOK
<1>2. UsesKept => OverByMoney BY <1>1 DEF UsesKept, OverByMoney
<1>3. CASE QuietStep BY <1>2, <1>3 DEF QuietStep
<1>4. ASSUME NEW o \in Orders, ClaimStep(o) PROVE OverByMoney
  <2>1. FromOutside(o) BY DEF Discounts
  <2>2. SUFFICES ASSUME NEW c \in Codes, uses'[c] > uses[c]
                 PROVE \E x \in Orders : /\ orders[x].status # "paid"
                                         /\ orders'[x].status = "paid"
                                         /\ orders[x].promo = c
                                         /\ orders'[x].method # "balance"
    BY DEF OverByMoney
  <2>3. Open(o) /\ orders[o].promo = c BY <1>4, <2>2, ClaimEffect
  <2>4. /\ orders'[o].status = "paid" /\ orders'[o].method = orders[o].method
    BY <1>4, <2>3, ClaimEffect
  <2> QED BY <2>1, <2>3, <2>4 DEF FromOutside, Open
<1>5. ASSUME NEW o \in Orders, BuyStep(o) PROVE OverByMoney BY <1>2, <1>5, BuyEffect
<1>6. ASSUME NEW o \in Orders, OpenStep(o) PROVE OverByMoney
  <2>1. UNCHANGED uses BY <1>6, OpenEffect DEF OpenStep
  <2> QED BY <1>1, <2>1 DEF OverByMoney
<1> QED BY <1>3, <1>4, <1>5, <1>6 DEF StepKind

----------------------------------------------------------------------------
(* Every action is a step of one of the kinds. *)

(* A step that leaves requests and codes alone is quiet.                   *)
LEMMA QuietElsewhere ==
  ASSUME Inv, \A o \in Orders : Stays(o), UNCHANGED <<promoUses, uses, shop>>
  PROVE StepKind
<1>1. UsesKept BY SameUses DEF Inv, TypeOK
<1>2. \A s \in Shoppers : ShopStays(s) /\ Released(s) BY DEF ShopStays, Released, OnTheWay
<1> QED BY <1>1, <1>2 DEF StepKind, QuietStep

(* A move of one request. *)
LEMMA ShopKind ==
  ASSUME Inv, \A o \in Orders : Stays(o), UNCHANGED <<promoUses, uses>>,
         NEW s \in Shoppers, NEW v, shop' = [shop EXCEPT ![s] = v],
         ShopStays(s), Released(s)
  PROVE StepKind
<1>1. UsesKept BY SameUses DEF Inv, TypeOK
<1>2. \A t \in Shoppers \ {s} : shop'[t] = shop[t] BY DEF Inv, TypeOK, CheckoutTypeOK
<1>3. \A t \in Shoppers \ {s} : ShopStays(t) /\ Released(t)
  BY <1>2 DEF ShopStays, Released, OnTheWay
<1> QED BY <1>1, <1>3 DEF StepKind, QuietStep

(* Opening an order, step by step. *)
LEMMA ShoppingKind ==
  ASSUME Inv, Discounts, NEW s \in Shoppers, Shopping(s)
  PROVE StepKind
<1>1. /\ StoreTypeOK /\ shop \in [Shoppers -> ShopRow] /\ shop[s] \in ShopRow
      /\ orders \in [Orders -> OrderRow] /\ OwnOrder(s)
  BY ShopperRow DEF Inv, TypeOK, CheckoutTypeOK, ShopRow, StoreTypeOK, Discounts
<1>2. ASSUME UNCHANGED db, ~OnTheWay(s), NEW v, shop' = [shop EXCEPT ![s] = v],
             v.pc \notin {"create", "link", "supersede"}
      PROVE StepKind
  <2>1. shop'[s] = v BY <1>1, <1>2
  <2>2. ShopStays(s) /\ Released(s) BY <1>2, <2>1 DEF ShopStays, Released, OnTheWay
  <2> QED BY <1>2, <2>2, AllStay, ShopKind DEF db, tables
<1>3. ASSUME NEW u \in Users, NEW p \in Purchases, NEW m \in Methods,
             StartPurchase(s, u, p, m)
      PROVE StepKind
  <2>1. PICK q \in Quotes(u, p) :
          shop' = [shop EXCEPT ![s] =
            [pc |-> IF m = "external" THEN "insert" ELSE "reuse",
             draft |-> [Draft(u, p, q) EXCEPT !.method = m],
             order |-> NoOrder]]
    BY <1>3 DEF StartPurchase
  <2> DEFINE v == [pc |-> IF m = "external" THEN "insert" ELSE "reuse",
                   draft |-> [Draft(u, p, q) EXCEPT !.method = m], order |-> NoOrder]
  <2>2. v.pc \in {"insert", "reuse"} OBVIOUS
  <2>3. shop' = [shop EXCEPT ![s] = v] BY <2>1
  <2> HIDE DEF v
  <2>4. UNCHANGED db /\ ~OnTheWay(s) BY <1>3 DEF StartPurchase, OnTheWay
  <2> QED BY <1>2, <2>2, <2>3, <2>4
<1>4. CASE ReuseOrder(s)
  <2>1. UNCHANGED db /\ ~OnTheWay(s) BY <1>4 DEF ReuseOrder, OnTheWay
  <2>2. \/ shop' = [shop EXCEPT ![s] = IdleShop]
        \/ shop' = [shop EXCEPT ![s] = [shop[s] EXCEPT !.pc = "insert"]]
    BY <1>4 DEF ReuseOrder
  <2>3. /\ IdleShop.pc = "idle"
        /\ [shop[s] EXCEPT !.pc = "insert"].pc = "insert"
    BY <1>1 DEF IdleShop, ShopRow
  <2> QED BY <1>2, <2>1, <2>2, <2>3
<1>5. ASSUME NEW o \in Orders, InsertOrder(s, o) PROVE StepKind
  BY <1>5 DEF StepKind, OpenStep
<1>6. CASE InsertRefused(s)
  <2>1. UNCHANGED db /\ ~OnTheWay(s) BY <1>6 DEF InsertRefused, OnTheWay
  <2> QED BY <1>2, <1>6, <2>1 DEF InsertRefused, IdleShop
<1>7. CASE CreateInvoice(s)
  <2> DEFINE v == [shop[s] EXCEPT !.pc = "link"]
  <2>1. v.pc = "link" /\ v.order = shop[s].order /\ v.draft = shop[s].draft
    BY <1>1 DEF ShopRow
  <2>2. shop' = [shop EXCEPT ![s] = v] /\ UNCHANGED <<orders, promoUses, uses>> /\ OnTheWay(s)
    BY <1>7 DEF CreateInvoice, db, tables, OnTheWay
  <2> HIDE DEF v
  <2>3. shop'[s] = v BY <1>1, <2>2
  <2>4. ShopStays(s) /\ Released(s) BY <2>1, <2>2, <2>3 DEF ShopStays, Released, OnTheWay
  <2> QED BY <2>2, <2>4, AllStay, ShopKind
<1>8. CASE CreateFails(s)
  <2> DEFINE o == shop[s].order
  <2>1. OnTheWay(s) /\ SetCancelled(o) /\ shop' = [shop EXCEPT ![s] = IdleShop]
        /\ UNCHANGED <<promoUses, uses>>
    BY <1>8 DEF CreateFails, OnTheWay
  <2>2. o \in Orders /\ orders[o].status # "none" BY <2>1, WayOrder
  <2>3. orders[o].method # "balance" BY <1>1, <2>1 DEF OwnOrder
  <2>4. (\A x \in Orders : Stays(x)) /\ orders'[o].status = "cancelled"
    BY <1>1, <2>1, <2>2, <2>3, SetCancelledStays
  <2>5. shop'[s].pc = "idle" BY <1>1, <2>1 DEF IdleShop
  <2>6. ShopStays(s) /\ Released(s) BY <2>4, <2>5 DEF ShopStays, Released, OnTheWay
  <2> QED BY <2>1, <2>4, <2>6, ShopKind
<1>9. CASE LinkOrder(s)
  <2> DEFINE o == shop[s].order
             v == [shop[s] EXCEPT !.pc = "supersede"]
             row == [orders[o] EXCEPT !.linked = TRUE]
  <2>1. v.pc = "supersede" /\ v.order = o /\ v.draft = shop[s].draft
    BY <1>1 DEF ShopRow
  <2>2. /\ shop' = [shop EXCEPT ![s] = v] /\ UNCHANGED <<promoUses, uses>> /\ OnTheWay(s)
        /\ orders' = [orders EXCEPT ![o] = row]
    BY <1>9 DEF LinkOrder, OnTheWay
  <2> HIDE DEF v
  <2>3. shop'[s] = v BY <1>1, <2>2
  <2>4. ShopStays(s) /\ Released(s) BY <2>1, <2>2, <2>3 DEF ShopStays, Released, OnTheWay
  <2>5. o \in Orders BY <2>2, WayOrder
  <2> HIDE DEF o
  <2>6. /\ row.status = orders[o].status /\ row.user = orders[o].user
        /\ row.promo = orders[o].promo /\ row.method = orders[o].method
        /\ row.kind = orders[o].kind
    BY <1>1, <2>5 DEF OrderRow
  <2> HIDE DEF row
  <2>7. \A x \in Orders : Stays(x) BY <1>1, <2>2, <2>5, <2>6, RowStays
  <2> QED BY <2>2, <2>4, <2>7, ShopKind
<1>10. CASE SupersedeOrders(s)
  <2> DEFINE o == shop[s].order
             os == OpenWithCode(shop[s].draft.user, shop[s].draft.promo, o)
  <2>1. OnTheWay(s) /\ CancelIfPending(os) /\ shop' = [shop EXCEPT ![s] = IdleShop]
        /\ UNCHANGED <<promoUses, uses>>
    BY <1>10 DEF SupersedeOrders, OnTheWay
  <2>2. o \in Orders BY <2>1, WayOrder
  <2>3. orders[o].user = shop[s].draft.user /\ orders[o].promo = shop[s].draft.promo
    BY <1>1, <2>1 DEF OwnOrder
  <2>4. \A x \in Orders : Stays(x) BY <1>1, <2>1, CancelStays
  <2>5. shop'[s].pc = "idle" BY <1>1, <2>1 DEF IdleShop
  <2>6. ASSUME NEW x \in Orders \ {o}, orders'[x].status = "pending",
               orders[x].user = orders[o].user, orders[x].promo = orders[o].promo,
               orders[o].promo # NoCode
        PROVE FALSE
    <3>1. orders[x].status = "pending" BY <2>4, <2>6 DEF Stays
    <3>2. x \in os BY <2>3, <2>6, <3>1 DEF OpenWithCode
    <3> HIDE DEF os
    <3>3. orders'[x] = [orders[x] EXCEPT !.status = "cancelled"]
      BY <2>1, <3>1, <3>2 DEF CancelIfPending
    <3>4. orders[x] \in OrderRow BY <1>1
    <3> QED BY <2>6, <3>3, <3>4 DEF OrderRow
  <2>7. ShopStays(s) /\ Released(s) BY <2>5, <2>6 DEF ShopStays, Released, OnTheWay
  <2> QED BY <2>1, <2>4, <2>7, ShopKind
<1> QED BY <1>3, <1>4, <1>5, <1>6, <1>7, <1>8, <1>9, <1>10 DEF Shopping

(* Hearing of a payment writes no table.                                   *)
LEMMA HearingKind ==
  ASSUME Inv,
         \/ \E h \in Hooks : Callback(h)
         \/ Polling
         \/ \E o \in Orders : OperatorConfirms(o)
  PROVE StepKind
<1>1. UNCHANGED <<orders, promoUses, uses, shop>>
  BY DEF Callback, Polling, ReceiveCallback, PollList, PollAsk, PollFails,
         OperatorConfirms, db, tables
<1> QED BY <1>1, AllStay, QuietElsewhere

(* A refund by the provider changes what the order is about in nothing.    *)
LEMMA ProviderRefundStays ==
  ASSUME StoreTypeOK, NEW x \in Orders, ProviderRefund(x)
  PROVE \A o \in Orders : Stays(o)
<1>1. orders[x] \in OrderRow BY DEF StoreTypeOK
<1>2. PICK taken, refunded, refkop :
        orders' = [orders EXCEPT ![x] =
                    [orders[x] EXCEPT !.source = "provider", !.taken = taken,
                                      !.refunded = refunded, !.refkop = refkop]]
  BY DEF ProviderRefund
<1> DEFINE row == [orders[x] EXCEPT !.source = "provider", !.taken = taken,
                                    !.refunded = refunded, !.refkop = refkop]
<1>3. /\ row.status = orders[x].status /\ row.user = orders[x].user
      /\ row.promo = orders[x].promo /\ row.method = orders[x].method
      /\ row.kind = orders[x].kind
  BY <1>1 DEF OrderRow
<1>4. orders' = [orders EXCEPT ![x] = row] BY <1>2
<1> HIDE DEF row
<1> QED BY <1>3, <1>4, RowStays

(* Nor does a refund to the balance. *)
LEMMA RefundToBalanceStays ==
  ASSUME StoreTypeOK, NEW x \in Orders, RefundToBalance(x)
  PROVE \A o \in Orders : Stays(o)
<1>1. orders \in [Orders -> OrderRow] /\ orders[x] \in OrderRow BY DEF StoreTypeOK
<1>2. PICK kop : orders' = [orders EXCEPT ![x].source = "balance", ![x].refunded = kop]
  BY DEF RefundToBalance
<1> DEFINE row == [orders[x] EXCEPT !.source = "balance", !.refunded = kop]
<1>3. orders' = [orders EXCEPT ![x] = row] BY <1>1, <1>2 DEF OrderRow
<1>4. /\ row.status = orders[x].status /\ row.user = orders[x].user
      /\ row.promo = orders[x].promo /\ row.method = orders[x].method
      /\ row.kind = orders[x].kind
  BY <1>1 DEF OrderRow
<1> HIDE DEF row
<1> QED BY <1>3, <1>4, RowStays

(* Acting on what was heard. *)
LEMMA HandlingKind ==
  ASSUME Inv, NEW h \in Handlers, Handling(h)
  PROVE StepKind
<1> DEFINE o == hand[h].order
<1>1. StoreTypeOK /\ hand[h] \in HandRow /\ HandlerFits(h)
  BY HandlerRow DEF Inv, TypeOK
<1>2. hand[h].pc # "idle" => o \in Orders /\ orders[o].status # "none"
  BY <1>1 DEF HandlerFits
<1>3. ASSUME UNCHANGED <<orders, promoUses, uses, shop>> PROVE StepKind
  BY <1>3, AllStay, QuietElsewhere
<1>4. CASE Confirm(h)
  <2>1. hand[h].pc # "idle" BY <1>4 DEF Confirm
  <2>2. ClaimStep(o) BY <1>2, <1>4, <2>1 DEF Confirm, ClaimStep
  <2> QED BY <1>2, <2>1, <2>2 DEF StepKind
<1>5. CASE CancelPending(h)
  <2>1. CancelIfPending({o}) /\ UNCHANGED <<promoUses, uses, shop>>
    BY <1>5 DEF CancelPending
  <2>2. \A x \in Orders : Stays(x) BY <1>1, <2>1, CancelStays
  <2> QED BY <2>1, <2>2, QuietElsewhere
<1>6. CASE RefundByProvider(h)
  <2>1. hand[h].pc # "idle" /\ UNCHANGED <<promoUses, uses, shop>>
        /\ (ProviderRefund(o) \/ UNCHANGED orders)
    BY <1>6 DEF RefundByProvider
  <2>2. CASE ProviderRefund(o)
    <3>1. \A x \in Orders : Stays(x) BY <1>1, <1>2, <2>1, <2>2, ProviderRefundStays
    <3> QED BY <2>1, <3>1, QuietElsewhere
  <2> QED BY <1>3, <2>1, <2>2
<1>7. CASE TakeBackTerm(h) BY <1>3, <1>7 DEF TakeBackTerm, db, tables
<1>8. CASE TakeBackDays(h) BY <1>3, <1>8 DEF TakeBackDays
<1>9. CASE TakeBackPlan(h) BY <1>3, <1>9 DEF TakeBackPlan
<1>10. CASE TakeAddonBack(h) BY <1>3, <1>10 DEF TakeAddonBack
<1>11. CASE RevertChange(h) BY <1>3, <1>11 DEF RevertChange
<1> QED BY <1>4, <1>5, <1>6, <1>7, <1>8, <1>9, <1>10, <1>11 DEF Handling

(* The provider, the operator's other requests, the clock. *)
LEMMA OutsideKind ==
  ASSUME Inv,
         \/ \E o \in Orders, act \in {"pay", "odd", "void", "refund"} : ProviderStep(o, act)
         \/ \E o \in Orders : OperatorCancels(o)
         \/ \E o \in Orders, cancelPlan \in BOOLEAN : OperatorRefunds(o, cancelPlan)
         \/ Tick
  PROVE StepKind
<1>1. StoreTypeOK BY DEF Inv, TypeOK
<1>2. ASSUME UNCHANGED <<orders, promoUses, uses, shop>> PROVE StepKind
  BY <1>2, AllStay, QuietElsewhere
<1>3. CASE \E o \in Orders, act \in {"pay", "odd", "void", "refund"} : ProviderStep(o, act)
  BY <1>2, <1>3 DEF ProviderStep, db, tables, threads
<1>4. ASSUME NEW o \in Orders, OperatorCancels(o) PROVE StepKind
  <2>1. CancelIfPending({o}) /\ UNCHANGED <<promoUses, uses, shop>>
    BY <1>4 DEF OperatorCancels, checkoutVars, threads
  <2>2. \A x \in Orders : Stays(x) BY <1>1, <2>1, CancelStays
  <2> QED BY <2>1, <2>2, QuietElsewhere
<1>5. ASSUME NEW o \in Orders, NEW cancelPlan \in BOOLEAN, OperatorRefunds(o, cancelPlan)
      PROVE StepKind
  <2>1. RefundToBalance(o) /\ UNCHANGED <<promoUses, uses, shop>>
    BY <1>5 DEF OperatorRefunds
  <2>2. \A x \in Orders : Stays(x) BY <1>1, <2>1, RefundToBalanceStays
  <2> QED BY <2>1, <2>2, QuietElsewhere
<1>6. CASE Tick BY <1>2, <1>6 DEF Tick, tables, checkoutVars, threads
<1> QED BY <1>3, <1>4, <1>5, <1>6

(* A plan bought from the balance takes the use its order records.         *)
LEMMA BalanceSpecCode ==
  ASSUME Inv, NEW u \in Users, NEW p \in PurchaseRow, p.kind # "topup",
         NEW q \in Quotes(u, p), p.kind = "plan"
  PROVE BalanceSpec(u, p, q).promo = q.promo /\ Draft(u, p, q).promo = q.promo
<1> DEFINE cur == users[u].plan
           row == [Blank EXCEPT !.user = u, !.kind = p.kind, !.amount = q.money,
                     !.bal = q.bal, !.devices = q.devices,
                     !.plan = IF p.kind \in {"plan", "change"} THEN p.plan ELSE cur]
           d == Draft(u, p, q)
           w == PlanWriteForDays(users, u, d.plan, ActivePaidPlan(users, u) = d.plan,
                                 TRUE, Period[d.plan] * d.periods, d.devices)
           bonus == IF w.expire > 0 THEN users[u].bonus ELSE 0
           wb == [w EXCEPT !.expire = @ + bonus]
           days == Period[d.plan] * d.periods
           sp == [EmptySpec EXCEPT !.debit = q.bal]
<1>1. d = [row EXCEPT !.promo = q.promo, !.periods = p.periods] BY DEF Draft
<1>2. d.promo = q.promo BY <1>1 DEF Blank
<1>3. BalanceSpec(u, p, q) =
        [sp EXCEPT !.what = "plan", !.promo = q.promo, !.bonus = bonus,
                   !.days = days, !.write = wb]
  BY DEF BalanceSpec
<1> HIDE DEF d, row, w, wb, bonus, days
<1>4. [sp EXCEPT !.what = "plan", !.promo = q.promo, !.bonus = bonus,
                 !.days = days, !.write = wb].promo = q.promo
  BY DEF EmptySpec
<1> QED BY <1>2, <1>3, <1>4 DEF d

(* A tap that buys is a purchase from the balance. *)
LEMMA TapBuysKind ==
  ASSUME Inv, NEW t \in Taps, NEW o \in Orders, TapBuys(t, o), UNCHANGED shop
  PROVE BuyStep(o)
<1> DEFINE u == tap[t].user
           p == tap[t].buy
<1>1. /\ StoreTypeOK /\ users \in Table /\ orders \in [Orders -> OrderRow] /\ now \in Nat
  BY DEF Inv, TypeOK, StoreTypeOK, Table
<1>2. u \in Users BY DEF TapBuys, Inv, WellFormed, TapFits
<1>3. p \in PurchaseRow /\ p.kind # "topup"
  BY BuyRow DEF Inv, TypeOK, SubscriptionTypeOK
<1>4. PICK q \in Quotes(u, p) :
        BuyFromBalance(o, Draft(u, p, q), BalanceSpec(u, p, q), now)
  BY DEF TapBuys
<1> DEFINE d == Draft(u, p, q)
           sp == BalanceSpec(u, p, q)
<1>5. d \in OrderRow /\ d.user = u /\ d.kind = p.kind BY <1>1, <1>2, <1>3, DraftType
<1>6. sp \in SpecRow BY <1>1, <1>2, <1>3, BalanceSpecType
<1>7. p.kind = "plan" => sp.promo = q.promo /\ d.promo = q.promo
  BY <1>2, <1>3, BalanceSpecCode
<1>8. BuyFromBalance(o, d, sp, now) BY <1>4
<1>9. sp.promo \in Codes \cup {NoCode} BY <1>6 DEF SpecRow
<1> HIDE DEF d, sp, u, p
<1>10. d.user \in Users /\ (d.kind = "plan" => sp.promo = d.promo)
  BY <1>2, <1>5, <1>7
<1>11. BuyAs(o, d, sp, now) BY <1>2, <1>5, <1>8, <1>9, <1>10 DEF BuyAs
<1> QED BY <1>1, <1>5, <1>11 DEF BuyStep

(* A renewal is one too, without a code. *)
LEMMA RenewKind ==
  ASSUME Inv, NEW u \in Users, NEW o \in Orders, RenewFromBalance(u, o), UNCHANGED shop
  PROVE BuyStep(o)
<1> DEFINE p == users[u].plan
           devices == HeldDevices(users, u, p)
           w == PlanWriteForDays(users, u, p, TRUE, TRUE, Period[p], devices)
           bonus == IF w.expire > 0 THEN users[u].bonus ELSE 0
           kop == RenewalKop(users, u)
           days == Period[p]
           wb == [w EXCEPT !.expire = @ + bonus]
           row == [Blank EXCEPT !.user = u, !.plan = p, !.devices = devices]
           sp == [EmptySpec EXCEPT !.what = "plan", !.debit = kop, !.bonus = bonus,
                    !.days = days, !.write = wb]
<1>1. users \in Table /\ job.time \in Nat
  BY DEF Inv, TypeOK, StoreTypeOK, SubscriptionTypeOK, Table
<1>2. BuyFromBalance(o, row, sp, job.time) BY DEF RenewFromBalance
<1>3. p \in Plans
  BY <1>1 DEF RenewFromBalance, StillDue, Renewable, Table, UserRow
<1>4. devices \in Nat BY <1>1, <1>3, HeldDevicesType
<1> HIDE DEF devices, kop, days, bonus, wb, p
<1>5. row \in OrderRow BY <1>3, <1>4, BlankType DEF OrderRow
<1>6. row.user = u /\ row.promo = NoCode BY DEF Blank
<1>7. sp.promo = NoCode BY DEF EmptySpec
<1> HIDE DEF row, sp
<1>8. /\ row.user \in Users /\ sp.promo \in Codes \cup {NoCode}
      /\ row.kind = "plan" => sp.promo = row.promo
  BY <1>6, <1>7
<1>9. BuyAs(o, row, sp, job.time) BY <1>2, <1>8 DEF BuyAs
<1> QED BY <1>1, <1>5, <1>9 DEF BuyStep

(* What happens to a subscription without money coming in. *)
LEMMA SubscriptionKind ==
  ASSUME Inv, SubscriptionNext, UNCHANGED checkoutVars
  PROVE StepKind
<1>1. StoreTypeOK BY DEF Inv, TypeOK
<1>2. UNCHANGED shop BY DEF checkoutVars, threads
<1>3. ASSUME UNCHANGED <<orders, promoUses, uses>> PROVE StepKind
  BY <1>2, <1>3, AllStay, QuietElsewhere
<1>4. ASSUME NEW t \in Taps, Tapping(t) PROVE StepKind
  <2>1. ASSUME NEW o \in Orders, TapBuys(t, o) PROVE StepKind
    BY <1>2, <2>1, TapBuysKind DEF StepKind
  <2>2. CASE TapSupersedes(t)
    <3>1. /\ UNCHANGED <<promoUses, uses>>
          /\ CancelIfPending(OpenWithCode(tap[t].user, tap[t].code, tap[t].order))
      BY <2>2 DEF TapSupersedes
    <3>2. \A x \in Orders : Stays(x) BY <1>1, <3>1, CancelStays
    <3> QED BY <1>2, <3>1, <3>2, QuietElsewhere
  <2>3. ASSUME \/ \E u \in Users, p \in Buys : ShowOffer(t, u, p)
               \/ \E s \in Taps : TapTwice(t, s)
               \/ TapRefused(t)
               \/ \E u \in Users, c \in Codes : EnterDiscount(t, u, c)
               \/ AttachDiscount(t)
        PROVE UNCHANGED <<orders, promoUses, uses>>
    BY <2>3 DEF ShowOffer, TapTwice, TapRefused, EnterDiscount, AttachDiscount,
                db, tables
  <2> QED BY <1>3, <1>4, <2>1, <2>2, <2>3 DEF Tapping
<1>5. ASSUME NEW u \in Users, Account(u) PROVE StepKind
  <2>1. ASSUME NEW c \in Codes, RedeemBalance(u, c) \/ RedeemDays(u, c) PROVE StepKind
    <3>1. TakeUse(c, u) /\ CodeLeft(c, u) /\ UNCHANGED orders
      BY <2>1 DEF RedeemBalance, RedeemDays
    <3>2. UsesKept BY <1>1, <3>1, TakeUseKept
    <3>3. \A s \in Shoppers : ShopStays(s) /\ Released(s)
      BY <1>2 DEF ShopStays, Released, OnTheWay
    <3> QED BY <3>1, <3>2, <3>3, AllStay DEF StepKind, QuietStep
  <2>2. ASSUME \/ CancelUserPlan(u)
               \/ \E on \in BOOLEAN : SetAutoRenew(u, on)
               \/ \E kop \in Adjusts : AdjustBalance(u, kop)
               \/ \E p \in Plans, extend \in BOOLEAN : ApplyPlanToUser(u, p, extend)
        PROVE StepKind
    BY <1>3, <2>2 DEF CancelUserPlan, SetAutoRenew, AdjustBalance, ApplyPlanToUser
  <2> QED BY <1>5, <2>1, <2>2 DEF Account
<1>6. CASE EnforceBilling
  <2>1. ASSUME NEW u \in Users, NEW o \in Orders, RenewFromBalance(u, o) PROVE StepKind
    BY <1>2, <2>1, RenewKind DEF StepKind
  <2>2. ASSUME \/ BeginPass \/ RenewalsDone \/ ListExpired \/ EndPass
               \/ \E u \in Users : RenewalSkipped(u) \/ DowngradeExpired(u)
        PROVE UNCHANGED <<orders, promoUses, uses>>
    BY <2>2 DEF BeginPass, RenewalsDone, ListExpired, EndPass, RenewalSkipped,
                DowngradeExpired, db, tables
  <2> QED BY <1>3, <1>6, <2>1, <2>2 DEF EnforceBilling
<1> QED BY <1>4, <1>5, <1>6 DEF SubscriptionNext

(* A restart ends every request where it is. *)
LEMMA CrashKind == ASSUME Inv, Crash PROVE StepKind
<1>1. /\ "crash" \in MayFail /\ UNCHANGED <<orders, promoUses, uses>>
      /\ \A s \in Shoppers : shop'[s] = IdleShop
  BY DEF Crash, CheckoutCrash, db, tables
<1>2. \A s \in Shoppers : ShopStays(s) BY <1>1 DEF ShopStays, OnTheWay, IdleShop
<1>3. UsesKept BY <1>1, SameUses DEF Inv, TypeOK
<1> QED BY <1>1, <1>2, <1>3, AllStay DEF StepKind, QuietStep

(* Every step of the billing is of one of the kinds. *)
LEMMA NextKind == ASSUME Inv, Discounts, [Next]_vars PROVE StepKind
<1>1. CASE CheckoutNext /\ UNCHANGED subscriptionVars
  BY <1>1, ShoppingKind, HearingKind, HandlingKind, OutsideKind DEF CheckoutNext
<1>2. CASE SubscriptionNext /\ UNCHANGED checkoutVars BY <1>2, SubscriptionKind
<1>3. CASE Crash BY <1>3, CrashKind
<1>4. CASE UNCHANGED vars
  <2>1. UNCHANGED <<orders, promoUses, uses, shop>>
    BY <1>4 DEF vars, db, tables, checkoutVars, threads
  <2> QED BY <2>1, AllStay, QuietElsewhere
<1> QED BY <1>1, <1>2, <1>3, <1>4 DEF Next

----------------------------------------------------------------------------
(* At the start nothing is opened and nothing sold. *)
LEMMA InitDiscounts == ASSUME Init PROVE Discounts /\ OneDiscountPerUser /\ OneOpenCheckout
<1>1. /\ orders = [o \in Orders |-> Blank]
      /\ shop = [s \in Shoppers |-> IdleShop]
  BY DEF Init, StoreInit, CheckoutInit
<1>2. \A o \in Orders : orders[o].status = "none" BY <1>1 DEF Blank
<1>3. \A s \in Shoppers : ~OnTheWay(s) BY <1>1 DEF OnTheWay, IdleShop
<1>4. Discounts BY <1>2, <1>3 DEF Discounts, OwnOrder, Sold, FromOutside, Open
<1> QED BY <1>2, <1>4 DEF OneDiscountPerUser, OneOpenCheckout

(* A request on its way made the order it holds, with the code it quoted;  *)
(* a discounted plan is paid only together with its row in promo_uses; who *)
(* waits for money is not paid from the balance.                           *)
THEOREM AlwaysDiscounts == Spec => []Discounts
<1>1. Discounts /\ Inv /\ [Next]_vars => Discounts'
  BY NextKind, KindKeepsDiscounts
<1>2. Init => Discounts BY InitDiscounts
<1> QED BY <1>1, <1>2, AlwaysInv, PTL DEF Spec

(* A code discounts one plan per user, however many checkouts were opened  *)
(* with it, whatever superseded them and whoever pays them afterwards: the *)
(* second payment goes to the balance.  Without a wallet there is no       *)
(* balance to send it to, and confirmOrderPaid does not look at the code.  *)
THEOREM DiscountedOnce == ASSUME WalletEnabled PROVE Spec => []OneDiscountPerUser
<1>1. OneDiscountPerUser /\ Inv /\ Discounts /\ [Next]_vars => OneDiscountPerUser'
  BY NextKind, KindKeepsDiscounts
<1>2. Init => OneDiscountPerUser BY InitDiscounts
<1> QED BY <1>1, <1>2, AlwaysInv, AlwaysDiscounts, PTL DEF Spec

(* Of a user's checkouts on one code at most one stays open, as soon as    *)
(* the requests that opened them are done (supersedePromoOrders).  A       *)
(* process that restarts between the insert and the superseding leaves     *)
(* both open, so restarts are left out here.                               *)
THEOREM OpenOnce == ASSUME "crash" \notin MayFail PROVE Spec => []OneOpenCheckout
<1>1. OneOpenCheckout /\ Inv /\ Discounts /\ [Next]_vars => OneOpenCheckout'
  BY NextKind, KindKeepsOpen
<1>2. Init => OneOpenCheckout BY InitDiscounts
<1> QED BY <1>1, <1>2, AlwaysInv, AlwaysDiscounts, PTL DEF Spec

(* A code at its limit is used once more only by a payment that came in    *)
(* for a checkout opened with it: nothing bought from the balance and      *)
(* nothing redeemed passes max_uses.                                       *)
THEOREM LimitPassedByMoney == Spec => OverLimitByMoneyOnly
<1>1. Inv /\ Discounts /\ [Next]_vars => [OverByMoney]_vars
  BY NextKind, KindOverByMoney
<1>2. [][OverByMoney]_vars => OverLimitByMoneyOnly
  BY PTL DEF OverLimitByMoneyOnly, OverByMoney
<1> QED BY <1>1, <1>2, AlwaysInv, AlwaysDiscounts, PTL DEF Spec

----------------------------------------------------------------------------
(* Renewals. *)

(* The clock a billing pass captured is not ahead of the clock. *)
PassTime == job.time <= now

(* Only a new pass writes its time, and the clock only goes on.            *)
LEMMA StepPassTime == ASSUME Inv, PassTime, [Next]_vars PROVE PassTime'
<1>1. /\ now \in Nat /\ job \in JobRow
  BY DEF Inv, TypeOK, StoreTypeOK, SubscriptionTypeOK, JobRow
<1>2. CASE CheckoutNext /\ UNCHANGED subscriptionVars
  <2>1. now' \in {now, now + 1}
    BY <1>2 DEF CheckoutNext, Shopping, Handling, Callback, Polling, StartPurchase,
       ReuseOrder, InsertOrder, InsertRefused, CreateInvoice, CreateFails, LinkOrder,
       SupersedeOrders, ProviderStep, ReceiveCallback, PollList, PollAsk, PollFails,
       OperatorConfirms, OperatorCancels, OperatorRefunds, Confirm, CancelPending,
       RefundByProvider, TakeBackTerm, TakeBackDays, TakeBackPlan, TakeAddonBack,
       RevertChange, Tick, db
  <2>2. job' = job BY <1>2 DEF subscriptionVars
  <2> QED BY <1>1, <2>1, <2>2 DEF PassTime, JobRow
<1>3. CASE SubscriptionNext /\ UNCHANGED checkoutVars
  <2>1. now' = now
    BY <1>3 DEF SubscriptionNext, Tapping, Account, EnforceBilling, ShowOffer, TapTwice,
       TapBuys, TapRefused, TapSupersedes, EnterDiscount, AttachDiscount, RedeemBalance,
       RedeemDays, CancelUserPlan, SetAutoRenew, AdjustBalance, ApplyPlanToUser,
       BeginPass, RenewFromBalance, RenewalSkipped, RenewalsDone, ListExpired,
       DowngradeExpired, EndPass, db
  <2>2. job'.time \in {job.time, now, 0}
    <3>1. CASE \E t \in Taps : Tapping(t)
      <4>1. job' = job
        BY <3>1 DEF Tapping, ShowOffer, TapTwice, TapBuys, TapRefused, TapSupersedes,
           EnterDiscount, AttachDiscount
      <4> QED BY <4>1
    <3>2. CASE \E u \in Users : Account(u)
      <4>1. job' = job
        BY <3>2 DEF Account, RedeemBalance, RedeemDays, CancelUserPlan, SetAutoRenew,
           AdjustBalance, ApplyPlanToUser, subscriptionVars
      <4> QED BY <4>1
    <3>3. CASE EnforceBilling
      <4> DEFINE due == IF ~WalletEnabled THEN {}
                        ELSE {u \in Users : Renewable(users, u, now)
                                            /\ Covers(users, u, RenewalKop(users, u))}
      <4>1. CASE BeginPass
        <5>1. job' = [IdleJob EXCEPT !.pc = "renew", !.time = now, !.renew = due]
          BY <4>1 DEF BeginPass
        <5> HIDE DEF due
        <5> QED BY <5>1 DEF IdleJob
      <4>2. CASE \E u \in Users, o \in Orders : RenewFromBalance(u, o)
        BY <1>1, <4>2 DEF RenewFromBalance, JobRow
      <4>3. CASE \E u \in Users : RenewalSkipped(u) \/ DowngradeExpired(u)
        BY <1>1, <4>3 DEF RenewalSkipped, DowngradeExpired, JobRow
      <4>4. CASE RenewalsDone \/ EndPass
        BY <1>1, <4>4 DEF RenewalsDone, EndPass, IdleJob, JobRow
      <4>5. CASE ListExpired BY <1>1, <4>5 DEF ListExpired, JobRow
      <4> QED BY <3>3, <4>1, <4>2, <4>3, <4>4, <4>5 DEF EnforceBilling
    <3> QED BY <1>3, <3>1, <3>2, <3>3 DEF SubscriptionNext
  <2> QED BY <1>1, <2>1, <2>2 DEF PassTime, JobRow
<1>4. CASE Crash
  BY <1>1, <1>4 DEF Crash, CheckoutCrash, IdleJob, PassTime, db, JobRow
<1>5. CASE UNCHANGED vars
  BY <1>5 DEF vars, subscriptionVars, db, PassTime
<1> QED BY <1>2, <1>3, <1>4, <1>5 DEF Next

(* A renewal is charged while it is due and on.                            *)
RenewDue ==
  \A u \in Users : u \in job.renew \ job'.renew /\ orders' # orders
    => users[u].auto /\ users[u].expire <= now + RenewAhead

(* renewFromBalance is the only one that charges in the pass.              *)
LEMMA StepRenewDue == ASSUME Inv, PassTime, Next PROVE RenewDue
<1>1. /\ now \in Nat /\ job \in JobRow /\ job.time \in Nat /\ users \in [Users -> UserRow]
  BY DEF Inv, TypeOK, StoreTypeOK, SubscriptionTypeOK, JobRow
<1>2. ASSUME UNCHANGED orders \/ UNCHANGED job PROVE RenewDue BY <1>2 DEF RenewDue
<1>3. CASE CheckoutNext /\ UNCHANGED subscriptionVars
  BY <1>2, <1>3 DEF subscriptionVars
<1>4. CASE SubscriptionNext /\ UNCHANGED checkoutVars
  <2>1. CASE \E t \in Taps : Tapping(t)
    BY <1>2, <2>1 DEF Tapping, ShowOffer, TapTwice, TapBuys, TapRefused, TapSupersedes,
       EnterDiscount, AttachDiscount
  <2>2. CASE \E u \in Users : Account(u)
    BY <1>2, <2>2 DEF Account, RedeemBalance, RedeemDays, CancelUserPlan, SetAutoRenew,
       AdjustBalance, ApplyPlanToUser, subscriptionVars
  <2>3. ASSUME NEW u \in Users, NEW o \in Orders, RenewFromBalance(u, o) PROVE RenewDue
    <3>1. StillDue(u) /\ job' = [job EXCEPT !.renew = @ \ {u}]
      BY <2>3 DEF RenewFromBalance
    <3>2. job.renew \ job'.renew \subseteq {u} BY <1>1, <3>1 DEF JobRow
    <3>3. users[u].auto /\ users[u].expire <= job.time + RenewAhead
      BY <3>1 DEF StillDue, Renewable, InRenewal
    <3>4. users[u].expire \in Nat BY <1>1 DEF UserRow
    <3> QED BY <1>1, <3>2, <3>3, <3>4, SubscriptionAssumption DEF RenewDue, PassTime
  <2>4. ASSUME \/ BeginPass \/ RenewalsDone \/ ListExpired \/ EndPass
               \/ \E u \in Users : RenewalSkipped(u) \/ DowngradeExpired(u)
        PROVE UNCHANGED orders
    BY <2>4 DEF BeginPass, RenewalsDone, ListExpired, EndPass, RenewalSkipped,
                DowngradeExpired, db, tables
  <2> QED BY <1>2, <1>4, <2>1, <2>2, <2>3, <2>4 DEF SubscriptionNext, EnforceBilling
<1>5. CASE Crash BY <1>2, <1>5 DEF Crash, CheckoutCrash, db, tables
<1> QED BY <1>3, <1>4, <1>5 DEF Next

(* The pass charges a renewal only to a user whose renewal is on and whose *)
(* term is at its end at that moment, not when the pass listed the user:   *)
(* renewFromBalance looks again under applyPlanMu.                         *)
THEOREM RenewedOnTime == Spec => RenewsOnTime
<1>1. Init => PassTime BY DEF Init, StoreInit, SubscriptionInit, IdleJob, PassTime
<1>2. PassTime /\ Inv /\ [Next]_vars => PassTime' BY StepPassTime
<1>3. Inv /\ PassTime /\ [Next]_vars => [RenewDue]_vars BY StepRenewDue
<1>4. [][RenewDue]_vars => RenewsOnTime BY PTL DEF RenewsOnTime, RenewDue
<1> QED BY <1>1, <1>2, <1>3, <1>4, AlwaysInv, PTL DEF Spec

----------------------------------------------------------------------------
(* Time that was paid for stays, where nobody refunds: a refund ends terms  *)
(* in two critical sections, and what is bought in between goes with the   *)
(* second one.                                                             *)

NobodyRefunds == "refund" \notin OperatorActs /\ "refund" \notin ProviderActs

Unrefunded ==
  /\ \A h \in Handlers : hand[h].pc \in {"idle", "confirm", "void", "sweep"}
  /\ \A o \in Orders : charge[o] # "refunded"

(* A change is of a term that runs, to a plan that costs money.            *)
ChangeFits(row) == row.kind = "change" => ~IsFree(row.plan) /\ row.expect > 0

ChangesFit ==
  /\ \A o \in Orders : ChangeFits(orders[o])
  /\ \A s \in Shoppers : ChangeFits(shop[s].draft)

(* Time left that was paid for is time on a paid plan.                     *)
TermKept(u) ==
  paidUntil[u] > now => /\ users[u].plan # NoPlan /\ ~IsFree(users[u].plan)
                        /\ users[u].expire >= paidUntil[u]

Terms == \A u \in Users : TermKept(u)

(* Who has time left that was paid for is locked into the plan.            *)
LEMMA KeptIsActive ==
  ASSUME Inv, NEW u \in Users, TermKept(u), paidUntil[u] > now
  PROVE ActivePaidPlan(users, u) = users[u].plan /\ users[u].expire > now
<1>1. /\ users[u] \in UserRow /\ now \in Nat /\ paidUntil[u] \in Nat
  BY DEF Inv, TypeOK, StoreTypeOK
<1>2. users[u].expire \in Nat BY <1>1 DEF UserRow
<1>3. users[u].expire > now BY <1>1, <1>2 DEF TermKept
<1> QED BY <1>3 DEF TermKept, ActivePaidPlan

(* Where an extended term starts, the time paid for has ended.             *)
LEMMA BaseCovers ==
  ASSUME Inv, NEW u \in Users, TermKept(u), NEW extend, NEW base,
         base = TermBase(users, u, extend)
  PROVE /\ base \in Nat /\ base >= now
        /\ extend /\ paidUntil[u] > now => base >= paidUntil[u]
<1>1. /\ users[u] \in UserRow /\ now \in Nat /\ paidUntil[u] \in Nat
  BY DEF Inv, TypeOK, StoreTypeOK
<1>2. users[u].expire \in Nat BY <1>1 DEF UserRow
<1> QED BY <1>1, <1>2, KeptIsActive DEF TermBase, TermKept

(* A term written for a payment covers the time it was paid for.           *)
LEMMA PaidToCovered ==
  ASSUME Inv, NEW u \in Users, NEW p \in Plans, NEW days \in Nat,
         NEW base \in Nat, base >= now,
         users[u].plan = p /\ paidUntil[u] > now => base >= paidUntil[u],
         NEW w, w.plan = p, w.expire \in Nat,
         w.expire = 0 \/ (~IsFree(p) /\ w.expire >= base + days)
  PROVE PaidTo(u, w, days) > now => ~IsFree(p) /\ w.expire >= PaidTo(u, w, days)
<1>1. now \in Nat /\ paidUntil[u] \in Nat BY DEF Inv, TypeOK, StoreTypeOK
<1>2. CASE w.expire = 0 BY <1>1, <1>2 DEF PaidTo
<1>3. CASE w.expire # 0
  <2>1. CASE users[u].plan = p /\ paidUntil[u] > now
    <3>1. PaidTo(u, w, days) = days + paidUntil[u] BY <1>1, <1>3, <2>1 DEF PaidTo, Most
    <3> QED BY <1>1, <1>3, <2>1, <3>1
  <2>2. CASE ~(users[u].plan = p /\ paidUntil[u] > now)
    <3>1. PaidTo(u, w, days) = days + now BY <1>1, <1>3, <2>2 DEF PaidTo, Most
    <3> QED BY <1>1, <1>3, <3>1
  <2> QED BY <2>1, <2>2
<1> QED BY <1>2, <1>3

----------------------------------------------------------------------------
(* What the transactions do to terms. *)

LaterTerm(us, vs, u) == vs[u].plan = us[u].plan /\ vs[u].expire >= us[u].expire

SameTerm(us, vs, u) == vs[u].plan = us[u].plan /\ vs[u].expire = us[u].expire

(* A credit touches no term. *)
LEMMA CreditTerms ==
  ASSUME NEW us \in Table, NEW u \in Users, NEW kop
  PROVE \A v \in Users : SameTerm(us, Credit(us, u, kop), v)
<1>1. TAKE v \in Users
<1>2. us[v] \in UserRow /\ us[u] \in UserRow BY DEF Table
<1> DEFINE b == us[u].balance + kop
<1>3. Credit(us, u, kop) = [us EXCEPT ![u] = [us[u] EXCEPT !.balance = b]]
  BY <1>2 DEF Credit, UserRow
<1> HIDE DEF b
<1> QED BY <1>2, <1>3 DEF SameTerm, Table, UserRow

(* Nor does a debit. *)
LEMMA DebitTerms ==
  ASSUME NEW us \in Table, NEW u \in Users, NEW kop
  PROVE \A v \in Users : SameTerm(us, Debit(us, u, kop), v)
<1>1. TAKE v \in Users
<1>2. us[v] \in UserRow /\ us[u] \in UserRow BY DEF Table
<1> DEFINE b == us[u].balance - kop
<1>3. Debit(us, u, kop) = [us EXCEPT ![u] = [us[u] EXCEPT !.balance = b]]
  BY <1>2 DEF Debit, UserRow
<1> HIDE DEF b
<1> QED BY <1>2, <1>3 DEF SameTerm, Table, UserRow

(* A plan is written to one user and to nobody else. *)
LEMMA ApplyUserPlanTerms ==
  ASSUME NEW us \in Table, NEW u \in Users, NEW w
  PROVE /\ ApplyUserPlan(us, u, w)[u].plan = w.plan
        /\ ApplyUserPlan(us, u, w)[u].expire = w.expire
        /\ \A v \in Users \ {u} : ApplyUserPlan(us, u, w)[v] = us[v]
<1>1. us[u] \in UserRow BY DEF Table
<1> DEFINE row == [us[u] EXCEPT !.plan = w.plan, !.expire = w.expire,
                                !.extra = w.extra, !.pack = w.pack]
<1>2. ApplyUserPlan(us, u, w) = [us EXCEPT ![u] = row]
  BY DEF ApplyUserPlan
<1>3. row.plan = w.plan /\ row.expire = w.expire BY <1>1 DEF UserRow
<1> HIDE DEF row
<1> QED BY <1>2, <1>3 DEF Table

(* An add-on leaves the term as it is. *)
LEMMA ApplyAddonTerms ==
  ASSUME NEW us \in Table, NEW u \in Users, NEW a
  PROVE \A v \in Users : SameTerm(us, ApplyAddon(us, u, a), v)
<1>1. TAKE v \in Users
<1>2. us[v] \in UserRow /\ us[u] \in UserRow BY DEF Table
<1> DEFINE n == us[u].extra + a.devices
           k == us[u].pack + a.pack
<1>3. ApplyAddon(us, u, a) = [us EXCEPT ![u] = [us[u] EXCEPT !.extra = n, !.pack = k]]
  BY <1>2 DEF ApplyAddon, UserRow, Table
<1> HIDE DEF n, k
<1> QED BY <1>2, <1>3 DEF SameTerm, Table, UserRow

(* A delivery writes the term of the order's plan, an add-on none. *)
LEMMA DeliverTerms ==
  ASSUME NEW us \in Table, NEW u \in Users, NEW sp \in SpecRow, NEW vs, vs = Deliver(us, u, sp)
  PROVE /\ sp.what = "addon" => \A v \in Users : SameTerm(us, vs, v)
        /\ sp.what # "addon" => /\ vs[u].plan = sp.write.plan
                                /\ vs[u].expire = sp.write.expire
                                /\ \A v \in Users \ {u} : vs[v] = us[v]
<1>1. CASE sp.what = "addon" BY <1>1, ApplyAddonTerms DEF Deliver
<1>2. CASE sp.what # "addon"
  <2> DEFINE w == ApplyUserPlan(us, u, sp.write)
             b == Most(w[u].bonus - sp.bonus, 0)
             c == IF w[u].promo = sp.promo THEN NoCode ELSE w[u].promo
             row == [w[u] EXCEPT !.bonus = b, !.promo = c]
  <2>1. w \in Table BY ApplyUserPlanType DEF SpecRow
  <2>2. /\ w[u].plan = sp.write.plan /\ w[u].expire = sp.write.expire
        /\ \A v \in Users \ {u} : w[v] = us[v]
    BY ApplyUserPlanTerms
  <2>3. w[u] \in UserRow BY <2>1 DEF Table
  <2>4. vs = [w EXCEPT ![u] = row]
    <3>1. vs = [w EXCEPT ![u].bonus = b, ![u].promo = c]
      <4>1. vs = [w EXCEPT ![u].bonus = Most(@ - sp.bonus, 0),
                           ![u].promo = IF @ = sp.promo THEN NoCode ELSE @]
        BY <1>2 DEF Deliver
      <4> HIDE DEF w
      <4> QED BY <2>1, <2>3, <4>1 DEF Table, UserRow
    <3> HIDE DEF w, b, c
    <3> QED BY <2>1, <2>3, <3>1 DEF Table, UserRow
  <2> HIDE DEF w, b, c
  <2>5. row.plan = w[u].plan /\ row.expire = w[u].expire BY <2>3 DEF UserRow
  <2> HIDE DEF row
  <2>6. vs[u] = row /\ \A v \in Users \ {u} : vs[v] = w[v] BY <2>1, <2>4 DEF Table
  <2> QED BY <1>2, <2>2, <2>5, <2>6
<1> QED BY <1>1, <1>2

(* The inviter's term only gets longer. *)
LEMMA RewardTerms ==
  ASSUME NEW us \in Table, NEW o \in Orders, NEW price, NEW planBought,
         orders \in [Orders -> OrderRow], orders[o].user \in Users, now \in Nat
  PROVE \A v \in Users : LaterTerm(us, RewardReferrer(us, o, price, planBought).us, v)
<1> DEFINE r == Referrer[orders[o].user]
           money == orders[o].amount
           earlier == {x \in Orders \ {o} :
                    /\ orders[x].user = orders[o].user /\ orders[x].status = "paid"
                    /\ orders[x].amount > 0
                    /\ RefMode = "days" => orders[x].kind = "plan"}
           due == money > 0 /\ r # NoUser /\ (RefFirstOnly => earlier = {})
           kop == IF due /\ RefMode = "percent" THEN money * RefPercent ELSE 0
           p == IF r = NoUser THEN NoPlan ELSE us[r].plan
           running == p # NoPlan /\ ~IsFree(p) /\ Period[p] > 0 /\ us[r].expire > now
           lifetime == p # NoPlan /\ ~IsFree(p) /\ Period[p] = 0
           days == IF /\ due /\ RefMode = "days" /\ planBought
                      /\ money * 2 * Kop >= price /\ ~lifetime
                   THEN RefDays ELSE 0
           after == IF kop > 0 THEN Credit(us, r, kop)
                    ELSE IF days = 0 THEN us
                    ELSE IF running THEN [us EXCEPT ![r].expire = @ + days]
                    ELSE [us EXCEPT ![r].bonus = @ + days]
<1>1. RewardReferrer(us, o, price, planBought) =
        [us |-> after, kop |-> kop, days |-> days]
  BY Zenon DEF RewardReferrer
<1>2. r \in Users \cup {NoUser} BY StoreAssumption
<1>3. days \in Nat BY StoreAssumption
<1>4. kop > 0 => r \in Users BY <1>2
<1>5. days # 0 => r \in Users BY <1>2
<1> HIDE DEF kop, days, r, running
<1>6. ASSUME NEW v \in Users PROVE LaterTerm(us, after, v)
  <2>1. us[v] \in UserRow /\ us[v].expire \in Nat BY DEF Table, UserRow
  <2>2. CASE kop > 0
    <3>1. after = Credit(us, r, kop) BY <2>2
    <3>2. SameTerm(us, after, v) BY <1>4, <2>2, <3>1, CreditTerms
    <3> QED BY <2>1, <3>2 DEF SameTerm, LaterTerm
  <2>3. CASE ~(kop > 0) /\ days # 0
    <3>1. r \in Users /\ us[r] \in UserRow BY <1>5, <2>3 DEF Table
    <3>2. \/ after = [us EXCEPT ![r] = [us[r] EXCEPT !.expire = us[r].expire + days]]
          \/ after = [us EXCEPT ![r] = [us[r] EXCEPT !.bonus = us[r].bonus + days]]
      BY <2>3, <3>1 DEF Table
    <3> HIDE DEF after
    <3>3. CASE v # r
      <4>1. after[v] = us[v] BY <3>2, <3>3 DEF Table
      <4> QED BY <2>1, <4>1 DEF LaterTerm
    <3>4. CASE v = r
      <4>1. \/ after[r] = [us[r] EXCEPT !.expire = us[r].expire + days]
            \/ after[r] = [us[r] EXCEPT !.bonus = us[r].bonus + days]
        BY <3>1, <3>2 DEF Table
      <4> QED BY <1>3, <2>1, <3>1, <3>4, <4>1 DEF LaterTerm, UserRow
    <3> QED BY <3>3, <3>4
  <2>4. CASE ~(kop > 0) /\ days = 0 BY <2>1, <2>4 DEF LaterTerm
  <2> QED BY <2>2, <2>3, <2>4
<1> HIDE DEF after
<1>7. RewardReferrer(us, o, price, planBought).us = after BY <1>1
<1> QED BY <1>6, <1>7

----------------------------------------------------------------------------
(* Payments. *)

(* An order of this kind delivers a plan that covers the time paid for.    *)
KeepsPaid(u, kind, sp) ==
  /\ kind = "plan" => sp.what # "addon"
  /\ sp.what = "plan" /\ Deliverable(users, u, sp) =>
       LET until == IF kind = "plan" THEN PaidTo(u, sp.write, sp.days) ELSE paidUntil[u]
       IN until > now => /\ sp.write.plan # NoPlan /\ ~IsFree(sp.write.plan)
                         /\ sp.write.expire >= until

(* A balance has no say in whether a plan can be delivered. *)
LEMMA SameDeliverable ==
  ASSUME NEW us \in Table, NEW vs \in Table, NEW u \in Users, NEW sp,
         sp.what = "plan", SameTerm(us, vs, u), Deliverable(vs, u, sp)
  PROVE Deliverable(us, u, sp)
BY DEF Deliverable, SameTerm

(* Terms that only get longer keep what was paid for.                      *)
LEMMA LaterKept ==
  ASSUME Inv, Inv', NEW u \in Users, TermKept(u), LaterTerm(users, users', u),
         paidUntil'[u] = paidUntil[u], now' >= now
  PROVE TermKept(u)'
<1>1. /\ users \in Table /\ now \in Nat /\ paidUntil[u] \in Nat
      /\ users' \in Table /\ now' \in Nat
  BY DEF Inv, TypeOK, StoreTypeOK, Table
<1>2. users[u].expire \in Nat /\ users'[u].expire \in Nat BY <1>1 DEF Table, UserRow
<1> QED BY <1>1, <1>2 DEF LaterTerm, TermKept

(* A purchase from the balance keeps everybody's time. *)
LEMMA BuyTerms ==
  ASSUME Inv, Inv', Terms, NEW o \in Orders, NEW row \in OrderRow, row.user \in Users,
         NEW sp \in SpecRow, sp.what # "nothing", NEW at, BuyFromBalance(o, row, sp, at),
         KeepsPaid(row.user, row.kind, sp), now' = now
  PROVE Terms'
<1> DEFINE u == row.user
           us == Debit(users, u, sp.debit)
<1>1. /\ users \in Table /\ now \in Nat /\ paidUntil \in [Users -> Nat]
  BY DEF Inv, TypeOK, StoreTypeOK, Table
<1>2. us \in Table
  BY <1>1, DebitType DEF BuyFromBalance, Covers, SpecRow
<1>3. \A v \in Users : SameTerm(users, us, v) BY <1>1, DebitTerms
<1>4. users' = Deliver(us, u, sp) /\ Deliverable(users, u, sp)
  BY DEF BuyFromBalance
<1>5. paidUntil' = IF row.kind = "plan"
                   THEN [paidUntil EXCEPT ![u] = PaidTo(u, sp.write, sp.days)]
                   ELSE paidUntil
  BY DEF BuyFromBalance
<1> HIDE DEF us
<1>6. SUFFICES ASSUME NEW v \in Users PROVE TermKept(v)' BY DEF Terms
<1>7. TermKept(v) BY DEF Terms
<1>8. users[v].expire \in Nat BY <1>1 DEF Table, UserRow
<1>9. CASE v # u \/ sp.what = "addon"
  <2>1. users'[v].plan = us[v].plan /\ users'[v].expire = us[v].expire
    BY <1>2, <1>4, <1>9, DeliverTerms DEF SameTerm
  <2>2. LaterTerm(users, users', v) BY <1>3, <1>8, <2>1 DEF SameTerm, LaterTerm
  <2>3. paidUntil'[v] = paidUntil[v] BY <1>1, <1>5, <1>9 DEF KeepsPaid
  <2> QED BY <1>1, <1>7, <2>2, <2>3, LaterKept
<1>10. CASE v = u /\ sp.what # "addon"
  <2>1. users'[u].plan = sp.write.plan /\ users'[u].expire = sp.write.expire
    BY <1>2, <1>4, <1>10, DeliverTerms
  <2>2. sp.what = "plan" BY <1>10 DEF SpecRow
  <2>3. paidUntil'[u] = IF row.kind = "plan" THEN PaidTo(u, sp.write, sp.days)
                        ELSE paidUntil[u]
    BY <1>1, <1>5
  <2> QED BY <1>4, <1>10, <2>1, <2>2, <2>3 DEF KeepsPaid, TermKept
<1> QED BY <1>9, <1>10

(* So does a confirmation. *)
LEMMA ClaimTerms ==
  ASSUME Inv, Inv', Terms, NEW o \in Orders, orders[o].status # "none",
         NEW sp \in SpecRow, ConfirmOrder(o, sp),
         KeepsPaid(orders[o].user, orders[o].kind, sp), now' = now
  PROVE Terms'
<1> DEFINE u == orders[o].user
           us1 == Credit(users, u, sp.credit)
           buys == sp.what # "nothing"
           ok == buys /\ Deliverable(us1, u, sp) /\ Covers(us1, u, sp.debit)
           us2 == IF ok THEN Deliver(Debit(us1, u, sp.debit), u, sp) ELSE us1
           price == IF sp.debit = 0 THEN orders[o].amount * Kop ELSE sp.debit
           rw == RewardReferrer(us2, o, price, orders[o].kind = "plan" /\ ok)
<1>1. /\ users \in Table /\ now \in Nat /\ paidUntil \in [Users -> Nat]
      /\ orders \in [Orders -> OrderRow] /\ users' \in Table
  BY DEF Inv, TypeOK, StoreTypeOK, Table
<1>2. u \in Users BY DEF Inv, WellFormed, RowFits, Fits
<1>3. CASE ~Open(o)
  <2>1. UNCHANGED <<users, paidUntil>>
    BY <1>3 DEF ConfirmOrder, tables, history
  <2>2. \A v \in Users : LaterTerm(users, users', v)
    BY <1>1, <2>1 DEF LaterTerm, Table, UserRow
  <2> QED BY <1>1, <2>1, <2>2, LaterKept DEF Terms
<1>4. CASE Open(o)
  <2>1. users' = rw.us BY <1>4, Zenon DEF ConfirmOrder
  <2>2. paidUntil' = IF ok /\ orders[o].kind = "plan"
                     THEN [paidUntil EXCEPT ![u] = PaidTo(u, sp.write, sp.days)]
                     ELSE paidUntil
    BY <1>4, Zenon DEF ConfirmOrder
  <2> DEFINE us3 == Debit(us1, u, sp.debit)
  <2>3. us1 \in Table
    BY <1>1, <1>2, CreditType DEF SpecRow, Table, UserRow
  <2>4. \A v \in Users : SameTerm(users, us1, v) BY <1>1, <1>2, CreditTerms
  <2> HIDE DEF us1
  <2>5. ok => us3 \in Table BY <1>2, <2>3, DebitType DEF Covers, SpecRow
  <2>6. \A v \in Users : SameTerm(users, us3, v)
    BY <1>2, <2>3, <2>4, DebitTerms DEF SameTerm
  <2> HIDE DEF us3
  <2>7. us2 \in Table
    <3>1. CASE ok BY <1>2, <2>5, <3>1, DeliverType DEF us3
    <3>2. CASE ~ok BY <2>3, <3>2
    <3> QED BY <3>1, <3>2
  <2>8. us2 = IF ok THEN Deliver(us3, u, sp) ELSE us1 BY DEF us3
  <2>9. ok => Deliverable(us1, u, sp) /\ sp.what # "nothing" OBVIOUS
  <2> HIDE DEF us2, ok, price
  <2>10. \A v \in Users : LaterTerm(us2, users', v)
    BY <1>1, <1>2, <2>1, <2>7, RewardTerms
  <2> HIDE DEF rw
  <2>11. SUFFICES ASSUME NEW v \in Users PROVE TermKept(v)' BY DEF Terms
  <2>12. TermKept(v) BY DEF Terms
  <2>13. users[v].expire \in Nat /\ users'[v].expire \in Nat
    BY <1>1 DEF Table, UserRow
  <2>14. CASE v # u \/ sp.what = "addon" \/ ~ok
    <3>1. us2[v].plan = users[v].plan /\ us2[v].expire = users[v].expire
      <4>1. CASE ~ok BY <2>4, <2>8, <4>1 DEF SameTerm
      <4>2. CASE ok
        <5>1. us2[v].plan = us3[v].plan /\ us2[v].expire = us3[v].expire
          BY <1>2, <2>5, <2>8, <2>14, <4>2, DeliverTerms DEF SameTerm
        <5> QED BY <2>6, <5>1 DEF SameTerm
      <4> QED BY <4>1, <4>2
    <3>2. LaterTerm(users, users', v) BY <2>10, <3>1 DEF LaterTerm
    <3>3. paidUntil'[v] = paidUntil[v] BY <1>1, <2>2, <2>14 DEF KeepsPaid
    <3> QED BY <1>1, <2>12, <3>2, <3>3, LaterKept
  <2>15. CASE v = u /\ sp.what # "addon" /\ ok
    <3>1. us2[u].plan = sp.write.plan /\ us2[u].expire = sp.write.expire
      BY <1>2, <2>5, <2>8, <2>15, DeliverTerms
    <3>2. sp.what = "plan" BY <2>9, <2>15 DEF SpecRow
    <3>3. Deliverable(users, u, sp)
      BY <1>1, <1>2, <2>3, <2>4, <2>9, <2>15, <3>2, SameDeliverable
    <3>4. paidUntil'[u] = IF orders[o].kind = "plan" THEN PaidTo(u, sp.write, sp.days)
                          ELSE paidUntil[u]
      BY <1>1, <1>2, <2>2, <2>15
    <3>5. /\ users'[u].plan = sp.write.plan /\ users'[u].expire >= sp.write.expire
          /\ users'[u].expire \in Nat /\ sp.write.expire \in Nat
      BY <1>2, <2>10, <2>13, <2>15, <3>1 DEF LaterTerm, SpecRow, WriteRow
    <3>6. /\ PaidTo(u, sp.write, sp.days) \in Nat /\ paidUntil[u] \in Nat
      BY <1>1, <1>2, PaidToType DEF Inv, TypeOK, SpecRow
    <3> QED BY <1>1, <2>15, <3>2, <3>3, <3>4, <3>5, <3>6 DEF KeepsPaid, TermKept
  <2> QED BY <2>14, <2>15
<1> QED BY <1>3, <1>4

----------------------------------------------------------------------------
(* The plans that are sold and delivered. *)

(* A plan bought anew or extended, with the days banked, covers the time    *)
(* paid for.                                                               *)
LEMMA BoughtCovers ==
  ASSUME Inv, NEW u \in Users, NEW p \in Plans, NEW days \in Nat,
         NEW base \in Nat, base >= now,
         users[u].plan = p /\ paidUntil[u] > now => base >= paidUntil[u],
         NEW w, w.expire = IF IsFree(p) \/ days = 0 THEN 0 ELSE base + days,
         w = [plan |-> p, expire |-> w.expire, extra |-> w.extra,
              pack |-> w.pack, reqPlan |-> w.reqPlan, reqExpire |-> w.reqExpire],
         NEW bonus, bonus = IF w.expire > 0 THEN users[u].bonus ELSE 0,
         NEW wb, wb = [w EXCEPT !.expire = @ + bonus]
  PROVE /\ wb.plan = p
        /\ PaidTo(u, wb, days) > now => ~IsFree(p) /\ wb.expire >= PaidTo(u, wb, days)
<1>1. users[u].bonus \in Nat BY DEF Inv, TypeOK, StoreTypeOK, UserRow
<1>2. bonus \in Nat BY <1>1
<1>3. wb.plan = p /\ wb.expire = w.expire + bonus
  <2>1. wb = [w EXCEPT !.expire = w.expire + bonus] OBVIOUS
  <2> QED BY <2>1
<1>4. /\ wb.expire \in Nat
      /\ wb.expire = 0 \/ (~IsFree(p) /\ wb.expire >= base + days)
  BY <1>2, <1>3
<1> QED BY <1>3, <1>4, PaidToCovered

(* What a change writes. *)
LEMMA ChangeWriteTerm ==
  ASSUME NEW u, NEW to, NEW devices, NEW expire, NEW reqPlan, NEW reqExpire,
         NEW w, w = ChangeWrite(users, u, to, devices, expire, reqPlan, reqExpire)
  PROVE /\ w.plan = to /\ w.expire = expire
        /\ w.reqPlan = reqPlan /\ w.reqExpire = reqExpire
<1> DEFINE base == PlanWriteForDays(users, u, to, FALSE, FALSE, Period[to], devices)
           pack == IF Quota[to] THEN users[u].pack ELSE 0
<1>1. w = [base EXCEPT !.expire = expire, !.reqPlan = reqPlan, !.reqExpire = reqExpire,
                       !.pack = pack]
  BY DEF ChangeWrite
<1>2. /\ base = [plan |-> base.plan, expire |-> base.expire, extra |-> base.extra,
                 pack |-> base.pack, reqPlan |-> base.reqPlan,
                 reqExpire |-> base.reqExpire]
      /\ base.plan = to
  BY DEF PlanWriteForDays
<1> HIDE DEF base, pack
<1> QED BY <1>1, <1>2

(* What a confirmed order delivers keeps the time paid for. *)
LEMMA ConfirmKeepsPaid ==
  ASSUME Inv, ChangesFit, Terms, NEW o \in Orders, orders[o].status # "none"
  PROVE KeepsPaid(orders[o].user, orders[o].kind, ConfirmSpec(o))
<1> DEFINE row == orders[o]
           u == row.user
           sp == ConfirmSpec(o)
           money == row.amount * Kop
           cur == ActivePaidPlan(users, u)
           moved == cur # NoPlan /\ (cur # row.plan \/ Period[cur] = 0)
           days == Period[row.plan] * row.periods
           w == PlanWriteForDays(users, u, row.plan, cur = row.plan, TRUE, days,
                                 row.devices)
           bonus == IF w.expire > 0 THEN users[u].bonus ELSE 0
           wb == [w EXCEPT !.expire = @ + bonus]
           credit == IF row.bal > 0 THEN money ELSE 0
           debit == IF row.bal > 0 THEN money + row.bal ELSE 0
           change == ChangeWrite(users, u, row.plan, row.devices, row.expect,
                                 row.from, row.expect)
           addon == [NoAddon EXCEPT !.plan = row.plan, !.pack = row.pack,
                       !.devices = IF row.kind = "devices" THEN row.devices ELSE 0,
                       !.reqExpire = row.expect]
<1>1. /\ row \in OrderRow /\ users \in Table /\ now \in Nat
      /\ paidUntil \in [Users -> Nat]
  BY DEF Inv, TypeOK, StoreTypeOK, Table
<1>2. u \in Users /\ Fits(row) BY DEF Inv, WellFormed, RowFits, Fits
<1>3. /\ users[u] \in UserRow /\ users[u].bonus \in Nat /\ users[u].expire \in Nat
      /\ TermKept(u) /\ paidUntil[u] \in Nat
  BY <1>1, <1>2 DEF Terms, Table, UserRow
<1>4. CASE row.kind = "topup"
  <2>1. sp = [EmptySpec EXCEPT !.credit = money] BY <1>4 DEF ConfirmSpec
  <2> QED BY <1>4, <2>1 DEF EmptySpec, KeepsPaid
<1>5. CASE row.kind = "change"
  <2>1. sp = [EmptySpec EXCEPT !.credit = money, !.debit = money + row.bal,
                               !.what = "plan", !.write = change]
    BY <1>5 DEF ConfirmSpec
  <2>2. /\ change.plan = row.plan /\ change.expire = row.expect
        /\ change.reqPlan = row.from /\ change.reqExpire = row.expect
    BY ChangeWriteTerm
  <2> HIDE DEF change, sp, money
  <2>3. sp.what = "plan" /\ sp.write = change BY <2>1 DEF EmptySpec
  <2>4. row.plan \in Plans /\ row.from \in Plans BY <1>2, <1>5 DEF Fits
  <2>5. row.plan # NoPlan /\ row.from # NoPlan BY <2>4, StoreAssumption
  <2>6. ~IsFree(row.plan) /\ row.expect > 0 BY <1>5 DEF ChangesFit, ChangeFits
  <2>7. Deliverable(users, u, sp) => users[u].expire = row.expect
    BY <1>1, <2>2, <2>3, <2>5, <2>6 DEF Deliverable, OrderRow
  <2>8. paidUntil[u] > now => users[u].expire >= paidUntil[u]
    BY <1>3 DEF TermKept
  <2> QED BY <1>5, <2>2, <2>3, <2>5, <2>6, <2>7, <2>8 DEF KeepsPaid, sp
<1>6. CASE row.kind \in {"devices", "traffic"}
  <2>1. sp = [EmptySpec EXCEPT !.credit = money, !.debit = money + row.bal,
                               !.what = "addon", !.addon = addon]
    BY <1>6 DEF ConfirmSpec
  <2> HIDE DEF addon
  <2> QED BY <1>6, <2>1 DEF EmptySpec, KeepsPaid
<1>7. CASE row.kind = "plan"
  <2>1. sp = IF \/ WalletEnabled /\ (CodeTaken(o) \/ moved)
                \/ cur = row.plan /\ HeldDevices(users, u, row.plan) # row.devices
             THEN [EmptySpec EXCEPT !.credit = money, !.asTopup = TRUE]
             ELSE [EmptySpec EXCEPT !.what = "plan", !.promo = row.promo,
                     !.write = wb, !.bonus = bonus, !.days = days,
                     !.credit = credit, !.debit = debit]
    BY <1>7 DEF ConfirmSpec
  <2>2. row.plan \in Plans /\ row.plan # NoPlan
    BY <1>2, <1>7, StoreAssumption DEF Fits
  <2>3. row.periods \in Nat BY <1>1 DEF OrderRow
  <2>4. days \in Nat BY <2>2, <2>3, StoreAssumption, ProductNat
  <2>5. users[u].plan = row.plan /\ paidUntil[u] > now => cur = row.plan
    BY <1>2, <1>3, KeptIsActive
  <2> HIDE DEF days, cur
  <2> DEFINE base == TermBase(users, u, cur = row.plan)
  <2>6. /\ w.expire = IF IsFree(row.plan) \/ days = 0 THEN 0 ELSE base + days
        /\ w = [plan |-> row.plan, expire |-> w.expire, extra |-> w.extra,
                pack |-> w.pack, reqPlan |-> w.reqPlan, reqExpire |-> w.reqExpire]
    BY DEF PlanWriteForDays
  <2>7. /\ base \in Nat /\ base >= now
        /\ users[u].plan = row.plan /\ paidUntil[u] > now => base >= paidUntil[u]
    BY <1>2, <1>3, <2>5, BaseCovers
  <2>8. bonus = IF w.expire > 0 THEN users[u].bonus ELSE 0 OBVIOUS
  <2>9. wb = [w EXCEPT !.expire = @ + bonus] OBVIOUS
  <2> HIDE DEF base, w, bonus, wb
  <2>10. /\ wb.plan = row.plan
         /\ PaidTo(u, wb, days) > now =>
              ~IsFree(row.plan) /\ wb.expire >= PaidTo(u, wb, days)
    BY <1>2, <2>2, <2>4, <2>6, <2>7, <2>8, <2>9, BoughtCovers
  <2> HIDE DEF credit, debit, moved, sp, money
  <2>11. \/ sp.what = "nothing"
         \/ sp.what = "plan" /\ sp.write = wb /\ sp.days = days
    BY <2>1 DEF EmptySpec
  <2> QED BY <1>7, <2>2, <2>10, <2>11 DEF KeepsPaid, sp
<1> QED BY <1>1, <1>4, <1>5, <1>6, <1>7 DEF OrderRow, Kinds

(* So does a purchase from the balance. *)
LEMMA TapKeepsPaid ==
  ASSUME Inv, Terms, NEW u \in Users, NEW p \in PurchaseRow, p.kind # "topup",
         NEW q \in Quotes(u, p)
  PROVE BalanceSpec(u, p, q).what # "nothing" /\ KeepsPaid(u, p.kind, BalanceSpec(u, p, q))
<1> DEFINE row == Draft(u, p, q)
           sp == BalanceSpec(u, p, q)
           cur == ActivePaidPlan(users, u)
           days == Period[row.plan] * row.periods
           w == PlanWriteForDays(users, u, row.plan, cur = row.plan, TRUE, days,
                                 row.devices)
           bonus == IF w.expire > 0 THEN users[u].bonus ELSE 0
           empty == [EmptySpec EXCEPT !.debit = q.bal]
           wb == [w EXCEPT !.expire = @ + bonus]
           change == ChangeWrite(users, u, row.plan, row.devices, q.expire,
                                 users[u].plan, users[u].expire)
           addon == [NoAddon EXCEPT !.plan = row.plan,
                       !.devices = IF p.kind = "devices" THEN row.devices ELSE 0,
                       !.pack = row.pack, !.reqExpire = row.expect,
                       !.reqExtra = users[u].extra, !.reqPack = users[u].pack]
<1>1. /\ users \in Table /\ orders \in [Orders -> OrderRow] /\ now \in Nat
      /\ paidUntil \in [Users -> Nat]
  BY DEF Inv, TypeOK, StoreTypeOK, Table
<1>2. TermKept(u) /\ paidUntil[u] \in Nat /\ users[u].expire \in Nat
  BY <1>1 DEF Terms, Table, UserRow
<1>3. p.kind \in {"plan", "change", "devices", "traffic"} BY DEF PurchaseRow, Kinds
<1>4. row \in OrderRow /\ Fits(row) /\ row.kind = p.kind BY <1>1, DraftType
<1>5. row.plan \in Plans /\ row.periods \in Nat /\ row.plan # NoPlan
  BY <1>3, <1>4, StoreAssumption DEF OrderRow, Fits
<1>6. CASE p.kind = "plan"
  <2>1. sp = [empty EXCEPT !.what = "plan", !.promo = q.promo, !.bonus = bonus,
                           !.days = days, !.write = wb]
    BY <1>6 DEF BalanceSpec
  <2>2. days \in Nat BY <1>5, StoreAssumption, ProductNat
  <2>3. users[u].plan = row.plan /\ paidUntil[u] > now => cur = row.plan
    BY <1>2, KeptIsActive
  <2> HIDE DEF row, days, cur, sp
  <2> DEFINE base == TermBase(users, u, cur = row.plan)
  <2>4. /\ w.expire = IF IsFree(row.plan) \/ days = 0 THEN 0 ELSE base + days
        /\ w = [plan |-> row.plan, expire |-> w.expire, extra |-> w.extra,
                pack |-> w.pack, reqPlan |-> w.reqPlan, reqExpire |-> w.reqExpire]
    BY DEF PlanWriteForDays
  <2>5. /\ base \in Nat /\ base >= now
        /\ users[u].plan = row.plan /\ paidUntil[u] > now => base >= paidUntil[u]
    BY <1>2, <2>3, BaseCovers
  <2>6. bonus = IF w.expire > 0 THEN users[u].bonus ELSE 0 OBVIOUS
  <2>7. wb = [w EXCEPT !.expire = @ + bonus] OBVIOUS
  <2> HIDE DEF base, w, bonus, wb
  <2>8. /\ wb.plan = row.plan
        /\ PaidTo(u, wb, days) > now =>
             ~IsFree(row.plan) /\ wb.expire >= PaidTo(u, wb, days)
    BY <1>5, <2>2, <2>4, <2>5, <2>6, <2>7, BoughtCovers
  <2>9. sp.what = "plan" /\ sp.write = wb /\ sp.days = days BY <2>1 DEF EmptySpec
  <2> QED BY <1>5, <1>6, <2>8, <2>9 DEF KeepsPaid, sp
<1>7. CASE p.kind = "change"
  <2>1. sp = [empty EXCEPT !.what = "plan", !.write = change]
    BY <1>7 DEF BalanceSpec
  <2>2. change.plan = row.plan /\ change.expire = q.expire BY ChangeWriteTerm
  <2> HIDE DEF change, sp, row
  <2>3. sp.what = "plan" /\ sp.write = change BY <2>1 DEF EmptySpec
  <2>4. /\ ~IsFree(p.plan) /\ q.expire >= users[u].expire /\ q.expire \in Nat
    <3>1. q \in QuoteChange(u, p.plan, p.devices) BY <1>7 DEF Quotes
    <3>2. p.plan \in Plans /\ p.devices \in Nat \cup {KeepDevices}
      BY <1>7 DEF PurchaseRow
    <3> QED BY <1>1, <3>1, <3>2, QuoteChangeType DEF QuoteRow
  <2>5. row.plan = p.plan BY <1>1, <1>7, DraftType DEF row
  <2>6. paidUntil[u] > now => users[u].expire >= paidUntil[u]
    BY <1>2 DEF TermKept
  <2> QED BY <1>1, <1>2, <1>5, <1>7, <2>2, <2>3, <2>4, <2>5, <2>6 DEF KeepsPaid, sp
<1>8. CASE p.kind \in {"devices", "traffic"}
  <2>1. sp = [empty EXCEPT !.what = "addon", !.addon = addon]
    BY <1>8 DEF BalanceSpec
  <2> HIDE DEF addon, sp
  <2>2. sp.what = "addon" BY <2>1 DEF EmptySpec
  <2> QED BY <1>8, <2>2 DEF KeepsPaid, sp
<1> QED BY <1>3, <1>6, <1>7, <1>8

(* So does a renewal. *)
LEMMA RenewalTerms ==
  ASSUME Inv, Inv', Terms, NEW u \in Users, NEW o \in Orders, RenewFromBalance(u, o)
  PROVE Terms'
<1> DEFINE p == users[u].plan
           devices == HeldDevices(users, u, p)
           w == PlanWriteForDays(users, u, p, TRUE, TRUE, Period[p], devices)
           bonus == IF w.expire > 0 THEN users[u].bonus ELSE 0
           kop == RenewalKop(users, u)
           days == Period[p]
           wb == [w EXCEPT !.expire = @ + bonus]
           row == [Blank EXCEPT !.user = u, !.plan = p, !.devices = devices]
           sp == [EmptySpec EXCEPT !.what = "plan", !.debit = kop, !.bonus = bonus,
                    !.days = days, !.write = wb]
<1>1. /\ users \in Table /\ now \in Nat /\ job.time \in Nat /\ users[u] \in UserRow
      /\ TermKept(u)
  BY DEF Inv, TypeOK, StoreTypeOK, SubscriptionTypeOK, Table, Terms
<1>2. BuyFromBalance(o, row, sp, job.time) /\ now' = now BY DEF RenewFromBalance
<1>3. p \in Plans /\ p # NoPlan
  BY <1>1, StoreAssumption DEF RenewFromBalance, StillDue, Renewable, Table, UserRow
<1>4. devices \in Nat BY <1>1, <1>3, HeldDevicesType
<1>5. days \in Nat BY <1>3, StoreAssumption
<1>6. kop \in Nat
  BY <1>3, <1>4, StoreAssumption, PeriodRubNat, ProductNat DEF RenewalKop
<1>7. w \in WriteRow BY <1>1, <1>3, <1>4, <1>5, PlanWriteType
<1> DEFINE base == TermBase(users, u, TRUE)
<1>8. /\ w.expire = IF IsFree(p) \/ days = 0 THEN 0 ELSE base + days
      /\ w = [plan |-> p, expire |-> w.expire, extra |-> w.extra,
              pack |-> w.pack, reqPlan |-> w.reqPlan, reqExpire |-> w.reqExpire]
  BY DEF PlanWriteForDays
<1>9. /\ base \in Nat /\ base >= now /\ (paidUntil[u] > now => base >= paidUntil[u])
  BY <1>1, BaseCovers
<1>10. bonus = IF w.expire > 0 THEN users[u].bonus ELSE 0 OBVIOUS
<1>11. wb = [w EXCEPT !.expire = @ + bonus] OBVIOUS
<1>12. bonus \in Nat BY <1>1 DEF UserRow
<1> HIDE DEF base, w, bonus, wb, devices, kop, days
<1>13. wb \in WriteRow BY <1>7, <1>11, <1>12 DEF WriteRow
<1>14. /\ wb.plan = p
       /\ PaidTo(u, wb, days) > now => ~IsFree(p) /\ wb.expire >= PaidTo(u, wb, days)
  BY <1>3, <1>5, <1>8, <1>9, <1>10, <1>11, BoughtCovers
<1> HIDE DEF p
<1>15. row \in OrderRow BY <1>3, <1>4, BlankType DEF OrderRow
<1>16. row.user = u /\ row.kind = "plan" BY DEF Blank
<1>17. sp \in SpecRow BY <1>5, <1>6, <1>12, <1>13, EmptySpecType DEF SpecRow
<1>18. sp.what = "plan" /\ sp.write = wb /\ sp.days = days BY DEF EmptySpec
<1> HIDE DEF row, sp
<1>19. KeepsPaid(u, "plan", sp) BY <1>3, <1>14, <1>18 DEF KeepsPaid
<1> QED BY <1>2, <1>15, <1>16, <1>17, <1>18, <1>19, BuyTerms

(* And a tap that buys. *)
LEMMA TapBuysTerms ==
  ASSUME Inv, Inv', Terms, NEW t \in Taps, NEW o \in Orders, TapBuys(t, o)
  PROVE Terms'
<1> DEFINE u == tap[t].user
           p == tap[t].buy
<1>1. /\ StoreTypeOK /\ users \in Table /\ orders \in [Orders -> OrderRow] /\ now \in Nat
  BY DEF Inv, TypeOK, StoreTypeOK, Table
<1>2. u \in Users BY DEF TapBuys, Inv, WellFormed, TapFits
<1>3. p \in PurchaseRow /\ p.kind # "topup"
  BY BuyRow DEF Inv, TypeOK, SubscriptionTypeOK
<1>4. PICK q \in Quotes(u, p) :
        BuyFromBalance(o, Draft(u, p, q), BalanceSpec(u, p, q), now)
  BY DEF TapBuys
<1> DEFINE d == Draft(u, p, q)
           sp == BalanceSpec(u, p, q)
<1>5. d \in OrderRow /\ d.user = u /\ d.kind = p.kind BY <1>1, <1>2, <1>3, DraftType
<1>6. sp \in SpecRow BY <1>1, <1>2, <1>3, BalanceSpecType
<1>7. sp.what # "nothing" /\ KeepsPaid(u, p.kind, sp) BY <1>2, <1>3, TapKeepsPaid
<1>8. now' = now BY DEF TapBuys
<1> HIDE DEF d, sp, u, p
<1>9. BuyFromBalance(o, d, sp, now) BY <1>4 DEF d, sp
<1> QED BY <1>2, <1>5, <1>6, <1>7, <1>8, <1>9, BuyTerms

----------------------------------------------------------------------------
(* Changes stay what they were priced for. *)

(* A change is asked for on a running term.                                *)
LEMMA DraftFits ==
  ASSUME Inv, NEW u \in Users, NEW p \in PurchaseRow, NEW q \in Quotes(u, p)
  PROVE ChangeFits(Draft(u, p, q))
<1> DEFINE d == Draft(u, p, q)
<1>1. /\ users \in Table /\ orders \in [Orders -> OrderRow] /\ now \in Nat
      /\ users[u].expire \in Nat
  BY DEF Inv, TypeOK, StoreTypeOK, Table, UserRow
<1>2. d.kind = p.kind /\ (p.kind = "change" => d.plan = p.plan /\ d.expect = users[u].expire)
  BY <1>1, DraftType
<1> HIDE DEF d
<1>3. CASE p.kind = "change"
  <2>1. q \in QuoteChange(u, p.plan, p.devices) BY <1>3 DEF Quotes
  <2>2. p.plan \in Plans /\ p.devices \in Nat \cup {KeepDevices}
    BY <1>3 DEF PurchaseRow
  <2>3. ~IsFree(p.plan) /\ users[u].expire > now
    BY <1>1, <2>1, <2>2, QuoteChangeType
  <2> QED BY <1>1, <1>2, <1>3, <2>3 DEF ChangeFits, d
<1>4. CASE p.kind # "change" BY <1>2, <1>4 DEF ChangeFits, d
<1> QED BY <1>3, <1>4

(* Rows written over in other columns. *)
SameChange(o) ==
  orders'[o].kind = "change" => /\ orders[o].kind = "change"
                                /\ orders'[o].plan = orders[o].plan
                                /\ orders'[o].expect = orders[o].expect

(* They still fit. *)
LEMMA ChangesKept ==
  ASSUME ChangesFit, \A o \in Orders : SameChange(o), UNCHANGED shop
  PROVE ChangesFit'
BY DEF ChangesFit, ChangeFits, SameChange, IsFree

(* A confirmation makes nothing a change. *)
LEMMA ClaimSameChange ==
  ASSUME Inv, NEW o \in Orders, NEW sp, ConfirmOrder(o, sp)
  PROVE \A x \in Orders : SameChange(x)
<1>1. orders \in [Orders -> OrderRow] BY DEF Inv, TypeOK, StoreTypeOK
<1>2. CASE ~Open(o)
  <2>1. UNCHANGED orders BY <1>2 DEF ConfirmOrder, tables
  <2> QED BY <2>1 DEF SameChange
<1>3. CASE Open(o)
  <2> DEFINE u == orders[o].user
             us1 == Credit(users, u, sp.credit)
             buys == sp.what # "nothing"
             ok == buys /\ Deliverable(us1, u, sp) /\ Covers(us1, u, sp.debit)
             us2 == IF ok THEN Deliver(Debit(us1, u, sp.debit), u, sp) ELSE us1
             price == IF sp.debit = 0 THEN orders[o].amount * Kop ELSE sp.debit
             rw == RewardReferrer(us2, o, price, orders[o].kind = "plan" /\ ok)
             kind == IF sp.asTopup \/ (buys /\ ~ok) THEN "topup" ELSE orders[o].kind
             row == [orders[o] EXCEPT !.status = "paid", !.paidAt = now, !.kind = kind,
                                      !.refkop = rw.kop, !.refdays = rw.days]
  <2>1. orders' = [orders EXCEPT ![o] = row] BY <1>3, Zenon DEF ConfirmOrder
  <2>2. kind \in {"topup", orders[o].kind} OBVIOUS
  <2> HIDE DEF kind, rw
  <2>3. /\ row.kind = "change" => orders[o].kind = "change"
        /\ row.plan = orders[o].plan /\ row.expect = orders[o].expect
    BY <1>1, <2>2 DEF OrderRow
  <2> HIDE DEF row
  <2>4. orders'[o] = row /\ \A x \in Orders \ {o} : orders'[x] = orders[x]
    BY <1>1, <2>1
  <2> QED BY <2>3, <2>4 DEF SameChange
<1> QED BY <1>2, <1>3

(* Nor does a cancellation. *)
LEMMA CancelSameChange ==
  ASSUME Inv, NEW os, CancelIfPending(os)
  PROVE \A x \in Orders : SameChange(x)
<1>1. TAKE x \in Orders
<1>2. orders[x] \in OrderRow BY DEF Inv, TypeOK, StoreTypeOK
<1>3. \/ orders'[x] = orders[x]
      \/ orders'[x] = [orders[x] EXCEPT !.status = "cancelled"]
  BY DEF CancelIfPending
<1> QED BY <1>2, <1>3 DEF SameChange, OrderRow

(* Nor a row written over in other columns. *)
LEMMA RowSameChange ==
  ASSUME Inv, NEW o \in Orders, NEW row, orders' = [orders EXCEPT ![o] = row],
         row.kind = orders[o].kind, row.plan = orders[o].plan,
         row.expect = orders[o].expect
  PROVE \A x \in Orders : SameChange(x)
<1>1. orders'[o] = row /\ \A x \in Orders \ {o} : orders'[x] = orders[x]
  BY DEF Inv, TypeOK, StoreTypeOK
<1> QED BY <1>1 DEF SameChange

(* A new row fits when what it is made of does. *)
LEMMA NewRowFits ==
  ASSUME Inv, ChangesFit, NEW o \in Orders, NEW row, ChangeFits(row),
         orders' = [orders EXCEPT ![o] = row],
         \A s \in Shoppers : shop'[s].draft = shop[s].draft
  PROVE ChangesFit'
<1>1. orders'[o] = row /\ \A x \in Orders \ {o} : orders'[x] = orders[x]
  BY DEF Inv, TypeOK, StoreTypeOK
<1> QED BY <1>1 DEF ChangesFit, ChangeFits, IsFree

(* A purchase from the balance leaves a row that fits. *)
LEMMA BuyFits ==
  ASSUME Inv, ChangesFit, NEW o \in Orders, NEW row \in OrderRow, ChangeFits(row),
         NEW sp, NEW at, BuyFromBalance(o, row, sp, at), UNCHANGED shop
  PROVE ChangesFit'
<1> DEFINE debit == sp.debit
           new == [row EXCEPT !.status = "paid", !.method = "balance", !.amount = 0,
                              !.bal = debit, !.created = at, !.paidAt = at]
<1>1. orders' = [orders EXCEPT ![o] = new] BY DEF BuyFromBalance
<1> HIDE DEF debit
<1>2. new.kind = row.kind /\ new.plan = row.plan /\ new.expect = row.expect
  BY DEF OrderRow
<1> HIDE DEF new
<1>3. ChangeFits(new) BY <1>2 DEF ChangeFits
<1> QED BY <1>1, <1>3, NewRowFits

----------------------------------------------------------------------------
(* The steps. *)

(* What carries PaidTimeKept over a step, where nobody refunds.            *)
TermsInv == Unrefunded /\ ChangesFit /\ Terms

(* A request that moves on with rows as they were. *)
LEMMA ShopChanges ==
  ASSUME Inv, ChangesFit, \A o \in Orders : SameChange(o), NEW s \in Shoppers, NEW v,
         shop' = [shop EXCEPT ![s] = v], ChangeFits(v.draft)
  PROVE ChangesFit'
<1>1. shop'[s] = v /\ \A x \in Shoppers \ {s} : shop'[x] = shop[x]
  BY DEF Inv, TypeOK, CheckoutTypeOK
<1> QED BY <1>1 DEF ChangesFit, ChangeFits, SameChange, IsFree

(* Rows nobody writes keep their changes. *)
LEMMA SameChanges == ASSUME UNCHANGED orders PROVE \A o \in Orders : SameChange(o)
BY DEF SameChange

(* Opening an order touches no term and asks for changes that fit.         *)
LEMMA ShoppingTerms ==
  ASSUME Inv, TermsInv, NEW s \in Shoppers, Shopping(s)
  PROVE /\ ChangesFit' /\ UNCHANGED <<users, paidUntil, now, hand>>
        /\ \A o \in Orders : charge'[o] \in {charge[o], "open"}
<1>1. /\ ChangesFit /\ ChangeFits(shop[s].draft) /\ shop[s] \in ShopRow
      /\ orders \in [Orders -> OrderRow] /\ ShopperFits(s)
  BY ShopperRow DEF TermsInv, ChangesFit, Inv, TypeOK, StoreTypeOK
<1>2. ChangeFits(IdleShop.draft) BY DEF IdleShop, Blank, ChangeFits
<1>3. CASE \E u \in Users, p \in Purchases, m \in Methods : StartPurchase(s, u, p, m)
  <2>1. PICK u \in Users, p \in Purchases, m \in Methods : StartPurchase(s, u, p, m)
    BY <1>3
  <2>2. PICK q \in Quotes(u, p) :
          shop' = [shop EXCEPT ![s] =
            [pc |-> IF m = "external" THEN "insert" ELSE "reuse",
             draft |-> [Draft(u, p, q) EXCEPT !.method = m],
             order |-> NoOrder]]
    BY <2>1 DEF StartPurchase
  <2> DEFINE d == Draft(u, p, q)
             dm == [d EXCEPT !.method = m]
  <2>3. p \in PurchaseRow BY CheckoutAssumption
  <2>4. ChangeFits(d) /\ d \in OrderRow
    BY <2>3, DraftFits, DraftType DEF Inv, TypeOK, StoreTypeOK, Table
  <2> HIDE DEF d
  <2>5. ChangeFits(dm) BY <2>4 DEF ChangeFits, OrderRow
  <2> HIDE DEF dm
  <2>6. UNCHANGED <<users, orders, paidUntil, now, hand, charge>>
    BY <2>1 DEF StartPurchase, db, tables, history
  <2>7. shop' = [shop EXCEPT ![s] =
          [pc |-> IF m = "external" THEN "insert" ELSE "reuse", draft |-> dm,
           order |-> NoOrder]]
    BY <2>2 DEF dm, d
  <2> QED BY <1>1, <2>5, <2>6, <2>7, SameChanges, ShopChanges
<1>4. CASE ReuseOrder(s)
  <2>1. UNCHANGED <<users, orders, paidUntil, now, hand, charge>>
    BY <1>4 DEF ReuseOrder, db, tables, history
  <2>2. \/ shop' = [shop EXCEPT ![s] = IdleShop]
        \/ shop' = [shop EXCEPT ![s] = [shop[s] EXCEPT !.pc = "insert"]]
    BY <1>4 DEF ReuseOrder
  <2>3. [shop[s] EXCEPT !.pc = "insert"].draft = shop[s].draft BY <1>1 DEF ShopRow
  <2> QED BY <1>1, <1>2, <2>1, <2>2, <2>3, SameChanges, ShopChanges
<1>5. CASE \E o \in Orders : InsertOrder(s, o)
  <2>1. PICK o \in Orders : InsertOrder(s, o) BY <1>5
  <2> DEFINE row == [shop[s].draft EXCEPT !.status = "pending", !.created = now]
  <2>2. orders' = [orders EXCEPT ![o] = row] BY <2>1 DEF InsertOrder
  <2>3. shop[s].draft \in OrderRow BY <1>1 DEF ShopRow
  <2>4. ChangeFits(row) BY <1>1, <2>3 DEF ChangeFits, OrderRow
  <2> HIDE DEF row
  <2>5. \A x \in Shoppers : shop'[x].draft = shop[x].draft
    BY <2>1 DEF InsertOrder, Inv, TypeOK, CheckoutTypeOK
  <2>6. ChangesFit' BY <1>1, <2>2, <2>4, <2>5, NewRowFits
  <2> QED BY <2>1, <2>6 DEF InsertOrder, history
<1>6. CASE InsertRefused(s)
  <2>1. UNCHANGED <<users, orders, paidUntil, now, hand, charge>>
    BY <1>6 DEF InsertRefused, db, tables, history
  <2> QED BY <1>1, <1>2, <1>6, <2>1, SameChanges, ShopChanges DEF InsertRefused
<1> DEFINE x == shop[s].order
           next(pc) == [shop[s] EXCEPT !.pc = pc]
<1>7. \A pc \in ShopPcs : next(pc).draft = shop[s].draft BY <1>1 DEF ShopRow
<1>8. CASE CreateInvoice(s)
  <2>1. UNCHANGED <<users, orders, paidUntil, now, hand>>
    BY <1>8 DEF CreateInvoice, db, tables, history
  <2>2. shop' = [shop EXCEPT ![s] = next("link")] BY <1>8 DEF CreateInvoice
  <2>3. ChangesFit' BY <1>1, <1>7, <2>1, <2>2, SameChanges, ShopChanges DEF ShopPcs
  <2>4. \A o \in Orders : charge'[o] \in {charge[o], "open"}
    BY <1>8 DEF CreateInvoice, Inv, TypeOK, CheckoutTypeOK
  <2> QED BY <2>1, <2>3, <2>4
<1>9. CASE CreateFails(s)
  <2> DEFINE row == [orders[x] EXCEPT !.status = "cancelled", !.paidAt = 0]
  <2>1. x \in Orders BY <1>1, <1>9 DEF CreateFails, ShopperFits
  <2>2. orders[x] \in OrderRow BY <1>1, <2>1
  <2>3. orders' = [orders EXCEPT ![x] = row]
    BY <1>1, <1>9, <2>1 DEF CreateFails, SetCancelled, OrderRow
  <2>4. row.kind = orders[x].kind /\ row.plan = orders[x].plan
        /\ row.expect = orders[x].expect
    BY <2>2 DEF OrderRow
  <2> HIDE DEF row, x
  <2>5. \A o \in Orders : SameChange(o) BY <2>1, <2>3, <2>4, RowSameChange
  <2>6. ChangesFit' BY <1>1, <1>2, <1>9, <2>5, ShopChanges DEF CreateFails
  <2> QED BY <1>9, <2>6 DEF CreateFails, history
<1>10. CASE LinkOrder(s)
  <2> DEFINE row == [orders[x] EXCEPT !.linked = TRUE]
  <2>1. x \in Orders BY <1>1, <1>10 DEF LinkOrder, ShopperFits
  <2>2. orders[x] \in OrderRow BY <1>1, <2>1
  <2>3. orders' = [orders EXCEPT ![x] = row] BY <1>10 DEF LinkOrder
  <2>4. row.kind = orders[x].kind /\ row.plan = orders[x].plan
        /\ row.expect = orders[x].expect
    BY <2>2 DEF OrderRow
  <2>5. shop' = [shop EXCEPT ![s] = next("supersede")] BY <1>10 DEF LinkOrder
  <2> HIDE DEF row, x
  <2>6. \A o \in Orders : SameChange(o) BY <2>1, <2>3, <2>4, RowSameChange
  <2>7. ChangesFit' BY <1>1, <1>7, <2>5, <2>6, ShopChanges DEF ShopPcs
  <2> QED BY <1>10, <2>7 DEF LinkOrder, history
<1>11. CASE SupersedeOrders(s)
  <2>1. \A o \in Orders : SameChange(o)
    BY <1>11, CancelSameChange DEF SupersedeOrders
  <2>2. ChangesFit' BY <1>1, <1>2, <1>11, <2>1, ShopChanges DEF SupersedeOrders
  <2> QED BY <1>11, <2>2 DEF SupersedeOrders, history
<1> QED BY <1>3, <1>4, <1>5, <1>6, <1>8, <1>9, <1>10, <1>11 DEF Shopping

(* Acting on what was heard, where nobody refunds. *)
LEMMA HandlingTerms ==
  ASSUME Inv, Inv', TermsInv, NEW h \in Handlers, Handling(h)
  PROVE TermsInv'
<1>1. /\ hand[h] \in HandRow /\ HandlerFits(h)
      /\ hand[h].pc \in {"idle", "confirm", "void", "sweep"}
      /\ ChangesFit /\ Terms /\ hand \in [Handlers -> HandRow]
  BY HandlerRow DEF TermsInv, Unrefunded, Inv, TypeOK, CheckoutTypeOK, HandRow
<1>2. ASSUME hand' = [hand EXCEPT ![h] = IdleHand], UNCHANGED charge PROVE Unrefunded'
  BY <1>1, <1>2 DEF TermsInv, Unrefunded, IdleHand
<1>3. CASE Confirm(h)
  <2> DEFINE o == hand[h].order
             sp == ConfirmSpec(o)
  <2>1. o \in Orders /\ orders[o].status # "none"
    BY <1>1, <1>3 DEF Confirm, HandlerFits
  <2>2. ConfirmOrder(o, sp) /\ UNCHANGED <<now, shop, charge>>
    BY <1>3 DEF Confirm
  <2>3. sp \in SpecRow
    BY <2>1, ConfirmSpecType DEF Inv, TypeOK, WellFormed, RowFits
  <2>4. KeepsPaid(orders[o].user, orders[o].kind, sp)
    BY <1>1, <2>1, ConfirmKeepsPaid
  <2> HIDE DEF o, sp
  <2>5. Terms' BY <1>1, <2>1, <2>2, <2>3, <2>4, ClaimTerms
  <2>6. ChangesFit' BY <1>1, <2>1, <2>2, ClaimSameChange, ChangesKept
  <2>7. Unrefunded' BY <1>2, <1>3, <2>2 DEF Confirm
  <2> QED BY <2>5, <2>6, <2>7 DEF TermsInv
<1>4. CASE CancelPending(h)
  <2>1. /\ CancelIfPending({hand[h].order}) /\ UNCHANGED <<users, paidUntil, now, shop>>
        /\ hand' = [hand EXCEPT ![h] = IdleHand] /\ UNCHANGED charge
    BY <1>4 DEF CancelPending, history
  <2>2. ChangesFit' BY <1>1, <2>1, CancelSameChange, ChangesKept
  <2>3. Terms' BY <1>1, <2>1 DEF Terms, TermKept, IsFree
  <2> QED BY <1>2, <2>1, <2>2, <2>3 DEF TermsInv
<1> QED BY <1>1, <1>3, <1>4 DEF Handling, RefundByProvider, TakeBackTerm, TakeBackDays,
      TakeBackPlan, TakeAddonBack, RevertChange

(* What comes from outside, and the clock. *)
LEMMA OutsideTerms ==
  ASSUME Inv, Inv', NobodyRefunds, TermsInv,
         \/ \E o \in Orders, act \in {"pay", "odd", "void", "refund"} : ProviderStep(o, act)
         \/ \E h \in Hooks : Callback(h)
         \/ Polling
         \/ \E o \in Orders : OperatorConfirms(o) \/ OperatorCancels(o)
         \/ \E o \in Orders, cancelPlan \in BOOLEAN : OperatorRefunds(o, cancelPlan)
         \/ Tick
  PROVE TermsInv'
<1>1. /\ Unrefunded /\ ChangesFit /\ Terms
      /\ hand \in [Handlers -> HandRow] /\ charge \in [Orders -> Charges]
  BY DEF TermsInv, Inv, TypeOK, CheckoutTypeOK, HandRow
<1>2. ASSUME UNCHANGED <<users, orders, paidUntil, now, shop>>, Unrefunded'
      PROVE TermsInv'
  <2>1. ChangesFit' BY <1>1, <1>2, SameChanges, ChangesKept
  <2>2. Terms' BY <1>1, <1>2 DEF Terms, TermKept, IsFree
  <2> QED BY <1>2, <2>1, <2>2 DEF TermsInv
<1>3. ASSUME NEW o \in Orders, NEW act \in {"pay", "odd", "void", "refund"},
             ProviderStep(o, act)
      PROVE TermsInv'
  <2>1. act # "refund" BY <1>3 DEF ProviderStep, NobodyRefunds
  <2>2. /\ \E c \in {"paid", "odd", "void"} : charge' = [charge EXCEPT ![o] = c]
        /\ UNCHANGED <<users, orders, paidUntil, now, shop, hand>>
    BY <1>3, <2>1 DEF ProviderStep, db, tables, history, threads
  <2>3. Unrefunded' BY <1>1, <2>2 DEF Unrefunded
  <2> QED BY <1>2, <2>2, <2>3
<1>4. ASSUME NEW h \in Hooks, Callback(h) PROVE TermsInv'
  <2>1. PICK o \in Orders, report \in {"paid", "void", "refunded"} :
          ReceiveCallback(h, o, report)
    BY <1>4 DEF Callback
  <2>2. charge[o] # "refunded" BY <1>1 DEF Unrefunded
  <2>3. report # "refunded" BY <2>1, <2>2 DEF ReceiveCallback, Callbacks
  <2>4. Reaction(o, report) \in {"idle", "confirm", "void"} BY <2>1, <2>3 DEF Reaction
  <2>5. hand' = [hand EXCEPT ![h] = [pc |-> Reaction(o, report), order |-> o]]
    BY <2>1 DEF ReceiveCallback
  <2>6. UNCHANGED <<users, orders, paidUntil, now, shop, charge>>
    BY <2>1 DEF ReceiveCallback, db, tables, history
  <2>7. Unrefunded' BY <1>1, <2>4, <2>5, <2>6 DEF Unrefunded
  <2> QED BY <1>2, <2>6, <2>7
<1>5. CASE Polling
  <2>1. UNCHANGED <<users, orders, paidUntil, now, shop, charge>>
    BY <1>5 DEF Polling, PollList, PollAsk, PollFails, db, tables, history
  <2>2. \/ hand' = hand
        \/ \E r \in [pc : {"idle", "confirm", "void", "sweep"},
                     order : Orders \cup {NoOrder}] :
             hand' = [hand EXCEPT ![Poller] = r]
    <3>1. CASE PollList BY <3>1 DEF PollList
    <3>2. ASSUME NEW o \in Orders, PollAsk(o)
          PROVE \E r \in [pc : {"idle", "confirm", "void", "sweep"},
                          order : Orders \cup {NoOrder}] :
                  hand' = [hand EXCEPT ![Poller] = r]
      BY <3>2 DEF PollAsk, IdleHand
    <3>3. ASSUME NEW o \in Orders, PollFails(o)
          PROVE \/ hand' = hand
                \/ \E r \in [pc : {"idle", "confirm", "void", "sweep"},
                             order : Orders \cup {NoOrder}] :
                     hand' = [hand EXCEPT ![Poller] = r]
      BY <3>3 DEF PollFails, IdleHand
    <3> QED BY <1>5, <3>1, <3>2, <3>3 DEF Polling
  <2>3. Unrefunded' BY <1>1, <2>1, <2>2 DEF Unrefunded
  <2> QED BY <1>2, <2>1, <2>3
<1>6. ASSUME NEW o \in Orders, OperatorConfirms(o) PROVE TermsInv'
  <2>1. UNCHANGED <<users, orders, paidUntil, now, shop, charge>>
    BY <1>6 DEF OperatorConfirms, db, tables, history
  <2>2. Unrefunded' BY <1>1, <1>6, <2>1 DEF OperatorConfirms, Unrefunded
  <2> QED BY <1>2, <2>1, <2>2
<1>7. ASSUME NEW o \in Orders, OperatorCancels(o) PROVE TermsInv'
  <2>1. /\ CancelIfPending({o})
        /\ UNCHANGED <<users, paidUntil, now, shop, hand, charge>>
    BY <1>7 DEF OperatorCancels, history, checkoutVars, threads
  <2>2. ChangesFit' BY <1>1, <2>1, CancelSameChange, ChangesKept
  <2>3. Terms' BY <1>1, <2>1 DEF Terms, TermKept, IsFree
  <2>4. Unrefunded' BY <1>1, <2>1 DEF Unrefunded
  <2> QED BY <2>2, <2>3, <2>4 DEF TermsInv
<1>8. CASE Tick
  <2>1. /\ UNCHANGED <<users, orders, paidUntil, shop, hand, charge>> /\ now' = now + 1
    BY <1>8 DEF Tick, tables, history, checkoutVars, threads
  <2>2. ChangesFit' BY <1>1, <2>1, SameChanges, ChangesKept
  <2>3. now \in Nat /\ paidUntil \in [Users -> Nat] BY DEF Inv, TypeOK, StoreTypeOK
  <2>4. Terms' BY <1>1, <2>1, <2>3 DEF Terms, TermKept, IsFree
  <2>5. Unrefunded' BY <1>1, <2>1 DEF Unrefunded
  <2> QED BY <2>2, <2>4, <2>5 DEF TermsInv
<1> QED BY <1>3, <1>4, <1>5, <1>6, <1>7, <1>8 DEF OperatorRefunds, NobodyRefunds

(* Ending a plan is about one user. *)
LEMMA EndPlanTerms ==
  ASSUME NEW us \in Table, NEW u \in Users
  PROVE \A v \in Users \ {u} : EndPlan(us, u)[v] = us[v]
<1> DEFINE w == PlanWriteForDays(us, u, FreePlan, FALSE, FALSE, Period[FreePlan],
                                 HeldDevices(us, u, FreePlan))
           row == [us[u] EXCEPT !.plan = NoPlan, !.expire = now, !.extra = 0, !.pack = 0]
<1>1. \/ EndPlan(us, u) = ApplyUserPlan(us, u, w)
      \/ EndPlan(us, u) = [us EXCEPT ![u] = row]
  BY DEF EndPlan
<1> HIDE DEF w, row
<1> QED BY <1>1, ApplyUserPlanTerms DEF Table

(* Days from a code go onto the running term of the plan paid for.         *)
LEMMA RedeemDaysTerms ==
  ASSUME Inv, Terms, NEW u \in Users, NEW c \in Codes, RedeemDays(u, c)
  PROVE Terms'
<1> DEFINE active == ActivePaidPlan(users, u)
           p == IF CodePlan[c] = NoPlan THEN active ELSE CodePlan[c]
           extend == active # NoPlan
           w == PlanWriteForDays(users, u, p, extend, FALSE, CodeValue[c],
                                 HeldDevices(users, u, p))
           base == TermBase(users, u, extend)
<1>1. /\ users \in Table /\ now \in Nat /\ paidUntil \in [Users -> Nat] /\ TermKept(u)
  BY DEF Inv, TypeOK, StoreTypeOK, Table, Terms
<1>2. /\ p # NoPlan /\ ~IsFree(p) /\ (active # NoPlan => active = p)
      /\ users' = ApplyUserPlan(users, u, w) /\ UNCHANGED <<now, paidUntil>>
  BY DEF RedeemDays, history
<1>3. w.plan = p /\ w.expire = IF IsFree(p) \/ CodeValue[c] = 0 THEN 0
                               ELSE base + CodeValue[c]
  BY DEF PlanWriteForDays
<1>4. CodeValue[c] \in Nat \ {0} BY PricingAssumption
<1>5. paidUntil[u] > now => extend BY <1>1, <1>2, KeptIsActive DEF TermKept
<1>6. base \in Nat /\ (paidUntil[u] > now => base >= paidUntil[u])
  BY <1>1, <1>5, BaseCovers
<1> HIDE DEF w, base
<1>7. users'[u].plan = p /\ users'[u].expire = base + CodeValue[c]
  BY <1>1, <1>2, <1>3, <1>4, ApplyUserPlanTerms
<1>8. TermKept(u)' BY <1>1, <1>2, <1>4, <1>6, <1>7 DEF TermKept, IsFree
<1>9. ASSUME NEW v \in Users \ {u} PROVE TermKept(v)'
  <2>1. users'[v] = users[v] BY <1>1, <1>2, ApplyUserPlanTerms
  <2> QED BY <1>2, <2>1 DEF Terms, TermKept, IsFree
<1> QED BY <1>8, <1>9 DEF Terms

(* A tap that buys leaves a row that fits. *)
LEMMA TapBuysFits ==
  ASSUME Inv, ChangesFit, NEW t \in Taps, NEW o \in Orders, TapBuys(t, o), UNCHANGED shop
  PROVE ChangesFit'
<1> DEFINE u == tap[t].user
           p == tap[t].buy
<1>1. u \in Users BY DEF TapBuys, Inv, WellFormed, TapFits
<1>2. p \in PurchaseRow BY BuyRow DEF Inv, TypeOK, SubscriptionTypeOK
<1>3. PICK q \in Quotes(u, p) :
        BuyFromBalance(o, Draft(u, p, q), BalanceSpec(u, p, q), now)
  BY DEF TapBuys
<1>4. Draft(u, p, q) \in OrderRow /\ ChangeFits(Draft(u, p, q))
  BY <1>1, <1>2, DraftType, DraftFits DEF Inv, TypeOK, StoreTypeOK, Table
<1> HIDE DEF u, p
<1> QED BY <1>3, <1>4, BuyFits

(* A renewal is no change. *)
LEMMA RenewalFits ==
  ASSUME Inv, ChangesFit, NEW u \in Users, NEW o \in Orders, RenewFromBalance(u, o),
         UNCHANGED shop
  PROVE ChangesFit'
<1> DEFINE p == users[u].plan
           devices == HeldDevices(users, u, p)
           w == PlanWriteForDays(users, u, p, TRUE, TRUE, Period[p], devices)
           bonus == IF w.expire > 0 THEN users[u].bonus ELSE 0
           row == [Blank EXCEPT !.user = u, !.plan = p, !.devices = devices]
           sp == [EmptySpec EXCEPT !.what = "plan", !.debit = RenewalKop(users, u),
                    !.bonus = bonus, !.days = Period[p],
                    !.write = [w EXCEPT !.expire = @ + bonus]]
<1>1. BuyFromBalance(o, row, sp, job.time) BY DEF RenewFromBalance
<1>2. p \in Plans
  BY DEF RenewFromBalance, StillDue, Renewable, Inv, TypeOK, StoreTypeOK, UserRow
<1>3. devices \in Nat BY <1>2, HeldDevicesType DEF Inv, TypeOK, StoreTypeOK, Table
<1> HIDE DEF devices, p, sp
<1>4. row \in OrderRow BY <1>2, <1>3, BlankType DEF OrderRow
<1>5. ChangeFits(row) BY DEF Blank, ChangeFits
<1> HIDE DEF row
<1> QED BY <1>1, <1>4, <1>5, BuyFits

(* What happens to subscriptions without money coming in. *)
LEMMA SubscriptionTerms ==
  ASSUME Inv, Inv', TermsInv, PassTime, SubscriptionNext, UNCHANGED checkoutVars
  PROVE TermsInv'
<1>1. /\ Unrefunded /\ ChangesFit /\ Terms /\ UNCHANGED <<shop, hand, charge>>
      /\ users \in Table /\ now \in Nat /\ paidUntil \in [Users -> Nat]
      /\ users' \in Table
  BY DEF TermsInv, checkoutVars, threads, Inv, TypeOK, StoreTypeOK, Table
<1>2. Unrefunded' BY <1>1 DEF Unrefunded
<1>3. ASSUME UNCHANGED orders PROVE ChangesFit'
  BY <1>1, <1>3, SameChanges, ChangesKept
<1>4. ASSUME UNCHANGED <<orders, paidUntil, now>>,
             \A u \in Users : SameTerm(users, users', u)
      PROVE TermsInv'
  <2>1. Terms' BY <1>1, <1>4 DEF Terms, TermKept, IsFree, SameTerm
  <2> QED BY <1>2, <1>3, <1>4, <2>1 DEF TermsInv
<1>5. ASSUME UNCHANGED <<users, orders, paidUntil, now>> PROVE TermsInv'
  BY <1>4, <1>5 DEF SameTerm
<1>6. ASSUME NEW u \in Users, UNCHANGED <<orders, now>>, paidUntil' = [paidUntil EXCEPT ![u] = 0],
             \A v \in Users \ {u} : users'[v] = users[v]
      PROVE TermsInv'
  <2>1. ASSUME NEW v \in Users PROVE TermKept(v)'
    <3>1. CASE v = u BY <1>1, <1>6, <3>1 DEF TermKept
    <3>2. CASE v # u BY <1>1, <1>6, <3>2 DEF Terms, TermKept, IsFree
    <3> QED BY <3>1, <3>2
  <2> QED BY <1>2, <1>3, <1>6, <2>1 DEF TermsInv, Terms
<1>7. ASSUME NEW t \in Taps, Tapping(t) PROVE TermsInv'
  <2>1. ASSUME NEW o \in Orders, TapBuys(t, o) PROVE TermsInv'
    <3>1. Terms' BY <1>1, <2>1, TapBuysTerms
    <3>2. ChangesFit' BY <1>1, <2>1, TapBuysFits
    <3> QED BY <1>2, <3>1, <3>2 DEF TermsInv
  <2>2. CASE TapSupersedes(t)
    <3>1. /\ CancelIfPending(OpenWithCode(tap[t].user, tap[t].code, tap[t].order))
          /\ UNCHANGED <<users, paidUntil, now>>
      BY <2>2 DEF TapSupersedes, history
    <3>2. ChangesFit' BY <1>1, <3>1, CancelSameChange, ChangesKept
    <3>3. Terms' BY <1>1, <3>1 DEF Terms, TermKept, IsFree
    <3> QED BY <1>2, <3>2, <3>3 DEF TermsInv
  <2>3. CASE AttachDiscount(t)
    <3> DEFINE u == tap[t].user
    <3>1. u \in Users BY <2>3 DEF AttachDiscount, Inv, WellFormed, TapFits
    <3> DEFINE c == tap[t].code
               row == [users[u] EXCEPT !.promo = c]
    <3>2. users[u] \in UserRow BY <1>1, <3>1 DEF Table
    <3>3. users' = [users EXCEPT ![u] = row] BY <2>3 DEF AttachDiscount
    <3> HIDE DEF c
    <3>4. row.plan = users[u].plan /\ row.expire = users[u].expire
      BY <3>2 DEF UserRow
    <3> HIDE DEF row, u
    <3>5. \A v \in Users : SameTerm(users, users', v)
      BY <1>1, <3>1, <3>3, <3>4 DEF SameTerm, Table
    <3> QED BY <1>4, <2>3, <3>5 DEF AttachDiscount, history
  <2>4. ASSUME \/ \E u \in Users, p \in Buys : ShowOffer(t, u, p)
               \/ \E s \in Taps : TapTwice(t, s)
               \/ TapRefused(t)
               \/ \E u \in Users, c \in Codes : EnterDiscount(t, u, c)
        PROVE TermsInv'
    BY <1>5, <2>4 DEF ShowOffer, TapTwice, TapRefused, EnterDiscount, db, tables, history
  <2> QED BY <1>7, <2>1, <2>2, <2>3, <2>4 DEF Tapping
<1>8. ASSUME NEW u \in Users, Account(u) PROVE TermsInv'
  <2>1. users[u] \in UserRow /\ TermKept(u) BY <1>1 DEF Table, Terms
  <2>2. ASSUME NEW c \in Codes, RedeemBalance(u, c) PROVE TermsInv'
    <3>1. users' = Credit(users, u, CodeValue[c] * Kop) /\ UNCHANGED <<orders, paidUntil, now>>
      BY <2>2 DEF RedeemBalance
    <3> QED BY <1>1, <1>4, <3>1, CreditTerms
  <2>3. ASSUME NEW c \in Codes, RedeemDays(u, c) PROVE TermsInv'
    BY <1>1, <1>2, <1>3, <2>3, RedeemDaysTerms DEF TermsInv, RedeemDays, history
  <2>4. CASE CancelUserPlan(u)
    <3>1. /\ users' = EndPlan(users, u) /\ UNCHANGED <<orders, now>>
          /\ paidUntil' = [paidUntil EXCEPT ![u] = 0]
      BY <2>4 DEF CancelUserPlan
    <3>2. \A v \in Users \ {u} : users'[v] = users[v] BY <1>1, <3>1, EndPlanTerms
    <3> QED BY <1>6, <3>1, <3>2
  <2>5. ASSUME NEW on \in BOOLEAN, SetAutoRenew(u, on) PROVE TermsInv'
    <3> DEFINE row == [users[u] EXCEPT !.auto = on]
    <3>1. users' = [users EXCEPT ![u] = row] /\ UNCHANGED <<orders, paidUntil, now>>
      BY <2>5 DEF SetAutoRenew, history
    <3>2. row.plan = users[u].plan /\ row.expire = users[u].expire
      BY <2>1 DEF UserRow
    <3> HIDE DEF row
    <3>3. \A v \in Users : SameTerm(users, users', v)
      BY <1>1, <3>1, <3>2 DEF SameTerm, Table
    <3> QED BY <1>4, <3>1, <3>3
  <2>6. ASSUME NEW kop \in Adjusts, AdjustBalance(u, kop) PROVE TermsInv'
    <3>1. users' = Credit(users, u, kop) /\ UNCHANGED <<orders, paidUntil, now>>
      BY <2>6 DEF AdjustBalance
    <3> QED BY <1>1, <1>4, <3>1, CreditTerms
  <2>7. ASSUME NEW p \in Plans, NEW extend \in BOOLEAN, ApplyPlanToUser(u, p, extend)
        PROVE TermsInv'
    <3> DEFINE w == PlanWriteForDays(users, u, p, extend, FALSE, Period[p],
                                     HeldDevices(users, u, p))
    <3>1. /\ users' = ApplyUserPlan(users, u, w) /\ UNCHANGED <<orders, now>>
          /\ paidUntil' = [paidUntil EXCEPT ![u] = 0]
      BY <2>7 DEF ApplyPlanToUser
    <3> HIDE DEF w
    <3>2. \A v \in Users \ {u} : users'[v] = users[v]
      BY <1>1, <3>1, ApplyUserPlanTerms
    <3> QED BY <1>6, <3>1, <3>2
  <2> QED BY <1>8, <2>2, <2>3, <2>4, <2>5, <2>6, <2>7 DEF Account
<1>9. ASSUME EnforceBilling PROVE TermsInv'
  <2>1. ASSUME NEW u \in Users, NEW o \in Orders, RenewFromBalance(u, o) PROVE TermsInv'
    <3>1. Terms' BY <1>1, <2>1, RenewalTerms
    <3>2. ChangesFit' BY <1>1, <2>1, RenewalFits
    <3> QED BY <1>2, <3>1, <3>2 DEF TermsInv
  <2>2. ASSUME NEW u \in Users, DowngradeExpired(u) PROVE TermsInv'
    <3>1. UNCHANGED <<orders, paidUntil, now>>
      BY <2>2 DEF DowngradeExpired, history
    <3>2. CASE ~StillOver(u)
      <4>1. users' = users BY <2>2, <3>2 DEF DowngradeExpired
      <4> QED BY <1>5, <3>1, <4>1
    <3>3. CASE StillOver(u)
      <4> DEFINE w == PlanWriteForDays(users, u, FreePlan, FALSE, FALSE,
                                       Period[FreePlan], HeldDevices(users, u, FreePlan))
      <4>1. users' = ApplyUserPlan(users, u, w) BY <2>2, <3>3 DEF DowngradeExpired
      <4> HIDE DEF w
      <4>2. \A v \in Users \ {u} : users'[v] = users[v]
        BY <1>1, <4>1, ApplyUserPlanTerms
      <4>3. TermKept(u) /\ users[u].expire \in Nat /\ job.time \in Nat
        BY <1>1 DEF Terms, Table, UserRow, Inv, TypeOK, SubscriptionTypeOK
      <4>4. paidUntil[u] <= now
        BY <1>1, <3>3, <4>3 DEF StillOver, TermKept, PassTime
      <4>5. ASSUME NEW v \in Users PROVE TermKept(v)'
        <5>1. CASE v = u BY <1>1, <3>1, <4>4, <5>1 DEF TermKept
        <5>2. CASE v # u BY <1>1, <3>1, <4>2, <5>2 DEF Terms, TermKept, IsFree
        <5> QED BY <5>1, <5>2
      <4> QED BY <1>2, <1>3, <3>1, <4>5 DEF TermsInv, Terms
    <3> QED BY <3>2, <3>3
  <2>3. ASSUME \/ BeginPass \/ RenewalsDone \/ ListExpired \/ EndPass
               \/ \E u \in Users : RenewalSkipped(u)
        PROVE TermsInv'
    BY <1>5, <2>3 DEF BeginPass, RenewalsDone, ListExpired, EndPass, RenewalSkipped,
                      db, tables, history
  <2> QED BY <1>9, <2>1, <2>2, <2>3 DEF EnforceBilling
<1> QED BY <1>7, <1>8, <1>9 DEF SubscriptionNext

(* A restart leaves the tables alone. *)
LEMMA CrashTerms ==
  ASSUME Inv, TermsInv, Crash PROVE TermsInv'
<1>1. /\ shop' = [s \in Shoppers |-> IdleShop] /\ hand' = [h \in Handlers |-> IdleHand]
      /\ UNCHANGED <<users, orders, paidUntil, now, charge>>
  BY DEF Crash, CheckoutCrash, db, tables, history
<1>2. ChangesFit' BY <1>1 DEF TermsInv, ChangesFit, ChangeFits, IsFree, IdleShop, Blank
<1> QED BY <1>1, <1>2 DEF TermsInv, Unrefunded, Terms, TermKept, IsFree, IdleHand

(* No step cuts time that was paid for. *)
LEMMA StepTerms ==
  ASSUME Inv, Inv', NobodyRefunds, TermsInv, PassTime, [Next]_vars
  PROVE TermsInv'
<1>1. CASE CheckoutNext /\ UNCHANGED subscriptionVars
  <2>1. ASSUME NEW s \in Shoppers, Shopping(s) PROVE TermsInv'
    <3>1. /\ ChangesFit' /\ UNCHANGED <<users, paidUntil, now, hand>>
          /\ \A o \in Orders : charge'[o] \in {charge[o], "open"}
      BY <2>1, ShoppingTerms
    <3> QED BY <3>1 DEF TermsInv, Unrefunded, Terms, TermKept, IsFree
  <2> QED BY <1>1, <2>1, HandlingTerms, OutsideTerms DEF CheckoutNext
<1>2. CASE SubscriptionNext /\ UNCHANGED checkoutVars BY <1>2, SubscriptionTerms
<1>3. CASE Crash BY <1>3, CrashTerms
<1>4. CASE UNCHANGED vars
  BY <1>4 DEF vars, db, tables, history, checkoutVars, threads, TermsInv, Unrefunded,
     ChangesFit, ChangeFits, Terms, TermKept, IsFree
<1> QED BY <1>1, <1>2, <1>3, <1>4 DEF Next

(* Time a user has paid for stays theirs: until its end they are on a paid  *)
(* plan that lasts at least as long, through confirmations in any order,   *)
(* changes, add-ons, codes, renewals and the pass that ends terms, unless  *)
(* they give it up or the operator gives them another plan.  A refund      *)
(* takes time back in two critical sections (takeBackTerm) and may take    *)
(* what was bought in between with it, so refunds are left out here.       *)
THEOREM PaidTimeStays == ASSUME NobodyRefunds PROVE Spec => []PaidTimeKept
<1>1. Init => TermsInv /\ PassTime
  BY DEF Init, StoreInit, CheckoutInit, SubscriptionInit, IdleHand, IdleShop, IdleJob,
     Blank, TermsInv, Unrefunded, ChangesFit, ChangeFits, Terms, TermKept, PassTime
<1>2. PassTime /\ Inv /\ [Next]_vars => PassTime' BY StepPassTime
<1>3. TermsInv /\ PassTime /\ Inv /\ Inv' /\ [Next]_vars => TermsInv' BY StepTerms
<1>4. Inv /\ TermsInv => PaidTimeKept
  <2>1. SUFFICES ASSUME Inv, TermsInv, NEW u \in Users, paidUntil[u] > now
                 PROVE /\ ActivePaidPlan(users, u) # NoPlan
                       /\ Period[users[u].plan] > 0 => users[u].expire >= paidUntil[u]
    BY DEF PaidTimeKept
  <2>2. TermKept(u) BY <2>1 DEF TermsInv, Terms
  <2> QED BY <2>1, <2>2, KeptIsActive DEF TermKept
<1> QED BY <1>1, <1>2, <1>3, <1>4, AlwaysInv, PTL DEF Spec

----------------------------------------------------------------------------
(* A tap delivered twice. *)

(* A plan without a term is not sold again to who has it, nor a change to  *)
(* the plan one is on.                                                     *)
LEMMA NotSoldAgain ==
  ASSUME NEW u \in Users, NEW p \in PurchaseRow, p.plan # NoPlan,
         ActivePaidPlan(users, u) = p.plan,
         p.kind = "change" \/ (p.kind = "plan" /\ Period[p.plan] = 0)
  PROVE Quotes(u, p) = {}
<1>1. CASE p.kind = "change" BY <1>1 DEF Quotes, QuoteChange
<1>2. CASE p.kind = "plan" /\ Period[p.plan] = 0
  BY <1>2 DEF Quotes, CheckPlanPurchase
<1> QED BY <1>1, <1>2

(* An add-on paid from the balance is added to what its buyer has.         *)
LEMMA AddonAdds ==
  ASSUME NEW us \in Table, NEW u \in Users, NEW sp \in SpecRow, sp.what = "addon",
         NEW vs, vs = Deliver(Debit(us, u, sp.debit), u, sp)
  PROVE /\ vs[u].extra = us[u].extra + sp.addon.devices
        /\ vs[u].pack = us[u].pack + sp.addon.pack
<1> DEFINE b == us[u].balance - sp.debit
           x == us[u].extra + sp.addon.devices
           k == us[u].pack + sp.addon.pack
<1>1. us[u] \in UserRow BY DEF Table
<1>2. Debit(us, u, sp.debit) = [us EXCEPT ![u] = [us[u] EXCEPT !.balance = b]]
  BY <1>1 DEF Debit, UserRow
<1>3. vs = ApplyAddon(Debit(us, u, sp.debit), u, sp.addon) BY DEF Deliver
<1> HIDE DEF b
<1> DEFINE d == [us EXCEPT ![u] = [us[u] EXCEPT !.balance = b]]
<1>4. d[u] = [us[u] EXCEPT !.balance = b] /\ DOMAIN d = Users BY DEF Table
<1>5. /\ d[u].extra = us[u].extra /\ d[u].pack = us[u].pack
      /\ DOMAIN d[u] = DOMAIN us[u]
  BY <1>1, <1>4 DEF UserRow
<1>6. vs = ApplyAddon(d, u, sp.addon) BY <1>2, <1>3
<1> HIDE DEF d
<1>7. vs = [d EXCEPT ![u] = [d[u] EXCEPT !.extra = x, !.pack = k]]
  BY <1>1, <1>4, <1>5, <1>6 DEF ApplyAddon, UserRow
<1> HIDE DEF x, k
<1>8. vs[u] = [d[u] EXCEPT !.extra = x, !.pack = k] BY <1>4, <1>7
<1>9. vs[u].extra = x /\ vs[u].pack = k BY <1>1, <1>5, <1>8 DEF UserRow
<1> QED BY <1>9 DEF x, k

(* A term bought from the balance ends on another day than the one before. *)
LEMMA OtherEnd ==
  ASSUME Inv, NEW u \in Users, DaysAreOfPlan(u), NEW p \in Plans, CheckPlanPurchase(u, p),
         NEW base, base = TermBase(users, u, ActivePaidPlan(users, u) = p),
         NEW days \in Nat \ {0}, NEW bonus \in Nat
  PROVE /\ base \in Nat /\ base + days + bonus # users[u].expire
        /\ base + days + bonus > now
<1>1. /\ now \in Nat /\ users[u].expire \in Nat /\ users[u].plan \in Plans \cup {NoPlan}
      /\ users \in Table
  BY DEF Inv, TypeOK, StoreTypeOK, Table, UserRow
<1>2. CASE ActivePaidPlan(users, u) = p
  <2>1. base \in Nat /\ base >= users[u].expire /\ base >= now
    BY <1>1, <1>2 DEF TermBase
  <2> QED BY <1>1, <2>1
<1>3. CASE ActivePaidPlan(users, u) # p
  <2>1. base = now BY <1>3 DEF TermBase
  <2>2. ~IsFree(p) /\ p # NoPlan BY StoreAssumption DEF CheckPlanPurchase
  <2>3. users[u].expire <= now
    <3>1. CASE users[u].plan = p
      BY <1>1, <1>3, <2>2, <3>1 DEF ActivePaidPlan
    <3>2. CASE users[u].plan # p
      BY <1>1, <3>2 DEF CheckPlanPurchase, DaysAreOfPlan
    <3> QED BY <3>1, <3>2
  <2> QED BY <1>1, <2>1, <2>3
<1> QED BY <1>2, <1>3

(* So the twin of a tap that has just bought is refused.                   *)
LEMMA TapTwin ==
  ASSUME Inv, NEW t \in Taps, NEW o \in Orders, NEW u \in Users, NEW p \in PurchaseRow,
         p.kind # "topup", tap[t].user = u, tap[t].buy = p, DaysAreOfPlan(u), TapBuys(t, o)
  PROVE tap[t].stamp # Stamp(u, p.kind)' \/ Quotes(u, p)' = {}
<1>1. /\ StoreTypeOK /\ users \in Table /\ orders \in [Orders -> OrderRow] /\ now \in Nat
      /\ users[u] \in UserRow
  BY DEF Inv, TypeOK, StoreTypeOK, Table
<1>2. PICK q \in Quotes(u, p) :
        BuyFromBalance(o, Draft(u, p, q), BalanceSpec(u, p, q), now)
  BY DEF TapBuys
<1>3. tap[t].stamp = Stamp(u, p.kind) /\ now' = now BY DEF TapBuys
<1> DEFINE d == Draft(u, p, q)
           sp == BalanceSpec(u, p, q)
           us == Debit(users, u, sp.debit)
<1>4. /\ d \in OrderRow /\ Fits(d) /\ d.user = u /\ d.kind = p.kind
      /\ p.kind = "plan" => d.plan = p.plan /\ d.periods = p.periods
      /\ p.kind = "change" => d.plan = p.plan
  BY <1>1, DraftType
<1>5. sp \in SpecRow BY <1>1, BalanceSpecType
<1>6. d.plan \in Plans /\ d.plan # NoPlan
  BY <1>4, StoreAssumption DEF Fits
<1>7. users' = Deliver(us, u, sp) /\ Covers(users, u, sp.debit)
  BY <1>2, <1>4 DEF BuyFromBalance
<1>8. us \in Table BY <1>1, <1>5, <1>7, DebitType DEF Covers, SpecRow
<1>9. p.kind \in {"plan", "change", "devices", "traffic"} BY DEF PurchaseRow, Kinds
<1>10. users'[u].plan \in Plans \cup {NoPlan} /\ users'[u].expire \in Nat
  BY <1>5, <1>7, <1>8, DeliverType DEF Table, UserRow
<1>11. CASE p.kind = "plan"
  <2> DEFINE cur == ActivePaidPlan(users, u)
             days == Period[d.plan] * d.periods
             base == TermBase(users, u, cur = d.plan)
             w == PlanWriteForDays(users, u, d.plan, cur = d.plan, TRUE, days, d.devices)
             bonus == IF w.expire > 0 THEN users[u].bonus ELSE 0
             wb == [w EXCEPT !.expire = @ + bonus]
             empty == [EmptySpec EXCEPT !.debit = q.bal]
  <2>1. sp = [empty EXCEPT !.what = "plan", !.promo = q.promo, !.bonus = bonus,
                           !.days = days, !.write = wb]
    BY <1>11 DEF BalanceSpec
  <2>2. CheckPlanPurchase(u, d.plan) /\ d.plan = p.plan BY <1>4, <1>11 DEF Quotes
  <2>3. w = [plan |-> d.plan, expire |-> w.expire, extra |-> w.extra, pack |-> w.pack,
             reqPlan |-> w.reqPlan, reqExpire |-> w.reqExpire]
        /\ w.expire = IF IsFree(d.plan) \/ days = 0 THEN 0 ELSE base + days
    BY DEF PlanWriteForDays
  <2>4. /\ Period[d.plan] \in Nat /\ d.periods \in Nat \ {0} /\ users[u].bonus \in Nat
        /\ users[u].expire \in Nat
    BY <1>1, <1>4, <1>6, StoreAssumption DEF OrderRow, UserRow
  <2>5. ~IsFree(d.plan) BY <2>2 DEF CheckPlanPurchase
  <2>6. Period[d.plan] = 0 => days = 0 BY <2>4
  <2>7. Period[d.plan] # 0 => days \in Nat \ {0} BY <2>4
  <2> HIDE DEF days, base
  <2>8. bonus = IF w.expire > 0 THEN users[u].bonus ELSE 0 OBVIOUS
  <2>9. wb = [w EXCEPT !.expire = w.expire + bonus] OBVIOUS
  <2> HIDE DEF w, bonus
  <2>10. wb.plan = d.plan /\ wb.expire = w.expire + bonus BY <2>3, <2>9
  <2> HIDE DEF wb
  <2>11. sp.what = "plan" /\ sp.write = wb BY <2>1 DEF EmptySpec
  <2> HIDE DEF sp, us, d
  <2>12. users'[u].plan = d.plan /\ users'[u].expire = w.expire + bonus
    BY <1>5, <1>7, <1>8, <2>10, <2>11, DeliverTerms
  <2>13. CASE Period[d.plan] = 0
    <3>1. ActivePaidPlan(users, u)' = d.plan
      BY <1>6, <2>5, <2>12, <2>13 DEF ActivePaidPlan
    <3>2. Quotes(u, p)' = {}
      BY <1>6, <1>11, <2>2, <2>13, <3>1 DEF Quotes, CheckPlanPurchase
    <3> QED BY <3>2
  <2>14. CASE Period[d.plan] # 0
    <3>1. /\ base \in Nat /\ base + days + users[u].bonus # users[u].expire
          /\ base + days + users[u].bonus > now
      BY <1>6, <2>2, <2>4, <2>7, <2>14, OtherEnd DEF base
    <3>2. w.expire = base + days /\ bonus = users[u].bonus
      BY <2>3, <2>5, <2>7, <2>8, <2>14, <3>1
    <3>3. users'[u].expire # users[u].expire BY <2>12, <3>1, <3>2
    <3>4. Stamp(u, p.kind).expire = users[u].expire
          /\ Stamp(u, p.kind)'.expire = users'[u].expire
      BY DEF Stamp, NoStamp
    <3> QED BY <1>3, <3>3, <3>4
  <2> QED BY <2>13, <2>14
<1>12. CASE p.kind = "change"
  <2> DEFINE change == ChangeWrite(users, u, d.plan, d.devices, q.expire,
                                   users[u].plan, users[u].expire)
             empty == [EmptySpec EXCEPT !.debit = q.bal]
  <2>1. sp = [empty EXCEPT !.what = "plan", !.write = change]
    BY <1>12 DEF BalanceSpec
  <2>2. change.plan = d.plan /\ change.expire = q.expire BY ChangeWriteTerm
  <2> HIDE DEF change
  <2>3. sp.what = "plan" /\ sp.write = change BY <2>1 DEF EmptySpec
  <2> HIDE DEF sp, us, d
  <2>4. users'[u].plan = d.plan /\ users'[u].expire = q.expire
    BY <1>5, <1>7, <1>8, <2>2, <2>3, DeliverTerms
  <2>5. ~IsFree(d.plan) /\ q.expire > now
    <3>1. q \in QuoteChange(u, p.plan, p.devices) BY <1>12 DEF Quotes
    <3>2. p.plan \in Plans /\ p.devices \in Nat \cup {KeepDevices}
      BY <1>12 DEF PurchaseRow
    <3>3. /\ ~IsFree(p.plan) /\ users[u].expire > now /\ q.expire >= users[u].expire
          /\ q.expire \in Nat
      BY <1>1, <3>1, <3>2, QuoteChangeType DEF QuoteRow
    <3> QED BY <1>1, <1>4, <1>12, <3>3 DEF UserRow
  <2>6. ActivePaidPlan(users, u)' = d.plan
    BY <1>3, <1>6, <2>4, <2>5 DEF ActivePaidPlan
  <2>7. Quotes(u, p)' = {}
    BY <1>4, <1>12, <2>6 DEF Quotes, QuoteChange
  <2> QED BY <2>7
<1>13. CASE p.kind \in {"devices", "traffic"}
  <2> DEFINE n == IF p.kind = "devices" THEN d.devices ELSE 0
             addon == [NoAddon EXCEPT !.plan = d.plan, !.devices = n,
                         !.pack = d.pack, !.reqExpire = d.expect,
                         !.reqExtra = users[u].extra, !.reqPack = users[u].pack]
             empty == [EmptySpec EXCEPT !.debit = q.bal]
  <2>1. sp = [empty EXCEPT !.what = "addon", !.addon = addon]
    BY <1>13 DEF BalanceSpec
  <2>2. addon.devices = n /\ addon.pack = d.pack BY DEF NoAddon
  <2> HIDE DEF addon
  <2>3. sp.what = "addon" /\ sp.addon = addon BY <2>1 DEF EmptySpec
  <2>4. /\ p.kind = "devices" => n \in Nat \ {0}
        /\ p.kind = "traffic" => d.pack \in Nat \ {0}
    <3>1. CASE p.kind = "devices"
      <4>1. q \in QuoteDevices(u, p.devices) BY <3>1 DEF Quotes
      <4>2. p.devices >= 1 /\ q.devices = p.devices BY <4>1 DEF QuoteDevices
      <4>3. d.devices = q.devices BY <3>1 DEF Draft, Blank
      <4>4. d.devices \in Nat BY <1>4 DEF OrderRow
      <4> QED BY <3>1, <4>2, <4>3, <4>4
    <3>2. CASE p.kind = "traffic"
      BY <3>2, PricingAssumption DEF Draft, Blank
    <3> QED BY <3>1, <3>2
  <2> HIDE DEF sp, us, d
  <2>5. users'[u].extra = users[u].extra + n /\ users'[u].pack = users[u].pack + d.pack
    BY <1>1, <1>5, <1>7, <2>2, <2>3, AddonAdds DEF us
  <2>6. users'[u].extra # users[u].extra \/ users'[u].pack # users[u].pack
    BY <1>1, <1>13, <2>4, <2>5 DEF UserRow
  <2>7. /\ Stamp(u, p.kind).extra = users[u].extra /\ Stamp(u, p.kind).pack = users[u].pack
        /\ Stamp(u, p.kind)'.extra = users'[u].extra
        /\ Stamp(u, p.kind)'.pack = users'[u].pack
    BY <1>13 DEF Stamp
  <2> QED BY <1>3, <2>6, <2>7
<1> QED BY <1>9, <1>11, <1>12, <1>13

(* Of a tap that Telegram delivers twice the second finds nothing to buy,  *)
(* whatever is sold, at whatever prices, terms and discounts: the stamp of *)
(* its screen has moved, or CheckPlanPurchase and quoteChange refuse.  (It *)
(* is later steps that may bring the stamp back: TapBuysOnce is left to    *)
(* TLC.)                                                                   *)
THEOREM TwinsAreRefused == Spec => TwinRefused
<1>1. ASSUME Inv, [Next]_vars
      PROVE \A t \in Taps, u \in Users, p \in Buys :
              /\ tap[t].pc = "buy" /\ tap[t].user = u /\ tap[t].buy = p /\ DaysAreOfPlan(u)
              /\ \E o \in Orders : TapBuys(t, o)
              => tap[t].stamp # Stamp(u, p.kind)' \/ Quotes(u, p)' = {}
  <2>1. SUFFICES ASSUME NEW t \in Taps, NEW u \in Users, NEW p \in Buys,
                        tap[t].user = u, tap[t].buy = p, DaysAreOfPlan(u),
                        NEW o \in Orders, TapBuys(t, o)
                 PROVE tap[t].stamp # Stamp(u, p.kind)' \/ Quotes(u, p)' = {}
    OBVIOUS
  <2>2. p \in PurchaseRow /\ p.kind # "topup" BY BuyRow
  <2> QED BY <1>1, <2>1, <2>2, TapTwin
<1> QED BY <1>1, AlwaysInv, PTL DEF Spec, TwinRefused
=============================================================================
