---------------------------- MODULE Subscription ----------------------------
(***************************************************************************)
(* What happens to a subscription without money coming in: purchases from  *)
(* the balance, codes, cancellations, the operator's corrections, and the  *)
(* pass that renews or ends terms (internal/core/manager_wallet.go, the    *)
(* rest of manager_purchase.go and manager_billing.go).                    *)
(*                                                                         *)
(* A tap is a request made from a screen drawn earlier; Telegram delivers  *)
(* the same tap twice.  EnforceBilling captures the time once, lists its   *)
(* users, and takes applyPlanMu for one user after another.                *)
(***************************************************************************)
EXTENDS Pricing

CONSTANTS
  Taps,         \* requests handled in parallel
  Buys,         \* what users buy from the balance (records like Purchases)
  TapActs,      \* the other requests: "promo", "cancel", "auto"
  AssignActs,   \* the operator's: "assign" a plan, "adjust" a balance
  Adjusts,      \* the corrections, in kopecks of either sign
  MaxGift,      \* the bound on what they add up to
  CodePlan,     \* days code -> the plan it grants (NoPlan: the active one)
  Enforcing,    \* EnforceBilling runs
  RenewAhead,   \* how long before the end the balance renews a term
  RenewGrace    \* and how long after

ASSUME SubscriptionAssumption ==
  /\ Adjusts \subseteq Int /\ MaxGift \in Nat
  /\ CodePlan \in [Codes -> Plans \cup {NoPlan}]
  /\ Enforcing \in BOOLEAN /\ RenewAhead \in Nat /\ RenewGrace \in Nat
  /\ Buys \subseteq {p \in PurchaseRow : p.kind # "topup"}

VARIABLES
  tap,   \* tap -> [pc, user, buy, stamp, code, order]; done is history: the
         \* same tap has bought already
  job    \* the billing pass: [pc, time, renew, expired]

subscriptionVars == <<tap, job>>

NoBuy == [kind |-> "traffic", plan |-> NoPlan, periods |-> 1, devices |-> 0, sum |-> 0]
NoStamp == [expire |-> 0, extra |-> 0, pack |-> 0]
IdleTap == [pc |-> "idle", user |-> NoUser, buy |-> NoBuy, stamp |-> NoStamp,
            code |-> NoCode, order |-> NoOrder, done |-> FALSE]
IdleJob == [pc |-> "idle", time |-> 0, renew |-> {}, expired |-> {}]

SubscriptionTypeOK ==
  /\ tap \in [Taps -> [pc : {"idle", "buy", "supersede", "attach"},
                       user : Users \cup {NoUser}, buy : Buys \cup {NoBuy},
                       stamp : [expire : Nat, extra : Nat, pack : Nat],
                       code : Codes \cup {NoCode},
                       order : Orders \cup {NoOrder}, done : BOOLEAN]]
  /\ job \in [pc : {"idle", "renew", "list", "end"}, time : Nat,
              renew : SUBSET Users, expired : SUBSET Users]

SubscriptionInit ==
  /\ tap = [t \in Taps |-> IdleTap]
  /\ job = IdleJob

----------------------------------------------------------------------------
(* Buying from the balance.                                                *)

StampTermOnly(u, kind) == [NoStamp EXCEPT !.expire = users[u].expire]   \* mutant

(* What the screen that offers a purchase holds it to: the end of the term *)
(* of a plan or a change, PurchaseStamp of an add-on.                      *)
Stamp(u, kind) ==
  IF kind \in {"devices", "traffic"}
  THEN [expire |-> users[u].expire, extra |-> users[u].extra, pack |-> users[u].pack]
  ELSE [NoStamp EXCEPT !.expire = users[u].expire]

ShowOffer(t, u, p) ==
  /\ tap[t].pc = "idle"
  /\ \E q \in Quotes(u, p) : q.money = 0
  /\ tap' = [tap EXCEPT ![t] = [IdleTap EXCEPT !.pc = "buy", !.user = u, !.buy = p,
                                               !.stamp = Stamp(u, p.kind)]]
  /\ UNCHANGED <<db, job>>

(* Telegram delivers the same tap a second time. *)
TapTwice(t, s) ==
  /\ tap[t].pc = "buy" /\ tap[s].pc = "idle"
  /\ tap' = [tap EXCEPT ![s] = tap[t]]
  /\ UNCHANGED <<db, job>>

(* What a purchase from the balance delivers and costs, as of now. *)
BalanceSpec(u, p, q) ==
  LET row == Draft(u, p, q)
      w == PlanWriteForDays(users, u, row.plan, ActivePaidPlan(users, u) = row.plan,
                            TRUE, Period[row.plan] * row.periods, row.devices)
      bonus == IF w.expire > 0 THEN users[u].bonus ELSE 0
      sp == [EmptySpec EXCEPT !.debit = q.bal]
  IN CASE p.kind = "plan" ->
            [sp EXCEPT !.what = "plan", !.promo = q.promo, !.bonus = bonus,
                       !.days = Period[row.plan] * row.periods,
                       !.write = [w EXCEPT !.expire = @ + bonus]]
       [] p.kind = "change" ->
            [sp EXCEPT !.what = "plan",
                       !.write = ChangeWrite(users, u, row.plan, row.devices, q.expire,
                                             users[u].plan, users[u].expire)]
       [] p.kind \in {"devices", "traffic"} ->
            [sp EXCEPT !.what = "addon",
                       !.addon = [NoAddon EXCEPT !.plan = row.plan,
                          !.devices = IF p.kind = "devices" THEN row.devices ELSE 0,
                          !.pack = row.pack, !.reqExpire = row.expect,
                          !.reqExtra = users[u].extra, !.reqPack = users[u].pack]]

(* Under applyPlanMu: the stamp, the price as of now, the transaction. *)
TapBuys(t, o) ==
  LET u == tap[t].user
      p == tap[t].buy
  IN /\ tap[t].pc = "buy"
     /\ tap[t].stamp = Stamp(u, p.kind)
     /\ \E q \in Quotes(u, p) :
          /\ q.money = 0
          /\ BuyFromBalance(o, Draft(u, p, q), BalanceSpec(u, p, q), now)
          /\ tap' = [s \in Taps |->
               IF s # t THEN [tap[s] EXCEPT !.done = @ \/ tap[s] = tap[t]]
               ELSE IF q.promo = NoCode THEN IdleTap
               ELSE [IdleTap EXCEPT !.pc = "supersede", !.user = u,
                                    !.code = q.promo, !.order = o]]
     /\ UNCHANGED <<now, job>>

(* The stamp is stale, the price no longer covered, or the purchase no     *)
(* longer sold.                                                            *)
TapRefused(t) ==
  /\ tap[t].pc = "buy"
  /\ \/ tap[t].stamp # Stamp(tap[t].user, tap[t].buy.kind)
     \/ \A q \in Quotes(tap[t].user, tap[t].buy) : q.money > 0
  /\ tap' = [tap EXCEPT ![t] = IdleTap]
  /\ UNCHANGED <<db, job>>

(* supersedePromoOrders, after the lock is gone. *)
TapSupersedes(t) ==
  /\ tap[t].pc = "supersede"
  /\ CancelIfPending(OpenWithCode(tap[t].user, tap[t].code, tap[t].order))
  /\ tap' = [tap EXCEPT ![t] = IdleTap]
  /\ UNCHANGED <<users, promoUses, uses, now, history, job>>

----------------------------------------------------------------------------
(* Codes.                                                                  *)

RedeemBalance(u, c) ==
  /\ "promo" \in TapActs /\ WalletEnabled
  /\ CodeKind[c] = "balance" /\ CodeLeft(c, u)
  /\ TakeUse(c, u)
  /\ users' = Credit(users, u, CodeValue[c] * Kop)
  /\ gifts' = [gifts EXCEPT ![u] = @ + CodeValue[c] * Kop]
  /\ UNCHANGED <<orders, now, claims, paidUntil, subscriptionVars>>

(* redeemPromoDays, under applyPlanMu: onto the running paid plan, or the  *)
(* code's own plan from now.                                               *)
RedeemDays(u, c) ==
  LET active == ActivePaidPlan(users, u)
      p == IF CodePlan[c] = NoPlan THEN active ELSE CodePlan[c]
  IN /\ "promo" \in TapActs
     /\ CodeKind[c] = "days" /\ CodeLeft(c, u)
     /\ p # NoPlan /\ ~IsFree(p) /\ Period[p] > 0
     /\ active # NoPlan => active = p
     /\ TakeUse(c, u)
     /\ users' = ApplyUserPlan(users, u,
          PlanWriteForDays(users, u, p, active # NoPlan, FALSE, CodeValue[c],
                           HeldDevices(users, u, p)))
     /\ UNCHANGED <<orders, now, history, subscriptionVars>>

(* A discount code is checked, then attached to the next payment; nothing  *)
(* holds the two together.                                                 *)
EnterDiscount(t, u, c) ==
  /\ "promo" \in TapActs
  /\ tap[t].pc = "idle"
  /\ DiscountUsable(c, u)
  /\ LET active == ActivePaidPlan(users, u)
     IN IF active # NoPlan THEN Period[active] > 0 ELSE \E p \in Plans : ~IsFree(p)
  /\ tap' = [tap EXCEPT ![t] = [IdleTap EXCEPT !.pc = "attach", !.user = u, !.code = c]]
  /\ UNCHANGED <<db, job>>

AttachDiscount(t) ==
  /\ tap[t].pc = "attach"
  /\ users' = [users EXCEPT ![tap[t].user].promo = tap[t].code]
  /\ tap' = [tap EXCEPT ![t] = IdleTap]
  /\ UNCHANGED <<orders, promoUses, uses, now, history, job>>

----------------------------------------------------------------------------
(* Cancelling, switches and corrections.                                   *)

(* The user gives up the time paid for. *)
CancelUserPlan(u) ==
  /\ "cancel" \in TapActs
  /\ ActivePaidPlan(users, u) # NoPlan
  /\ users' = EndPlan(users, u)
  /\ paidUntil' = [paidUntil EXCEPT ![u] = 0]
  /\ UNCHANGED <<orders, promoUses, uses, now, claims, gifts, subscriptionVars>>

SetAutoRenew(u, on) ==
  /\ "auto" \in TapActs
  /\ users[u].auto # on
  /\ users' = [users EXCEPT ![u].auto = on]
  /\ UNCHANGED <<orders, promoUses, uses, now, history, subscriptionVars>>

AdjustBalance(u, kop) ==
  /\ "adjust" \in AssignActs
  /\ kop # 0 /\ Covers(users, u, -kop)
  /\ gifts[u] + kop <= MaxGift
  /\ users' = Credit(users, u, kop)
  /\ gifts' = [gifts EXCEPT ![u] = @ + kop]
  /\ UNCHANGED <<orders, promoUses, uses, now, claims, paidUntil, subscriptionVars>>

(* applyPlan by the operator: what the user had paid for is theirs to      *)
(* move.  Bound: no term past MaxNow is extended.                          *)
ApplyPlanToUser(u, p, extend) ==
  /\ "assign" \in AssignActs
  /\ extend => users[u].expire <= MaxNow
  /\ users' = ApplyUserPlan(users, u,
       PlanWriteForDays(users, u, p, extend, FALSE, Period[p], HeldDevices(users, u, p)))
  /\ paidUntil' = [paidUntil EXCEPT ![u] = 0]
  /\ UNCHANGED <<orders, promoUses, uses, now, claims, gifts, subscriptionVars>>

----------------------------------------------------------------------------
(* EnforceBilling.                                                         *)

InRenewal(us, u, t) ==
  /\ us[u].expire > t - RenewGrace
  /\ us[u].expire <= t + RenewAhead

Renewable(us, u, t) ==
  /\ us[u].auto
  /\ InRenewal(us, u, t)
  /\ us[u].plan # NoPlan /\ ~IsFree(us[u].plan) /\ Period[us[u].plan] > 0

RenewalKop(us, u) == PeriodRub(us[u].plan, HeldDevices(us, u, us[u].plan)) * Kop

(* UsersDueRenewal. *)
BeginPass ==
  /\ Enforcing /\ job.pc = "idle"
  /\ job' = [IdleJob EXCEPT !.pc = "renew", !.time = now,
       !.renew = IF ~WalletEnabled THEN {}
                 ELSE {u \in Users : Renewable(users, u, now)
                                     /\ Covers(users, u, RenewalKop(users, u))}]
  /\ UNCHANGED <<db, tap>>

(* Checked again under applyPlanMu: the user may have renewed, or turned   *)
(* renewal off, since the pass listed them.                                *)
WasDue(u) == users[u].plan # NoPlan   \* mutant
StillDue(u) == Renewable(users, u, job.time)

(* renewFromBalance, re-checked under applyPlanMu with the pass's time. *)
RenewFromBalance(u, o) ==
  LET p == users[u].plan
      devices == HeldDevices(users, u, p)
      w == PlanWriteForDays(users, u, p, TRUE, TRUE, Period[p], devices)
      bonus == IF w.expire > 0 THEN users[u].bonus ELSE 0
  IN /\ job.pc = "renew" /\ u \in job.renew
     /\ StillDue(u)
     /\ BuyFromBalance(o,
          [Blank EXCEPT !.user = u, !.plan = p, !.devices = devices],
          [EmptySpec EXCEPT !.what = "plan", !.debit = RenewalKop(users, u),
             !.bonus = bonus, !.days = Period[p],
             !.write = [w EXCEPT !.expire = @ + bonus]],
          job.time)
     /\ job' = [job EXCEPT !.renew = @ \ {u}]
     /\ UNCHANGED <<now, tap>>

(* No longer due, no longer covered, or the write failed, as it does when   *)
(* no order id is left (bound).                                            *)
RenewalSkipped(u) ==
  /\ job.pc = "renew" /\ u \in job.renew
  /\ \/ ~(StillDue(u) /\ Covers(users, u, RenewalKop(users, u)))
     \/ \A o \in Orders : orders[o].status # "none"
  /\ job' = [job EXCEPT !.renew = @ \ {u}]
  /\ UNCHANGED <<db, tap>>

(* Nobody is left to renew; without a free plan that is all. *)
RenewalsDone ==
  /\ job.pc = "renew" /\ job.renew = {}
  /\ job' = IF FreePlan = NoPlan THEN IdleJob ELSE [job EXCEPT !.pc = "list"]
  /\ UNCHANGED <<db, tap>>

ExpiredBefore(t) ==   \* mutant
  {u \in Users : users[u].plan \notin {NoPlan, FreePlan}
                 /\ users[u].expire > 0 /\ users[u].expire < t}

(* UsersWithExpiredPlan. *)
Expired(t) ==
  {u \in Users : users[u].plan \notin {NoPlan, FreePlan}
                 /\ users[u].expire > 0 /\ users[u].expire <= t}

ListExpired ==
  /\ job.pc = "list"
  /\ job' = [job EXCEPT !.pc = "end", !.expired = Expired(job.time)]
  /\ UNCHANGED <<db, tap>>

(* A payment may have given the user a new term since the list was made. *)
OverWhenListed(u) == TRUE   \* mutant
StillOver(u) == /\ users[u].plan # FreePlan /\ users[u].expire # 0
                /\ users[u].expire <= job.time

(* downgradeExpired, re-checked under applyPlanMu. *)
DowngradeExpired(u) ==
  /\ job.pc = "end" /\ u \in job.expired
  /\ users' = IF StillOver(u)
              THEN ApplyUserPlan(users, u,
                     PlanWriteForDays(users, u, FreePlan, FALSE, FALSE,
                                      Period[FreePlan], HeldDevices(users, u, FreePlan)))
              ELSE users
  /\ job' = [job EXCEPT !.expired = @ \ {u}]
  /\ UNCHANGED <<orders, promoUses, uses, now, history, tap>>

EndPass ==
  /\ job.pc = "end" /\ job.expired = {}
  /\ job' = IdleJob
  /\ UNCHANGED <<db, tap>>

----------------------------------------------------------------------------
Tapping(t) ==
  \/ \E u \in Users, p \in Buys : ShowOffer(t, u, p)
  \/ \E s \in Taps : TapTwice(t, s)
  \/ \E o \in Orders : TapBuys(t, o)
  \/ TapRefused(t)
  \/ TapSupersedes(t)
  \/ \E u \in Users, c \in Codes : EnterDiscount(t, u, c)
  \/ AttachDiscount(t)

Account(u) ==
  \/ \E c \in Codes : RedeemBalance(u, c) \/ RedeemDays(u, c)
  \/ CancelUserPlan(u)
  \/ \E on \in BOOLEAN : SetAutoRenew(u, on)
  \/ \E kop \in Adjusts : AdjustBalance(u, kop)
  \/ \E p \in Plans, extend \in BOOLEAN : ApplyPlanToUser(u, p, extend)

EnforceBilling ==
  \/ BeginPass
  \/ \E u \in Users, o \in Orders : RenewFromBalance(u, o)
  \/ \E u \in Users : RenewalSkipped(u) \/ DowngradeExpired(u)
  \/ RenewalsDone
  \/ ListExpired
  \/ EndPass

SubscriptionNext ==
  \/ \E t \in Taps : Tapping(t)
  \/ \E u \in Users : Account(u)
  \/ EnforceBilling
=============================================================================
