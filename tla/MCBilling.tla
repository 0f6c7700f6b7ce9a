----------------------------- MODULE MCBilling -----------------------------
(***************************************************************************)
(* Instances of Billing for TLC.  Each configuration picks the actors, the *)
(* purchases and the plans of one question.                                *)
(***************************************************************************)
EXTENDS Ledger, TLC

CONSTANTS u1, u2, basic, plus, free, sale, gift

(* Orders are told apart by their rows alone. *)
MCOrderSymmetry == Permutations(Orders)

----------------------------------------------------------------------------
(* The price list: kopecks come two to the rouble, a period is two days.   *)
MCPrice == [p \in Plans |-> CASE p = basic -> 2 [] p = plus -> 4 [] OTHER -> 0]
MCPeriod == [p \in Plans |-> IF p = free THEN 0 ELSE 2]
MCDevicePrice == [p \in Plans |-> IF p = basic THEN 1 ELSE 0]
MCDeviceMax == [p \in Plans |-> IF p = basic THEN 1 ELSE 0]
MCNoDevices == [p \in Plans |-> 0]
MCQuota == [p \in Plans |-> p # free]
MCBasicQuota == [p \in Plans |-> p = basic]

(* Codes. *)
MCNoCodes == [c \in Codes |-> "none"]
MCUnlimited == [c \in Codes |-> 0]
MCOneUse == [c \in Codes |-> 1]
MCDaysAndMoney == [c \in Codes |-> IF c = gift THEN "balance" ELSE "days"]
MCSaleAndMoney == [c \in Codes |-> IF c = gift THEN "balance" ELSE "discount"]
MCOneOff == [c \in Codes |-> 1]
MCAnyPlan == [c \in Codes |-> NoPlan]

(* Nobody was invited, or u1 by u2. *)
MCNoReferrer == [u \in Users |-> NoUser]
MCInvited == [u \in Users |-> IF u = u1 THEN u2 ELSE NoUser]

----------------------------------------------------------------------------
(* What is bought. *)
Buy(kind, plan, sum) ==
  [kind |-> kind, plan |-> plan, periods |-> 1, devices |-> KeepDevices, sum |-> sum]

MCBasic == {Buy("plan", basic, 0)}
MCTopup == {Buy("topup", NoPlan, 1)}
MCChange == {Buy("change", plus, 0)}
MCAddons == {[Buy("devices", NoPlan, 0) EXCEPT !.devices = 1], Buy("traffic", NoPlan, 0)}
MCPlansAndAddons == MCBasic \cup MCChange \cup MCAddons
MCEverything == MCPlansAndAddons \cup MCTopup
MCNothing == {}

(* What the operator adds to a balance, or takes off. *)
MCAdjusts == {3, -5}

----------------------------------------------------------------------------
(* Users to start from. *)
Newcomer ==
  [balance |-> 0, plan |-> NoPlan, expire |-> 0, bonus |-> 0, extra |-> 0,
   pack |-> 0, promo |-> NoCode, auto |-> FALSE]

MCNewcomers == [u \in Users |-> Newcomer]
MCCodeAndMoney ==
  [u \in Users |-> [Newcomer EXCEPT !.promo = sale, !.balance = IF u = u1 THEN 2 ELSE 0]]
MCFunded == [u \in Users |-> [Newcomer EXCEPT !.balance = 9, !.auto = TRUE]]
MCEnding == [u \in Users |-> [Newcomer EXCEPT !.plan = basic, !.expire = 1,
                                             !.balance = 5, !.auto = TRUE]]
MCInviteeOnBasic ==
  [u \in Users |-> [Newcomer EXCEPT !.plan = IF u = u2 THEN plus ELSE basic,
                                    !.expire = 1, !.balance = 1]]
=============================================================================
