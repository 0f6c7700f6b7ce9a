\* Two users, one invited by the other, two requests and a discount code with a
\* single use: checkouts are superseded and paid all the same, or are open when the
\* use is taken; payments are refunded meanwhile.
SPECIFICATION Spec

CONSTANTS
  Users = {u1, u2}
  NoUser = NoUser
  Orders = {o1, o2}
  Plans = {basic}
  NoPlan = NoPlan
  FreePlan = NoPlan
  Codes = {sale, gift}
  NoCode = NoCode
  Kop = 2
  Price <- MCPrice
  Period <- MCPeriod
  DevicePrice <- MCNoDevices
  DeviceMax <- MCNoDevices
  Quota <- MCQuota
  CodeMax <- MCOneUse
  Referrer <- MCInvited
  RefMode = "days"
  RefPercent = 1
  RefDays = 1
  RefFirstOnly = FALSE
  WalletEnabled = TRUE
  CodeKind <- MCSaleAndMoney
  CodeValue <- MCOneOff
  FirstOnlyCodes = {}
  PackSize = 1
  PackPrice = 1
  NoOrder = NoOrder
  Shoppers = {s1, s2}
  Hooks = {}
  Poller = Poller
  Operator = Operator
  Purchases <- MCBasic
  Methods = {"external"}
  OperatorActs = {"confirm", "refund"}
  ProviderActs = {}
  MayFail = {}
  ConfirmEarly = FALSE
  StatusAPI = TRUE
  MaxNow = 1
  TopupCap = 1
  Taps = {}
  Buys <- MCNothing
  TapActs = {"promo"}
  AssignActs = {}
  Adjusts = {}
  MaxGift = 6
  CodePlan <- MCAnyPlan
  Enforcing = FALSE
  RenewAhead = 1
  RenewGrace = 1
  StartUsers <- MCCodeAndMoney
  u1 = u1
  u2 = u2
  basic = basic
  plus = plus
  free = free
  sale = sale
  gift = gift

SYMMETRY MCOrderSymmetry

INVARIANTS
  OneDiscountPerUser
  OneOpenCheckout
PROPERTIES
  OverLimitByMoneyOnly

CHECK_DEADLOCK FALSE
