\* A tap delivered twice, for every kind of purchase from the balance, which the
\* operator corrects meanwhile, next to a code that gives days.
SPECIFICATION Spec

CONSTANTS
  Users = {u1}
  NoUser = NoUser
  Orders = {o1, o2, o3}
  Plans = {basic, plus}
  NoPlan = NoPlan
  FreePlan = NoPlan
  Codes = {sale}
  NoCode = NoCode
  Kop = 2
  Price <- MCPrice
  Period <- MCPeriod
  DevicePrice <- MCDevicePrice
  DeviceMax <- MCDeviceMax
  Quota <- MCQuota
  CodeMax <- MCUnlimited
  Referrer <- MCNoReferrer
  RefMode = "off"
  RefPercent = 1
  RefDays = 0
  RefFirstOnly = FALSE
  WalletEnabled = TRUE
  CodeKind <- MCDaysAndMoney
  CodeValue <- MCOneOff
  FirstOnlyCodes = {}
  PackSize = 1
  PackPrice = 1
  NoOrder = NoOrder
  Shoppers = {}
  Hooks = {}
  Poller = Poller
  Operator = Operator
  Purchases <- MCBasic
  Methods = {"provider"}
  OperatorActs = {}
  ProviderActs = {"pay"}
  MayFail = {}
  ConfirmEarly = FALSE
  StatusAPI = TRUE
  MaxNow = 2
  TopupCap = 1
  Taps = {t1, t2}
  Buys <- MCPlansAndAddons
  TapActs = {"promo"}
  AssignActs = {"adjust"}
  Adjusts <- MCAdjusts
  MaxGift = 12
  CodePlan <- MCAnyPlan
  Enforcing = FALSE
  RenewAhead = 1
  RenewGrace = 1
  StartUsers <- MCFunded
  u1 = u1
  u2 = u2
  basic = basic
  plus = plus
  free = free
  sale = sale
  gift = gift

PROPERTIES
  TapBuysOnce

CHECK_DEADLOCK FALSE
