\* The pass that renews and ends terms, working through its lists while the user
\* buys, cancels and switches renewal off, the operator assigns plans, and money
\* comes in late.
SPECIFICATION SpecEnforce

CONSTANTS
  Users = {u1}
  NoUser = NoUser
  Orders = {o1, o2}
  Plans = {basic, free}
  NoPlan = NoPlan
  FreePlan = free
  Codes = {}
  NoCode = NoCode
  Kop = 2
  Price <- MCPrice
  Period <- MCPeriod
  DevicePrice <- MCNoDevices
  DeviceMax <- MCNoDevices
  Quota <- MCQuota
  CodeMax <- MCUnlimited
  Referrer <- MCNoReferrer
  RefMode = "off"
  RefPercent = 1
  RefDays = 0
  RefFirstOnly = FALSE
  WalletEnabled = TRUE
  CodeKind <- MCNoCodes
  CodeValue <- MCOneOff
  FirstOnlyCodes = {}
  PackSize = 1
  PackPrice = 1
  NoOrder = NoOrder
  Shoppers = {s1}
  Hooks = {}
  Poller = Poller
  Operator = Operator
  Purchases <- MCBasic
  Methods = {"external"}
  OperatorActs = {"confirm"}
  ProviderActs = {}
  MayFail = {}
  ConfirmEarly = FALSE
  StatusAPI = TRUE
  MaxNow = 3
  TopupCap = 1
  Taps = {t1}
  Buys <- MCBasic
  TapActs = {"auto", "cancel"}
  AssignActs = {"assign"}
  Adjusts = {}
  MaxGift = 6
  CodePlan <- MCAnyPlan
  Enforcing = TRUE
  RenewAhead = 1
  RenewGrace = 1
  StartUsers <- MCEnding
  u1 = u1
  u2 = u2
  basic = basic
  plus = plus
  free = free
  sale = sale
  gift = gift

INVARIANTS
  PaidTimeKept
PROPERTIES
  RenewsOnTime
  ExpiredIsEnded

CHECK_DEADLOCK FALSE
