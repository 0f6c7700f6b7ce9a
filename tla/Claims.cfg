\* One order and everyone who may settle it: callbacks repeated until they are
\* answered, the poll and the operator, with failing invoices and restarts.
SPECIFICATION SpecHooks

CONSTANTS
  Users = {u1}
  NoUser = NoUser
  Orders = {o1}
  Plans = {basic}
  NoPlan = NoPlan
  FreePlan = NoPlan
  Codes = {}
  NoCode = NoCode
  Kop = 2
  Price <- MCPrice
  Period <- MCPeriod
  DevicePrice <- MCNoDevices
  DeviceMax <- MCNoDevices
  Quota <- MCQuota
  CodeMax <- MCUnlimited
  Referrer <- MCNoReferrer
  RefMode = "off"
  RefPercent = 1
  RefDays = 0
  RefFirstOnly = FALSE
  WalletEnabled = TRUE
  CodeKind <- MCNoCodes
  CodeValue <- MCOneOff
  FirstOnlyCodes = {}
  PackSize = 1
  PackPrice = 1
  NoOrder = NoOrder
  Shoppers = {s1}
  Hooks = {h1}
  Poller = Poller
  Operator = Operator
  Purchases <- MCBasic
  Methods = {"provider", "manual"}
  OperatorActs = {"confirm", "cancel", "refund"}
  ProviderActs = {"pay", "void", "odd", "refund"}
  MayFail = {"create", "crash", "poll"}
  ConfirmEarly = FALSE
  StatusAPI = TRUE
  MaxNow = 2
  TopupCap = 1
  Taps = {}
  Buys <- MCNothing
  TapActs = {}
  AssignActs = {}
  Adjusts = {}
  MaxGift = 6
  CodePlan <- MCAnyPlan
  Enforcing = FALSE
  RenewAhead = 1
  RenewGrace = 1
  StartUsers <- MCNewcomers
  u1 = u1
  u2 = u2
  basic = basic
  plus = plus
  free = free
  sale = sale
  gift = gift

INVARIANTS
  PaidOnce
PROPERTIES
  Settles
  CapturedIsClaimed

CHECK_DEADLOCK FALSE
