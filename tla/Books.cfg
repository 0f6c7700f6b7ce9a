\* Every kind of purchase, paid partly from the balance, with a share for the
\* inviter, refunded to the balance, by the provider, or by both.
SPECIFICATION Spec

CONSTANTS
  Users = {u1, u2}
  NoUser = NoUser
  Orders = {o1, o2}
  Plans = {basic, plus}
  NoPlan = NoPlan
  FreePlan = NoPlan
  Codes = {}
  NoCode = NoCode
  Kop = 2
  Price <- MCPrice
  Period <- MCPeriod
  DevicePrice <- MCDevicePrice
  DeviceMax <- MCDeviceMax
  Quota <- MCBasicQuota
  CodeMax <- MCUnlimited
  Referrer <- MCInvited
  RefMode = "percent"
  RefPercent = 1
  RefDays = 0
  RefFirstOnly = FALSE
  WalletEnabled = TRUE
  CodeKind <- MCNoCodes
  CodeValue <- MCOneOff
  FirstOnlyCodes = {}
  PackSize = 1
  PackPrice = 1
  NoOrder = NoOrder
  Shoppers = {s1}
  Hooks = {h1}
  Poller = Poller
  Operator = Operator
  Purchases <- MCEverything
  Methods = {"provider"}
  OperatorActs = {"refund"}
  ProviderActs = {"pay", "refund"}
  MayFail = {}
  ConfirmEarly = FALSE
  StatusAPI = FALSE
  MaxNow = 0
  TopupCap = 1
  Taps = {}
  Buys <- MCNothing
  TapActs = {}
  AssignActs = {}
  Adjusts = {}
  MaxGift = 6
  CodePlan <- MCAnyPlan
  Enforcing = FALSE
  RenewAhead = 1
  RenewGrace = 1
  StartUsers <- MCInviteeOnBasic
  u1 = u1
  u2 = u2
  basic = basic
  plus = plus
  free = free
  sale = sale
  gift = gift

SYMMETRY MCOrderSymmetry

INVARIANTS
  TypeOK
  BooksBalance

CHECK_DEADLOCK FALSE
