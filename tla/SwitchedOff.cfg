\* A node is taken back, Xray fails to start, and the node is switched off again.
SPECIFICATION Spec

CONSTANTS
  Accounts = {u1}
  MaxKey = 1
  Pids = {p1, p2}
  MaxRestarts = 1
  Shapes = {plain}
  Refused = {}
  Crashing = {}
  Monitors = {m1}
  Pushed <- MCPlain
  MayFail = {"start", "wedge"}
  MaxPushes = 1
  u1 = u1
  u2 = u2
  plain = plain
  custom = custom
  broken = broken
  NoConfig = NoConfig
  NoProc = NoProc
  NoPid = NoPid
  Base <- MCBase

INVARIANTS
  RevokedServesNobody

CHECK_DEADLOCK FALSE
