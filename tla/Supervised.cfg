\* Configs pushed one after another, live changes that fail half way, crashes,
\* roll-backs, restarts from the side, revocation and shutdown of a node's Xray.
SPECIFICATION FairSpec

CONSTANTS
  Accounts = {u1, u2}
  MaxKey = 1
  Pids = {p1, p2}
  MaxRestarts = 1
  Shapes = {plain, custom, broken}
  Refused = {broken}
  Crashing = {}
  Monitors = {m1, m2}
  Pushed <- MCPushed
  MayFail = {"start", "api", "wedge", "stop"}
  MaxPushes = 2
  u1 = u1
  u2 = u2
  plain = plain
  custom = custom
  broken = broken
  NoConfig = NoConfig
  NoProc = NoProc
  NoPid = NoPid
  Base <- MCBase

INVARIANTS
  OneChild
  StaysDown
  RunsWhatFileSays
PROPERTIES
  CrashRecovers

CHECK_DEADLOCK FALSE
