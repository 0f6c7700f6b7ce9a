\* Edits race the sync that puts them on the panel's Xray: switched users, new
\* keys, structural changes, with failing reads, writes and calls, crashes and
\* restarts in between.
SPECIFICATION Spec

CONSTANTS
  StartShapes = {plain}
  MayFail = {"api", "quic", "start", "crash", "restart", "read", "write"}
  Edits = {"switch", "rekey", "shape"}
  MaxEdits = 2
  Pids = {p1, p2}
  MaxRestarts = 0
  Accounts = {u1}
  MaxKey = 2
  Shapes = {plain, custom}
  Refused = {}
  Crashing = {}
  Monitors = {m1}
  StartOn = {u1}
  plain = plain
  custom = custom
  NoConfig = NoConfig
  NoProc = NoProc
  NoPid = NoPid
  Base <- MCBase

VIEW MCView

INVARIANTS
  ServesDatabase
  DiskFollows

CHECK_DEADLOCK FALSE
