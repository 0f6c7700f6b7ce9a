\* A Telegram and a website client sign up by every way at once, with requests approved,
\* rejected and put back, accounts unlinked, moved, tied and deleted, failing writes
\* and restarts.
SPECIFICATION Spec

CONSTANTS
  Chats = {c1}
  Sites = {x1}
  NoOne = NoOne
  Workers = {w1, w2}
  Ways = {"bot", "app", "api", "site"}
  Modes = {"open", "moderation"}
  MayHappen = {"mode", "delete", "unlink", "relink", "tie", "approve", "create", "plan", "link", "mark", "crash"}
  MaxUsers = 2
  MaxRequests = 2
  MaxEvents = 2

SYMMETRY MCWorkerSymmetry

INVARIANTS
  OneTrialPerChat
  NeverDisplaces
  DecidedOnce
  NobodyForgotten

CHECK_DEADLOCK FALSE
