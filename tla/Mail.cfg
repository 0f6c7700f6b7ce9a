\* A broadcast and the outside event it ends with: composed or scheduled, stopped,
\* resumed and retried, with lost outcomes, failed writes and restarts.
SPECIFICATION FairSpec

CONSTANTS
  Events = {1}
  Hooks = {e1}
  MaxAttempts = 2
  MayFail = {"post", "store", "crash", "off"}
  MaxFaults = 1
  Broadcasts = {1}
  Chats = {c1}
  Batch = 1
  Operators = {o1}
  MaxControls = 3

INVARIANTS
  MessagedOnce
  DoneIsDrained
  RepeatedOnlyInDoubt
PROPERTIES
  CancelHolds
  NothingLost
  RunsEnd
  RowsGo

CHECK_DEADLOCK FALSE
