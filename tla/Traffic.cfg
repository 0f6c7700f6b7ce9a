\* Bytes through Xray and through nodes while flushes, enforcement passes, resets of
\* both kinds and edits meet failing calls, restarts, crashes and a stop.
SPECIFICATION FairSpec

CONSTANTS
  Users = {u1}
  u1 = u1
  Limits = {0, 2}
  MayHappen = {"node", "limit", "reset", "period", "api", "store", "exit", "restart", "stop", "panel"}
  MaxBytes = 3
  MaxEvents = 2

INVARIANTS
  TypeOK
  Accounted
  AlertedOnce
PROPERTIES
  QuotaFollows

CHECK_DEADLOCK FALSE
