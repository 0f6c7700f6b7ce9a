\* A node and the panel: reports, pushes, switching off and on, an update, with
\* requests given up, answers lost, stops, crashes and a panel restart.
SPECIFICATION FairSpec

CONSTANTS
  Units = {1, 2}
  ChunkMax = 1
  Slots = {h1, h2}
  NoSlot = NoSlot
  NoMail = NoMail
  Edits = {"config", "switch", "update"}
  MayFail = {"store", "apply", "cut", "crash", "stop", "panel"}
  MaxEvents = 2

INVARIANTS
  CountedOnce
  UpdatesOnce
  HeldIsCurrent
PROPERTIES
  BelievedAckMeansCounted
  Follows
  TrafficArrives

CHECK_DEADLOCK FALSE
