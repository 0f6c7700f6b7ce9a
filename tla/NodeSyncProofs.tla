----------------------------- MODULE NodeSyncProofs -----------------------------
(***************************************************************************)
(* What the long poll promises, for any traffic, any number of requests    *)
(* handled at a time, and any edits and faults.                            *)
(***************************************************************************)
EXTENDS NodeSync, FiniteSetTheorems, TLAPS

(* Reports carry what was sampled and nothing twice: pieces that wait are  *)
(* in no report, two reports with a piece in common are the same report,   *)
(* and the one in flight is the last one made.                             *)
Made ==
  /\ db.watermark <= disk.seq /\ agent.rid <= disk.seq
  /\ agent.rid # 0 => agent.rid = disk.seq
  /\ agent.rid = 0 => agent.inflight = {}
  /\ disk.seq + Cardinality(agent.pending) <= Cardinality(sampled)
  /\ agent.pending \subseteq sampled /\ agent.inflight \subseteq sampled
  /\ agent.pending \intersect agent.inflight = {}

ReportFits(r) ==
  /\ r.rid <= disk.seq /\ r.units \subseteq sampled /\ r.units \intersect agent.pending = {}
  /\ r.rid = 0 => r.units = {}
  /\ r.units \intersect agent.inflight # {} => r.rid = agent.rid
  /\ r.rid = agent.rid => r.units = agent.inflight

Apart ==
  /\ \A s \in Slots : ReportFits(handler[s])
  /\ \A s, t \in Slots : handler[s].units \intersect handler[t].units # {} => handler[s].rid = handler[t].rid

(* What is booked is booked once, and the reports it was in are claimed.   *)
Booked ==
  /\ \A u \in Units : counted[u] <= 1 /\ (counted[u] > 0 => u \in sampled \ agent.pending)
  /\ \A s \in Slots : \A u \in handler[s].units : counted[u] > 0 => handler[s].rid <= db.watermark
  /\ \A u \in agent.inflight : counted[u] > 0 <=> agent.rid <= db.watermark

(* An acknowledgement that is believed is of what was claimed.             *)
Acks ==
  /\ \A s \in Slots : handler[s].at \in {"decide", "hold", "answer"} /\ handler[s].believed
                      => handler[s].ack <= db.watermark
  /\ agent.mail # NoMail /\ agent.mail.believed => agent.mail.ack <= db.watermark

(* Every order to update is in one place: still to be told, on its way to  *)
(* the agent, kept by it, or done.                                         *)
One(cond) == IF cond THEN 1 ELSE 0
Orders ==
  /\ One(db.command = "asked") + One(agent.mail # NoMail /\ agent.mail.update)
     + One(agent.updating) + updates <= asks
  /\ agent.waits # NoSlot => agent.mail = NoMail

(* A snapshot that has aged is followed by a wake, and so is a request     *)
(* parked on it.                                                           *)
Stale(ver) == ver # db.want
Wakes ==
  /\ db.want \in 1..events + 1
  /\ inputs.fresh => inputs.ver # 0 /\ (Stale(inputs.ver) => sync.kick \/ sync.at # "idle")
  /\ sync.at = "compare" => sync.ver # 0 /\ sync.fresh /\ (Stale(sync.ver) => sync.kick)

ParkedFits(r) ==
  ~r.woken /\ ~r.missed =>
    /\ r.at \in {"decide", "hold"} => r.on = db.enabled \/ waking
    /\ r.at = "hold" /\ r.on /\ Stale(r.has) => sync.kick \/ sync.at # "idle"
Parked ==
  /\ \A s \in Slots : ParkedFits(handler[s])
  /\ \A s \in Slots : handler[s].at \in {"lookup", "ingest"} => ~handler[s].woken

IInv == TypeOK /\ Made /\ Apart /\ Booked /\ Acks /\ Orders /\ Wakes /\ Parked

(***************************************************************************)
(* The start                                                               *)
(***************************************************************************)

(* The first id and the first version.                                      *)
LEMMA Zero == 0 \in Ids /\ 0 \in Versions
  BY FS_CardinalityType, NodeSyncAssumption DEF Ids, Versions

(* A free slot is a request.                                                *)
LEMMA FreeType == Free \in Request
  BY FS_CardinalityType, NodeSyncAssumption DEF Free, Request, Ids, Versions

(* The invariant at the start.                                              *)
LEMMA Starts ==
  ASSUME Init
  PROVE  IInv
<1>0. Cardinality({}) = 0 /\ Cardinality(Units) \in Nat
  BY FS_EmptySet, FS_CardinalityType, NodeSyncAssumption
<1>1. TypeOK
  <2>1. 0 \in Ids /\ 0 \in Versions /\ 1 \in Versions
    BY <1>0, NodeSyncAssumption DEF Ids, Versions
  <2>2. handler \in [Slots -> Request]
    BY FreeType DEF Init
  <2>3. agent \in Agent
    BY <2>1 DEF Init, Agent
  <2>4. db \in [enabled: BOOLEAN, want: Versions, watermark: Ids, command: {"none", "asked", "sent"}]
    BY <2>1 DEF Init
  <2>5. /\ inputs \in [ver: Versions, fresh: BOOLEAN]
        /\ sync \in [kick: BOOLEAN, at: {"idle", "compare", "notify"}, ver: Versions, fresh: BOOLEAN]
        /\ disk \in [ver: Versions, revoked: BOOLEAN, seq: Ids]
    BY <2>1 DEF Init
  <2>6. /\ counted \in [Units -> Nat] /\ waking \in BOOLEAN /\ sampled \subseteq Units
        /\ updates \in Nat /\ dropped \in BOOLEAN
    BY DEF Init
  <2>7. events \in 0..MaxEvents /\ asks \in 0..events
    BY NodeSyncAssumption DEF Init
  <2> QED
    BY <2>2, <2>3, <2>4, <2>5, <2>6, <2>7 DEF TypeOK
<1>2. Made
  BY <1>0 DEF Init, Made
<1>3. Apart
  BY DEF Init, Apart, ReportFits, Free
<1>4. Booked
  BY DEF Init, Booked, Free
<1>5. Acks
  BY DEF Init, Acks, Free
<1>6. Orders
  BY DEF Init, Orders, One
<1>7. Wakes
  BY DEF Init, Wakes, Stale
<1>8. Parked
  BY DEF Init, Parked, ParkedFits, Free
<1> QED
  BY <1>1, <1>2, <1>3, <1>4, <1>5, <1>6, <1>7, <1>8 DEF IInv

(***************************************************************************)
(* What an action that is not about a part leaves of it                    *)
(***************************************************************************)

(* Nothing new is reported or booked; a report, a batch may be let go of.  *)
NothingNew ==
  /\ counted' = counted /\ db'.watermark = db.watermark /\ disk'.seq = disk.seq /\ sampled' = sampled
  /\ \/ agent'.rid = agent.rid /\ agent'.inflight = agent.inflight
     \/ agent'.rid = 0 /\ agent'.inflight = {}
  /\ agent'.pending = agent.pending \/ agent'.pending = {}
  /\ \A s \in Slots : \/ handler'[s].rid = handler[s].rid /\ handler'[s].units = handler[s].units
                      \/ handler'[s].rid = 0 /\ handler'[s].units = {}

(* Sets of pieces are finite, so they can be counted.                       *)
LEMMA Finite ==
  ASSUME TypeOK, NEW S \in SUBSET Units
  PROVE  IsFiniteSet(S) /\ Cardinality(S) \in Nat /\ Cardinality(S) <= Cardinality(Units)
         /\ Cardinality(Units) \in Nat
  BY FS_Subset, FS_CardinalityType, NodeSyncAssumption

(* Steps that make, send and book no report.                                *)
LEMMA ReportsStand ==
  ASSUME TypeOK, Made, Apart, Booked, NothingNew
  PROVE  Made' /\ Apart' /\ Booked'
<1>0. /\ agent.rid \in Nat /\ disk.seq \in Nat /\ db.watermark \in Nat
      /\ \A s \in Slots : handler[s].rid \in Nat /\ handler[s].units \subseteq Units
  BY NodeSyncAssumption, FS_CardinalityType DEF TypeOK, Agent, Request, Ids
<1>1. Made'
  <2>1. agent.pending \subseteq Units /\ sampled \subseteq Units
    BY DEF TypeOK, Agent
  <2>2. /\ Cardinality(agent.pending) \in Nat /\ Cardinality(sampled) \in Nat
        /\ Cardinality({}) = 0
    BY <2>1, Finite, FS_EmptySet
  <2>3. disk.seq + Cardinality(agent'.pending) <= Cardinality(sampled)
    <3>1. CASE agent'.pending = agent.pending
      BY <3>1 DEF Made
    <3>2. CASE agent'.pending = {}
      BY <1>0, <2>2, <3>2 DEF Made
    <3> QED
      BY <3>1, <3>2 DEF NothingNew
  <2> QED
    BY <1>0, <2>3 DEF Made, NothingNew
<1>2. Apart'
  <2>1. ASSUME NEW s \in Slots PROVE ReportFits(handler[s])'
    <3>1. ReportFits(handler[s])
      BY DEF Apart
    <3>2. /\ handler'[s].rid <= disk'.seq /\ handler'[s].units \subseteq sampled'
          /\ handler'[s].units \intersect agent'.pending = {}
          /\ handler'[s].rid = 0 => handler'[s].units = {}
      BY <1>0, <3>1 DEF ReportFits, NothingNew
    <3>3. CASE handler'[s].rid = 0 /\ handler'[s].units = {}
      BY <3>2, <3>3 DEF ReportFits, Made, NothingNew
    <3>4. CASE handler'[s].rid = handler[s].rid /\ handler'[s].units = handler[s].units
      BY <3>1, <3>2, <3>4 DEF ReportFits, NothingNew
    <3> QED
      BY <3>3, <3>4 DEF NothingNew
  <2>2. ASSUME NEW s \in Slots, NEW t \in Slots, handler'[s].units \intersect handler'[t].units # {}
        PROVE  handler'[s].rid = handler'[t].rid
    BY <2>2 DEF Apart, NothingNew
  <2> QED
    BY <2>1, <2>2 DEF Apart
<1>3. Booked'
  BY <1>0 DEF Booked, NothingNew
<1> QED
  BY <1>1, <1>2, <1>3

(* No order to update is given, heard or carried out.                      *)
LEMMA OrdersStand ==
  ASSUME Orders, db'.command = db.command, agent'.mail = agent.mail, agent'.updating = agent.updating,
         agent'.waits \in {agent.waits, NoSlot}, updates' = updates, asks' = asks
  PROVE  Orders'
  BY DEF Orders, One

(* An agent that starts has no answer and no order.                        *)
LEMMA BootOrders ==
  ASSUME TypeOK, Orders, db'.command = db.command, agent'.mail = NoMail, agent'.updating = FALSE,
         agent'.waits = NoSlot, updates' = updates, asks' = asks
  PROVE  Orders'
  BY DEF Orders, One, TypeOK

(* What is parked on a config stays as it is.                              *)
LEMMA WakesStand ==
  ASSUME TypeOK, Wakes, db'.want = db.want, inputs' = inputs, sync' = sync, events' \in {events, events + 1}
  PROVE  Wakes'
  BY DEF Wakes, Stale, TypeOK

(* Steps that only let requests go.                                         *)
LEMMA ParkedStand ==
  ASSUME Parked, db'.enabled = db.enabled, db'.want = db.want, sync' = sync, waking' = waking,
         \A s \in Slots : handler'[s] = handler[s] \/ handler'[s].at \in {"free", "answer"}
  PROVE  Parked'
  BY DEF Parked, ParkedFits, Stale

(* Steps that only drop answers.                                            *)
LEMMA AcksStand ==
  ASSUME Acks, db'.watermark = db.watermark, agent'.mail \in {agent.mail, NoMail},
         \A s \in Slots : \/ handler'[s].at \in {"free", "lookup", "ingest"}
                          \/ /\ handler'[s].ack = handler[s].ack /\ handler'[s].believed = handler[s].believed
                             /\ handler[s].at \in {"decide", "hold", "answer"}
                          \/ handler'[s] = handler[s]
  PROVE  Acks'
  BY DEF Acks

(***************************************************************************)
(* Edits and wakes                                                         *)
(***************************************************************************)

(* What an edit stores fits, and only it is a new order.                   *)
LEMMA EditKeeps ==
  ASSUME IInv, TriggerUserSync \/ SetNodeEnabled \/ RequestNodeUpdate
  PROVE  IInv'
<1> USE DEF IInv
<1>0. /\ events \in Nat /\ asks \in Nat /\ MaxEvents \in Nat /\ events < MaxEvents /\ events' = events + 1
      /\ db.want \in 1..events + 1
  BY NodeSyncAssumption DEF TypeOK, Wakes, TriggerUserSync, SetNodeEnabled, RequestNodeUpdate, Edit
<1>1. TypeOK'
  <2>1. db.want + 1 \in Versions
    BY <1>0 DEF Versions
  <2>2. db' \in [enabled: BOOLEAN, want: Versions, watermark: Ids, command: {"none", "asked", "sent"}]
    BY <2>1 DEF TypeOK, TriggerUserSync, SetNodeEnabled, RequestNodeUpdate
  <2>3. /\ sync' \in [kick: BOOLEAN, at: {"idle", "compare", "notify"}, ver: Versions, fresh: BOOLEAN]
        /\ waking' \in BOOLEAN
    BY DEF TypeOK, TriggerUserSync, SetNodeEnabled, RequestNodeUpdate
  <2>4. events' \in 0..MaxEvents /\ asks' \in 0..events'
    BY <1>0 DEF TypeOK, TriggerUserSync, SetNodeEnabled, RequestNodeUpdate
  <2> QED
    BY <2>2, <2>3, <2>4 DEF TypeOK, TriggerUserSync, SetNodeEnabled, RequestNodeUpdate, Edit
<1>2. NothingNew
  BY DEF NothingNew, TypeOK, TriggerUserSync, SetNodeEnabled, RequestNodeUpdate, Edit
<1>3. Made' /\ Apart' /\ Booked'
  BY <1>2, ReportsStand
<1>4. Acks'
  BY DEF Acks, TypeOK, TriggerUserSync, SetNodeEnabled, RequestNodeUpdate, Edit
<1>5. Orders'
  BY <1>0 DEF Orders, One, TypeOK, TriggerUserSync, SetNodeEnabled, RequestNodeUpdate, Edit
<1>6. Wakes'
  BY <1>0 DEF Wakes, Stale, TypeOK, TriggerUserSync, SetNodeEnabled, RequestNodeUpdate, Edit
<1>7. Parked'
  BY DEF Parked, ParkedFits, Stale, TypeOK, TriggerUserSync, SetNodeEnabled, RequestNodeUpdate, Edit
<1> QED
  BY <1>1, <1>3, <1>4, <1>5, <1>6, <1>7

(* Whoever has its channel is woken; nothing else of a request changes.    *)
LEMMA WakeFits ==
  ASSUME TypeOK, Wake
  PROVE  /\ handler' \in [Slots -> Request] /\ inputs' \in [ver: Versions, fresh: BOOLEAN] /\ ~inputs'.fresh
         /\ \A s \in Slots : /\ \/ handler'[s] = handler[s]
                                \/ handler'[s] = [handler[s] EXCEPT !.woken = TRUE]
                             /\ handler[s].at \in {"decide", "hold"} => handler'[s].woken
                             /\ handler[s].at \notin {"decide", "hold"} => handler'[s] = handler[s]
<1>1. ASSUME NEW s \in Slots
      PROVE  handler[s] \in Request /\ [handler[s] EXCEPT !.woken = TRUE] \in Request
  <2>1. handler[s] \in Request
    BY DEF TypeOK
  <2> QED
    BY <2>1 DEF Request
<1>2. inputs' \in [ver: Versions, fresh: BOOLEAN] /\ ~inputs'.fresh
  BY DEF TypeOK, Wake
<1>3. handler' \in [Slots -> Request]
  BY <1>1 DEF Wake
<1>4. ASSUME NEW s \in Slots, handler[s].at \in {"decide", "hold"}
      PROVE  handler'[s] = [handler[s] EXCEPT !.woken = TRUE] /\ handler'[s].woken
  BY <1>1, <1>4 DEF Wake, Request
<1>5. ASSUME NEW s \in Slots, handler[s].at \notin {"decide", "hold"}
      PROVE  handler'[s] = handler[s]
  BY <1>5 DEF Wake
<1> QED
  BY <1>2, <1>3, <1>4, <1>5

(* A wake reaches every request held.                                       *)
LEMMA WakeKeeps ==
  ASSUME IInv, WakeOne \/ NotifyNodes
  PROVE  IInv'
<1> USE DEF IInv
<1>0. Wake
  BY DEF WakeOne, NotifyNodes
<1>1. /\ UNCHANGED <<db, counted, agent, disk, tally>>
      /\ sync' \in {sync, SyncDone}
  BY DEF WakeOne, NotifyNodes
<1>2. ASSUME NEW s \in Slots
      PROVE  /\ handler'[s].at = handler[s].at /\ handler'[s].rid = handler[s].rid
             /\ handler'[s].units = handler[s].units /\ handler'[s].ack = handler[s].ack
             /\ handler'[s].believed = handler[s].believed
             /\ handler[s].at \in {"decide", "hold"} => handler'[s].woken
             /\ handler[s].at \notin {"decide", "hold"} => handler'[s] = handler[s]
  <2>1. handler[s] \in Request
    BY DEF TypeOK
  <2>2. /\ handler'[s] = handler[s] \/ handler'[s] = [handler[s] EXCEPT !.woken = TRUE]
        /\ handler[s].at \in {"decide", "hold"} => handler'[s].woken
        /\ handler[s].at \notin {"decide", "hold"} => handler'[s] = handler[s]
    BY <1>0, WakeFits
  <2> QED
    BY <2>1, <2>2 DEF Request
<1>3. TypeOK'
  <2>1. /\ sync' \in [kick: BOOLEAN, at: {"idle", "compare", "notify"}, ver: Versions, fresh: BOOLEAN]
        /\ waking' \in BOOLEAN
    BY <1>1, Zero DEF TypeOK, SyncDone, WakeOne, NotifyNodes
  <2> QED
    BY <1>0, <1>1, <2>1, WakeFits DEF TypeOK, tally
<1>4. NothingNew
  BY <1>1, <1>2 DEF NothingNew, tally
<1>5. Made' /\ Apart' /\ Booked'
  BY <1>4, ReportsStand
<1>6. Acks'
  BY <1>1, <1>2 DEF Acks
<1>7. Orders'
  BY <1>1, OrdersStand DEF tally
<1>8. Wakes'
  <2>1. ~inputs'.fresh
    BY <1>0, WakeFits
  <2>2. sync' = sync \/ sync'.at = "idle"
    BY DEF WakeOne, NotifyNodes, SyncDone, TypeOK
  <2> QED
    BY <1>1, <2>1, <2>2 DEF Wakes, Stale, tally
<1>9. Parked'
  BY <1>2 DEF Parked, ParkedFits
<1> QED
  BY <1>3, <1>5, <1>6, <1>7, <1>8, <1>9

(* What is read is what is wanted, until the next kick.                    *)
LEMMA ReadKeeps ==
  ASSUME IInv, NEW took \in BOOLEAN, ReadWorkingSet(took)
  PROVE  IInv'
<1> USE DEF IInv
<1>0. /\ UNCHANGED <<db, counted, inputs, waking, handler, agent, disk, tally>>
      /\ sync' = [kick |-> FALSE, at |-> IF took THEN "notify" ELSE "compare", ver |-> db.want, fresh |-> TRUE]
  BY DEF ReadWorkingSet
<1>1. TypeOK'
  BY <1>0 DEF TypeOK, tally
<1>2. Made' /\ Apart' /\ Booked'
  <2>1. NothingNew
    BY <1>0 DEF NothingNew, tally
  <2> QED
    BY <2>1, ReportsStand
<1>3. Acks'
  BY <1>0 DEF Acks
<1>4. Orders'
  BY <1>0, OrdersStand DEF tally
<1>5. Wakes'
  BY <1>0 DEF Wakes, Stale, tally
<1>6. Parked'
  BY <1>0 DEF Parked, ParkedFits, Stale
<1> QED
  BY <1>1, <1>2, <1>3, <1>4, <1>5, <1>6

(* The loop compares what it read with the snapshot, and marks whom it misses.*)
LEMMA FleetKeeps ==
  ASSUME IInv, FleetChanged
  PROVE  IInv'
<1> USE DEF IInv
<1>0. /\ UNCHANGED <<db, counted, waking, agent, disk, tally>>
      /\ sync.at = "compare" /\ inputs' = [ver |-> sync.ver, fresh |-> sync.fresh]
      /\ sync' \in {[sync EXCEPT !.at = "notify"], SyncDone}
  BY DEF FleetChanged
<1>1. ASSUME NEW s \in Slots
      PROVE  /\ handler'[s] = handler[s] \/ handler'[s] = [handler[s] EXCEPT !.missed = TRUE]
             /\ handler'[s] \in Request
  <2>1. handler[s] \in Request /\ [handler[s] EXCEPT !.missed = TRUE] \in Request
    <3>1. handler[s] \in Request
      BY DEF TypeOK
    <3> QED
      BY <3>1 DEF Request
  <2>2. handler'[s] = handler[s] \/ handler'[s] = [handler[s] EXCEPT !.missed = TRUE]
    BY DEF FleetChanged
  <2> QED
    BY <2>1, <2>2
<1>2. ASSUME NEW s \in Slots
      PROVE  /\ handler'[s].at = handler[s].at /\ handler'[s].rid = handler[s].rid
             /\ handler'[s].units = handler[s].units /\ handler'[s].ack = handler[s].ack
             /\ handler'[s].believed = handler[s].believed /\ handler'[s].woken = handler[s].woken
             /\ handler'[s].has = handler[s].has /\ handler'[s].on = handler[s].on
             /\ handler[s].missed => handler'[s].missed
  <2>1. handler[s] \in Request
    BY DEF TypeOK
  <2>2. handler'[s] = handler[s] \/ handler'[s] = [handler[s] EXCEPT !.missed = TRUE]
    BY <1>1
  <2> QED
    BY <2>1, <2>2 DEF Request
<1>3. TypeOK'
  <2>1. sync' \in [kick: BOOLEAN, at: {"idle", "compare", "notify"}, ver: Versions, fresh: BOOLEAN]
    BY <1>0, Zero DEF TypeOK, SyncDone
  <2>2. handler' \in [Slots -> Request]
    BY <1>1 DEF FleetChanged, TypeOK
  <2>3. inputs' \in [ver: Versions, fresh: BOOLEAN]
    BY <1>0 DEF TypeOK
  <2> QED
    BY <1>0, <2>1, <2>2, <2>3 DEF TypeOK, tally
<1>4. Made' /\ Apart' /\ Booked'
  <2>1. NothingNew
    BY <1>0, <1>2 DEF NothingNew, tally
  <2> QED
    BY <2>1, ReportsStand
<1>5. Acks'
  BY <1>0, <1>2 DEF Acks
<1>6. Orders'
  BY <1>0, OrdersStand DEF tally
<1>7. Wakes'
  <2>1. sync'.kick = sync.kick
    BY <1>0 DEF SyncDone, TypeOK
  <2>2. inputs.ver # sync.ver => sync'.at = "notify"
    BY DEF FleetChanged, TypeOK
  <2>3. inputs'.ver = sync.ver /\ sync.ver # 0 /\ (Stale(sync.ver) => sync.kick) /\ sync'.at # "compare"
    BY <1>0 DEF Wakes, SyncDone, TypeOK
  <2> QED
    BY <1>0, <2>1, <2>2, <2>3 DEF Wakes, Stale, tally
<1>8. Parked'
  <2>1. CASE inputs.ver # sync.ver
    BY <1>0, <2>1 DEF FleetChanged, Parked, ParkedFits, Stale, TypeOK
  <2>2. CASE inputs.ver = sync.ver
    <3>1. sync'.kick = sync.kick
      BY <2>2 DEF FleetChanged, SyncDone, TypeOK
    <3>2. ASSUME NEW s \in Slots PROVE ParkedFits(handler[s])'
      <4>1. handler[s].at = "hold" /\ handler[s].has # sync.ver => handler'[s].missed
        BY <2>2 DEF FleetChanged, TypeOK, Request
      <4>2. Stale(sync.ver) => sync.kick
        BY <1>0 DEF Wakes
      <4> QED
        BY <1>0, <1>2, <3>1, <4>1, <4>2 DEF Parked, ParkedFits, Stale
    <3> QED
      BY <1>2, <3>2 DEF Parked
  <2> QED
    BY <2>1, <2>2
<1> QED
  BY <1>3, <1>4, <1>5, <1>6, <1>7, <1>8

(* A snapshot that may be used is as new as the wakes.                     *)
LEMMA InputsFit ==
  ASSUME TypeOK, Wakes, NEW i \in NodeInputs
  PROVE  /\ i \in [ver: Versions, fresh: BOOLEAN] /\ i.fresh /\ i.ver # 0
         /\ Stale(i.ver) => sync.kick \/ sync.at # "idle"
<1>1. CASE i = inputs /\ i.fresh
  BY <1>1 DEF TypeOK, Wakes
<1>2. CASE i = [ver |-> db.want, fresh |-> TRUE]
  <2>1. db.want \in Versions /\ db.want # 0
    BY NodeSyncAssumption DEF TypeOK, Wakes
  <2> QED
    BY <1>2, <2>1 DEF Stale
<1> QED
  BY <1>1, <1>2 DEF NodeInputs

(* Another node's poll may refresh the snapshot first.                      *)
LEMMA OtherKeeps ==
  ASSUME IInv, OtherNodePolls
  PROVE  IInv'
<1> USE DEF IInv
<1>0. /\ UNCHANGED <<db, counted, sync, waking, handler, agent, disk, tally>> /\ inputs' \in NodeInputs
  BY DEF OtherNodePolls
<1>1. TypeOK'
  BY <1>0, InputsFit DEF TypeOK, tally
<1>2. Made' /\ Apart' /\ Booked'
  <2>1. NothingNew
    BY <1>0 DEF NothingNew, tally
  <2> QED
    BY <2>1, ReportsStand
<1>3. Acks'
  BY <1>0 DEF Acks
<1>4. Orders'
  BY <1>0, OrdersStand DEF tally
<1>5. Wakes'
  BY <1>0, InputsFit DEF Wakes, Stale, tally
<1>6. Parked'
  BY <1>0 DEF Parked, ParkedFits, Stale
<1> QED
  BY <1>1, <1>2, <1>3, <1>4, <1>5, <1>6

(***************************************************************************)
(* Handling a request                                                      *)
(***************************************************************************)

(* The row of the node is read as it is now.                                *)
LEMMA LookupKeeps ==
  ASSUME IInv, NEW s \in Slots, LookupNodeByToken(s)
  PROVE  IInv'
<1> USE DEF IInv
<1>0. /\ UNCHANGED <<panelSide, agent, disk, tally>> /\ handler[s].at = "lookup"
      /\ handler' = [handler EXCEPT ![s] = [handler[s] EXCEPT !.at = "ingest", !.on = db.enabled]]
  BY DEF LookupNodeByToken, Handling
<1>1. handler[s] \in Request /\ \A t \in Slots \ {s} : handler'[t] = handler[t]
  BY <1>0 DEF TypeOK
<1>2. /\ handler'[s] \in Request /\ handler'[s].at = "ingest" /\ handler'[s].rid = handler[s].rid
      /\ handler'[s].units = handler[s].units /\ handler'[s].woken = handler[s].woken
  <2>1. db.enabled \in BOOLEAN /\ handler'[s] = [handler[s] EXCEPT !.at = "ingest", !.on = db.enabled]
    BY <1>0 DEF TypeOK
  <2> QED
    BY <1>1, <2>1 DEF Request
<1>3. TypeOK'
  <2>1. handler' \in [Slots -> Request]
    BY <1>0, <1>2 DEF TypeOK
  <2> QED
    BY <1>0, <2>1 DEF TypeOK, panelSide, tally
<1>4. Made' /\ Apart' /\ Booked'
  <2>1. NothingNew
    BY <1>0, <1>1, <1>2 DEF NothingNew, panelSide, tally
  <2> QED
    BY <2>1, ReportsStand
<1>5. Acks'
  BY <1>0, <1>1, <1>2 DEF Acks, panelSide
<1>6. Orders'
  BY <1>0, OrdersStand DEF panelSide, tally
<1>7. Wakes'
  BY <1>0, WakesStand DEF panelSide, tally
<1>8. Parked'
  BY <1>0, <1>1, <1>2 DEF Parked, ParkedFits, Stale, panelSide
<1> QED
  BY <1>3, <1>4, <1>5, <1>6, <1>7, <1>8

(* A report that is claimed has an id above all that were; what is in it   *)
(* is in none of those.                                                    *)
LEMMA BookKeeps ==
  ASSUME TypeOK, Made, Apart, Booked, NEW s \in Slots, Book(s), handler[s].rid # 0, Claimed(handler[s].rid),
         agent' = agent, disk' = disk, sampled' = sampled,
         \A t \in Slots : handler'[t].rid = handler[t].rid /\ handler'[t].units = handler[t].units
  PROVE  /\ Made' /\ Apart' /\ Booked' /\ counted' \in [Units -> Nat] /\ db'.watermark = handler[s].rid
         /\ db' = [db EXCEPT !.watermark = handler[s].rid] /\ db'.watermark \in Ids
         /\ db.watermark < db'.watermark
<1>0. /\ agent.rid \in Nat /\ disk.seq \in Nat /\ db.watermark \in Nat
      /\ \A t \in Slots : handler[t].rid \in Ids /\ handler[t].rid \in Nat /\ handler[t].units \subseteq Units
  BY NodeSyncAssumption, FS_CardinalityType DEF TypeOK, Agent, Request, Ids
<1>1. /\ db'.watermark = handler[s].rid /\ db' = [db EXCEPT !.watermark = handler[s].rid]
      /\ \A u \in Units : counted'[u] = counted[u] + IF u \in handler[s].units THEN 1 ELSE 0
  BY DEF Book, TypeOK
<1>2. counted' \in [Units -> Nat] /\ \A u \in Units : counted[u] \in Nat
  BY DEF Book, TypeOK
<1>3. /\ ReportFits(handler[s]) /\ handler[s].rid > db.watermark
      /\ \A u \in handler[s].units : counted[u] = 0
  BY <1>0, <1>2 DEF Apart, Booked, Claimed
<1>4. Made'
  BY <1>0, <1>1, <1>3 DEF Made, ReportFits
<1>5. Apart'
  <2>1. \A t \in Slots : ReportFits(handler[t])'
    BY DEF Apart, ReportFits
  <2> QED
    BY <2>1 DEF Apart
<1>6. Booked'
  <2>1. ASSUME NEW u \in Units
        PROVE  counted'[u] <= 1 /\ (counted'[u] > 0 => u \in sampled \ agent.pending)
    BY <1>0, <1>1, <1>2, <1>3 DEF Booked, ReportFits
  <2>2. ASSUME NEW t \in Slots, NEW u \in handler[t].units, counted'[u] > 0
        PROVE  handler[t].rid <= handler[s].rid
    <3>1. u \in Units
      BY <1>0
    <3>2. CASE u \in handler[s].units
      BY <1>0, <3>2 DEF Apart
    <3>3. CASE u \notin handler[s].units
      BY <1>0, <1>1, <1>2, <1>3, <2>2, <3>1, <3>3 DEF Booked
    <3> QED
      BY <3>2, <3>3
  <2>3. ASSUME NEW u \in agent.inflight
        PROVE  counted'[u] > 0 <=> agent.rid <= handler[s].rid
    <3>1. u \in Units /\ counted[u] \in Nat
      BY <1>2 DEF TypeOK, Agent
    <3>2. agent.rid = disk.seq /\ handler[s].rid <= disk.seq
      BY <1>3, <2>3 DEF Made, ReportFits
    <3>3. CASE u \in handler[s].units
      <4>1. handler[s].rid = agent.rid
        BY <1>3, <2>3, <3>3 DEF ReportFits
      <4> QED
        BY <1>0, <1>1, <3>1, <3>3, <4>1
    <3>4. CASE u \notin handler[s].units
      <4>1. handler[s].rid # agent.rid
        BY <1>3, <2>3, <3>4 DEF ReportFits
      <4>2. counted'[u] = counted[u] /\ ~(agent.rid <= handler[s].rid)
        BY <1>0, <1>1, <3>1, <3>2, <3>4, <4>1
      <4>3. ~(agent.rid <= db.watermark)
        BY <1>0, <1>3, <4>2
      <4> QED
        BY <1>0, <2>3, <4>2, <4>3 DEF Booked
    <3> QED
      BY <3>3, <3>4
  <2> QED
    BY <1>1, <2>1, <2>2, <2>3 DEF Booked
<1> QED
  BY <1>0, <1>1, <1>2, <1>3, <1>4, <1>5, <1>6

(* A report is booked with the claim of its id, or not at all.              *)
LEMMA IngestKeeps ==
  ASSUME IInv, NEW s \in Slots, NEW stored \in BOOLEAN, IngestNodeSync(s, stored)
  PROVE  IInv'
<1> USE DEF IInv
<1> DEFINE claims == handler[s].on /\ stored /\ handler[s].rid # 0 /\ Claimed(handler[s].rid)
           ack == IF handler[s].on /\ ~stored THEN 0 ELSE handler[s].rid
<1>0. /\ UNCHANGED <<inputs, sync, waking, agent, disk, tally>> /\ handler[s].at = "ingest"
      /\ IF claims THEN Book(s) ELSE UNCHANGED <<db, counted>>
      /\ handler' = [handler EXCEPT ![s] = [handler[s] EXCEPT !.at = "decide", !.believed = handler[s].on,
                       !.missed = handler[s].on # db.enabled /\ ~waking, !.ack = ack]]
  BY DEF IngestNodeSync, Handling
<1>1. handler[s] \in Request /\ \A t \in Slots \ {s} : handler'[t] = handler[t]
  BY <1>0 DEF TypeOK
<1>2. /\ handler'[s] \in Request /\ handler'[s].at = "decide" /\ handler'[s].rid = handler[s].rid
      /\ handler'[s].units = handler[s].units /\ handler'[s].on = handler[s].on
      /\ handler'[s].believed = handler[s].on /\ handler'[s].ack = ack
      /\ handler'[s].missed = (handler[s].on # db.enabled /\ ~waking)
  <2>1. /\ ack \in Ids /\ (handler[s].on # db.enabled /\ ~waking) \in BOOLEAN /\ handler[s].on \in BOOLEAN
    BY <1>1, Zero DEF Request
  <2>2. handler'[s] = [handler[s] EXCEPT !.at = "decide", !.believed = handler[s].on,
                        !.missed = handler[s].on # db.enabled /\ ~waking, !.ack = ack]
    BY <1>0 DEF TypeOK
  <2> QED
    BY <1>1, <2>1, <2>2 DEF Request
<1>3. \A t \in Slots : handler'[t].rid = handler[t].rid /\ handler'[t].units = handler[t].units
  BY <1>1, <1>2
<1>4. /\ Made' /\ Apart' /\ Booked' /\ counted' \in [Units -> Nat]
      /\ db' \in [enabled: BOOLEAN, want: Versions, watermark: Ids, command: {"none", "asked", "sent"}]
      /\ db'.enabled = db.enabled /\ db'.want = db.want /\ db'.command = db.command
      /\ db.watermark <= db'.watermark
      /\ claims => db'.watermark = handler[s].rid
  <2>0. db.watermark \in Nat /\ (db'.watermark \in Ids => db'.watermark \in Nat)
    BY NodeSyncAssumption, FS_CardinalityType DEF TypeOK, Ids
  <2>1. CASE claims
    <3>1. /\ Made' /\ Apart' /\ Booked' /\ counted' \in [Units -> Nat] /\ db'.watermark = handler[s].rid
          /\ db' = [db EXCEPT !.watermark = handler[s].rid] /\ db'.watermark \in Ids
          /\ db.watermark < db'.watermark
      BY <1>0, <1>3, <2>1, BookKeeps DEF tally
    <3>2. /\ db' \in [enabled: BOOLEAN, want: Versions, watermark: Ids, command: {"none", "asked", "sent"}]
          /\ db'.enabled = db.enabled /\ db'.want = db.want /\ db'.command = db.command
      <4>1. handler[s].rid \in Ids
        BY <3>1
      <4> QED
        BY <3>1, <4>1 DEF TypeOK
    <3>3. db.watermark <= db'.watermark
      BY <2>0, <3>1
    <3> QED
      BY <3>1, <3>2, <3>3
  <2>2. CASE ~claims
    <3>1. NothingNew
      BY <1>0, <1>3, <2>2 DEF NothingNew, tally
    <3>2. Made' /\ Apart' /\ Booked'
      BY <3>1, ReportsStand
    <3>3. db.watermark \in Nat
      BY NodeSyncAssumption, FS_CardinalityType DEF TypeOK, Ids
    <3> QED
      BY <1>0, <2>2, <3>2, <3>3 DEF TypeOK
  <2> QED
    BY <2>1, <2>2
<1>5. TypeOK'
  <2>1. handler' \in [Slots -> Request]
    BY <1>0, <1>2 DEF TypeOK
  <2> QED
    BY <1>0, <1>4, <2>1 DEF TypeOK, tally
<1>6. Acks'
  <2>0. /\ db.watermark \in Nat /\ db'.watermark \in Nat
        /\ \A t \in Slots : handler[t].ack \in Nat /\ handler[t].rid \in Nat
        /\ agent.mail # NoMail => agent.mail.ack \in Nat
    BY <1>4, NodeSyncAssumption, FS_CardinalityType DEF TypeOK, Agent, Answer, Request, Ids
  <2>1. ASSUME NEW t \in Slots, handler'[t].at \in {"decide", "hold", "answer"}, handler'[t].believed
        PROVE  handler'[t].ack <= db'.watermark
    <3>1. CASE t = s
      <4>1. handler[s].on /\ (claims \/ ack = 0 \/ ack <= db.watermark)
        BY <1>2, <2>0, <2>1, <3>1 DEF Claimed
      <4> QED
        BY <1>2, <1>4, <2>0, <3>1, <4>1
    <3>2. CASE t # s
      BY <1>1, <1>4, <2>0, <2>1, <3>2 DEF Acks
    <3> QED
      BY <3>1, <3>2
  <2>2. agent'.mail # NoMail /\ agent'.mail.believed => agent'.mail.ack <= db'.watermark
    BY <1>0, <1>4, <2>0 DEF Acks
  <2> QED
    BY <2>1, <2>2 DEF Acks
<1>7. Orders'
  BY <1>0, <1>4, OrdersStand DEF tally
<1>8. Wakes'
  BY <1>0, <1>4, WakesStand DEF tally
<1>9. Parked'
  <2>1. ParkedFits(handler[s])'
    BY <1>0, <1>1, <1>2, <1>4 DEF ParkedFits, TypeOK, Request
  <2>2. ASSUME NEW t \in Slots, t # s PROVE ParkedFits(handler[t])'
    BY <1>0, <1>1, <1>4, <2>2 DEF Parked, ParkedFits, Stale
  <2>3. \A t \in Slots : handler'[t].at \in {"lookup", "ingest"} => ~handler'[t].woken
    BY <1>1, <1>2 DEF Parked
  <2> QED
    BY <2>1, <2>2, <2>3 DEF Parked
<1> QED
  BY <1>4, <1>5, <1>6, <1>7, <1>8, <1>9

(* A request is answered, or held on the snapshot it read.                  *)
LEMMA PushKeeps ==
  ASSUME IInv, NEW s \in Slots, NodeSyncPush(s)
  PROVE  IInv'
<1> USE DEF IInv
<1> DEFINE push == IF handler[s].on THEN Push(s, inputs'.ver) ELSE 0
           at == IF push # 0 \/ handler[s].on = handler[s].revoked \/ Backlog(s) THEN "answer" ELSE "hold"
<1>0. /\ UNCHANGED <<db, counted, sync, waking, agent, disk, tally>> /\ handler[s].at = "decide"
      /\ inputs' \in IF handler[s].on THEN NodeInputs ELSE {inputs}
      /\ handler' = [handler EXCEPT ![s] = [handler[s] EXCEPT !.push = push, !.at = at]]
  BY DEF NodeSyncPush, Handling
<1>1. handler[s] \in Request /\ \A t \in Slots \ {s} : handler'[t] = handler[t]
  BY <1>0 DEF TypeOK
<1>2. /\ inputs' \in [ver: Versions, fresh: BOOLEAN]
      /\ inputs'.fresh => inputs'.ver # 0 /\ (Stale(inputs'.ver) => sync.kick \/ sync.at # "idle")
      /\ handler[s].on => inputs'.fresh
  <2>1. CASE handler[s].on
    BY <1>0, <2>1, InputsFit
  <2>2. CASE ~handler[s].on
    BY <1>0, <2>2 DEF TypeOK, Wakes
  <2> QED
    BY <2>1, <2>2
<1>3. handler'[s] = [handler[s] EXCEPT !.push = push, !.at = at]
  BY <1>0 DEF TypeOK
<1>4. /\ handler'[s] \in Request /\ handler'[s].at = at /\ handler'[s].rid = handler[s].rid
      /\ handler'[s].units = handler[s].units /\ handler'[s].on = handler[s].on /\ handler'[s].has = handler[s].has
      /\ handler'[s].believed = handler[s].believed /\ handler'[s].ack = handler[s].ack
      /\ handler'[s].woken = handler[s].woken /\ handler'[s].missed = handler[s].missed
  <2>1. push \in Versions
    BY <1>2, Zero DEF Push
  <2>2. at \in {"answer", "hold"}
    OBVIOUS
  <2> HIDE DEF push, at
  <2> QED
    BY <1>1, <1>3, <2>1, <2>2 DEF Request
<1>5. TypeOK'
  <2>1. handler' \in [Slots -> Request]
    BY <1>0, <1>3, <1>4 DEF TypeOK
  <2> QED
    BY <1>0, <1>2, <2>1 DEF TypeOK, tally
<1>6. Made' /\ Apart' /\ Booked'
  <2>1. NothingNew
    BY <1>0, <1>1, <1>4 DEF NothingNew, tally
  <2> QED
    BY <2>1, ReportsStand
<1>7. Acks'
  BY <1>0, <1>1, <1>4 DEF Acks
<1>8. Orders'
  BY <1>0, OrdersStand DEF tally
<1>9. Wakes'
  BY <1>0, <1>2 DEF Wakes, Stale, tally
<1>10. Parked'
  <2>1. ASSUME at = "hold", handler[s].on
        PROVE  Stale(handler[s].has) => sync.kick \/ sync.at # "idle"
    BY <1>2, <2>1 DEF Push, Stale
  <2>2. ParkedFits(handler[s])'
    BY <1>0, <1>4, <2>1 DEF Parked, ParkedFits, Stale
  <2>3. \A t \in Slots \ {s} : ParkedFits(handler[t])'
    BY <1>0, <1>1 DEF Parked, ParkedFits, Stale
  <2> QED
    BY <1>1, <1>4, <2>2, <2>3 DEF Parked
<1> QED
  BY <1>5, <1>6, <1>7, <1>8, <1>9, <1>10

(* A held request looks again, after a wake or at its end.                  *)
LEMMA RecheckKeeps ==
  ASSUME IInv, NEW s \in Slots, Recheck(s)
  PROVE  IInv'
<1> USE DEF IInv
<1> DEFINE push == IF db.enabled THEN Push(s, inputs'.ver) ELSE 0
<1>0. /\ UNCHANGED <<db, counted, sync, waking, agent, disk, tally>> /\ handler[s].at = "hold"
      /\ inputs' \in IF db.enabled THEN NodeInputs ELSE {inputs}
      /\ handler' = [handler EXCEPT ![s] = [handler[s] EXCEPT !.at = "answer", !.on = db.enabled, !.push = push]]
  BY DEF Recheck, Handling
<1>1. handler[s] \in Request /\ \A t \in Slots \ {s} : handler'[t] = handler[t]
  BY <1>0 DEF TypeOK
<1>2. /\ inputs' \in [ver: Versions, fresh: BOOLEAN]
      /\ inputs'.fresh => inputs'.ver # 0 /\ (Stale(inputs'.ver) => sync.kick \/ sync.at # "idle")
  <2>1. CASE db.enabled
    BY <1>0, <2>1, InputsFit
  <2>2. CASE ~db.enabled
    BY <1>0, <2>2 DEF TypeOK, Wakes
  <2> QED
    BY <2>1, <2>2
<1>3. handler'[s] = [handler[s] EXCEPT !.at = "answer", !.on = db.enabled, !.push = push]
  BY <1>0 DEF TypeOK
<1>4. /\ handler'[s] \in Request /\ handler'[s].at = "answer" /\ handler'[s].rid = handler[s].rid
      /\ handler'[s].units = handler[s].units
      /\ handler'[s].believed = handler[s].believed /\ handler'[s].ack = handler[s].ack
  <2>1. push \in Versions /\ db.enabled \in BOOLEAN
    BY <1>2, Zero DEF Push, TypeOK
  <2> HIDE DEF push
  <2> QED
    BY <1>1, <1>3, <2>1 DEF Request
<1>5. TypeOK'
  <2>1. handler' \in [Slots -> Request]
    BY <1>0, <1>3, <1>4 DEF TypeOK
  <2> QED
    BY <1>0, <1>2, <2>1 DEF TypeOK, tally
<1>6. Made' /\ Apart' /\ Booked'
  <2>1. NothingNew
    BY <1>0, <1>1, <1>4 DEF NothingNew, tally
  <2> QED
    BY <2>1, ReportsStand
<1>7. Acks'
  BY <1>0, <1>1, <1>4 DEF Acks
<1>8. Orders'
  BY <1>0, OrdersStand DEF tally
<1>9. Wakes'
  BY <1>0, <1>2 DEF Wakes, Stale, tally
<1>10. Parked'
  BY <1>0, <1>1, <1>4, ParkedStand
<1> QED
  BY <1>5, <1>6, <1>7, <1>8, <1>9, <1>10

(* A request given up is let go of.                                         *)
LEMMA HangUpKeeps ==
  ASSUME IInv, NEW s \in Slots, HangUp(s)
  PROVE  IInv'
<1> USE DEF IInv
<1>0. /\ UNCHANGED <<panelSide, agent, disk, tally>> /\ handler' = [handler EXCEPT ![s] = Free]
  BY DEF HangUp
<1>1. handler'[s] = Free /\ \A t \in Slots \ {s} : handler'[t] = handler[t]
  BY <1>0 DEF TypeOK
<1>2. Free.at = "free" /\ Free.rid = 0 /\ Free.units = {}
  BY DEF Free
<1>3. TypeOK'
  BY <1>0, FreeType DEF TypeOK, panelSide, tally
<1>4. Made' /\ Apart' /\ Booked'
  <2>1. NothingNew
    BY <1>0, <1>1, <1>2 DEF NothingNew, panelSide, tally
  <2> QED
    BY <2>1, ReportsStand
<1>5. Acks'
  BY <1>0, <1>1, <1>2 DEF Acks, panelSide
<1>6. Orders'
  BY <1>0, OrdersStand DEF panelSide, tally
<1>7. Wakes'
  BY <1>0, WakesStand DEF panelSide, tally
<1>8. Parked'
  BY <1>0, <1>1, <1>2, ParkedStand DEF panelSide
<1> QED
  BY <1>3, <1>4, <1>5, <1>6, <1>7, <1>8

(* What is answered goes to who still waits for it, or is lost.            *)
LEMMA WriteKeeps ==
  ASSUME IInv, NEW s \in Slots, WriteNodeSync(s)
  PROVE  IInv'
<1> USE DEF IInv
<1> DEFINE mail == [revoked |-> ~handler[s].on, believed |-> handler[s].believed, ack |-> handler[s].ack,
                    push |-> handler[s].push, update |-> TakeCmd(s)]
<1>0. /\ UNCHANGED <<counted, inputs, sync, waking, disk, tally>> /\ handler[s].at = "answer"
      /\ db' = IF ~handler[s].on THEN db ELSE [db EXCEPT !.command = CommandAfter]
      /\ agent' = IF agent.waits # s THEN agent ELSE [agent EXCEPT !.waits = NoSlot, !.mail = mail]
      /\ handler' = [handler EXCEPT ![s] = Free]
  BY DEF WriteNodeSync, Handling
<1>1. /\ handler[s] \in Request /\ handler'[s] = Free /\ \A t \in Slots \ {s} : handler'[t] = handler[t]
  BY <1>0 DEF TypeOK
<1>2. Free.at = "free" /\ Free.rid = 0 /\ Free.units = {}
  BY DEF Free
<1>3. /\ db' \in [enabled: BOOLEAN, want: Versions, watermark: Ids, command: {"none", "asked", "sent"}]
      /\ db'.enabled = db.enabled /\ db'.want = db.want /\ db'.watermark = db.watermark
      /\ TakeCmd(s) => db.command = "asked" /\ db'.command = "sent"
      /\ ~TakeCmd(s) => db'.command = db.command \/ db'.command = "none"
  BY <1>0 DEF TypeOK, CommandAfter, TakeCmd
<1>4. mail \in Answer
  BY <1>1 DEF Request, Answer, TakeCmd
<1>5. /\ agent' \in Agent /\ agent'.rid = agent.rid /\ agent'.inflight = agent.inflight
      /\ agent'.pending = agent.pending /\ agent'.updating = agent.updating
      /\ \/ agent' = agent
         \/ agent'.mail = mail /\ agent'.waits = NoSlot /\ agent.waits = s
  <2>1. agent \in Agent
    BY DEF TypeOK
  <2> HIDE DEF mail
  <2> QED
    BY <1>0, <1>4, <2>1 DEF Agent
<1>6. TypeOK'
  BY <1>0, <1>3, <1>5, FreeType DEF TypeOK, tally
<1>7. Made' /\ Apart' /\ Booked'
  <2>1. NothingNew
    BY <1>0, <1>1, <1>2, <1>3, <1>5 DEF NothingNew, tally
  <2> QED
    BY <2>1, ReportsStand
<1>8. Acks'
  <2>1. \A t \in Slots : handler'[t].at \in {"decide", "hold", "answer"} /\ handler'[t].believed
                         => handler'[t].ack <= db'.watermark
    BY <1>1, <1>2, <1>3 DEF Acks
  <2>2. mail.believed => mail.ack <= db.watermark
    BY <1>0 DEF Acks
  <2> QED
    BY <1>3, <1>5, <2>1, <2>2 DEF Acks
<1>9. Orders'
  <2>0. asks \in Nat /\ updates \in Nat /\ asks' = asks /\ updates' = updates
    BY <1>0 DEF TypeOK, tally
  <2>1. CASE agent' = agent
    BY <1>3, <2>0, <2>1 DEF Orders, One
  <2>2. CASE agent'.mail = mail /\ agent'.waits = NoSlot /\ agent.waits = s
    <3>1. agent.mail = NoMail
      BY <2>2, NodeSyncAssumption DEF Orders
    <3>2. mail.update = TakeCmd(s)
      OBVIOUS
    <3>3. One(db'.command = "asked") + One(agent'.mail # NoMail /\ agent'.mail.update)
            <= One(db.command = "asked")
      BY <1>3, <2>2, <3>2 DEF One
    <3> QED
      BY <1>5, <2>0, <2>2, <3>1, <3>3 DEF Orders, One
  <2> QED
    BY <1>5, <2>1, <2>2
<1>10. Wakes'
  BY <1>0, <1>3, WakesStand DEF tally
<1>11. Parked'
  BY <1>0, <1>1, <1>2, <1>3, ParkedStand
<1> QED
  BY <1>6, <1>7, <1>8, <1>9, <1>10, <1>11

(***************************************************************************)
(* The agent                                                               *)
(***************************************************************************)

(* New traffic is in no report yet.                                         *)
LEMMA SampleKeeps ==
  ASSUME IInv, Sample
  PROVE  IInv'
<1> USE DEF IInv
<1>1. PICK u \in Units \ sampled : /\ agent' = [agent EXCEPT !.pending = @ \union {u}]
                                   /\ sampled' = sampled \union {u}
  BY DEF Sample
<1>2. UNCHANGED <<panelSide, handler, disk, events, asks, updates, dropped>>
  BY DEF Sample
<1>3. /\ agent' \in Agent /\ agent'.rid = agent.rid /\ agent'.inflight = agent.inflight /\ agent'.mail = agent.mail
      /\ agent'.pending = agent.pending \union {u} /\ agent'.updating = agent.updating /\ agent'.waits = agent.waits
  BY <1>1 DEF TypeOK, Agent
<1>4. TypeOK'
  BY <1>1, <1>2, <1>3 DEF TypeOK, panelSide
<1>5. Made'
  <2>1. /\ Cardinality(sampled') = Cardinality(sampled) + 1 /\ Cardinality(sampled) \in Nat
        /\ Cardinality(agent.pending) \in Nat
        /\ Cardinality(agent.pending \union {u}) = Cardinality(agent.pending) + 1
    <3>1. agent.pending \subseteq Units /\ sampled \subseteq Units /\ u \notin agent.pending
      BY DEF TypeOK, Agent, Made
    <3>2. IsFiniteSet(agent.pending) /\ IsFiniteSet(sampled)
      BY <3>1, Finite
    <3> QED
      BY <1>1, <3>1, <3>2, FS_AddElement, FS_CardinalityType
  <2>2. disk.seq \in Nat
    BY NodeSyncAssumption, FS_CardinalityType DEF TypeOK, Ids
  <2> QED
    BY <1>1, <1>2, <1>3, <2>1, <2>2 DEF Made, panelSide
<1>6. Apart'
  BY <1>1, <1>2, <1>3 DEF Apart, ReportFits
<1>7. Booked'
  BY <1>1, <1>2, <1>3 DEF Booked, panelSide
<1>8. Acks'
  BY <1>2, <1>3 DEF Acks, panelSide
<1>9. Orders'
  BY <1>2, <1>3, OrdersStand DEF panelSide
<1>10. Wakes'
  BY <1>2, WakesStand DEF panelSide
<1>11. Parked'
  BY <1>2, ParkedStand DEF panelSide
<1> QED
  BY <1>4, <1>5, <1>6, <1>7, <1>8, <1>9, <1>10, <1>11

(* A chunk takes something, so that there are never more ids than pieces.  *)
LEMMA ChunkTakes ==
  ASSUME NEW waiting, IsFiniteSet(waiting), waiting # {}, NEW c \in Chunks(waiting)
  PROVE  c \subseteq waiting /\ Cardinality(waiting \ c) < Cardinality(waiting)
         /\ Cardinality(waiting \ c) \in Nat
<1>1. c \subseteq waiting /\ c # {}
  <2>1. CASE c = waiting
    BY <2>1
  <2>2. CASE c \in SUBSET waiting /\ Cardinality(c) = ChunkMax
    BY <2>2, FS_EmptySet, NodeSyncAssumption
  <2> QED
    BY <2>1, <2>2 DEF Chunks
<1>2. PICK u \in c : TRUE
  BY <1>1
<1>3. IsFiniteSet(waiting \ {u}) /\ Cardinality(waiting \ {u}) = Cardinality(waiting) - 1
  BY <1>1, <1>2, FS_RemoveElement
<1>4. Cardinality(waiting \ c) <= Cardinality(waiting \ {u}) /\ IsFiniteSet(waiting \ c)
  BY <1>2, <1>3, FS_Subset
<1> QED
  BY <1>1, <1>3, <1>4, FS_CardinalityType

(* The agent sends the report in flight again, or makes a new one.          *)
LEMMA SendKeeps ==
  ASSUME IInv, SyncOnce
  PROVE  IInv'
<1> USE DEF IInv
<1> DEFINE rid == IF Promotes THEN disk.seq + 1 ELSE agent.rid
<1>1. PICK s \in Slots, units \in IF Promotes THEN Chunks(agent.pending) ELSE {agent.inflight} :
        /\ agent' = [agent EXCEPT !.waits = s, !.rid = rid, !.inflight = units, !.pending = @ \ units]
        /\ handler' = [handler EXCEPT ![s] =
             [Free EXCEPT !.at = "lookup", !.rid = rid, !.units = units, !.has = agent.ver,
                          !.revoked = agent.revoked,
                          !.more = Cardinality(units) >= ChunkMax /\ agent.pending \ units # {}]]
        /\ disk' = [disk EXCEPT !.seq = IF Promotes THEN rid ELSE @]
  <2>1. (CHOOSE f \in FreeSlots : TRUE) \in Slots
    BY DEF SyncOnce, FreeSlots
  <2> QED
    BY <2>1 DEF SyncOnce
<1>2. UNCHANGED <<panelSide, tally>> /\ agent.mail = NoMail /\ agent.waits = NoSlot
  BY DEF SyncOnce
<1>3. s \in Slots
  BY <1>1
<1>4. /\ agent \in Agent /\ disk.seq \in Nat /\ agent.rid \in Nat /\ db.watermark \in Nat
      /\ Cardinality(Units) \in Nat /\ \A t \in Slots : handler[t].rid \in Nat /\ handler[t] \in Request
      /\ Cardinality(sampled) \in Nat /\ Cardinality(sampled) <= Cardinality(Units)
      /\ Cardinality(agent.pending) \in Nat /\ IsFiniteSet(agent.pending)
  <2>1. agent.pending \subseteq Units /\ sampled \subseteq Units
    BY DEF TypeOK, Agent
  <2> QED
    BY <2>1, Finite, NodeSyncAssumption DEF TypeOK, Agent, Request, Ids
<1>5. /\ Promotes => units \subseteq agent.pending /\ disk.seq + 1 <= Cardinality(Units)
                     /\ Cardinality(agent.pending \ units) < Cardinality(agent.pending)
                     /\ Cardinality(agent.pending \ units) \in Nat
      /\ ~Promotes => units = agent.inflight /\ agent.pending \ units = agent.pending
  <2>1. CASE Promotes
    <3>1. /\ units \subseteq agent.pending /\ Cardinality(agent.pending \ units) \in Nat
          /\ Cardinality(agent.pending \ units) < Cardinality(agent.pending)
      BY <1>1, <1>4, <2>1, ChunkTakes DEF Promotes
    <3> QED
      BY <1>4, <2>1, <3>1 DEF Made
  <2>2. CASE ~Promotes
    BY <1>1, <2>2 DEF Made
  <2> QED
    BY <2>1, <2>2
<1>6. rid \in Ids /\ units \subseteq sampled /\ units \subseteq Units /\ agent.pending \subseteq Units
  BY <1>4, <1>5 DEF Ids, Made, TypeOK, Agent
<1>7. disk' \in [ver: Versions, revoked: BOOLEAN, seq: Ids] /\ disk'.seq = IF Promotes THEN rid ELSE disk.seq
  BY <1>1, <1>6 DEF TypeOK
<1>8. /\ agent' \in Agent /\ agent'.rid = rid /\ agent'.inflight = units /\ agent'.pending = agent.pending \ units
      /\ agent'.mail = NoMail /\ agent'.updating = agent.updating
  <2> HIDE DEF rid
  <2> QED
    BY <1>1, <1>2, <1>3, <1>4, <1>6 DEF Agent
<1>9. /\ handler'[s] \in Request /\ handler'[s].at = "lookup" /\ handler'[s].rid = rid
      /\ handler'[s].units = units /\ ~handler'[s].woken
      /\ \A t \in Slots \ {s} : handler'[t] = handler[t]
  <2> DEFINE more == Cardinality(units) >= ChunkMax /\ agent.pending \ units # {}
  <2>1. more \in BOOLEAN /\ agent.ver \in Versions /\ agent.revoked \in BOOLEAN
    BY <1>4 DEF Agent
  <2>2. /\ handler'[s] = [Free EXCEPT !.at = "lookup", !.rid = rid, !.units = units, !.has = agent.ver,
                            !.revoked = agent.revoked, !.more = more]
        /\ \A t \in Slots \ {s} : handler'[t] = handler[t]
    BY <1>1, <1>3 DEF TypeOK
  <2> HIDE DEF rid, more
  <2>3. handler'[s] \in Request
    BY <1>6, <2>1, <2>2, FreeType DEF Request
  <2> QED
    BY <2>2, <2>3 DEF Free
<1>10. TypeOK'
  <2>1. handler' \in [Slots -> Request]
    BY <1>1, <1>3, <1>9 DEF TypeOK
  <2> QED
    BY <1>2, <1>7, <1>8, <2>1 DEF TypeOK, panelSide, tally
<1>11. Made'
  <2>0. UNCHANGED <<db, sampled>>
    BY <1>2 DEF panelSide, tally
  <2>1. CASE Promotes
    BY <1>4, <1>5, <1>6, <1>7, <1>8, <2>0, <2>1 DEF Made
  <2>2. CASE ~Promotes
    BY <1>4, <1>5, <1>6, <1>7, <1>8, <2>0, <2>2 DEF Made
  <2> QED
    BY <2>1, <2>2
<1>12. Apart'
  <2>1. ReportFits(handler[s])'
    <3>0. sampled' = sampled
      BY <1>2 DEF tally
    <3>1. CASE Promotes
      BY <1>4, <1>5, <1>6, <1>7, <1>8, <1>9, <3>0, <3>1 DEF ReportFits
    <3>2. CASE ~Promotes
      BY <1>4, <1>5, <1>6, <1>7, <1>8, <1>9, <3>0, <3>2 DEF ReportFits, Made
    <3> QED
      BY <3>1, <3>2
  <2>2. ASSUME NEW t \in Slots, t # s PROVE ReportFits(handler[t])'
    <3>1. ReportFits(handler[t]) /\ handler'[t] = handler[t]
      BY <1>9, <2>2 DEF Apart
    <3>2. CASE Promotes
      BY <1>2, <1>4, <1>5, <1>7, <1>8, <3>1, <3>2 DEF ReportFits, tally
    <3>3. CASE ~Promotes
      BY <1>2, <1>5, <1>7, <1>8, <3>1, <3>3 DEF ReportFits, tally
    <3> QED
      BY <3>2, <3>3
  <2>3. ASSUME NEW t \in Slots, t # s, handler'[t].units \intersect units # {}
        PROVE  handler'[t].rid = rid
    <3>1. ReportFits(handler[t]) /\ handler'[t] = handler[t]
      BY <1>9, <2>3 DEF Apart
    <3> QED
      BY <1>5, <2>3, <3>1 DEF ReportFits
  <2>4. ASSUME NEW t \in Slots, NEW r \in Slots, handler'[t].units \intersect handler'[r].units # {}
        PROVE  handler'[t].rid = handler'[r].rid
    BY <1>9, <2>3, <2>4 DEF Apart
  <2>5. \A t \in Slots : ReportFits(handler[t])'
    BY <2>1, <2>2
  <2> QED
    BY <2>4, <2>5 DEF Apart
<1>13. Booked'
  <2>0. UNCHANGED <<counted, db, sampled>>
    BY <1>2 DEF panelSide, tally
  <2>1. \A u \in Units : counted'[u] <= 1 /\ (counted'[u] > 0 => u \in sampled' \ agent'.pending)
    BY <1>8, <2>0 DEF Booked
  <2>2. \A u \in units : counted[u] > 0 <=> rid <= db.watermark
    <3>1. CASE Promotes
      BY <1>4, <1>5, <1>6, <3>1 DEF Booked, Made
    <3>2. CASE ~Promotes
      BY <1>5, <3>2 DEF Booked
    <3> QED
      BY <3>1, <3>2
  <2>3. ASSUME NEW t \in Slots, NEW u \in handler'[t].units, counted'[u] > 0
        PROVE  handler'[t].rid <= db'.watermark
    BY <1>9, <2>0, <2>2, <2>3 DEF Booked
  <2> QED
    BY <1>8, <2>0, <2>1, <2>2, <2>3 DEF Booked
<1>14. Acks'
  BY <1>2, <1>8, <1>9 DEF Acks, panelSide
<1>15. Orders'
  BY <1>2, <1>8 DEF Orders, panelSide, tally, One
<1>16. Wakes'
  BY <1>2, WakesStand DEF panelSide, tally
<1>17. Parked'
  BY <1>2, <1>9 DEF Parked, ParkedFits, Stale, panelSide
<1> QED
  BY <1>10, <1>11, <1>12, <1>13, <1>14, <1>15, <1>16, <1>17

(* An agent that hears an answer, starts or stops leaves the requests, what *)
(* the panel has and what it is to say as they are.                        *)
LEMMA AgentKeeps ==
  ASSUME IInv, UNCHANGED <<counted, db, sampled, asks, sync, waking>>, disk'.seq = disk.seq,
         inputs' = inputs,
         events' \in {events, events + 1}, events' <= MaxEvents,
         disk' \in [ver: Versions, revoked: BOOLEAN, seq: Ids],
         updates' \in Nat, dropped' \in BOOLEAN,
         handler' = handler,
         agent' \in Agent, agent'.mail \in {agent.mail, NoMail}, agent'.waits \in {agent.waits, NoSlot},
         \/ agent'.rid = agent.rid /\ agent'.inflight = agent.inflight
         \/ agent'.rid = 0 /\ agent'.inflight = {},
         agent'.pending = agent.pending \/ agent'.pending = {},
         One(agent'.mail # NoMail /\ agent'.mail.update) + One(agent'.updating) + updates'
           <= One(agent.mail # NoMail /\ agent.mail.update) + One(agent.updating) + updates
  PROVE  IInv'
<1> USE DEF IInv
<1>0. /\ events \in Nat /\ asks \in Nat /\ events' \in 0..MaxEvents /\ asks' \in 0..events' /\ updates \in Nat
  BY NodeSyncAssumption DEF TypeOK
<1>1. TypeOK'
  BY <1>0 DEF TypeOK
<1>2. Made' /\ Apart' /\ Booked'
  <2>1. NothingNew
    BY DEF NothingNew
  <2> QED
    BY <2>1, ReportsStand
<1>3. Acks'
  BY DEF Acks
<1>4. Orders'
  <2> DEFINE told == One(db.command = "asked")
             mail == One(agent.mail # NoMail /\ agent.mail.update)
             order == One(agent.updating)
             mail2 == One(agent'.mail # NoMail /\ agent'.mail.update)
             order2 == One(agent'.updating)
             up2 == updates'
  <2>1. told \in Nat /\ mail \in Nat /\ order \in Nat /\ mail2 \in Nat /\ order2 \in Nat /\ up2 \in Nat
    BY DEF One
  <2>2. told + mail + order + updates <= asks /\ (agent'.waits # NoSlot => agent'.mail = NoMail)
    BY DEF Orders
  <2>3. mail2 + order2 + up2 <= mail + order + updates
    OBVIOUS
  <2> HIDE DEF told, mail, order, mail2, order2, up2
  <2>4. told + mail2 + order2 + up2 <= asks
    BY <1>0, <2>1, <2>2, <2>3
  <2> QED
    BY <2>2, <2>4 DEF Orders, told, mail, order, mail2, order2, up2
<1>5. Wakes'
  BY <1>0 DEF Wakes, Stale
<1>6. Parked'
  BY DEF Parked, ParkedFits, Stale
<1> QED
  BY <1>1, <1>2, <1>3, <1>4, <1>5, <1>6

(* Switched off, the agent stops Xray.                                      *)
LEMMA RevokeKeeps ==
  ASSUME IInv, Revoke
  PROVE  IInv'
<1>0. /\ agent \in Agent /\ disk \in [ver: Versions, revoked: BOOLEAN, seq: Ids]
      /\ updates \in Nat /\ dropped \in BOOLEAN /\ events \in 0..MaxEvents /\ MaxEvents \in Nat
  BY NodeSyncAssumption DEF IInv, TypeOK
<1>1. /\ UNCHANGED <<panelSide, handler, tally>>
      /\ agent' = [agent EXCEPT !.mail = NoMail, !.revoked = TRUE] /\ disk' = [disk EXCEPT !.revoked = TRUE]
  BY DEF Revoke
<1>2. /\ agent' \in Agent /\ agent'.mail = NoMail /\ agent'.waits = agent.waits /\ agent'.rid = agent.rid
      /\ agent'.inflight = agent.inflight /\ agent'.pending = agent.pending /\ agent'.updating = agent.updating
  BY <1>0, <1>1 DEF Agent
<1>3. disk' \in [ver: Versions, revoked: BOOLEAN, seq: Ids] /\ disk'.seq = disk.seq
  BY <1>0, <1>1
<1>4. One(agent'.mail # NoMail /\ agent'.mail.update) <= One(agent.mail # NoMail /\ agent.mail.update)
      /\ One(agent'.updating) = One(agent.updating)
  BY <1>2 DEF One
<1>5. One(agent'.mail # NoMail /\ agent'.mail.update) + One(agent'.updating) + updates'
        <= One(agent.mail # NoMail /\ agent.mail.update) + One(agent.updating) + updates
  BY <1>0, <1>1, <1>4 DEF One, tally
<1> QED
  BY <1>0, <1>1, <1>2, <1>3, <1>5, AgentKeeps DEF panelSide, tally

(* What is left of an agent after the answer, and after a start.           *)
LEMMA HeardFits ==
  ASSUME TypeOK
  PROVE  /\ Heard \in Agent /\ Heard.mail = NoMail /\ Heard.waits = agent.waits /\ Heard.pending = agent.pending
         /\ \/ Heard.rid = agent.rid /\ Heard.inflight = agent.inflight
            \/ /\ Heard.rid = 0 /\ Heard.inflight = {}
               /\ agent.rid # 0 /\ agent.mail.ack >= agent.rid
<1>1. agent \in Agent /\ 0 \in Ids
  BY Zero DEF TypeOK
<1>2. [agent EXCEPT !.mail = NoMail] \in Agent
  BY <1>1 DEF Agent
<1>3. CASE agent.rid # 0 /\ agent.mail.ack >= agent.rid
  BY <1>1, <1>2, <1>3 DEF Heard, Settled, Agent
<1>4. CASE ~(agent.rid # 0 /\ agent.mail.ack >= agent.rid)
  BY <1>1, <1>2, <1>4 DEF Heard, Settled, Agent
<1> QED
  BY <1>3, <1>4

(* What the agent keeps on disk is an agent.                                *)
LEMMA KeptFits ==
  ASSUME TypeOK, NEW a \in Agent, NEW ver \in Versions
  PROVE  /\ Kept(a, ver) \in Agent /\ Kept(a, ver).rid = a.rid /\ Kept(a, ver).inflight = a.inflight
         /\ Kept(a, ver).pending = a.pending /\ Kept(a, ver).mail = NoMail /\ Kept(a, ver).updating = FALSE
         /\ Kept(a, ver).waits = NoSlot
  BY DEF Kept, Boot, Agent, TypeOK

(* The agent takes an answer: what was acknowledged goes.                   *)
LEMMA ObeyKeeps ==
  ASSUME IInv, NEW resumes \in BOOLEAN, NEW installs \in BOOLEAN, NEW again \in BOOLEAN, NEW applies \in BOOLEAN,
         Obey(resumes, installs, again, applies)
  PROVE  IInv'
<1> DEFINE told == agent.mail.update \/ agent.updating
           up == told /\ installs
           took == ~up /\ agent.mail.push # 0 /\ applies
<1>0. /\ TypeOK /\ agent \in Agent /\ disk \in [ver: Versions, revoked: BOOLEAN, seq: Ids] /\ 0 \in Versions
      /\ updates \in Nat /\ dropped \in BOOLEAN /\ events \in 0..MaxEvents /\ MaxEvents \in Nat
      /\ agent.mail # NoMail /\ agent.mail \in Answer
  BY NodeSyncAssumption, Zero DEF IInv, TypeOK, Obey, Agent
<1>1. /\ agent' = IF up THEN [Kept(Heard, 0) EXCEPT !.revoked = agent.revoked /\ ~resumes]
                  ELSE [Heard EXCEPT !.revoked = @ /\ ~resumes, !.updating = told /\ again,
                                     !.ver = IF took THEN agent.mail.push ELSE @]
      /\ disk' = [disk EXCEPT !.revoked = @ /\ ~resumes,
                              !.ver = IF up THEN 0 ELSE IF took THEN agent.mail.push ELSE @]
      /\ updates' = IF up THEN updates + 1 ELSE updates
      /\ dropped' = (dropped \/ (Heard.rid # agent.rid /\ ~agent.mail.believed))
      /\ UNCHANGED <<panelSide, handler, sampled, events, asks>>
  BY DEF Obey
<1>2. told \in BOOLEAN /\ took \in BOOLEAN /\ agent.mail.push \in Versions
  BY <1>0 DEF Answer, Agent
<1>3. /\ agent' \in Agent /\ agent'.rid = Heard.rid /\ agent'.inflight = Heard.inflight
      /\ agent'.pending = Heard.pending /\ agent'.mail = NoMail
      /\ agent'.updating = (~up /\ told /\ again) /\ agent'.waits \in {agent.waits, NoSlot}
  <2> HIDE DEF told, took
  <2>1. CASE up
    <3>1. Kept(Heard, 0) \in Agent /\ (agent.revoked /\ ~resumes) \in BOOLEAN
      BY <1>0, HeardFits, KeptFits DEF Agent
    <3>2. agent' = [Kept(Heard, 0) EXCEPT !.revoked = agent.revoked /\ ~resumes]
      BY <1>1, <2>1
    <3>3. agent' \in Agent
      BY <3>1, <3>2 DEF Agent
    <3>4. /\ agent'.rid = Kept(Heard, 0).rid /\ agent'.inflight = Kept(Heard, 0).inflight
          /\ agent'.pending = Kept(Heard, 0).pending /\ agent'.mail = Kept(Heard, 0).mail
          /\ agent'.updating = Kept(Heard, 0).updating /\ agent'.waits = Kept(Heard, 0).waits
      BY <3>1, <3>2 DEF Agent
    <3> QED
      BY <1>0, <2>1, <3>3, <3>4, HeardFits, KeptFits
  <2>2. CASE ~up
    <3>1. /\ Heard \in Agent /\ (Heard.revoked /\ ~resumes) \in BOOLEAN /\ (told /\ again) \in BOOLEAN
          /\ (IF took THEN agent.mail.push ELSE Heard.ver) \in Versions
      BY <1>0, <1>2, HeardFits DEF Agent
    <3>2. agent' = [Heard EXCEPT !.revoked = Heard.revoked /\ ~resumes, !.updating = told /\ again,
                                 !.ver = IF took THEN agent.mail.push ELSE Heard.ver]
      BY <1>1, <2>2
    <3>3. agent' \in Agent
      BY <3>1, <3>2 DEF Agent
    <3>4. /\ agent'.rid = Heard.rid /\ agent'.inflight = Heard.inflight /\ agent'.pending = Heard.pending
          /\ agent'.mail = Heard.mail /\ agent'.updating = (told /\ again) /\ agent'.waits = Heard.waits
      BY <3>1, <3>2 DEF Agent
    <3> QED
      BY <1>0, <2>2, <3>3, <3>4, HeardFits
  <2> QED
    BY <2>1, <2>2
<1>4. disk' \in [ver: Versions, revoked: BOOLEAN, seq: Ids] /\ disk'.seq = disk.seq
  <2>1. /\ (IF up THEN 0 ELSE IF took THEN agent.mail.push ELSE disk.ver) \in Versions
        /\ (disk.revoked /\ ~resumes) \in BOOLEAN
    BY <1>0, <1>2
  <2> HIDE DEF told, up, took
  <2> QED
    BY <1>0, <1>1, <2>1
<1>5. /\ updates' \in Nat
      /\ One(agent'.mail # NoMail /\ agent'.mail.update) + One(agent'.updating) + updates'
           <= One(agent.mail # NoMail /\ agent.mail.update) + One(agent.updating) + updates
  <2>1. One(agent'.mail # NoMail /\ agent'.mail.update) = 0
    BY <1>3 DEF One
  <2>2. /\ One(agent.mail # NoMail /\ agent.mail.update) \in 0..1 /\ One(agent.updating) \in 0..1
        /\ told => One(agent.mail # NoMail /\ agent.mail.update) + One(agent.updating) >= 1
    BY <1>0 DEF One
  <2>3. One(agent'.updating) = IF ~up /\ told /\ again THEN 1 ELSE 0
    BY <1>3 DEF One
  <2> HIDE DEF told
  <2> QED
    BY <1>0, <1>1, <2>1, <2>2, <2>3
<1>6. \/ agent'.rid = agent.rid /\ agent'.inflight = agent.inflight
      \/ agent'.rid = 0 /\ agent'.inflight = {}
  BY <1>0, <1>3, HeardFits
<1>7. agent'.pending = agent.pending /\ dropped' \in BOOLEAN
  BY <1>0, <1>1, <1>3, HeardFits
<1>8. UNCHANGED <<counted, db, sampled, asks, sync, waking, inputs, handler, events>>
  BY <1>1 DEF panelSide
<1> QED
  BY <1>0, <1>3, <1>4, <1>5, <1>6, <1>7, <1>8, AgentKeeps

(***************************************************************************)
(* Faults                                                                  *)
(***************************************************************************)

(* A stop keeps the traffic, a kill does not; ids on disk run ahead.        *)
LEMMA FaultKeeps ==
  ASSUME IInv, InterruptSync \/ AgentStops \/ AgentCrashes
  PROVE  IInv'
<1>0. /\ TypeOK /\ agent \in Agent /\ disk \in [ver: Versions, revoked: BOOLEAN, seq: Ids] /\ 0 \in Ids
      /\ updates \in Nat /\ dropped \in BOOLEAN /\ events \in 0..MaxEvents /\ MaxEvents \in Nat
  BY NodeSyncAssumption, Zero DEF IInv, TypeOK
<1>1. /\ events' = events + 1 /\ events' <= MaxEvents /\ dropped' \in BOOLEAN
      /\ UNCHANGED <<counted, db, sampled, asks, sync, waking, inputs, handler, updates, disk>>
  <2>1. events' = events + 1 /\ events < MaxEvents
    BY DEF InterruptSync, AgentStops, AgentCrashes, Fault
  <2>3. dropped' \in BOOLEAN
    BY <1>0 DEF InterruptSync, AgentStops, AgentCrashes
  <2>2. UNCHANGED <<counted, db, sampled, asks, sync, waking, inputs, handler, updates, disk>>
    BY DEF InterruptSync, AgentStops, AgentCrashes, Fault
  <2> QED
    BY <1>0, <2>1, <2>2, <2>3
<1>2. /\ agent' \in Agent /\ agent'.waits = NoSlot
      /\ \/ agent'.mail = agent.mail /\ agent'.updating = agent.updating
         \/ agent'.mail = NoMail /\ agent'.updating = FALSE
      /\ \/ agent'.rid = agent.rid /\ agent'.inflight = agent.inflight
         \/ agent'.rid = 0 /\ agent'.inflight = {}
      /\ agent'.pending = agent.pending \/ agent'.pending = {}
  <2>1. CASE InterruptSync
    BY <1>0, <2>1 DEF InterruptSync, Agent
  <2>2. CASE AgentStops
    BY <1>0, <2>2, KeptFits DEF AgentStops
  <2>3. CASE AgentCrashes
    BY <1>0, <2>3 DEF AgentCrashes, Boot, Agent
  <2> QED
    BY <2>1, <2>2, <2>3
<1>3. One(agent'.mail # NoMail /\ agent'.mail.update) + One(agent'.updating) + updates'
        <= One(agent.mail # NoMail /\ agent.mail.update) + One(agent.updating) + updates
  BY <1>0, <1>1, <1>2 DEF One
<1>4. agent'.mail \in {agent.mail, NoMail}
  BY <1>2
<1> QED
  BY <1>0, <1>1, <1>2, <1>3, <1>4, AgentKeeps

(* A restart of the panel drops requests and snapshot.                      *)
LEMMA PanelKeeps ==
  ASSUME IInv, PanelRestarts
  PROVE  IInv'
<1> USE DEF IInv
<1>0. /\ UNCHANGED <<counted, db, sampled, asks, updates, disk, dropped>>
      /\ events' = events + 1 /\ events < MaxEvents
      /\ inputs' = [ver |-> 0, fresh |-> FALSE]
      /\ sync' = [kick |-> FALSE, at |-> "notify", ver |-> 0, fresh |-> FALSE]
      /\ waking' = FALSE /\ handler' = [t \in Slots |-> Free]
      /\ agent' = [agent EXCEPT !.waits = NoSlot]
  BY DEF PanelRestarts, Fault
<1>1. Free.at = "free" /\ Free.rid = 0 /\ Free.units = {}
  BY DEF Free
<1>2. /\ agent' \in Agent /\ agent'.waits = NoSlot /\ agent'.mail = agent.mail /\ agent'.rid = agent.rid
      /\ agent'.inflight = agent.inflight /\ agent'.pending = agent.pending /\ agent'.updating = agent.updating
  BY <1>0 DEF TypeOK, Agent
<1>3. /\ events \in Nat /\ events' \in 0..MaxEvents /\ asks' \in 0..events'
  BY <1>0, NodeSyncAssumption DEF TypeOK
<1>4. TypeOK'
  BY <1>0, <1>2, <1>3, Zero, FreeType DEF TypeOK
<1>5. Made' /\ Apart' /\ Booked'
  <2>1. NothingNew
    BY <1>0, <1>1, <1>2 DEF NothingNew
  <2> QED
    BY <2>1, ReportsStand
<1>6. Acks'
  BY <1>0, <1>1, <1>2 DEF Acks
<1>7. Orders'
  BY <1>0, <1>2, OrdersStand
<1>8. Wakes'
  BY <1>0, <1>3 DEF Wakes
<1>9. Parked'
  BY <1>0, <1>1 DEF Parked, ParkedFits
<1> QED
  BY <1>4, <1>5, <1>6, <1>7, <1>8, <1>9

(***************************************************************************)
(* What always holds                                                       *)
(***************************************************************************)

(* Every step keeps the invariant.                                          *)
LEMMA NextKeeps ==
  ASSUME IInv, [Next]_vars
  PROVE  IInv'
<1>1. CASE UNCHANGED vars
  <2>1. UNCHANGED <<db, counted, inputs, sync, waking, handler, agent, disk, tally>>
    BY <1>1 DEF vars, panelSide
  <2> QED
    BY <2>1 DEF IInv, TypeOK, Made, Apart, ReportFits, Booked, Acks, Orders, One, Wakes, Stale, Parked,
         ParkedFits, tally
<1>2. CASE TriggerUserSync \/ SetNodeEnabled \/ RequestNodeUpdate
  BY <1>2, EditKeeps
<1>3. CASE WakeOne \/ NotifyNodes
  BY <1>3, WakeKeeps
<1>4. CASE \E took \in BOOLEAN : ReadWorkingSet(took)
  BY <1>4, ReadKeeps
<1>5. CASE FleetChanged
  BY <1>5, FleetKeeps
<1>6. CASE OtherNodePolls
  BY <1>6, OtherKeeps
<1>7. ASSUME NEW s \in Slots,
             LookupNodeByToken(s) \/ NodeSyncPush(s) \/ Recheck(s) \/ HangUp(s) \/ WriteNodeSync(s)
      PROVE  IInv'
  BY <1>7, LookupKeeps, PushKeeps, RecheckKeeps, HangUpKeeps, WriteKeeps
<1>8. ASSUME NEW s \in Slots, NEW stored \in Stored, IngestNodeSync(s, stored)
      PROVE  IInv'
  BY <1>8, IngestKeeps DEF Stored
<1>9. CASE Sample
  BY <1>9, SampleKeeps
<1>10. CASE SyncOnce
  BY <1>10, SendKeeps
<1>11. CASE Revoke
  BY <1>11, RevokeKeeps
<1>12. ASSUME NEW resumes \in BOOLEAN, NEW installs \in BOOLEAN, NEW again \in BOOLEAN, NEW applies \in Applies,
              Obey(resumes, installs, again, applies)
       PROVE  IInv'
  <2>1. applies \in BOOLEAN
    BY DEF Applies
  <2> QED
    BY <1>12, <2>1, ObeyKeeps
<1>13. CASE InterruptSync \/ AgentStops \/ AgentCrashes
  BY <1>13, FaultKeeps
<1>14. CASE PanelRestarts
  BY <1>14, PanelKeeps
<1> QED
  BY <1>1, <1>2, <1>3, <1>4, <1>5, <1>6, <1>7, <1>8, <1>9, <1>10, <1>11, <1>12, <1>13, <1>14 DEF Next

(* The long poll keeps its books whatever is edited, given up, lost,       *)
(* stopped or restarted (handleNodeSync, SyncOnce).                        *)
THEOREM NodeSyncSound == Spec => []IInv
<1>1. Init => IInv
  BY Starts
<1>2. IInv /\ [Next]_vars => IInv'
  BY NextKeeps
<1> QED
  BY <1>1, <1>2, PTL DEF Spec

(* Every variable stays in its set; in particular there are never more     *)
(* report ids than pieces of traffic, nor versions than edits.             *)
THEOREM NodeSyncTypes == Spec => []TypeOK
<1>1. IInv => TypeOK
  BY DEF IInv
<1> QED
  BY <1>1, NodeSyncSound, PTL

(* No piece of traffic is booked twice (claimNodeReportOn).                *)
THEOREM NeverCountedTwice == Spec => []CountedOnce
<1>1. IInv => CountedOnce
  BY DEF IInv, Booked, CountedOnce
<1> QED
  BY <1>1, NodeSyncSound, PTL

(* No order to update is carried out twice (takeCmd).                      *)
THEOREM NeverUpdatedTwice == Spec => []UpdatesOnce
<1>1. IInv => UpdatesOnce
  BY DEF IInv, TypeOK, Orders, One, UpdatesOnce
<1> QED
  BY <1>1, NodeSyncSound, PTL

(* A request is held only while there is nothing to tell, but for the two  *)
(* gaps that are marked (handleNodeSync, NotifyNodes).                     *)
THEOREM AlwaysHeldIsCurrent == Spec => []HeldIsCurrent
<1>1. IInv => HeldIsCurrent
  BY DEF IInv, Parked, ParkedFits, Stale, HeldIsCurrent, Overslept, OnItsWay
<1> QED
  BY <1>1, NodeSyncSound, PTL

(* A report that the agent lets go of on a believed answer has been booked *)
(* (ackReport, IngestNodeSync).                                            *)
THEOREM LetGoWhenBooked == Spec => BelievedAckMeansCounted
<1> DEFINE Step == LetGo /\ agent.mail.believed => \A u \in agent.inflight : counted[u] = 1
<1>1. ASSUME IInv, [Next]_vars, LetGo, agent.mail.believed
      PROVE  \A u \in agent.inflight : counted[u] = 1
  <2>0. /\ TypeOK /\ agent \in Agent /\ agent.rid \in Nat /\ db.watermark \in Nat /\ events \in Nat
        /\ disk.seq \in Nat
    BY <1>1, NodeSyncAssumption, FS_CardinalityType DEF IInv, TypeOK, Agent, Ids
  <2>1. agent.rid # 0 /\ agent'.rid = 0 /\ events' = events
    BY <1>1 DEF LetGo
  <2>2. agent.mail # NoMail /\ agent.mail.ack >= agent.rid
    <3>1. PICK resumes \in BOOLEAN, installs \in BOOLEAN, again \in BOOLEAN, applies \in Applies :
            Obey(resumes, installs, again, applies)
      <4>1. agent' # agent
        BY <2>1
      <4>2. ~SyncOnce
        BY <2>0, <2>1 DEF SyncOnce, Promotes, Agent
      <4>3. ~Sample /\ ~Revoke
        BY <2>0, <2>1 DEF Sample, Revoke, Agent
      <4>4. \A s \in Slots : ~WriteNodeSync(s)
        BY <2>0, <2>1 DEF WriteNodeSync, Agent
      <4>5. ~InterruptSync /\ ~AgentStops /\ ~AgentCrashes /\ ~PanelRestarts
        BY <2>0, <2>1 DEF InterruptSync, AgentStops, AgentCrashes, PanelRestarts, Fault
      <4>6. ~TriggerUserSync /\ ~SetNodeEnabled /\ ~RequestNodeUpdate
        BY <2>0, <2>1 DEF TriggerUserSync, SetNodeEnabled, RequestNodeUpdate, Edit
      <4>7. ~WakeOne /\ ~FleetChanged /\ ~NotifyNodes /\ ~OtherNodePolls /\ ~UNCHANGED vars
            /\ \A took \in BOOLEAN : ~ReadWorkingSet(took)
        BY <4>1 DEF WakeOne, FleetChanged, NotifyNodes, OtherNodePolls, ReadWorkingSet, vars
      <4>8. ASSUME NEW s \in Slots
            PROVE  ~LookupNodeByToken(s) /\ ~NodeSyncPush(s) /\ ~Recheck(s) /\ ~HangUp(s)
                   /\ \A stored \in Stored : ~IngestNodeSync(s, stored)
        BY <4>1 DEF LookupNodeByToken, NodeSyncPush, Recheck, HangUp, IngestNodeSync
      <4> QED
        BY <1>1, <4>2, <4>3, <4>4, <4>5, <4>6, <4>7, <4>8 DEF Next
    <3>2. agent'.rid = Heard.rid
      <4>1. Heard \in Agent /\ 0 \in Versions
        BY <2>0, HeardFits, Zero
      <4>2. Kept(Heard, 0) \in Agent /\ Kept(Heard, 0).rid = Heard.rid
        BY <2>0, <4>1, KeptFits
      <4> QED
        BY <3>1, <4>1, <4>2 DEF Obey, Agent
    <3> QED
      BY <2>0, <2>1, <3>1, <3>2, HeardFits DEF Obey
  <2>3. agent.mail.ack \in Nat /\ agent.mail.ack <= db.watermark
    BY <1>1, <2>0, <2>2, NodeSyncAssumption, FS_CardinalityType DEF IInv, Acks, Agent, Answer, Ids
  <2>4. ASSUME NEW u \in agent.inflight PROVE counted[u] = 1
    <3>1. u \in Units /\ counted[u] \in Nat
      BY <2>0 DEF TypeOK, Agent
    <3>2. counted[u] > 0 /\ counted[u] <= 1
      BY <1>1, <2>0, <2>2, <2>3, <3>1 DEF IInv, Booked
    <3> QED
      BY <3>1, <3>2
  <2> QED
    BY <2>4
<1>2. IInv /\ [Next]_vars => [Step]_vars
  BY <1>1
<1> QED
  BY <1>2, NodeSyncSound, PTL DEF Spec, BelievedAckMeansCounted
=============================================================================
