------------------------------- MODULE NodeSync -------------------------------
(***************************************************************************)
(* The panel and one of its nodes: the long poll (internal/server/         *)
(* node_api.go, internal/core/manager_nodes*.go) and the agent's side of   *)
(* it (internal/nodeagent). One request carries the node's traffic up; its *)
(* answer carries a changed config, the order to stop serving or an update *)
(* down, and is held back while there is nothing to say.                   *)
(*                                                                         *)
(* A request the agent gave up goes on being handled, next to its          *)
(* successor. The node's config is a number that edits raise; the panel    *)
(* reads it into one snapshot for all nodes, so another node's poll shows. *)
(*                                                                         *)
(* Left out: deleted nodes, the form a push takes (whole, in parts, as a   *)
(* change), connection samples, logs, probes, quotas, the restart and geo  *)
(* commands (handed over like updates), the ageing of commands.            *)
(***************************************************************************)
EXTENDS Naturals, FiniteSets

CONSTANTS
  Units,        \* pieces of traffic, numbered as they come up
  ChunkMax,     \* pieces a report takes at most: trafficChunkMax
  Slots,        \* requests being handled at a time, at most
  NoSlot, NoMail,
  Edits,        \* subset of {"config", "switch", "update"}
  MayFail,      \* subset of {"store", "apply", "cut", "crash", "stop", "panel"}
  MaxEvents     \* cap on the edits and faults of an instance, together

VARIABLES
  db,           \* the node's row, its command, and what its config should say
  counted,      \* [Units -> ...] how often the panel booked each piece
  inputs,       \* nodeInputsCache: what it says, and was there no wake since
  sync,         \* the reconcile loop: kicked, and what it read
  waking,       \* an edit of the node is stored and its wake still to come
  handler,      \* [Slots -> ...] requests being handled
  agent,        \* the agent's memory
  disk,         \* its state.json
  sampled,      \* history: the traffic there was
  dropped,      \* history: was traffic let go of that was not booked
  events, asks, updates  \* counts, for the caps and the properties

ASSUME NodeSyncAssumption ==
  /\ Units \subseteq Nat /\ IsFiniteSet(Units)
  /\ ChunkMax \in Nat \ {0} /\ MaxEvents \in Nat
  /\ NoSlot \notin Slots

panelSide == <<db, counted, inputs, sync, waking>>
tally == <<sampled, events, asks, updates, dropped>>
vars == <<panelSide, handler, agent, disk, tally>>

Versions == 0..MaxEvents + 1     \* 0: none
Ids == 0..Cardinality(Units)    \* 0: no report

Free == [at |-> "free", rid |-> 0, units |-> {}, more |-> FALSE, has |-> 0, revoked |-> FALSE,
         on |-> FALSE, believed |-> FALSE, woken |-> FALSE, missed |-> FALSE, ack |-> 0, push |-> 0]

\* A request as it is handled, the answer to it, the agent.
Request ==
  [at: {"free", "lookup", "ingest", "decide", "hold", "answer"}, rid: Ids, units: SUBSET Units,
   more: BOOLEAN, has: Versions, revoked: BOOLEAN, on: BOOLEAN, believed: BOOLEAN, woken: BOOLEAN,
   missed: BOOLEAN, ack: Ids, push: Versions]
Answer == [revoked: BOOLEAN, believed: BOOLEAN, ack: Ids, push: Versions, update: BOOLEAN]
Agent ==
  [waits: Slots \union {NoSlot}, rid: Ids, inflight: SUBSET Units, pending: SUBSET Units, ver: Versions,
   revoked: BOOLEAN, updating: BOOLEAN, mail: Answer \union {NoMail}]

TypeOK ==
  /\ db \in [enabled: BOOLEAN, want: Versions, watermark: Ids, command: {"none", "asked", "sent"}]
  /\ counted \in [Units -> Nat]
  /\ inputs \in [ver: Versions, fresh: BOOLEAN]
  /\ sync \in [kick: BOOLEAN, at: {"idle", "compare", "notify"}, ver: Versions, fresh: BOOLEAN]
  /\ waking \in BOOLEAN
  /\ handler \in [Slots -> Request]
  /\ agent \in Agent
  /\ disk \in [ver: Versions, revoked: BOOLEAN, seq: Ids]
  /\ sampled \subseteq Units /\ events \in 0..MaxEvents
  /\ asks \in 0..events /\ updates \in Nat /\ dropped \in BOOLEAN

Init ==
  /\ db = [enabled |-> TRUE, want |-> 1, watermark |-> 0, command |-> "none"]
  /\ counted = [u \in Units |-> 0]
  /\ inputs = [ver |-> 1, fresh |-> TRUE]
  /\ sync = [kick |-> FALSE, at |-> "idle", ver |-> 0, fresh |-> FALSE]
  /\ waking = FALSE
  /\ handler = [s \in Slots |-> Free]
  /\ agent = [waits |-> NoSlot, rid |-> 0, inflight |-> {}, pending |-> {}, ver |-> 1, revoked |-> FALSE,
              updating |-> FALSE, mail |-> NoMail]
  /\ disk = [ver |-> 1, revoked |-> FALSE, seq |-> 0]
  /\ sampled = {} /\ events = 0 /\ asks = 0 /\ updates = 0 /\ dropped = FALSE
-----------------------------------------------------------------------------
(* Edits and wakes                                                         *)

\* A wake counts the snapshots made before it out and lets every poll that
\* has its channel return.
\* A plausible slip: only a poll that is already held hears it.
WakeHeld ==
  /\ inputs' = [inputs EXCEPT !.fresh = FALSE]
  /\ handler' = [s \in Slots |-> IF handler[s].at = "hold" THEN [handler[s] EXCEPT !.woken = TRUE] ELSE handler[s]]
Wake ==
  /\ inputs' = [inputs EXCEPT !.fresh = FALSE]
  /\ handler' = [s \in Slots |-> IF handler[s].at \in {"decide", "hold"}
                                 THEN [handler[s] EXCEPT !.woken = TRUE] ELSE handler[s]]

Edit(kind) ==
  /\ kind \in Edits /\ events < MaxEvents
  /\ events' = events + 1
  /\ UNCHANGED <<counted, inputs, handler, agent, disk, sampled, updates, dropped>>

\* Who is served, or something else the nodes are told of them.
TriggerUserSync ==
  /\ Edit("config")
  /\ db' = [db EXCEPT !.want = @ + 1] /\ sync' = [sync EXCEPT !.kick = TRUE]
  /\ UNCHANGED <<waking, asks>>

\* The node is switched off or on, or told to update: stored, then a wake.
SetNodeEnabled ==
  /\ Edit("switch")
  /\ db' = [db EXCEPT !.enabled = ~@] /\ waking' = TRUE
  /\ UNCHANGED <<sync, asks>>
RequestNodeUpdate ==
  /\ Edit("update")
  /\ db' = [db EXCEPT !.command = "asked"] /\ waking' = TRUE /\ asks' = asks + 1
  /\ UNCHANGED sync
WakeOne ==
  /\ waking /\ waking' = FALSE
  /\ Wake
  /\ UNCHANGED <<db, counted, sync, agent, disk, tally>>

\* The reconcile loop reads the working set. That the panel's own Xray took a
\* change is a reason to wake the nodes; otherwise the shared snapshot is asked.
ReadWorkingSet(took) ==
  /\ sync.at = "idle" /\ sync.kick
  /\ sync' = [kick |-> FALSE, at |-> IF took THEN "notify" ELSE "compare", ver |-> db.want, fresh |-> TRUE]
  /\ UNCHANGED <<db, counted, inputs, waking, handler, agent, disk, tally>>
SyncDone == [sync EXCEPT !.at = "idle", !.ver = 0, !.fresh = FALSE]
FleetChanged ==
  /\ sync.at = "compare"
  /\ inputs' = [ver |-> sync.ver, fresh |-> sync.fresh]
  /\ IF inputs.ver # sync.ver
     THEN sync' = [sync EXCEPT !.at = "notify"] /\ UNCHANGED handler
     ELSE /\ sync' = SyncDone
          /\ handler' = [s \in Slots |-> IF handler[s].at = "hold" /\ handler[s].has # sync.ver
                                         THEN [handler[s] EXCEPT !.missed = TRUE] ELSE handler[s]]
  /\ UNCHANGED <<db, counted, waking, agent, disk, tally>>
NotifyNodes ==
  /\ sync.at = "notify"
  /\ sync' = SyncDone
  /\ Wake
  /\ UNCHANGED <<db, counted, waking, agent, disk, tally>>

\* nodeInputs: the snapshot, read again after a wake and whenever it has aged.
\* A plausible slip: it is read by the reconcile loop alone.
NodeInputsKept == {inputs}
NodeInputs == {[ver |-> db.want, fresh |-> TRUE]} \union {i \in {inputs} : i.fresh}
OtherNodePolls ==
  /\ inputs' \in NodeInputs
  /\ UNCHANGED <<db, counted, sync, waking, handler, agent, disk, tally>>
-----------------------------------------------------------------------------
(* Handling a request                                                      *)

Handling(s, pc) == handler[s].at = pc

\* The row is read first; the body comes in after that.
LookupNodeByToken(s) ==
  /\ Handling(s, "lookup")
  /\ handler' = [handler EXCEPT ![s].at = "ingest", ![s].on = db.enabled]
  /\ UNCHANGED <<panelSide, agent, disk, tally>>

\* The wake channel is taken, late for a switch that came after the lookup. A
\* node switched off is not believed. Otherwise the report is booked and
\* its id claimed in one transaction, unless it was before.
\* A plausible slip: the id last booked is booked again.
ClaimedAgain(rid) == rid >= db.watermark
Claimed(rid) == rid > db.watermark
Book(s) ==
  /\ db' = [db EXCEPT !.watermark = handler[s].rid]
  /\ counted' = [u \in Units |-> counted[u] + IF u \in handler[s].units THEN 1 ELSE 0]
\* A plausible slip: a report that could not be stored is acknowledged too.
IngestAcksAnyway(s, stored) ==
  /\ Handling(s, "ingest")
  /\ IF handler[s].on /\ stored /\ handler[s].rid # 0 /\ Claimed(handler[s].rid)
     THEN Book(s) ELSE UNCHANGED <<db, counted>>
  /\ handler' = [handler EXCEPT ![s].at = "decide", ![s].believed = handler[s].on,
                                ![s].missed = handler[s].on # db.enabled /\ ~waking, ![s].ack = handler[s].rid]
  /\ UNCHANGED <<inputs, sync, waking, agent, disk, tally>>
IngestNodeSync(s, stored) ==
  /\ Handling(s, "ingest")
  /\ IF handler[s].on /\ stored /\ handler[s].rid # 0 /\ Claimed(handler[s].rid)
     THEN Book(s) ELSE UNCHANGED <<db, counted>>
  /\ handler' = [handler EXCEPT ![s].at = "decide", ![s].believed = handler[s].on,
                                ![s].missed = handler[s].on # db.enabled /\ ~waking,
                                ![s].ack = IF handler[s].on /\ ~stored THEN 0 ELSE handler[s].rid]
  /\ UNCHANGED <<inputs, sync, waking, agent, disk, tally>>

\* Answered at once: a push, a different belief about being on, a backlog.
Push(s, ver) == IF ver = handler[s].has THEN 0 ELSE ver
Backlog(s) == handler[s].more /\ handler[s].units # {} /\ handler[s].ack > 0
NodeSyncPush(s) ==
  /\ Handling(s, "decide")
  /\ inputs' \in IF handler[s].on THEN NodeInputs ELSE {inputs}
  /\ LET push == IF handler[s].on THEN Push(s, inputs'.ver) ELSE 0
         now == push # 0 \/ handler[s].on = handler[s].revoked \/ Backlog(s)
     IN handler' = [handler EXCEPT ![s].push = push, ![s].at = IF now THEN "answer" ELSE "hold"]
  /\ UNCHANGED <<db, counted, sync, waking, agent, disk, tally>>

\* Woken or at the end of the hold, everything is looked at again.
Recheck(s) ==
  /\ Handling(s, "hold") /\ agent.waits = s
  /\ inputs' \in IF db.enabled THEN NodeInputs ELSE {inputs}
  /\ handler' = [handler EXCEPT ![s].at = "answer", ![s].on = db.enabled,
                                ![s].push = IF db.enabled THEN Push(s, inputs'.ver) ELSE 0]
  /\ UNCHANGED <<db, counted, sync, waking, agent, disk, tally>>
HangUp(s) ==
  /\ Handling(s, "hold") /\ agent.waits # s
  /\ handler' = [handler EXCEPT ![s] = Free]
  /\ UNCHANGED <<panelSide, agent, disk, tally>>

\* The command is marked as sent; found so, it has been heard and goes.
\* A plausible slip: it stays until it is heard.
CommandKept == IF db.command = "asked" THEN "asked" ELSE "none"
CommandAfter == IF db.command = "asked" THEN "sent" ELSE "none"
TakeCmd(s) == handler[s].on /\ db.command = "asked"
WriteNodeSync(s) ==
  /\ Handling(s, "answer")
  /\ db' = IF ~handler[s].on THEN db
           ELSE [db EXCEPT !.command = CommandAfter]
  /\ agent' = IF agent.waits # s THEN agent
              ELSE [agent EXCEPT !.waits = NoSlot,
                      !.mail = [revoked |-> ~handler[s].on, believed |-> handler[s].believed, ack |-> handler[s].ack,
                                push |-> handler[s].push, update |-> TakeCmd(s)]]
  /\ handler' = [handler EXCEPT ![s] = Free]
  /\ UNCHANGED <<counted, inputs, sync, waking, disk, tally>>
-----------------------------------------------------------------------------
(* The agent                                                               *)

Sample ==
  /\ ~agent.revoked
  /\ \E u \in Units \ sampled :
       /\ \A v \in Units : v < u => v \in sampled
       /\ agent' = [agent EXCEPT !.pending = @ \union {u}]
       /\ sampled' = sampled \union {u}
  /\ UNCHANGED <<panelSide, handler, disk, events, asks, updates, dropped>>

\* A report in flight goes again as it was; with none, the next one is made
\* of what is waiting, under an id that is on disk before it is sent.
Chunks(waiting) ==
  IF Cardinality(waiting) <= ChunkMax THEN {waiting} ELSE {c \in SUBSET waiting : Cardinality(c) = ChunkMax}
Promotes == agent.rid = 0 /\ agent.pending # {}
FreeSlots == {s \in Slots : handler[s].at = "free"}
SyncOnce ==
  /\ agent.waits = NoSlot /\ agent.mail = NoMail /\ FreeSlots # {}
  /\ LET s == CHOOSE f \in FreeSlots : TRUE
         rid == IF Promotes THEN disk.seq + 1 ELSE agent.rid
     IN \E units \in IF Promotes THEN Chunks(agent.pending) ELSE {agent.inflight} :
          /\ agent' = [agent EXCEPT !.waits = s, !.rid = rid, !.inflight = units, !.pending = @ \ units]
          /\ handler' = [handler EXCEPT ![s] =
               [Free EXCEPT !.at = "lookup", !.rid = rid, !.units = units, !.has = agent.ver,
                            !.revoked = agent.revoked,
                            !.more = Cardinality(units) >= ChunkMax /\ agent.pending \ units # {}]]
          /\ disk' = [disk EXCEPT !.seq = IF Promotes THEN rid ELSE @]
  /\ UNCHANGED <<panelSide, tally>>

\* A start with what the last run kept.
Boot(rid, inflight, pending, ver) ==
  [waits |-> NoSlot, rid |-> rid, inflight |-> inflight, pending |-> pending, ver |-> ver,
   revoked |-> disk.revoked, updating |-> FALSE, mail |-> NoMail]
\* A plausible slip: only the report in flight is kept.
KeptInflight(a, ver) == Boot(a.rid, a.inflight, {}, ver)
Kept(a, ver) == Boot(a.rid, a.inflight, a.pending, ver)

\* Told to stop serving, the agent stops and looks at nothing else.
Revoke ==
  /\ agent.mail # NoMail /\ agent.mail.revoked
  /\ agent' = [agent EXCEPT !.mail = NoMail, !.revoked = TRUE]
  /\ disk' = [disk EXCEPT !.revoked = TRUE]
  /\ UNCHANGED <<panelSide, handler, tally>>

\* Otherwise it serves again if it did not, and lets go of a report that was
\* taken. An update that installs ends the process, the new binary asking
\* for its config anew; one that does not may be tried at the next answer.
Settled(a, ack) ==
  IF a.rid # 0 /\ ack >= a.rid THEN [a EXCEPT !.rid = 0, !.inflight = {}] ELSE a
Heard == Settled([agent EXCEPT !.mail = NoMail], agent.mail.ack)
Obey(resumes, installs, again, applies) ==
  /\ agent.mail # NoMail /\ ~agent.mail.revoked
  /\ LET told == agent.mail.update \/ agent.updating
         up == told /\ installs
         took == ~up /\ agent.mail.push # 0 /\ applies
     IN /\ agent' = IF up THEN [Kept(Heard, 0) EXCEPT !.revoked = agent.revoked /\ ~resumes]
                    ELSE [Heard EXCEPT !.revoked = @ /\ ~resumes, !.updating = told /\ again,
                                       !.ver = IF took THEN agent.mail.push ELSE @]
        /\ disk' = [disk EXCEPT !.revoked = @ /\ ~resumes,
                                !.ver = IF up THEN 0 ELSE IF took THEN agent.mail.push ELSE @]
        /\ updates' = IF up THEN updates + 1 ELSE updates
  /\ dropped' = (dropped \/ (Heard.rid # agent.rid /\ ~agent.mail.believed))
  /\ UNCHANGED <<panelSide, handler, sampled, events, asks>>
-----------------------------------------------------------------------------
(* Faults                                                                  *)

Fault(kind) ==
  /\ kind \in MayFail /\ events < MaxEvents
  /\ events' = events + 1
  /\ UNCHANGED <<sampled, asks, updates, counted>>

\* The connection breaks, or Xray went down or came up and the agent wants
\* that known: it asks anew.
InterruptSync ==
  /\ Fault("cut") /\ agent.waits # NoSlot
  /\ agent' = [agent EXCEPT !.waits = NoSlot]
  /\ UNCHANGED <<db, inputs, sync, waking, handler, disk, dropped>>

\* A stopped agent keeps what was not acknowledged; a killed one does not.
AgentStops ==
  /\ Fault("stop")
  /\ agent' = Kept(agent, disk.ver)
  /\ UNCHANGED <<db, inputs, sync, waking, handler, disk, dropped>>
AgentCrashes ==
  /\ Fault("crash")
  /\ agent' = Boot(0, {}, {}, disk.ver) /\ dropped' = TRUE
  /\ UNCHANGED <<db, inputs, sync, waking, handler, disk>>

\* The panel starts with a full reconcile, which ends with a wake.
PanelRestarts ==
  /\ Fault("panel")
  /\ inputs' = [ver |-> 0, fresh |-> FALSE]
  /\ sync' = [kick |-> FALSE, at |-> "notify", ver |-> 0, fresh |-> FALSE]
  /\ waking' = FALSE
  /\ handler' = [s \in Slots |-> Free]
  /\ agent' = [agent EXCEPT !.waits = NoSlot]
  /\ UNCHANGED <<db, disk, dropped>>

Stored == IF "store" \in MayFail THEN BOOLEAN ELSE {TRUE}
Applies == IF "apply" \in MayFail THEN BOOLEAN ELSE {TRUE}
Next ==
  \/ TriggerUserSync \/ SetNodeEnabled \/ RequestNodeUpdate
  \/ WakeOne \/ \E took \in BOOLEAN : ReadWorkingSet(took)
  \/ FleetChanged \/ NotifyNodes \/ OtherNodePolls
  \/ \E s \in Slots : LookupNodeByToken(s) \/ NodeSyncPush(s) \/ Recheck(s)
                      \/ HangUp(s) \/ WriteNodeSync(s) \/ \E stored \in Stored : IngestNodeSync(s, stored)
  \/ Sample \/ SyncOnce \/ Revoke
  \/ \E resumes, installs, again \in BOOLEAN, applies \in Applies : Obey(resumes, installs, again, applies)
  \/ InterruptSync \/ AgentStops \/ AgentCrashes \/ PanelRestarts

Spec == Init /\ [][Next]_vars

\* Every goroutine goes on, a hold ends by its timer, and what is tried
\* again and again - to store, to start, to apply - works at last.
Fairness ==
  /\ WF_vars(WakeOne \/ (\E took \in BOOLEAN : ReadWorkingSet(took)) \/ FleetChanged \/ NotifyNodes)
  /\ WF_vars(SyncOnce \/ Revoke)
  /\ SF_vars(\E installs, again \in BOOLEAN : Obey(TRUE, installs, again, TRUE))
  /\ \A s \in Slots :
       /\ WF_vars(LookupNodeByToken(s) \/ NodeSyncPush(s) \/ Recheck(s) \/ HangUp(s)
                  \/ WriteNodeSync(s))
       /\ SF_vars(IngestNodeSync(s, TRUE))
FairSpec == Spec /\ Fairness
-----------------------------------------------------------------------------
(* Properties                                                              *)

\* Traffic is booked once: through requests given up while they are still
\* being handled, answers lost, batches sent again, stops and starts
\* (claimNodeReportOn, carry.json).
CountedOnce == \A u \in Units : counted[u] <= 1

\* A report is let go of only once it is booked (nodeapi.SyncResponse: "highest
\* ReportID the panel has ingested"), also when the panel could not store it or
\* had stored it before - if the panel believed the node as the request came
\* in. The answer to a node switched off acknowledges what was not booked; it
\* is heard when the node was switched on again during the hold.
LetGo == events' = events /\ agent.rid # 0 /\ agent'.rid = 0
BelievedAckMeansCounted ==
  [][LetGo /\ agent.mail.believed => \A u \in agent.inflight : counted[u] = 1]_vars

\* What was asked for once is done once at most, whichever of two requests
\* carries it and whatever restarts (takeCmd).
UpdatesOnce == updates <= asks

\* A request is held only while there is nothing to tell: every edit either
\* still has its wake to come or has reached it (handleNodeSync: "no lost
\* wakeup"). It is so but for two gaps, which only the timer of the hold
\* closes: a switch between the lookup of the node and the taking of its
\* channel, and a change another node's poll read before the loop compared.
OnItsWay == waking \/ sync.kick \/ sync.at # "idle"
Overslept(s) ==
  /\ handler[s].at = "hold" /\ ~handler[s].woken /\ ~OnItsWay
  /\ handler[s].on # db.enabled \/ (handler[s].on /\ handler[s].has # db.want)
HeldIsCurrent == \A s \in Slots : Overslept(s) => handler[s].missed

\* In the end the node runs what the panel wants, and serves if and only if it
\* is switched on.
Follows == <>[](IF db.enabled THEN agent.ver = db.want /\ ~agent.revoked ELSE agent.revoked)

\* Traffic is booked in the end, through stops and updates of the agent, unless
\* the agent is killed, switched off, or switched on during a hold (`dropped`).
TrafficArrives == []<>((\A u \in sampled : counted[u] = 1) \/ dropped \/ ~db.enabled)
=============================================================================
