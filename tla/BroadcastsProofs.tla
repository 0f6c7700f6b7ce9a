---------------------------- MODULE BroadcastsProofs ----------------------------
(***************************************************************************)
(* Proofs about Broadcasts and the Outbox under them: nobody is written to *)
(* twice, a run that is done is drained, a cancelled one stays cancelled,  *)
(* and the event that announces it is neither lost nor repeated, for any   *)
(* broadcasts, chats, endpoints, operators and faults. The inductive       *)
(* invariant follows a delivery from its row to its job and back, and a    *)
(* broadcast from its launch to the worker that delivers it.               *)
(***************************************************************************)
EXTENDS Broadcasts, TLAPS

----------------------------------------------------------------------------
(* Deliveries                                                              *)

RowType == [at: {"none", "due", "leased", "later"}, attempt: 0..MaxAttempts]
JobType == [at: {"none", "held", "drop", "queued", "sent"}, attempt: 0..MaxAttempts,
            result: {"none", "ok", "failed"}]
EmitterType == [at: {"idle", "store"}, to: SUBSET Hooks]

(* What is posted was leased before; every attempt recorded was refused;   *)
(* an event is stored once; a delivery taken without a doubt is on its way *)
(* to be settled, or gone.                                                 *)
Tried(r) ==
  /\ outbox[r].attempt < MaxAttempts /\ outbox[r].attempt <= refused[r]
  /\ job[r].at # "none" => outbox[r].at \in {"none", "leased"}
  /\ job[r].at # "none" => job[r].attempt <= refused[r] + 1
Answered(r) ==
  job[r].at = "sent" =>
    /\ job[r].result \in {"ok", "failed"}
    /\ job[r].result = "ok" => received[r] > 0
    /\ job[r].result = "failed" => job[r].attempt <= refused[r]
Fresh(r) == outbox[r] = NoRow /\ job[r].at = "none" /\ received[r] = 0
Taken(r) ==
  /\ received[r] = 1
  /\ (job[r].at = "sent" /\ job[r].result = "ok") \/ (job[r].at = "none" /\ outbox[r] = NoRow)
Delivery(r) ==
  /\ Tried(r) /\ Answered(r)
  /\ emitter[EventOf(r)].at = "store" => Fresh(r)
  /\ r \notin doubtful /\ received[r] > 0 => Taken(r)
Deliveries == \A r \in Rows : Delivery(r)

(* What a delivery is of and where it goes.                                 *)
LEMMA EventsOfRows == \A r \in Rows : EventOf(r) \in Events /\ To(r) \in Hooks
  BY DEF Rows, EventOf, To

(* The empty values are values.                                             *)
LEMMA NothingYet == NoRow \in RowType /\ NoJob \in JobType /\ NotEmitting \in EmitterType
  BY OutboxAssumption DEF NoRow, NoJob, NotEmitting, RowType, JobType, EmitterType

OutboxTyped ==
  /\ outbox \in [Rows -> RowType] /\ job \in [Rows -> JobType] /\ on \subseteq Hooks
  /\ emitter \in [Events -> EmitterType]
  /\ received \in [Rows -> Nat] /\ refused \in [Rows -> Nat]
  /\ doubtful \subseteq Rows /\ faults \in 0..MaxFaults

(* The type invariant of the outbox, taken apart.                           *)
LEMMA OutboxPieces == OutboxTypeOK <=> OutboxTyped
  BY DEF OutboxTypeOK, OutboxTyped, RowType, JobType, EmitterType

(* A row no step touched, but perhaps the emission of its event is over.   *)
Same(r) ==
  /\ outbox'[r] = outbox[r] /\ job'[r] = job[r]
  /\ received'[r] = received[r] /\ refused'[r] = refused[r]
  /\ r \in doubtful' <=> r \in doubtful
  /\ emitter'[EventOf(r)].at = "store" => emitter[EventOf(r)].at = "store"

(* A delivery nobody touches stays in order.                                *)
LEMMA SameDelivery ==
  ASSUME NEW r \in Rows, Delivery(r), Same(r) PROVE Delivery(r)'
  BY DEF Delivery, Tried, Answered, Fresh, Taken, Same

(* Faults are counted up to their limit.                                    *)
LEMMA FaultTyped ==
  ASSUME faults \in 0..MaxFaults, Fine \/ \E kind \in {"post", "store", "crash", "off"} : Fault(kind)
  PROVE faults' \in 0..MaxFaults
  BY OutboxAssumption DEF Fine, Fault

(* At a boot there is no delivery.                                          *)
LEMMA OutboxBegins ==
  ASSUME OutboxInit PROVE OutboxTyped /\ Deliveries
<1>1. OutboxTyped
  BY NothingYet, OutboxAssumption DEF OutboxInit, OutboxTyped
<1>2. ASSUME NEW r \in Rows PROVE Delivery(r)
  BY <1>2, EventsOfRows, OutboxAssumption
     DEF OutboxInit, Delivery, Tried, Answered, Fresh, Taken, NoRow, NoJob, NotEmitting
<1> QED
  BY <1>1, <1>2 DEF Deliveries

(* An event is written for the endpoints on, once.                          *)
LEMMA EnqueueKeeps ==
  ASSUME OutboxTyped, Deliveries, NEW e \in Events, NEW stored \in BOOLEAN, Enqueue(e, stored)
  PROVE OutboxTyped' /\ Deliveries'
<1> USE DEF OutboxTyped
<1>1. faults' \in 0..MaxFaults
  BY FaultTyped DEF Enqueue
<1>2. emitter' \in [Events -> EmitterType] /\ emitter'[e].at = "idle"
  BY NothingYet DEF Enqueue, NotEmitting
<1>3. [at |-> "due", attempt |-> 0] \in RowType
  BY OutboxAssumption DEF RowType
<1>4. outbox' \in [Rows -> RowType]
  BY <1>3 DEF Enqueue
<1>5. OutboxTyped'
  BY <1>1, <1>2, <1>4 DEF Enqueue
<1>6. ASSUME NEW r \in Rows PROVE Delivery(r)'
  <2>1. CASE stored /\ EventOf(r) = e /\ To(r) \in emitter[e].to
    <3>1. outbox'[r] = [at |-> "due", attempt |-> 0]
      BY <2>1, <1>6 DEF Enqueue
    <3>2. Fresh(r) /\ Delivery(r)
      BY <2>1, <1>6 DEF Enqueue, Deliveries, Delivery
    <3>3. job'[r].at = "none" /\ received'[r] = 0 /\ refused'[r] = refused[r] /\ refused[r] \in Nat
      BY <3>2, <1>6 DEF Enqueue, Fresh
    <3>4. emitter'[EventOf(r)].at = "idle"
      BY <1>2, <2>1
    <3> QED
      BY <3>1, <3>3, <3>4, OutboxAssumption DEF Delivery, Tried, Answered, Fresh, Taken
  <2>2. CASE ~(stored /\ EventOf(r) = e /\ To(r) \in emitter[e].to)
    <3>1. outbox'[r] = outbox[r]
      BY <2>2, <1>6 DEF Enqueue
    <3>2. emitter'[EventOf(r)].at = "store" => emitter[EventOf(r)].at = "store"
      BY <1>2, <1>6, EventsOfRows DEF Enqueue
    <3>3. Same(r)
      BY <3>1, <3>2 DEF Enqueue, Same
    <3> QED
      BY <3>3, <1>6, SameDelivery DEF Deliveries
  <2> QED
    BY <2>1, <2>2
<1> QED
  BY <1>5, <1>6 DEF Deliveries

(* Who is to get an event is looked up while it has no rows.                *)
LEMMA LookUpKeeps ==
  ASSUME OutboxTyped, Deliveries, NEW e \in Events, LookUp(e),
         \A r \in Rows : EventOf(r) = e => Fresh(r),
         Fine, UNCHANGED <<outbox, job, on, received, refused, doubtful>>
  PROVE OutboxTyped' /\ Deliveries'
<1>1. [at |-> "store", to |-> on] \in EmitterType
  BY DEF OutboxTyped, EmitterType
<1>2. OutboxTyped'
  BY <1>1 DEF LookUp, Fine, OutboxTyped
<1>3. ASSUME NEW r \in Rows PROVE Delivery(r)'
  <2>1. CASE EventOf(r) = e
    BY <1>3, <2>1 DEF Deliveries, Delivery, Tried, Answered, Fresh, Taken
  <2>2. CASE EventOf(r) # e
    <3>1. Same(r)
      BY <2>2, EventsOfRows DEF LookUp, Same, OutboxTyped
    <3> QED
      BY <3>1, <1>3, SameDelivery DEF Deliveries
  <2> QED
    BY <2>1, <2>2
<1> QED
  BY <1>2, <1>3 DEF Deliveries

(* One row changes, the others stay. *)
LEMMA OneRow ==
  ASSUME Deliveries, NEW q \in Rows, Delivery(q)', \A r \in Rows \ {q} : Same(r)
  PROVE Deliveries'
<1>1. ASSUME NEW r \in Rows PROVE Delivery(r)'
  <2>1. CASE r = q
    BY <2>1
  <2>2. CASE r # q
    BY <2>2, <1>1, SameDelivery DEF Deliveries
  <2> QED
    BY <2>1, <2>2
<1> QED
  BY <1>1 DEF Deliveries

(* A row that is due is leased.                                             *)
LEMMA LeaseKeeps ==
  ASSUME OutboxTyped, Deliveries, NEW q \in Rows, Lease(q) PROVE OutboxTyped' /\ Deliveries'
<1> USE DEF OutboxTyped
<1>1. outbox[q] \in RowType /\ job[q] \in JobType /\ Delivery(q) /\ refused[q] \in Nat
  BY DEF Deliveries
<1>2. [outbox[q] EXCEPT !.at = "leased"] \in RowType
  BY <1>1 DEF RowType
<1>3. outbox' = [outbox EXCEPT ![q] = [outbox[q] EXCEPT !.at = "leased"]]
  BY DEF Lease, Leased
<1>4. outbox[q].attempt \in Nat /\ outbox[q].attempt + 1 <= MaxAttempts /\ outbox[q].attempt <= refused[q]
  BY <1>1, OutboxAssumption DEF RowType, Delivery, Tried
<1>5. [at |-> "held", attempt |-> outbox[q].attempt + 1, result |-> "none"] \in JobType
  BY <1>4, OutboxAssumption DEF JobType
<1>6. OutboxTyped'
  BY <1>2, <1>3, <1>5, FaultTyped DEF Lease, Fine
<1>7. outbox'[q].at = "leased" /\ outbox'[q].attempt = outbox[q].attempt
  BY <1>1, <1>3 DEF RowType
<1>8. job'[q] = [at |-> "held", attempt |-> outbox[q].attempt + 1, result |-> "none"]
  BY DEF Lease
<1>9. ~Fresh(q) /\ ~Taken(q) /\ outbox[q].at = "due"
  BY <1>1 DEF Lease, Fresh, Taken, NoRow, Delivery, Tried
<1>10. Delivery(q)'
  BY <1>1, <1>4, <1>7, <1>8, <1>9 DEF Lease, Delivery, Tried, Answered
<1>11. \A r \in Rows \ {q} : Same(r)
  BY <1>3 DEF Lease, Same
<1> QED
  BY <1>6, <1>10, <1>11, OneRow

(* What is left leased has lost its job alone.                              *)
LEMMA LeftKeeps ==
  ASSUME OutboxTyped, Deliveries, NEW q \in Rows, job[q].at \in {"held", "drop"}, LeftLeased(q),
         UNCHANGED <<on, emitter, received, refused, doubtful>>
  PROVE  OutboxTyped' /\ Deliveries'
<1> USE DEF OutboxTyped
<1>1. Delivery(q) /\ refused[q] \in Nat /\ job'[q] = NoJob
  BY DEF Deliveries, LeftLeased
<1>2. OutboxTyped'
  BY NothingYet, FaultTyped DEF LeftLeased
<1>3. Delivery(q)'
  BY <1>1 DEF LeftLeased, Delivery, Tried, Answered, Fresh, Taken, NoJob
<1>4. \A r \in Rows \ {q} : Same(r)
  BY DEF LeftLeased, Same
<1> QED
  BY <1>2, <1>3, <1>4, OneRow

(* What was leased is queued, or to be dropped, or left leased.             *)
LEMMA DispatchKeeps ==
  ASSUME OutboxTyped, Deliveries, NEW q \in Rows, DispatchWebhook(q) PROVE OutboxTyped' /\ Deliveries'
<1> USE DEF OutboxTyped
<1>1. job[q] \in JobType /\ Delivery(q) /\ job[q].at = "held"
  BY DEF Deliveries, DispatchWebhook
<1>2. CASE LeftLeased(q)
  BY <1>1, <1>2, LeftKeeps DEF DispatchWebhook
<1>3. CASE ~LeftLeased(q)
  <2>1. PICK to \in {"queued", "drop"} : job' = [job EXCEPT ![q] = [job[q] EXCEPT !.at = to]]
    BY <1>3 DEF DispatchWebhook
  <2>2. Fine /\ UNCHANGED <<outbox, on, emitter, received, refused, doubtful>>
    BY <1>3 DEF DispatchWebhook
  <2>3. [job[q] EXCEPT !.at = to] \in JobType
    BY <1>1 DEF JobType
  <2>4. OutboxTyped'
    BY <2>1, <2>2, <2>3, FaultTyped DEF Fine
  <2>5. job'[q].at = to /\ job'[q].attempt = job[q].attempt
    BY <1>1, <2>1 DEF JobType
  <2>6. Delivery(q)'
    BY <1>1, <2>2, <2>5 DEF Delivery, Tried, Answered, Fresh, Taken
  <2>7. \A r \in Rows \ {q} : Same(r)
    BY <2>1, <2>2 DEF Same
  <2> QED
    BY <2>4, <2>6, <2>7, OneRow
<1> QED
  BY <1>2, <1>3

(* A delivery to an endpoint that is off or deleted goes.                   *)
LEMMA DropKeeps ==
  ASSUME OutboxTyped, Deliveries, NEW q \in Rows, Drop(q) PROVE OutboxTyped' /\ Deliveries'
<1> USE DEF OutboxTyped
<1>1. Delivery(q) /\ job[q].at = "drop" /\ refused[q] \in Nat
  BY DEF Deliveries, Drop
<1>2. CASE LeftLeased(q)
  BY <1>1, <1>2, LeftKeeps DEF Drop
<1>3. CASE ~LeftLeased(q)
  <2>1. OutboxTyped'
    BY <1>3, NothingYet, FaultTyped DEF Drop, Fine
  <2>2. job'[q] = NoJob /\ outbox'[q] = NoRow
    BY <1>3 DEF Drop
  <2>3. Delivery(q)'
    BY <1>1, <2>2, OutboxAssumption DEF Drop, Delivery, Tried, Answered, Fresh, Taken, NoRow, NoJob
  <2>4. \A r \in Rows \ {q} : Same(r)
    BY <1>3 DEF Drop, Same
  <2> QED
    BY <2>1, <2>3, <2>4, OneRow
<1> QED
  BY <1>2, <1>3

(* A post that arrived leaves a doubt if it seems to have failed.           *)
LEMMA PostKeeps ==
  ASSUME OutboxTyped, Deliveries, NEW q \in Rows, Post(q) PROVE OutboxTyped' /\ Deliveries'
<1> USE DEF OutboxTyped
<1>1. /\ job[q] \in JobType /\ Delivery(q) /\ job[q].at = "queued"
      /\ refused[q] \in Nat /\ received[q] \in Nat
  BY DEF Deliveries, Post
<1>2. PICK how \in {"ok", "failed"} :
        job' = [job EXCEPT ![q] = [job[q] EXCEPT !.at = "sent", !.result = how]]
  BY DEF Post
<1>3. [job[q] EXCEPT !.at = "sent", !.result = how] \in JobType
  BY <1>1 DEF JobType
<1>4. job' \in [Rows -> JobType]
  BY <1>2, <1>3
<1>5. faults' \in 0..MaxFaults
  BY FaultTyped DEF Post
<1>6. received' \in [Rows -> Nat] /\ refused' \in [Rows -> Nat] /\ doubtful' \subseteq Rows
  BY <1>1 DEF Post
<1>7. OutboxTyped'
  BY <1>4, <1>5, <1>6 DEF Post
<1>8. job'[q].at = "sent" /\ job'[q].result = how /\ job'[q].attempt = job[q].attempt /\ job[q].attempt \in Nat
  BY <1>1, <1>2 DEF JobType
<1>9. q \notin doubtful => received[q] = 0
  BY <1>1 DEF Delivery, Taken
<1>10. ~Fresh(q) /\ Tried(q)
  BY <1>1 DEF Fresh, Delivery
<1>11. \/ how = "ok" /\ received'[q] = received[q] + 1 /\ refused'[q] = refused[q] /\ doubtful' = doubtful
       \/ how = "failed" /\ refused'[q] = refused[q] + 1 /\ q \in doubtful'
       \/ how = "failed" /\ refused'[q] = refused[q] + 1 /\ doubtful' = doubtful /\ received'[q] = received[q]
  <2> DEFINE Posted(what) == job' = [job EXCEPT ![q].at = "sent", ![q].result = what]
  <2>1. \A what \in {"ok", "failed"} : Posted(what) => how = what
    BY <1>1, <1>8 DEF JobType
  <2> HIDE DEF Posted
  <2>2. \/ Posted("ok") /\ received' = [received EXCEPT ![q] = @ + 1] /\ refused' = refused /\ doubtful' = doubtful
        \/ Posted("failed") /\ refused' = [refused EXCEPT ![q] = @ + 1] /\ doubtful' = doubtful \union {q}
        \/ Posted("failed") /\ refused' = [refused EXCEPT ![q] = @ + 1] /\ doubtful' = doubtful /\ received' = received
    BY DEF Post, Posted
  <2> QED
    BY <2>1, <2>2
<1>12. Tried(q)'
  BY <1>1, <1>8, <1>10, <1>11 DEF Tried, Post, RowType
<1>13. Answered(q)'
  BY <1>1, <1>8, <1>10, <1>11 DEF Tried, Answered
<1>14. Delivery(q)'
  BY <1>1, <1>8, <1>9, <1>10, <1>11, <1>12, <1>13 DEF Delivery, Taken, Post
<1>15. \A r \in Rows \ {q} : Same(r)
  BY <1>2 DEF Post, Same
<1> QED
  BY <1>7, <1>14, <1>15, OneRow

(* Time brings back rows whose lease or backoff is over.                    *)
LEMMA ComesDueKeeps ==
  ASSUME OutboxTyped, Deliveries, NEW q \in Rows, ComesDue(q) PROVE OutboxTyped' /\ Deliveries'
<1> USE DEF OutboxTyped
<1>1. outbox[q] \in RowType /\ Delivery(q) /\ outbox[q].at \in {"later", "leased"}
  BY DEF Deliveries, ComesDue, Lapsed
<1>2. outbox' = [outbox EXCEPT ![q] = [outbox[q] EXCEPT !.at = "due"]]
  BY DEF ComesDue
<1>3. [outbox[q] EXCEPT !.at = "due"] \in RowType
  BY <1>1 DEF RowType
<1>4. OutboxTyped'
  BY <1>2, <1>3, FaultTyped DEF ComesDue, Fine
<1>5. outbox'[q].at = "due" /\ outbox'[q].attempt = outbox[q].attempt
  BY <1>1, <1>2 DEF RowType
<1>6. job[q].at = "none"
  BY <1>1 DEF ComesDue, Lapsed, Delivery, Tried
<1>7. ~Fresh(q) /\ ~Taken(q)
  BY <1>1, <1>6 DEF Fresh, Taken, NoRow
<1>8. Delivery(q)'
  BY <1>1, <1>5, <1>6, <1>7 DEF ComesDue, Delivery, Tried, Answered
<1>9. \A r \in Rows \ {q} : Same(r)
  BY <1>2 DEF ComesDue, Same
<1> QED
  BY <1>4, <1>8, <1>9, OneRow

(* A post is settled: its row goes, waits or is given up.                   *)
LEMMA SettleKeeps ==
  ASSUME OutboxTyped, Deliveries, NEW q \in Rows, NEW stored \in BOOLEAN, Settle(q, stored)
  PROVE OutboxTyped' /\ Deliveries'
<1> USE DEF OutboxTyped
<1>1. /\ job[q] \in JobType /\ outbox[q] \in RowType /\ Delivery(q) /\ job[q].at = "sent"
      /\ refused[q] \in Nat /\ received[q] \in Nat
  BY DEF Deliveries, Settle
<1>2. job[q].attempt \in 0..MaxAttempts
  BY <1>1 DEF JobType
<1>3. [at |-> "later", attempt |-> job[q].attempt] \in RowType
  BY <1>2 DEF RowType
<1>4. outbox' \in [Rows -> RowType] /\ job' \in [Rows -> JobType]
  BY <1>3, NothingYet DEF Settle
<1>5. faults' \in 0..MaxFaults
  BY FaultTyped DEF Settle
<1>6. OutboxTyped'
  BY <1>4, <1>5 DEF Settle
<1>7. job'[q] = NoJob /\ received'[q] = received[q] /\ refused'[q] = refused[q]
  BY DEF Settle
<1>8. Answered(q) /\ Tried(q)
  BY <1>1 DEF Delivery
<1>9. \/ outbox'[q] = NoRow
      \/ /\ outbox'[q] = [at |-> "later", attempt |-> job[q].attempt] /\ ~Finished(q)
      \/ outbox'[q] = outbox[q] /\ ~stored
  BY DEF Settle
<1>10. Tried(q)'
  BY <1>1, <1>2, <1>7, <1>8, <1>9, OutboxAssumption DEF Tried, Answered, Finished, NoRow, NoJob
<1>11. ~Fresh(q)
  BY <1>1 DEF Fresh
<1>12. ASSUME q \notin doubtful', received'[q] > 0 PROVE Taken(q)'
  <2>1. q \notin doubtful /\ stored /\ job[q].result = "ok" /\ received[q] = 1
    BY <1>1, <1>7, <1>12 DEF Settle, Delivery, Taken
  <2>2. outbox'[q] = NoRow
    BY <2>1 DEF Settle, Finished
  <2> QED
    BY <2>1, <2>2, <1>7 DEF Taken, NoJob
<1>13. Delivery(q)'
  BY <1>1, <1>7, <1>10, <1>11, <1>12 DEF Settle, Delivery, Answered, NoJob
<1>14. \A r \in Rows \ {q} : Same(r)
  BY DEF Settle, Same
<1> QED
  BY <1>6, <1>13, <1>14, OneRow

(* Switching an endpoint on or off touches no delivery.                     *)
LEMMA SwitchKeeps ==
  ASSUME OutboxTyped, Deliveries, NEW h \in Hooks, Switch(h) PROVE OutboxTyped' /\ Deliveries'
<1>1. OutboxTyped'
  BY FaultTyped DEF OutboxTyped, Switch
<1>2. \A r \in Rows : Same(r)
  BY DEF Switch, Same
<1> QED
  BY <1>1, <1>2, SameDelivery DEF Deliveries

(* An endpoint takes its rows with it.                                      *)
LEMMA DeleteKeeps ==
  ASSUME OutboxTyped, Deliveries, NEW h \in Hooks, DeleteWebhook(h) PROVE OutboxTyped' /\ Deliveries'
<1>1. OutboxTyped'
  BY NothingYet, FaultTyped DEF OutboxTyped, DeleteWebhook
<1>2. ASSUME NEW r \in Rows PROVE Delivery(r)'
  <2>1. CASE To(r) # h \/ outbox'[r] = outbox[r]
    <3>1. Same(r)
      BY <2>1, <1>2 DEF DeleteWebhook, Same
    <3> QED
      BY <3>1, <1>2, SameDelivery DEF Deliveries
  <2>2. CASE To(r) = h /\ outbox'[r] # outbox[r]
    <3>1. outbox'[r] = NoRow /\ Delivery(r) /\ refused[r] \in Nat
      BY <2>2, <1>2 DEF DeleteWebhook, Deliveries, OutboxTyped
    <3> QED
      BY <3>1, OutboxAssumption DEF DeleteWebhook, Delivery, Tried, Answered, Fresh, Taken, NoRow
  <2> QED
    BY <2>1, <2>2
<1> QED
  BY <1>1, <1>2 DEF Deliveries

(* A restart drops the jobs, what was posted becomes doubtful.              *)
LEMMA LostKeeps ==
  ASSUME OutboxTyped, Deliveries, OutboxLost, faults' \in 0..MaxFaults PROVE OutboxTyped' /\ Deliveries'
<1>1. OutboxTyped'
  BY NothingYet DEF OutboxTyped, OutboxLost
<1>2. ASSUME NEW r \in Rows PROVE Delivery(r)'
  <2>1. Delivery(r) /\ job'[r] = NoJob /\ emitter'[EventOf(r)].at = "idle"
    BY <1>2, EventsOfRows DEF OutboxLost, NotEmitting, Deliveries
  <2>2. outbox'[r] = outbox[r] /\ refused'[r] = refused[r] /\ received'[r] = received[r]
    BY DEF OutboxLost
  <2>3. ASSUME r \notin doubtful', received'[r] > 0 PROVE Taken(r)'
    <3>1. r \notin doubtful /\ ~(job[r].at = "sent" /\ job[r].result = "ok")
      BY <1>2, <2>3 DEF OutboxLost
    <3>2. Taken(r)
      BY <2>1, <2>2, <2>3, <3>1 DEF Delivery
    <3> QED
      BY <3>1, <3>2, <2>1, <2>2 DEF Taken, NoJob
  <2> QED
    BY <2>1, <2>2, <2>3 DEF Delivery, Tried, Answered, NoJob
<1> QED
  BY <1>1, <1>2 DEF Deliveries

(* So does every step of the outbox.                                        *)
LEMMA OutboxKeeps ==
  ASSUME OutboxTyped, Deliveries, OutboxNext PROVE OutboxTyped' /\ Deliveries'
<1>1. ASSUME NEW e \in Events, NEW stored \in BOOLEAN, Enqueue(e, stored) PROVE OutboxTyped' /\ Deliveries'
  BY <1>1, EnqueueKeeps
<1>2. ASSUME NEW r \in Rows,
             \/ Lease(r) \/ DispatchWebhook(r) \/ Drop(r) \/ Post(r) \/ ComesDue(r)
             \/ \E stored \in BOOLEAN : Settle(r, stored)
      PROVE OutboxTyped' /\ Deliveries'
  BY <1>2, LeaseKeeps, DispatchKeeps, DropKeeps, PostKeeps, ComesDueKeeps, SettleKeeps
<1>3. ASSUME NEW h \in Hooks, Switch(h) \/ DeleteWebhook(h) PROVE OutboxTyped' /\ Deliveries'
  BY <1>3, SwitchKeeps, DeleteKeeps
<1> QED
  BY <1>1, <1>2, <1>3 DEF OutboxNext, Stored

(* What NothingLost says, of one step. *)
LostOnly ==
  \A r \in Rows : outbox[r] # NoRow /\ outbox'[r] = NoRow =>
    received[r] > 0 \/ refused[r] >= MaxAttempts \/ OffSeen(r)

(* What goes was taken, refused often enough, or of an endpoint that went.  *)
LEMMA StepLosesNothing ==
  ASSUME OutboxTyped, Deliveries, OutboxNext PROVE LostOnly
<1> SUFFICES ASSUME NEW r \in Rows, outbox[r] # NoRow, outbox'[r] = NoRow
             PROVE received[r] > 0 \/ refused[r] >= MaxAttempts \/ OffSeen(r)
  BY DEF LostOnly
<1> USE DEF OutboxTyped
<1>1. ASSUME NEW e \in Events, NEW stored \in BOOLEAN, Enqueue(e, stored) PROVE FALSE
  BY <1>1 DEF Enqueue, NoRow
<1>2. ASSUME NEW q \in Rows, Lease(q) PROVE FALSE
  <2>1. outbox'[r] = outbox[r] \/ (r = q /\ outbox'[r].at = "leased")
    BY <1>2 DEF Lease, Leased, RowType
  <2> QED
    BY <2>1 DEF NoRow
<1>3. ASSUME NEW q \in Rows, ComesDue(q) PROVE FALSE
  <2>1. outbox'[r] = outbox[r] \/ (r = q /\ outbox'[r].at = "due")
    BY <1>3 DEF ComesDue, RowType
  <2> QED
    BY <2>1 DEF NoRow
<1>4. ASSUME NEW q \in Rows, DispatchWebhook(q) \/ Post(q) PROVE FALSE
  BY <1>4 DEF DispatchWebhook, LeftLeased, Post
<1>5. ASSUME NEW q \in Rows, Drop(q) PROVE OffSeen(r)
  BY <1>5 DEF Drop, LeftLeased, OffSeen
<1>6. ASSUME NEW q \in Rows, NEW stored \in BOOLEAN, Settle(q, stored)
      PROVE received[r] > 0 \/ refused[r] >= MaxAttempts
  <2>1. r = q /\ stored /\ Finished(q) /\ job[q].at = "sent"
    BY <1>6 DEF Settle, NoRow
  <2>2. Answered(r) /\ job[r] \in JobType /\ refused[r] \in Nat
    BY DEF Deliveries, Delivery
  <2> QED
    BY <2>1, <2>2, OutboxAssumption DEF Answered, Finished, JobType
<1>7. ASSUME NEW h \in Hooks, Switch(h) PROVE FALSE
  BY <1>7 DEF Switch
<1>8. ASSUME NEW h \in Hooks, DeleteWebhook(h) PROVE OffSeen(r)
  BY <1>8 DEF DeleteWebhook, OffSeen
<1> QED
  BY <1>1, <1>2, <1>3, <1>4, <1>5, <1>6, <1>7, <1>8 DEF OutboxNext, Stored

----------------------------------------------------------------------------
(* Broadcasts                                                              *)

LaunchAts == {"idle", "audience", "targets", "start", "emit", "end", "abandon", "cancel"}
LaunchType == [at: LaunchAts, planned: BOOLEAN, chats: SUBSET Chats]
TargetStates == {"none", "pending", "sent", "failed", "blocked", "skipped"}
Flights == {"none", "sent", "failed", "rejected", "blocked"}
WorkerType == [at: {"idle", "picked", "send", "finish", "close"}, b: Broadcasts \union {0},
               todo: SUBSET Chats, flight: [Chats -> Flights], lost: BOOLEAN]
ControlType == [at: {"idle", "write"}, b: Broadcasts \union {0}, to: Statuses]

StatusTyped == status \in [Broadcasts -> Statuses]
LaunchTyped == launch \in [Broadcasts -> LaunchType]
TargetTyped == target \in [Broadcasts -> [Chats -> TargetStates]]
WorkerTyped == worker \in WorkerType
GotTyped == got \in [Broadcasts -> [Chats -> Nat]] /\ unsure \subseteq Broadcasts \X Chats

(* What an operator is about to write is none of the launch's states. *)
ControlTyped ==
  /\ control \in [Operators -> ControlType]
  /\ \A o \in Operators : control[o].at = "write" =>
       control[o].b \in Broadcasts /\ control[o].to \in {"paused", "running", "cancelled"}
SidesTyped ==
  /\ reachable \subseteq Chats /\ announces \subseteq Broadcasts /\ parked \subseteq Broadcasts
  /\ controls \in 0..MaxControls /\ hasty \subseteq Broadcasts
MailTyped ==
  StatusTyped /\ LaunchTyped /\ TargetTyped /\ WorkerTyped /\ GotTyped /\ ControlTyped /\ SidesTyped

(* The batch in hand is pending; without a batch nothing is under way.     *)
Working ==
  /\ worker.at # "idle" => worker.b \in Broadcasts
  /\ worker.at # "send" => worker.todo = {} /\ \A c \in Chats : worker.flight[c] = "none"
  /\ \A c \in worker.todo : worker.flight[c] = "none"
  /\ \A c \in Chats : c \in worker.todo \/ worker.flight[c] # "none" => target[worker.b][c] = "pending"

(* A message that arrived is recorded, or about to be.                     *)
Recorded(b, c) == target[b][c] = "sent" \/ (worker.b = b /\ worker.flight[c] = "sent")
GotOnce ==
  \A b \in Broadcasts, c \in Chats :
    <<b, c>> \notin unsure /\ got[b][c] > 0 => got[b][c] = 1 /\ Recorded(b, c)

(* A broadcast that runs, has run or is in the worker's hands has left the *)
(* part of its launch that writes recipients. When the worker closes it,   *)
(* nobody is pending, and one that was done before it was closed has no    *)
(* recipients at all.                                                      *)
LaunchOver == {"idle", "emit", "end", "abandon", "cancel"}
Begun(b) == launch[b].at \in LaunchOver /\ status[b] \notin {"none", "scheduled"}
Busy(b) == worker.at # "idle" /\ worker.b = b
NobodyPending(b) == \A c \in Chats : target[b][c] # "pending"

Unmade == \A b \in Broadcasts : status[b] \in {"none", "scheduled"} => launch[b].at = "idle"
Begins == \A b \in Broadcasts \ hasty : status[b] \in {"running", "done"} \/ Busy(b) => Begun(b)
Ends ==
  \A b \in Broadcasts \ hasty :
    /\ Busy(b) /\ worker.at = "close" => NobodyPending(b)
    /\ Busy(b) /\ status[b] = "done" => Unaddressed(b)
    /\ status[b] = "done" => NobodyPending(b)
Ordered == Unmade /\ Begins /\ Ends

(* The event of a broadcast is stored after its launch let go of it.       *)
ToldAts == {"idle", "end", "abandon", "cancel"}
Told(e) == e \in Broadcasts /\ launch[e].at \in ToldAts /\ status[e] \notin {"none", "scheduled"}
Announced ==
  /\ \A e \in Events : emitter[e].at = "store" => Told(e)
  /\ \A r \in Rows : ~Fresh(r) => Told(EventOf(r))

Inv ==
  /\ OutboxTyped /\ Deliveries /\ MailTyped
  /\ Working /\ GotOnce /\ Ordered /\ Announced

(* The invariant gives the types.                                           *)
LEMMA InvTypes == Inv => TypeOK
  BY OutboxPieces
     DEF Inv, TypeOK, MailTyped, StatusTyped, LaunchTyped, TargetTyped, WorkerTyped, GotTyped, ControlTyped,
         SidesTyped, LaunchType, LaunchAts, TargetStates, WorkerType, Flights, ControlType

(* Who does nothing has nothing in hand.                                    *)
LEMMA Blanks ==
  /\ Grounded \in LaunchType /\ Grounded.at = "idle"
  /\ Resting \in WorkerType /\ Resting.at = "idle" /\ Resting.todo = {}
  /\ \A c \in Chats : Resting.flight[c] = "none"
  /\ NoControl \in ControlType /\ NoControl.at = "idle"
  BY DEF Grounded, Resting, NoControl, LaunchType, LaunchAts, WorkerType, Flights, ControlType, Statuses

(* A broadcast is told from none, and announced by its own event.           *)
LEMMA IdsAreIds == \A b \in Broadcasts : b \in Nat /\ b # 0 /\ b \in Events
  BY BroadcastsAssumption

(* The invariant at a boot.                                                 *)
LEMMA Begin == Init => Inv
<1> SUFFICES ASSUME Init PROVE Inv
  OBVIOUS
<1>1. OutboxTyped /\ Deliveries
  BY OutboxBegins DEF Init
<1>2. StatusTyped /\ LaunchTyped /\ WorkerTyped /\ SidesTyped
  BY Blanks, BroadcastsAssumption DEF Init, StatusTyped, LaunchTyped, WorkerTyped, SidesTyped, Statuses
<1>3. TargetTyped /\ GotTyped
  BY DEF Init, TargetTyped, GotTyped, TargetStates
<1>4. ControlTyped
  BY Blanks DEF Init, ControlTyped
<1>5. Working
  BY Blanks DEF Init, Working
<1>6. GotOnce
  BY DEF Init, GotOnce
<1>7. Ordered
  BY Blanks DEF Init, Ordered, Unmade, Begins, Ends, Busy
<1>8. Announced
  BY EventsOfRows DEF Init, OutboxInit, Announced, Fresh, NoJob, NotEmitting
<1> QED
  BY <1>1, <1>2, <1>3, <1>4, <1>5, <1>6, <1>7, <1>8 DEF Inv, MailTyped

----------------------------------------------------------------------------
(* How a step may move a broadcast                                         *)

(* One broadcast is at status s and its launch at l now; the others stay.  *)
Alters(b, s, l) ==
  /\ StatusTyped' /\ LaunchTyped'
  /\ status'[b] = s /\ launch'[b].at = l
  /\ \A a \in Broadcasts \ {b} : status'[a] = status[a] /\ launch'[a].at = launch[a].at

(* A status write is of one broadcast.                                      *)
LEMMA SetsStatus ==
  ASSUME StatusTyped, NEW b \in Broadcasts, NEW to \in Statuses, SetStatus(b, to)
  PROVE StatusTyped' /\ status'[b] = to /\ \A a \in Broadcasts \ {b} : status'[a] = status[a]
  BY DEF StatusTyped, SetStatus

(* A conditional one too, and only from that status.                        *)
LEMMA SetsStatusIf ==
  ASSUME StatusTyped, NEW b \in Broadcasts, NEW from, NEW to \in Statuses, SetStatusIf(b, from, to)
  PROVE /\ StatusTyped' /\ status'[b] = IF status[b] = from THEN to ELSE status[b]
        /\ \A a \in Broadcasts \ {b} : status'[a] = status[a]
  BY DEF StatusTyped, SetStatusIf

(* A launch moves alone.                                                    *)
LEMMA PutsLaunch ==
  ASSUME LaunchTyped, NEW b \in Broadcasts, NEW pc \in LaunchAts, PutLaunch(b, pc)
  PROVE LaunchTyped' /\ launch'[b].at = pc /\ \A a \in Broadcasts \ {b} : launch'[a].at = launch[a].at
<1>1. launch[b] \in LaunchType
  BY DEF LaunchTyped
<1>2. [launch[b] EXCEPT !.at = pc] \in LaunchType /\ [launch[b] EXCEPT !.at = pc].at = pc
  BY <1>1 DEF LaunchType
<1>3. PICK new \in LaunchType : new.at = pc /\ launch' = [launch EXCEPT ![b] = new]
  BY <1>2, Blanks DEF PutLaunch
<1> QED
  BY <1>3 DEF LaunchTyped

Calm == UNCHANGED <<outbox, job, on, emitter, received, refused, doubtful>> /\ faults' \in 0..MaxFaults

(* Steps that leave the outbox alone.                                       *)
LEMMA CalmKeeps ==
  ASSUME OutboxTyped, Deliveries, Calm PROVE OutboxTyped' /\ Deliveries'
<1>1. \A r \in Rows : Same(r)
  BY DEF Calm, Same
<1> QED
  BY <1>1, SameDelivery DEF Calm, OutboxTyped, Deliveries

(* Such steps are calm for the outbox.                                      *)
LEMMA Calms ==
  ASSUME OutboxTyped, UNCHANGED outboxVars,
         Fine \/ \E kind \in {"post", "store", "crash", "off"} : Fault(kind)
  PROVE Calm
  BY FaultTyped DEF Calm, outboxVars, OutboxTyped

(* What was announced stays announced.                                      *)
LEMMA CalmAnnounced ==
  ASSUME Announced, Calm, \A e \in Events : Told(e) => Told(e)' PROVE Announced'
  BY EventsOfRows DEF Announced, Calm, Fresh

(* Recipients who are written to, or were, stay as they are. *)
TargetsStay == \A b \in Broadcasts, c \in Chats : target[b][c] \in {"pending", "sent"} => target'[b][c] = target[b][c]

(* Work that is not touched, on recipients that stay.                       *)
LEMMA WorkStays ==
  ASSUME WorkerTyped, Working, GotOnce, UNCHANGED <<worker, got, unsure>>, TargetsStay
  PROVE Working' /\ GotOnce'
<1>1. Working'
  <2>1. worker.at # "send" => worker.todo = {} /\ \A c \in Chats : worker.flight[c] = "none"
    BY DEF Working
  <2>2. ASSUME NEW c \in Chats, c \in worker.todo \/ worker.flight[c] # "none"
        PROVE target'[worker.b][c] = "pending"
    <3>1. worker.b \in Broadcasts /\ target[worker.b][c] = "pending"
      BY <2>1, <2>2 DEF Working
    <3> QED
      BY <3>1 DEF TargetsStay
  <2> QED
    BY <2>2 DEF Working
<1>2. GotOnce'
  BY DEF GotOnce, Recorded, TargetsStay
<1> QED
  BY <1>1, <1>2

(* One broadcast moves, while the recipients and the worker stay. *)
LEMMA TurnKeeps ==
  ASSUME Ordered, NEW b \in Broadcasts, NEW s, NEW l, Alters(b, s, l),
         hasty \subseteq hasty', UNCHANGED <<worker, target>>,
         s \in {"none", "scheduled"} => l = "idle",
         b \notin hasty' /\ (s \in {"running", "done"} \/ Busy(b)) =>
           l \in LaunchOver /\ s \notin {"none", "scheduled"},
         b \notin hasty' /\ s = "done" => status[b] = "done" \/ Unaddressed(b)
  PROVE Ordered'
<1>1. Unmade'
  BY DEF Ordered, Unmade, Alters
<1>2. \A a : Busy(a)' <=> Busy(a)
  BY DEF Busy
<1>3. Begins'
  BY <1>2 DEF Ordered, Begins, Begun, Alters
<1>4. \A a : (Unaddressed(a)' <=> Unaddressed(a)) /\ (NobodyPending(a)' <=> NobodyPending(a))
  BY DEF Unaddressed, NobodyPending
<1>5. Unaddressed(b) => NobodyPending(b)
  BY DEF Unaddressed, NobodyPending
<1>6. Ends'
  BY <1>2, <1>4, <1>5 DEF Ordered, Ends, Alters
<1> QED
  BY <1>1, <1>3, <1>6 DEF Ordered

(* No broadcast forgets that it is to be announced.                         *)
LEMMA TurnTells ==
  ASSUME NEW b \in Broadcasts, NEW s, NEW l, Alters(b, s, l),
         Told(b) => l \in ToldAts /\ s \notin {"none", "scheduled"}
  PROVE \A e \in Events : Told(e) => Told(e)'
  BY DEF Told, Alters

(* A step that turns the status or the launch of one broadcast.             *)
LEMMA TurnInv ==
  ASSUME Inv, NEW b \in Broadcasts, NEW s, NEW l, Alters(b, s, l), Calm,
         hasty \subseteq hasty', UNCHANGED <<worker, target, got, unsure>>, ControlTyped', SidesTyped',
         s \in {"none", "scheduled"} => l = "idle",
         b \notin hasty' /\ (s \in {"running", "done"} \/ Busy(b)) =>
           l \in LaunchOver /\ s \notin {"none", "scheduled"},
         b \notin hasty' /\ s = "done" => status[b] = "done" \/ Unaddressed(b),
         Told(b) => l \in ToldAts /\ s \notin {"none", "scheduled"}
  PROVE Inv'
<1>1. OutboxTyped' /\ Deliveries'
  BY CalmKeeps DEF Inv
<1>2. MailTyped'
  BY DEF Inv, MailTyped, Alters, TargetTyped, WorkerTyped, GotTyped
<1>3. Working' /\ GotOnce'
  BY WorkStays DEF Inv, MailTyped, TargetsStay
<1>4. Ordered'
  BY TurnKeeps DEF Inv
<1>5. Announced'
  BY TurnTells, CalmAnnounced DEF Inv
<1> QED
  BY <1>1, <1>2, <1>3, <1>4, <1>5 DEF Inv

(* Nothing moves but what is beside the runs. *)
LEMMA QuietInv ==
  ASSUME Inv, Calm, UNCHANGED <<status, target, launch, worker, got, unsure, hasty>>, ControlTyped', SidesTyped'
  PROVE Inv'
<1>1. OutboxTyped' /\ Deliveries'
  BY CalmKeeps DEF Inv
<1>2. MailTyped'
  BY DEF Inv, MailTyped, StatusTyped, LaunchTyped, TargetTyped, WorkerTyped, GotTyped
<1>3. Working' /\ GotOnce'
  BY WorkStays DEF Inv, MailTyped, TargetsStay
<1>4. Ordered'
  BY DEF Inv, Ordered, Unmade, Begins, Ends, Begun, Busy, NobodyPending, Unaddressed
<1>5. Announced'
  BY CalmAnnounced DEF Inv, Told
<1> QED
  BY <1>1, <1>2, <1>3, <1>4, <1>5 DEF Inv

----------------------------------------------------------------------------
(* Launching                                                               *)

(* A step leaves who can be reached, quarantines and operators alone.       *)
LEMMA SidesStay ==
  ASSUME Inv, UNCHANGED <<reachable, parked, control>>, announces' \subseteq Broadcasts,
         controls' = controls \/ (controls < MaxControls /\ controls' = controls + 1), hasty' \subseteq Broadcasts
  PROVE ControlTyped' /\ SidesTyped'
<1>1. ControlTyped'
  BY DEF Inv, MailTyped, ControlTyped
<1>2. SidesTyped'
  BY BroadcastsAssumption DEF Inv, MailTyped, SidesTyped
<1> QED
  BY <1>1, <1>2

(* The parts of the invariant, for citing.                                  *)
LEMMA InvFacts ==
  ASSUME Inv
  PROVE /\ OutboxTyped /\ StatusTyped /\ LaunchTyped /\ TargetTyped /\ WorkerTyped
        /\ Working /\ GotOnce /\ Unmade /\ Begins /\ Ends
        /\ announces \subseteq Broadcasts /\ hasty \subseteq Broadcasts
        /\ \A b \in Broadcasts : launch[b] \in LaunchType /\ status[b] \in Statuses
  BY DEF Inv, MailTyped, SidesTyped, Ordered, StatusTyped, LaunchTyped

(* A broadcast on its way to its start is neither running nor in hand.     *)
LEMMA OnItsWay ==
  ASSUME Inv, NEW b \in Broadcasts, launch[b].at \notin LaunchOver
  PROVE b \in hasty \/ (~Busy(b) /\ status[b] \notin {"running", "done"})
  BY InvFacts DEF Begins, Begun

(* A broadcast is composed, to be sent now or at a time.                    *)
LEMMA CreateInv ==
  ASSUME Inv, NEW b \in Broadcasts, NEW planned \in BOOLEAN, CreateBroadcast(b, planned) PROVE Inv'
<1> DEFINE s == IF planned THEN "scheduled" ELSE "paused"
           l == IF planned THEN "idle" ELSE "targets"
<1>1. launch[b].at = "idle" /\ status[b] = "none"
  BY InvFacts DEF CreateBroadcast, Unmade
<1>2. StatusTyped' /\ status'[b] = s /\ \A a \in Broadcasts \ {b} : status'[a] = status[a]
  BY InvFacts, SetsStatus DEF CreateBroadcast, Statuses
<1>3. [at |-> "targets", planned |-> FALSE, chats |-> reachable] \in LaunchType
  BY DEF LaunchType, LaunchAts, Inv, MailTyped, SidesTyped
<1>4. LaunchTyped' /\ launch'[b].at = l /\ \A a \in Broadcasts \ {b} : launch'[a].at = launch[a].at
  BY <1>1, <1>3, InvFacts DEF CreateBroadcast, LaunchTyped
<1>5. Alters(b, s, l)
  BY <1>2, <1>4 DEF Alters
<1>6. Calm
  BY Calms, InvFacts DEF CreateBroadcast
<1>7. UNCHANGED <<worker, target, got, unsure, hasty>> /\ ControlTyped' /\ SidesTyped'
  BY SidesStay, InvFacts DEF CreateBroadcast, launching, delivering
<1>8. b \in hasty \/ ~Busy(b)
  BY <1>1, InvFacts DEF Begins, Begun
<1>9. ~Told(b)
  BY <1>1 DEF Told
<1> HIDE DEF s, l
<1>10. s \in {"scheduled", "paused"} /\ (s = "scheduled" => l = "idle")
  BY DEF s, l
<1> QED
  BY <1>5, <1>6, <1>7, <1>8, <1>9, <1>10, TurnInv

(* A scheduled one is claimed for one launch.                               *)
LEMMA ClaimInv ==
  ASSUME Inv, NEW b \in Broadcasts, ClaimDue(b) PROVE Inv'
<1>1. status[b] = "scheduled" /\ launch[b].at = "idle"
  BY DEF ClaimDue, AtLaunch
<1>2. StatusTyped' /\ status'[b] = "paused" /\ \A a \in Broadcasts \ {b} : status'[a] = status[a]
  BY <1>1, InvFacts, SetsStatusIf DEF ClaimDue, Statuses
<1>3. [at |-> "audience", planned |-> TRUE, chats |-> {}] \in LaunchType
  BY DEF LaunchType, LaunchAts
<1>4. LaunchTyped' /\ launch'[b].at = "audience" /\ \A a \in Broadcasts \ {b} : launch'[a].at = launch[a].at
  BY <1>3, InvFacts DEF ClaimDue, LaunchTyped
<1>5. Alters(b, "paused", "audience")
  BY <1>2, <1>4 DEF Alters
<1>6. Calm
  BY Calms, InvFacts DEF ClaimDue
<1>7. UNCHANGED <<worker, target, got, unsure, hasty>> /\ ControlTyped' /\ SidesTyped'
  BY SidesStay, InvFacts DEF ClaimDue, launching, delivering
<1>8. b \in hasty \/ ~Busy(b)
  BY <1>1, InvFacts DEF Begins, Begun
<1>9. ~Told(b)
  BY <1>1 DEF Told
<1> QED
  BY <1>5, <1>6, <1>7, <1>8, <1>9, TurnInv

(* The launch reads who is to get it.                                       *)
LEMMA ReadAudienceInv ==
  ASSUME Inv, NEW b \in Broadcasts, ReadAudience(b) PROVE Inv'
<1>1. launch[b].at = "audience" /\ launch[b] \in LaunchType
  BY InvFacts DEF ReadAudience, AtLaunch
<1>2. PICK l \in {"abandon", "targets"} :
        launch' = [launch EXCEPT ![b] = [launch[b] EXCEPT !.at = l, !.chats = reachable]]
  BY DEF ReadAudience
<1>3. [launch[b] EXCEPT !.at = l, !.chats = reachable] \in LaunchType
  BY <1>1 DEF LaunchType, LaunchAts, Inv, MailTyped, SidesTyped
<1>4. [launch[b] EXCEPT !.at = l, !.chats = reachable].at = l
  BY <1>1 DEF LaunchType
<1>5. LaunchTyped' /\ launch'[b].at = l /\ \A a \in Broadcasts \ {b} : launch'[a].at = launch[a].at
  BY <1>2, <1>3, <1>4, InvFacts DEF LaunchTyped
<1>6. Alters(b, status[b], l)
  BY <1>5, InvFacts DEF Alters, ReadAudience, StatusTyped
<1>7. Calm
  BY Calms, InvFacts DEF ReadAudience
<1>8. UNCHANGED <<worker, target, got, unsure, hasty>> /\ ControlTyped' /\ SidesTyped'
  BY SidesStay, InvFacts DEF ReadAudience, launching, delivering
<1>9. (b \in hasty \/ (~Busy(b) /\ status[b] \notin {"running", "done"})) /\ status[b] \notin {"none", "scheduled"}
  BY <1>1, OnItsWay, InvFacts DEF LaunchOver, Unmade
<1>10. ~Told(b)
  BY <1>1 DEF Told, ToldAts
<1> QED
  BY <1>6, <1>7, <1>8, <1>9, <1>10, TurnInv

(* The launch goes on, or ends, and the status stays. *)
LEMMA LaunchMoves ==
  ASSUME Inv, NEW b \in Broadcasts, NEW pc \in LaunchAts, PutLaunch(b, pc), UNCHANGED <<status, delivering, hasty>>,
         launch[b].at # "idle", Calm, ControlTyped', SidesTyped',
         pc \in LaunchOver \/ launch[b].at \notin LaunchOver,
         launch[b].at \in ToldAts => pc \in ToldAts
  PROVE Inv'
<1>1. Alters(b, status[b], pc)
  BY InvFacts, PutsLaunch DEF Alters, StatusTyped
<1>2. status[b] \notin {"none", "scheduled"}
  BY InvFacts DEF Unmade
<1>3. pc \notin LaunchOver => b \in hasty \/ (~Busy(b) /\ status[b] \notin {"running", "done"})
  BY OnItsWay
<1>4. UNCHANGED <<worker, target, got, unsure, hasty>>
  BY DEF delivering
<1>5. Told(b) => pc \in ToldAts
  BY DEF Told
<1> QED
  BY <1>1, <1>2, <1>3, <1>4, <1>5, TurnInv

(* One that is too late is called off.                                      *)
LEMMA TooLateInv ==
  ASSUME Inv, NEW b \in Broadcasts, TooLate(b) PROVE Inv'
<1>1. Calm
  BY Calms, InvFacts DEF TooLate
<1>2. ControlTyped' /\ SidesTyped'
  BY SidesStay, InvFacts DEF TooLate, launching, delivering
<1> QED
  BY <1>1, <1>2, LaunchMoves DEF TooLate, AtLaunch, launching, LaunchAts, LaunchOver, ToldAts

(* One composed just now could not be set running.                          *)
LEMMA SaveFailsInv ==
  ASSUME Inv, NEW b \in Broadcasts, SaveFails(b) PROVE Inv'
<1>1. Calm
  BY Calms, InvFacts DEF SaveFails
<1>2. ControlTyped' /\ SidesTyped'
  BY SidesStay, InvFacts DEF SaveFails, launching, delivering
<1> QED
  BY <1>1, <1>2, LaunchMoves DEF SaveFails, AtLaunch, launching, LaunchAts, LaunchOver, ToldAts

(* Calling off looks at the status ...                                      *)
LEMMA AbandonInv ==
  ASSUME Inv, NEW b \in Broadcasts, AbandonBroadcast(b) PROVE Inv'
<1>1. Calm
  BY Calms, InvFacts DEF AbandonBroadcast
<1>2. ControlTyped' /\ SidesTyped'
  BY SidesStay, InvFacts DEF AbandonBroadcast, launching, delivering
<1>3. PICK pc \in {"idle", "cancel"} : PutLaunch(b, pc)
  BY DEF AbandonBroadcast
<1>4. pc \in LaunchAts /\ pc \in LaunchOver /\ pc \in ToldAts /\ launch[b].at = "abandon"
  BY <1>3 DEF AbandonBroadcast, AtLaunch, LaunchAts, LaunchOver, ToldAts
<1> QED
  BY <1>1, <1>2, <1>3, <1>4, LaunchMoves DEF AbandonBroadcast, launching

(* A launch fails at one of its calls.                                      *)
LEMMA LaunchFailsInv ==
  ASSUME Inv, NEW b \in Broadcasts, LaunchFails(b) PROVE Inv'
<1>1. Calm
  BY Calms, InvFacts DEF LaunchFails
<1>2. ControlTyped' /\ SidesTyped'
  BY SidesStay, InvFacts DEF LaunchFails, delivering
<1>3. launch[b].at \in {"audience", "targets", "start", "emit", "end"}
  BY DEF LaunchFails
<1>4. status[b] \notin {"none", "scheduled"}
  BY <1>3, InvFacts DEF Unmade
<1>5. CASE launch[b].planned
  <2> DEFINE s == IF status[b] = "paused" THEN "scheduled" ELSE status[b]
  <2>1. StatusTyped' /\ status'[b] = s /\ \A a \in Broadcasts \ {b} : status'[a] = status[a]
    BY <1>5, InvFacts, SetsStatusIf DEF LaunchFails, Statuses
  <2>2. LaunchTyped' /\ launch'[b].at = "idle" /\ \A a \in Broadcasts \ {b} : launch'[a].at = launch[a].at
    BY <1>5, InvFacts, PutsLaunch DEF LaunchFails, LaunchAts
  <2>3. Alters(b, s, "idle")
    BY <2>1, <2>2 DEF Alters
  <2>4. hasty' = IF launch[b].at = "emit" /\ status[b] = "paused" THEN hasty \union {b} ELSE hasty
    BY <1>5 DEF LaunchFails, AtLaunch
  <2>5. UNCHANGED <<worker, target, got, unsure>>
    BY DEF LaunchFails, delivering
  <2>6. b \in hasty' \/ ~(s = "scheduled" /\ Busy(b))
    <3>1. CASE launch[b].at \in {"audience", "targets", "start"}
      BY <3>1, <2>4, OnItsWay DEF LaunchOver
    <3>2. CASE launch[b].at = "emit"
      BY <3>2, <2>4, <1>4
    <3>3. CASE launch[b].at = "end"
      BY <3>3, <1>4, <1>5 DEF LaunchFails, AtLaunch
    <3> QED
      BY <1>3, <3>1, <3>2, <3>3
  <2>7. Told(b) => s # "scheduled"
    BY <1>3, <1>4, <1>5 DEF Told, ToldAts, LaunchFails, AtLaunch
  <2>8. "idle" \in LaunchOver /\ "idle" \in ToldAts
    BY DEF LaunchOver, ToldAts
  <2>9. s # "none" /\ (s \in {"none", "scheduled"} <=> s = "scheduled") /\ (s = "done" => status[b] = "done")
    BY <1>4
  <2> HIDE DEF s
  <2> QED
    BY <1>1, <1>2, <2>3, <2>4, <2>5, <2>6, <2>7, <2>8, <2>9, TurnInv
<1>6. CASE ~launch[b].planned
  <2>1. PICK pc \in {"idle", "abandon"} : PutLaunch(b, pc)
    BY <1>6 DEF LaunchFails
  <2>2. pc \in LaunchAts /\ pc \in LaunchOver /\ pc \in ToldAts /\ launch[b].at # "idle"
    BY <1>3 DEF LaunchAts, LaunchOver, ToldAts
  <2>3. UNCHANGED <<status, delivering, hasty>>
    BY <1>6 DEF LaunchFails
  <2> QED
    BY <1>1, <1>2, <2>1, <2>2, <2>3, LaunchMoves
<1> QED
  BY <1>5, <1>6

(* It is set running once its recipients are there.                         *)
LEMMA StartInv ==
  ASSUME Inv, NEW b \in Broadcasts, StartBroadcast(b) PROVE Inv'
<1> DEFINE s == IF status[b] = "paused" THEN "running" ELSE status[b]
           l == IF status[b] = "paused" THEN "emit" ELSE "idle"
<1>1. Calm
  BY Calms, InvFacts DEF StartBroadcast
<1>2. ControlTyped' /\ SidesTyped'
  BY SidesStay, InvFacts DEF StartBroadcast, launching, delivering
<1>3. launch[b].at = "start" /\ status[b] \notin {"none", "scheduled"}
  BY InvFacts DEF StartBroadcast, AtLaunch, Unmade
<1>4. StatusTyped' /\ status'[b] = s /\ \A a \in Broadcasts \ {b} : status'[a] = status[a]
  BY InvFacts, SetsStatusIf DEF StartBroadcast, Statuses
<1>5. LaunchTyped' /\ launch'[b].at = l /\ \A a \in Broadcasts \ {b} : launch'[a].at = launch[a].at
  BY InvFacts, PutsLaunch DEF StartBroadcast, LaunchAts
<1>6. Alters(b, s, l)
  BY <1>4, <1>5 DEF Alters
<1>7. UNCHANGED <<worker, target, got, unsure, hasty>>
  BY DEF StartBroadcast, launching, delivering
<1>8. l \in LaunchOver /\ s \notin {"none", "scheduled"} /\ (s = "done" => status[b] = "done")
  BY <1>3 DEF LaunchOver
<1>9. ~Told(b)
  BY <1>3 DEF Told, ToldAts
<1> HIDE DEF s, l
<1> QED
  BY <1>1, <1>2, <1>6, <1>7, <1>8, <1>9, TurnInv

(* Without recipients it is done at once.                                   *)
LEMMA DoneIfEmptyInv ==
  ASSUME Inv, NEW b \in Broadcasts, DoneIfEmpty(b) PROVE Inv'
<1>1. Calm
  BY Calms, InvFacts DEF DoneIfEmpty
<1>2. ControlTyped' /\ SidesTyped'
  BY SidesStay, InvFacts DEF DoneIfEmpty, launching, delivering
<1>3. launch[b].at = "end" /\ status[b] \notin {"none", "scheduled"}
  BY InvFacts DEF DoneIfEmpty, AtLaunch, Unmade
<1>4. PICK s \in {"done", status[b]} :
        /\ StatusTyped' /\ status'[b] = s /\ \A a \in Broadcasts \ {b} : status'[a] = status[a]
        /\ s = "done" => Unaddressed(b) \/ status[b] = "done"
  <2>1. CASE Unaddressed(b)
    BY <2>1, InvFacts, SetsStatus DEF DoneIfEmpty, Statuses
  <2>2. CASE ~Unaddressed(b)
    BY <2>2, InvFacts DEF DoneIfEmpty, StatusTyped
  <2> QED
    BY <2>1, <2>2
<1>5. LaunchTyped' /\ launch'[b].at = "idle" /\ \A a \in Broadcasts \ {b} : launch'[a].at = launch[a].at
  BY InvFacts, PutsLaunch DEF DoneIfEmpty, LaunchAts
<1>6. Alters(b, s, "idle")
  BY <1>4, <1>5 DEF Alters
<1>7. UNCHANGED <<worker, target, got, unsure, hasty>>
  BY DEF DoneIfEmpty, launching, delivering
<1>8. "idle" \in LaunchOver /\ "idle" \in ToldAts /\ s \notin {"none", "scheduled"}
  BY <1>3 DEF LaunchOver, ToldAts
<1> QED
  BY <1>1, <1>2, <1>4, <1>6, <1>7, <1>8, TurnInv

(* ... and then writes it.                                                  *)
LEMMA CancelInv ==
  ASSUME Inv, NEW b \in Broadcasts, Cancel(b) PROVE Inv'
<1>1. Calm
  BY Calms, InvFacts DEF Cancel
<1>2. ControlTyped' /\ SidesTyped'
  BY SidesStay, InvFacts DEF Cancel, launching, delivering
<1>3. StatusTyped' /\ status'[b] = "cancelled" /\ \A a \in Broadcasts \ {b} : status'[a] = status[a]
  BY InvFacts, SetsStatus DEF Cancel, Statuses
<1>4. LaunchTyped' /\ launch'[b].at = "idle" /\ \A a \in Broadcasts \ {b} : launch'[a].at = launch[a].at
  BY InvFacts, PutsLaunch DEF Cancel, LaunchAts
<1>5. Alters(b, "cancelled", "idle")
  BY <1>3, <1>4 DEF Alters
<1>6. UNCHANGED <<worker, target, got, unsure, hasty>>
  BY DEF Cancel, launching, delivering
<1>7. "idle" \in LaunchOver /\ "idle" \in ToldAts
  BY DEF LaunchOver, ToldAts
<1> QED
  BY <1>1, <1>2, <1>5, <1>6, <1>7, TurnInv

----------------------------------------------------------------------------
(* Recipients, controls and the event                                      *)

AddedTo(row, who) == [c \in Chats |-> IF row[c] = "none" /\ c \in who THEN "pending" ELSE row[c]]

(* Recipients added do not change who was there as pending or sent.         *)
LEMMA Adds ==
  ASSUME NEW row \in [Chats -> TargetStates], NEW who
  PROVE /\ AddedTo(row, who) \in [Chats -> TargetStates]
        /\ \A c \in Chats : row[c] \in {"pending", "sent"} => AddedTo(row, who)[c] = row[c]
  BY DEF AddedTo, TargetStates

(* Recipients are written.                                                  *)
LEMMA AddTargetsInv ==
  ASSUME Inv, NEW b \in Broadcasts, AddTargets(b) PROVE Inv'
<1>1. Calm
  BY Calms, InvFacts DEF AddTargets
<1>2. ControlTyped' /\ SidesTyped'
  BY SidesStay, InvFacts DEF AddTargets
<1>3. launch[b].at = "targets" /\ status[b] \notin {"none", "scheduled"}
  BY InvFacts DEF AddTargets, AtLaunch, Unmade
<1>4. LaunchTyped' /\ launch'[b].at = "start" /\ \A a \in Broadcasts \ {b} : launch'[a].at = launch[a].at
  BY InvFacts, PutsLaunch DEF AddTargets, LaunchAts
<1>5. Alters(b, status[b], "start")
  BY <1>4, InvFacts DEF Alters, AddTargets, StatusTyped
<1>6. target[b] \in [Chats -> TargetStates]
  BY InvFacts DEF TargetTyped
<1>7. target' = [target EXCEPT ![b] = AddedTo(target[b], launch[b].chats)]
  BY DEF AddTargets, AddedTo
<1>8. TargetTyped' /\ TargetsStay
  BY <1>6, <1>7, Adds, InvFacts DEF TargetTyped, TargetsStay
<1>9. Working' /\ GotOnce'
  BY <1>8, WorkStays, InvFacts DEF AddTargets
<1>10. b \in hasty \/ (~Busy(b) /\ status[b] \notin {"running", "done"})
  BY <1>3, OnItsWay DEF LaunchOver
<1>11. \A a \in Broadcasts \ {b} : target'[a] = target[a]
  BY <1>7, InvFacts DEF TargetTyped
<1>12. \A a : Busy(a)' <=> Busy(a)
  BY DEF Busy, AddTargets
<1>13. Unmade' /\ Begins'
  BY <1>3, <1>5, <1>10, <1>12, InvFacts DEF Alters, Unmade, Begins, Begun, AddTargets
<1>14. \A a \in Broadcasts \ {b} : (Unaddressed(a)' <=> Unaddressed(a)) /\ (NobodyPending(a)' <=> NobodyPending(a))
  BY <1>11 DEF Unaddressed, NobodyPending
<1>15. Ends'
  BY <1>5, <1>10, <1>12, <1>14, InvFacts DEF Alters, Ends, AddTargets
<1>16. ~Told(b)
  BY <1>3 DEF Told, ToldAts
<1>17. Announced'
  BY <1>1, <1>5, <1>16, TurnTells, CalmAnnounced DEF Inv
<1>18. MailTyped'
  BY <1>2, <1>5, <1>8, InvFacts DEF MailTyped, Alters, WorkerTyped, GotTyped, AddTargets, Inv
<1> QED
  BY <1>1, <1>9, <1>13, <1>15, <1>17, <1>18, CalmKeeps DEF Inv, Ordered

Requeued(row) == [c \in Chats |-> IF ToRetry(row[c]) THEN "pending" ELSE row[c]]

(* A retry does not change who is pending or was sent to.                   *)
LEMMA Requeues ==
  ASSUME NEW row \in [Chats -> TargetStates]
  PROVE /\ Requeued(row) \in [Chats -> TargetStates]
        /\ \A c \in Chats : row[c] \in {"pending", "sent"} => Requeued(row)[c] = row[c]
  BY DEF Requeued, ToRetry, TargetStates

(* Those that failed are pending again.                                     *)
LEMMA RetryInv ==
  ASSUME Inv, NEW b \in Broadcasts, RetryFailed(b) PROVE Inv'
<1>1. Calm
  BY Calms, InvFacts DEF RetryFailed
<1>2. ControlTyped' /\ SidesTyped'
  BY SidesStay, InvFacts DEF RetryFailed
<1>3. status[b] = "done" /\ ~Unaddressed(b)
  BY DEF RetryFailed, Unaddressed, ToRetry
<1>4. StatusTyped' /\ status'[b] = "running" /\ \A a \in Broadcasts \ {b} : status'[a] = status[a]
  BY InvFacts, SetsStatus DEF RetryFailed, Statuses
<1>5. Alters(b, "running", launch[b].at)
  BY <1>4, InvFacts DEF Alters, RetryFailed, LaunchTyped
<1>6. target[b] \in [Chats -> TargetStates]
  BY InvFacts DEF TargetTyped
<1>7. target' = [target EXCEPT ![b] = Requeued(target[b])]
  BY DEF RetryFailed, Requeued
<1>8. TargetTyped' /\ TargetsStay
  BY <1>6, <1>7, Requeues, InvFacts DEF TargetTyped, TargetsStay
<1>9. Working' /\ GotOnce'
  BY <1>8, WorkStays, InvFacts DEF RetryFailed
<1>10. b \in hasty \/ (~Busy(b) /\ launch[b].at \in LaunchOver)
  BY <1>3, InvFacts DEF Begins, Ends, Begun
<1>11. \A a \in Broadcasts \ {b} : target'[a] = target[a]
  BY <1>7, InvFacts DEF TargetTyped
<1>12. \A a : Busy(a)' <=> Busy(a)
  BY DEF Busy, RetryFailed
<1>13. Unmade' /\ Begins'
  BY <1>3, <1>5, <1>10, <1>12, InvFacts DEF Alters, Unmade, Begins, Begun, RetryFailed
<1>14. \A a \in Broadcasts \ {b} : (Unaddressed(a)' <=> Unaddressed(a)) /\ (NobodyPending(a)' <=> NobodyPending(a))
  BY <1>11 DEF Unaddressed, NobodyPending
<1>15. Ends'
  BY <1>5, <1>10, <1>12, <1>14, InvFacts DEF Alters, Ends, RetryFailed
<1>16. Told(b) => launch[b].at \in ToldAts
  BY DEF Told
<1>17. Announced'
  BY <1>1, <1>5, <1>16, TurnTells, CalmAnnounced DEF Inv
<1>18. MailTyped'
  BY <1>2, <1>5, <1>8, InvFacts DEF MailTyped, Alters, WorkerTyped, GotTyped, RetryFailed, Inv
<1> QED
  BY <1>1, <1>9, <1>13, <1>15, <1>17, <1>18, CalmKeeps DEF Inv, Ordered

(* An operator reads the status ...                                         *)
LEMMA ReadStatusInv ==
  ASSUME Inv, NEW o \in Operators, NEW b \in Broadcasts, NEW to \in {"paused", "running", "cancelled"},
         ReadStatus(o, b, to)
  PROVE Inv'
<1>1. Calm
  BY Calms, InvFacts DEF ReadStatus
<1>2. [at |-> "write", b |-> b, to |-> to] \in ControlType
  BY DEF ControlType, Statuses
<1>3. ControlTyped'
  BY <1>2 DEF ReadStatus, ControlTyped, Inv, MailTyped
<1>4. SidesTyped'
  BY BroadcastsAssumption DEF ReadStatus, SidesTyped, Inv, MailTyped
<1> QED
  BY <1>1, <1>3, <1>4, QuietInv DEF ReadStatus

(* ... and writes the new one, whatever came in between.                    *)
LEMMA WriteStatusInv ==
  ASSUME Inv, NEW o \in Operators, WriteStatus(o) PROVE Inv'
<1>1. Calm
  BY Calms, InvFacts DEF WriteStatus
<1>2. PICK b \in Broadcasts, to \in {"paused", "running", "cancelled"} : control[o].b = b /\ control[o].to = to
  BY DEF WriteStatus, Inv, MailTyped, ControlTyped
<1>3. SetStatus(b, to)
  BY <1>2 DEF WriteStatus
<1>4. hasty' = IF to = "running" /\ launch[b].at \notin {"idle", "end"} THEN hasty \union {b} ELSE hasty
  BY <1>2 DEF WriteStatus
<1>5. StatusTyped' /\ status'[b] = to /\ \A a \in Broadcasts \ {b} : status'[a] = status[a]
  BY <1>3, InvFacts, SetsStatus DEF Statuses
<1>6. Alters(b, to, launch[b].at)
  BY <1>5, InvFacts DEF Alters, WriteStatus, LaunchTyped
<1>7. ControlTyped'
  BY Blanks DEF WriteStatus, ControlTyped, Inv, MailTyped
<1>8. SidesTyped'
  BY <1>4, InvFacts DEF WriteStatus, SidesTyped, Inv, MailTyped
<1>9. b \notin hasty' /\ (to = "running" \/ Busy(b)) => launch[b].at \in LaunchOver
  BY <1>4, InvFacts DEF Begins, Begun, LaunchOver
<1>10. Told(b) => launch[b].at \in ToldAts
  BY DEF Told
<1>11. UNCHANGED <<worker, target, got, unsure>> /\ hasty \subseteq hasty'
  BY <1>4 DEF WriteStatus
<1> QED
  BY <1>1, <1>6, <1>7, <1>8, <1>9, <1>10, <1>11, TurnInv

(* Somebody opts out of mailings, or in again.                              *)
LEMMA OptOutInv ==
  ASSUME Inv, NEW c \in Chats, OptOut(c) PROVE Inv'
<1>1. Calm
  BY Calms, InvFacts DEF OptOut
<1>2. ControlTyped'
  BY DEF OptOut, ControlTyped, Inv, MailTyped
<1>3. SidesTyped'
  BY BroadcastsAssumption DEF OptOut, SidesTyped, Inv, MailTyped
<1> QED
  BY <1>1, <1>2, <1>3, QuietInv DEF OptOut

(* A quarantine ends.                                                       *)
LEMMA UnparkInv ==
  ASSUME Inv, NEW b \in Broadcasts, Unpark(b) PROVE Inv'
<1>1. Calm
  BY Calms, InvFacts DEF Unpark, working, serving
<1>2. ControlTyped'
  BY DEF Unpark, working, serving, ControlTyped, Inv, MailTyped
<1>3. SidesTyped'
  BY DEF Unpark, working, serving, SidesTyped, Inv, MailTyped
<1> QED
  BY <1>1, <1>2, <1>3, QuietInv DEF Unpark, working, serving

(* The event is handed over once: before, nothing of it was there. *)
LEMMA EmitInv ==
  ASSUME Inv, NEW b \in Broadcasts, EmitBroadcast(b) PROVE Inv'
<1>1. launch[b].at = "emit" /\ status[b] \notin {"none", "scheduled"}
  BY InvFacts DEF EmitBroadcast, AtLaunch, Unmade
<1>2. ~Told(b)
  BY <1>1 DEF Told, ToldAts
<1>3. \A r \in Rows : EventOf(r) = b => Fresh(r)
  BY <1>2 DEF Inv, Announced
<1>4. b \in Events
  BY IdsAreIds
<1>5. OutboxTyped' /\ Deliveries'
  <2>1. CASE b \in announces
    <3>1. LookUp(b) /\ Fine /\ UNCHANGED <<outbox, job, on, received, refused, doubtful>>
      BY <2>1 DEF EmitBroadcast
    <3> QED
      BY <3>1, <1>3, <1>4, LookUpKeeps DEF Inv
  <2>2. CASE b \notin announces
    <3>1. UNCHANGED outboxVars /\ Fine
      BY <2>2 DEF EmitBroadcast, outboxVars
    <3> QED
      BY <3>1, Calms, CalmKeeps DEF Inv
  <2> QED
    BY <2>1, <2>2
<1>6. UNCHANGED <<worker, target, got, unsure, hasty, status, control>>
  BY DEF EmitBroadcast, launching, delivering
<1>7. LaunchTyped' /\ launch'[b].at = "end" /\ \A a \in Broadcasts \ {b} : launch'[a].at = launch[a].at
  BY InvFacts, PutsLaunch DEF EmitBroadcast, LaunchAts
<1>8. Alters(b, status[b], "end")
  BY <1>6, <1>7, InvFacts DEF Alters, StatusTyped
<1>9. ControlTyped' /\ SidesTyped'
  BY SidesStay, InvFacts DEF EmitBroadcast, launching, delivering
<1>10. MailTyped'
  BY <1>6, <1>8, <1>9 DEF Inv, MailTyped, Alters, TargetTyped, WorkerTyped, GotTyped
<1>11. Working' /\ GotOnce'
  BY <1>6, WorkStays, InvFacts DEF TargetsStay
<1>12. Ordered'
  BY <1>1, <1>6, <1>8, TurnKeeps DEF Inv, LaunchOver
<1>13. \A e \in Events : Told(e) => Told(e)'
  BY <1>2, <1>8, TurnTells
<1>14. Told(b)'
  BY <1>1, <1>6, <1>7 DEF Told, ToldAts
<1>15. \A e \in Events : emitter'[e].at = "store" => emitter[e].at = "store" \/ e = b
  BY <1>4, InvFacts DEF EmitBroadcast, LookUp, OutboxTyped
<1>16. \A r \in Rows : Fresh(r)' <=> Fresh(r)
  BY DEF EmitBroadcast, Fresh
<1>17. Announced'
  BY <1>13, <1>14, <1>15, <1>16, EventsOfRows DEF Inv, Announced
<1> QED
  BY <1>5, <1>10, <1>11, <1>12, <1>17 DEF Inv

----------------------------------------------------------------------------
(* The worker                                                              *)

(* The worker takes up what runs, and stops or closes what runs. *)
LEMMA WorkerInv ==
  ASSUME Inv, Calm, UNCHANGED <<launch, announces, control, controls>>,
         StatusTyped', TargetTyped', WorkerTyped', GotTyped',
         reachable' \subseteq Chats, parked' \subseteq Broadcasts, hasty \subseteq hasty', hasty' \subseteq Broadcasts,
         Working', GotOnce', Ends',
         \A b \in Broadcasts : status'[b] = status[b] \/ (status[b] = "running" /\ status'[b] \in {"paused", "done"}),
         \A b \in Broadcasts : Busy(b)' => Busy(b) \/ status[b] = "running"
  PROVE Inv'
<1>1. OutboxTyped' /\ Deliveries'
  BY CalmKeeps DEF Inv
<1>2. ControlTyped' /\ SidesTyped' /\ LaunchTyped'
  BY DEF Inv, MailTyped, ControlTyped, SidesTyped, LaunchTyped
<1>3. Unmade'
  BY InvFacts DEF Unmade
<1>4. Begins'
  BY InvFacts DEF Begins, Begun
<1>5. \A e \in Events : Told(e) => Told(e)'
  BY DEF Told
<1>6. Announced'
  BY <1>5, CalmAnnounced DEF Inv
<1> QED
  BY <1>1, <1>2, <1>3, <1>4, <1>6 DEF Inv, MailTyped, Ordered

(* What keeps a run drained: it closes with nobody pending and nobody is added.*)
LEMMA EndsStay ==
  ASSUME Ends, UNCHANGED target, hasty \subseteq hasty',
         \A b \in Broadcasts : status'[b] = "done" => status[b] = "done" \/ (~Busy(b)' /\ (NobodyPending(b) \/ b \in hasty)),
         \A b \in Broadcasts : Busy(b)' => Busy(b) \/ status[b] = "running",
         \A b \in Broadcasts : Busy(b)' /\ worker'.at = "close" => b \in hasty' \/ (Busy(b) /\ worker.at = "close")
  PROVE Ends'
<1>1. \A b : (Unaddressed(b)' <=> Unaddressed(b)) /\ (NobodyPending(b)' <=> NobodyPending(b))
  BY DEF Unaddressed, NobodyPending
<1> QED
  BY <1>1 DEF Ends

(* What the worker does leaves launches and operators alone.                *)
LEMMA WorkerIsCalm ==
  ASSUME Inv, UNCHANGED serving, Fine \/ \E kind \in {"post", "store", "crash", "off"} : Fault(kind)
  PROVE Calm /\ UNCHANGED <<launch, announces, control, controls>>
  BY Calms, InvFacts DEF serving

(* The types of what is on the side.                                        *)
LEMMA SidesFacts ==
  ASSUME Inv PROVE reachable \subseteq Chats /\ parked \subseteq Broadcasts /\ GotTyped
  BY DEF Inv, MailTyped, SidesTyped

(* The worker picks a running broadcast.                                    *)
LEMMA PickInv ==
  ASSUME Inv, Pick PROVE Inv'
<1>1. Calm /\ UNCHANGED <<launch, announces, control, controls>>
  BY WorkerIsCalm DEF Pick, working
<1>2. PICK b \in Broadcasts : status[b] = "running" /\ worker' = [Resting EXCEPT !.at = "picked", !.b = b]
  BY DEF Pick
<1>3. /\ worker' \in WorkerType /\ worker'.at = "picked" /\ worker'.b = b /\ worker'.todo = {}
      /\ \A c \in Chats : worker'.flight[c] = "none"
  BY <1>2, Blanks DEF WorkerType
<1>4. worker.at = "idle" /\ UNCHANGED <<status, target, reachable, parked, got, unsure, hasty>>
  BY DEF Pick, working
<1>5. Working'
  BY <1>3, <1>4 DEF Working
<1>6. GotOnce'
  <2>1. \A c \in Chats : worker.flight[c] = "none"
    BY <1>4, InvFacts DEF Working
  <2> QED
    BY <1>4, <2>1, InvFacts DEF GotOnce, Recorded
<1>7. \A a \in Broadcasts : Busy(a)' => status[a] = "running"
  BY <1>2, <1>3 DEF Busy
<1>8. Ends'
  BY <1>3, <1>4, <1>7, EndsStay, InvFacts
<1>9. StatusTyped' /\ TargetTyped' /\ WorkerTyped' /\ GotTyped'
  BY <1>3, <1>4, InvFacts, SidesFacts DEF StatusTyped, TargetTyped, WorkerTyped, GotTyped
<1> QED
  BY <1>1, <1>4, <1>5, <1>6, <1>7, <1>8, <1>9, WorkerInv, InvFacts, SidesFacts

(* It reads a batch of those pending.                                       *)
LEMMA NextPendingInv ==
  ASSUME Inv, NextPendingTargets PROVE Inv'
<1>1. Calm /\ UNCHANGED <<launch, announces, control, controls>>
  BY WorkerIsCalm DEF NextPendingTargets, working
<1>2. worker \in WorkerType /\ worker.at = "picked" /\ worker.b \in Broadcasts
  BY InvFacts DEF NextPendingTargets, Working, WorkerTyped
<1>3. worker.todo = {} /\ \A c \in Chats : worker.flight[c] = "none"
  BY <1>2, InvFacts DEF Working
<1>4. PICK at \in {"finish", "send"}, some \in SUBSET Waiting(worker.b) :
        worker' = [worker EXCEPT !.at = at, !.todo = some] /\ (at = "finish" => some = {})
  <2>1. CASE Waiting(worker.b) = {}
    <3>1. worker' = [worker EXCEPT !.at = "finish", !.todo = {}]
      BY <1>2, <1>3, <2>1 DEF NextPendingTargets, Put, WorkerType
    <3> QED
      BY <3>1
  <2>2. CASE Waiting(worker.b) # {}
    BY <2>2 DEF NextPendingTargets
  <2> QED
    BY <2>1, <2>2
<1>5. some \subseteq Chats /\ \A c \in some : target[worker.b][c] = "pending"
  BY SidesFacts DEF Waiting
<1>6. /\ worker' \in WorkerType /\ worker'.at = at /\ worker'.b = worker.b /\ worker'.todo = some
      /\ worker'.flight = worker.flight
  BY <1>2, <1>4, <1>5 DEF WorkerType
<1>7. UNCHANGED <<status, target, reachable, parked, got, unsure, hasty>>
  BY DEF NextPendingTargets, working
<1>8. Working'
  BY <1>2, <1>3, <1>4, <1>5, <1>6, <1>7 DEF Working
<1>9. GotOnce'
  BY <1>6, <1>7, InvFacts DEF GotOnce, Recorded
<1>10. \A a \in Broadcasts : Busy(a)' => Busy(a)
  BY <1>2, <1>6 DEF Busy
<1>11. Ends'
  BY <1>6, <1>7, <1>10, EndsStay, InvFacts
<1>12. StatusTyped' /\ TargetTyped' /\ WorkerTyped' /\ GotTyped'
  BY <1>6, <1>7, InvFacts, SidesFacts DEF StatusTyped, TargetTyped, WorkerTyped, GotTyped
<1> QED
  BY <1>1, <1>7, <1>8, <1>9, <1>10, <1>11, <1>12, WorkerInv, InvFacts, SidesFacts

(* It sends to one, who may get it without its knowing.                     *)
LEMMA SendInv ==
  ASSUME Inv, NEW c \in Chats, Send(c) PROVE Inv'
<1>1. Calm /\ UNCHANGED <<launch, announces, control, controls>>
  BY WorkerIsCalm DEF Send, working
<1>2. worker \in WorkerType /\ worker.at = "send" /\ worker.b \in Broadcasts /\ c \in worker.todo
  BY InvFacts DEF Send, Working, WorkerTyped
<1>3. worker.flight[c] = "none" /\ target[worker.b][c] = "pending"
  BY <1>2, InvFacts DEF Working
<1>4. PICK outcome \in {"sent", "failed", "rejected", "blocked"} :
        /\ worker' = [worker EXCEPT !.todo = @ \ {c}, !.flight[c] = outcome]
        /\ \/ unsure' = unsure /\ got' = IF outcome = "sent" THEN [got EXCEPT ![worker.b][c] = @ + 1] ELSE got
           \/ outcome = "failed" /\ got' = [got EXCEPT ![worker.b][c] = @ + 1]
              /\ unsure' = unsure \union {<<worker.b, c>>}
  BY DEF Send
<1>5. worker.flight \in [Chats -> Flights] /\ outcome \in Flights
  BY <1>2 DEF WorkerType, Flights
<1>6. /\ worker' \in WorkerType /\ worker'.at = "send" /\ worker'.b = worker.b
      /\ worker'.todo = worker.todo \ {c} /\ worker'.flight = [worker.flight EXCEPT ![c] = outcome]
  BY <1>2, <1>4, <1>5 DEF WorkerType
<1>7. UNCHANGED <<status, target, reachable, parked, hasty>>
  BY DEF Send, working
<1>8. Working'
  BY <1>2, <1>3, <1>5, <1>6, <1>7, InvFacts DEF Working
<1>9. got \in [Broadcasts -> [Chats -> Nat]] /\ unsure \subseteq Broadcasts \X Chats
  BY SidesFacts DEF GotTyped
<1>10. PICK n \in {0, 1} :
         /\ got' = [got EXCEPT ![worker.b] = [got[worker.b] EXCEPT ![c] = @ + n]]
         /\ n = 1 => outcome = "sent" \/ <<worker.b, c>> \in unsure'
         /\ unsure \subseteq unsure' /\ unsure' \subseteq unsure \union {<<worker.b, c>>}
  <2>1. got = [got EXCEPT ![worker.b] = [got[worker.b] EXCEPT ![c] = @ + 0]]
    BY <1>2, <1>9
  <2> QED
    BY <1>4, <2>1
<1>11. GotTyped'
  BY <1>2, <1>9, <1>10 DEF GotTyped
<1>12. GotOnce'
  <2> SUFFICES ASSUME NEW b \in Broadcasts, NEW d \in Chats, <<b, d>> \notin unsure', got'[b][d] > 0
               PROVE got'[b][d] = 1 /\ Recorded(b, d)'
    BY DEF GotOnce
  <2>1. CASE b = worker.b /\ d = c
    <3>1. <<b, d>> \notin unsure /\ ~Recorded(b, d)
      BY <1>3, <1>10, <2>1 DEF Recorded
    <3>2. got[b][d] = 0
      BY <1>9, <3>1, InvFacts DEF GotOnce
    <3>3. n = 1 /\ got'[b][d] = 1 /\ outcome = "sent"
      BY <1>9, <1>10, <2>1, <3>2
    <3> QED
      BY <1>5, <1>6, <2>1, <3>3 DEF Recorded
  <2>2. CASE ~(b = worker.b /\ d = c)
    <3>1. got'[b][d] = got[b][d] /\ <<b, d>> \notin unsure
      BY <1>9, <1>10, <2>2
    <3>2. got[b][d] = 1 /\ Recorded(b, d)
      BY <3>1, InvFacts DEF GotOnce
    <3>3. Recorded(b, d)'
      BY <1>5, <1>6, <1>7, <2>2, <3>2 DEF Recorded
    <3> QED
      BY <3>1, <3>2, <3>3
  <2> QED
    BY <2>1, <2>2
<1>13. \A a \in Broadcasts : Busy(a)' => Busy(a)
  BY <1>2, <1>6 DEF Busy
<1>14. Ends'
  BY <1>6, <1>7, <1>13, EndsStay, InvFacts
<1>15. StatusTyped' /\ TargetTyped' /\ WorkerTyped'
  BY <1>6, <1>7, InvFacts DEF StatusTyped, TargetTyped, WorkerTyped
<1> QED
  BY <1>1, <1>7, <1>8, <1>11, <1>12, <1>13, <1>14, <1>15, WorkerInv, InvFacts, SidesFacts

(* A run stops at its current status, or is paused. *)
LEMMA StopsRun ==
  ASSUME Inv, NEW b \in Broadcasts, UNCHANGED status \/ SetStatusIf(b, "running", "paused")
  PROVE /\ StatusTyped'
        /\ \A a \in Broadcasts : status'[a] = status[a] \/ (status[a] = "running" /\ status'[a] \in {"paused", "done"})
        /\ \A a \in Broadcasts : status'[a] = "done" => status[a] = "done"
<1>1. CASE UNCHANGED status
  BY <1>1, InvFacts DEF StatusTyped
<1>2. CASE SetStatusIf(b, "running", "paused")
  BY <1>2, InvFacts, SetsStatusIf DEF Statuses
<1> QED
  BY <1>1, <1>2

(* It records the outcome, or fails to.                                     *)
LEMMA RecordInv ==
  ASSUME Inv, NEW c \in Chats, NEW stored \in BOOLEAN, Record(c, stored) PROVE Inv'
<1>1. Calm /\ UNCHANGED <<launch, announces, control, controls>>
  BY WorkerIsCalm DEF Record, working
<1>2. worker \in WorkerType /\ worker.flight[c] # "none"
  BY InvFacts DEF Record, WorkerTyped
<1>3. /\ worker.at = "send" /\ worker.b \in Broadcasts /\ c \notin worker.todo
      /\ target[worker.b][c] = "pending"
  BY <1>2, InvFacts DEF Working
<1>4. worker.flight \in [Chats -> Flights]
  BY <1>2 DEF WorkerType
<1>5. /\ worker' \in WorkerType /\ worker'.at = "send" /\ worker'.b = worker.b /\ worker'.todo = worker.todo
      /\ worker'.flight = [worker.flight EXCEPT ![c] = "none"]
  <2>1. [worker.flight EXCEPT ![c] = "none"] \in [Chats -> Flights]
    BY <1>4 DEF Flights
  <2>2. PICK l \in BOOLEAN : worker' = [worker EXCEPT !.flight = [worker.flight EXCEPT ![c] = "none"], !.lost = l]
    <3>1. CASE stored
      <4>1. worker' = [worker EXCEPT !.flight[c] = "none"]
        BY <3>1 DEF Record
      <4>2. worker' = [worker EXCEPT !.flight = [worker.flight EXCEPT ![c] = "none"], !.lost = worker.lost]
        BY <4>1, <1>2 DEF WorkerType
      <4>3. worker.lost \in BOOLEAN
        BY <1>2 DEF WorkerType
      <4> QED
        BY <4>2, <4>3
    <3>2. CASE ~stored
      BY <3>2 DEF Record
    <3> QED
      BY <3>1, <3>2
  <2> QED
    BY <1>2, <1>3, <2>1, <2>2 DEF WorkerType
<1>6. UNCHANGED status \/ SetStatusIf(worker.b, "running", "paused")
  BY DEF Record
<1>7. UNCHANGED <<hasty, parked, got>> /\ reachable' \subseteq Chats
  BY SidesFacts DEF Record, working
<1>8. Outcome(c) \in {"sent", "failed", "blocked"} /\ (worker.flight[c] = "sent" => Outcome(c) = "sent")
  BY <1>2, <1>4 DEF Outcome, Flights
<1>9. \/ stored /\ target' = [target EXCEPT ![worker.b][c] = Outcome(c)] /\ unsure' = unsure
      \/ ~stored /\ target' = target
         /\ unsure' = IF worker.flight[c] = "sent" THEN unsure \union {<<worker.b, c>>} ELSE unsure
  BY DEF Record
<1>10. target \in [Broadcasts -> [Chats -> TargetStates]]
  BY InvFacts DEF TargetTyped
<1>11. /\ TargetTyped'
       /\ \A b \in Broadcasts, d \in Chats : ~(b = worker.b /\ d = c) => target'[b][d] = target[b][d]
       /\ stored => target'[worker.b][c] = Outcome(c)
  <2>1. CASE stored
    BY <1>3, <1>8, <1>9, <1>10, <2>1 DEF TargetTyped, TargetStates
  <2>2. CASE ~stored
    BY <1>9, <1>10, <2>2 DEF TargetTyped
  <2> QED
    BY <2>1, <2>2
<1>12. GotTyped'
  BY <1>3, <1>7, <1>9, SidesFacts DEF GotTyped
<1>13. Working'
  <2> SUFFICES ASSUME NEW d \in Chats, d \in worker'.todo \/ worker'.flight[d] # "none"
               PROVE target'[worker'.b][d] = "pending"
    BY <1>3, <1>4, <1>5, InvFacts DEF Working
  <2>1. d # c /\ (d \in worker.todo \/ worker.flight[d] # "none")
    BY <1>3, <1>4, <1>5
  <2> QED
    BY <1>3, <1>5, <1>11, <2>1, InvFacts DEF Working
<1>14. GotOnce'
  <2> SUFFICES ASSUME NEW b \in Broadcasts, NEW d \in Chats, <<b, d>> \notin unsure', got'[b][d] > 0
               PROVE got'[b][d] = 1 /\ Recorded(b, d)'
    BY DEF GotOnce
  <2>1. <<b, d>> \notin unsure /\ got[b][d] = 1 /\ Recorded(b, d)
    BY <1>7, <1>9, InvFacts DEF GotOnce
  <2>2. CASE b = worker.b /\ d = c
    <3>1. worker.flight[c] = "sent"
      BY <1>3, <2>1, <2>2 DEF Recorded
    <3>2. stored
      BY <1>9, <2>2, <3>1
    <3> QED
      BY <1>8, <1>11, <2>1, <2>2, <3>1, <3>2, <1>7 DEF Recorded
  <2>3. CASE ~(b = worker.b /\ d = c)
    BY <1>4, <1>5, <1>7, <1>11, <2>1, <2>3 DEF Recorded
  <2> QED
    BY <2>2, <2>3
<1>15. \A a \in Broadcasts : Busy(a)' <=> Busy(a)
  BY <1>3, <1>5 DEF Busy
<1>16. Ends'
  <2> SUFFICES ASSUME NEW b \in Broadcasts, b \notin hasty
               PROVE /\ Busy(b)' /\ worker'.at = "close" => NobodyPending(b)'
                     /\ Busy(b)' /\ status'[b] = "done" => Unaddressed(b)'
                     /\ status'[b] = "done" => NobodyPending(b)'
    BY <1>7 DEF Ends
  <2>1. worker'.at # "close" /\ (status'[b] = "done" => status[b] = "done")
    BY <1>3, <1>5, <1>6, StopsRun
  <2>2. CASE b = worker.b
    <3>1. ~NobodyPending(b)
      BY <1>3, <2>2 DEF NobodyPending
    <3> QED
      BY <2>1, <3>1, InvFacts DEF Ends
  <2>3. CASE b # worker.b
    <3>1. (NobodyPending(b)' <=> NobodyPending(b)) /\ ~Busy(b)'
      BY <1>5, <1>11, <2>3 DEF NobodyPending, Busy
    <3> QED
      BY <2>1, <3>1, InvFacts DEF Ends
  <2> QED
    BY <2>2, <2>3
<1>17. /\ StatusTyped' /\ WorkerTyped'
       /\ \A a \in Broadcasts : status'[a] = status[a] \/ (status[a] = "running" /\ status'[a] \in {"paused", "done"})
  BY <1>3, <1>5, <1>6, StopsRun DEF WorkerTyped
<1> QED
  BY <1>1, <1>7, <1>11, <1>12, <1>13, <1>14, <1>15, <1>16, <1>17, WorkerInv, InvFacts, SidesFacts

(* With nothing in flight it can rest.                                      *)
LEMMA Rests ==
  ASSUME Inv, worker' = Resting, UNCHANGED <<target, got, unsure>>, \A c \in Chats : worker.flight[c] = "none"
  PROVE WorkerTyped' /\ TargetTyped' /\ GotTyped' /\ Working' /\ GotOnce' /\ \A a : ~Busy(a)'
<1>1. WorkerTyped' /\ TargetTyped' /\ GotTyped'
  BY Blanks, InvFacts, SidesFacts DEF WorkerTyped, TargetTyped, GotTyped
<1>2. Working' /\ \A a : ~Busy(a)'
  BY Blanks DEF Working, Busy
<1>3. GotOnce'
  BY InvFacts DEF GotOnce, Recorded
<1> QED
  BY <1>1, <1>2, <1>3

(* A batch ends.                                                            *)
LEMMA EndBatchInv ==
  ASSUME Inv, EndBatch PROVE Inv'
<1>1. Calm /\ UNCHANGED <<launch, announces, control, controls>>
  BY WorkerIsCalm DEF EndBatch, working
<1>2. /\ worker.b \in Broadcasts /\ worker' = Resting /\ \A c \in Chats : worker.flight[c] = "none"
      /\ UNCHANGED <<target, reachable, got, unsure, hasty>>
  BY InvFacts DEF EndBatch, Delivered, Working, working
<1>3. WorkerTyped' /\ TargetTyped' /\ GotTyped' /\ Working' /\ GotOnce' /\ \A a : ~Busy(a)'
  BY <1>2, Rests
<1>4. /\ StatusTyped'
      /\ \A a \in Broadcasts : status'[a] = status[a] \/ (status[a] = "running" /\ status'[a] \in {"paused", "done"})
      /\ \A a \in Broadcasts : status'[a] = "done" => status[a] = "done"
  BY <1>2, StopsRun DEF EndBatch
<1>5. Ends'
  BY <1>2, <1>3, <1>4, EndsStay, InvFacts
<1>6. parked' \subseteq Broadcasts
  BY <1>2, SidesFacts DEF EndBatch
<1> QED
  BY <1>1, <1>2, <1>3, <1>4, <1>5, <1>6, WorkerInv, InvFacts, SidesFacts

Closed(row) == [c \in Chats |-> IF row[c] = "pending" THEN "skipped" ELSE row[c]]

(* Closing leaves nobody pending, and what was sent as sent.                *)
LEMMA Closes ==
  ASSUME NEW row \in [Chats -> TargetStates]
  PROVE /\ Closed(row) \in [Chats -> TargetStates]
        /\ \A c \in Chats : Closed(row)[c] # "pending"
        /\ \A c \in Chats : row[c] \in {"none", "sent"} => Closed(row)[c] = row[c]
  BY DEF Closed, TargetStates

(* The rest of the recipients are skipped when a run is closed.             *)
LEMMA SkipInv ==
  ASSUME Inv, SkipRemaining PROVE Inv'
<1>1. Calm /\ UNCHANGED <<launch, announces, control, controls>>
  BY WorkerIsCalm DEF SkipRemaining, working
<1>2. PICK b \in Broadcasts : worker.b = b
  BY InvFacts DEF SkipRemaining, Working
<1>3. worker.at = "finish" /\ worker.todo = {} /\ worker \in WorkerType /\ \A c \in Chats : worker.flight[c] = "none"
  BY InvFacts DEF SkipRemaining, Working, WorkerTyped
<1>4. /\ worker' \in WorkerType /\ worker'.at = "close" /\ worker'.b = b /\ worker'.todo = {}
      /\ worker'.flight = worker.flight
  BY <1>2, <1>3 DEF SkipRemaining, Put, WorkerType
<1>5. UNCHANGED <<status, reachable, parked, got, unsure, hasty>>
  BY DEF SkipRemaining, working
<1>6. target[b] \in [Chats -> TargetStates] /\ target' = [target EXCEPT ![b] = Closed(target[b])]
  BY <1>2, InvFacts DEF SkipRemaining, Closed, TargetTyped
<1>7. /\ TargetTyped' /\ target'[b] = Closed(target[b])
      /\ \A a \in Broadcasts \ {b} : target'[a] = target[a]
  BY <1>6, Closes, InvFacts DEF TargetTyped
<1>8. Working'
  BY <1>2, <1>3, <1>4 DEF Working
<1>9. GotOnce'
  <2>1. \A a \in Broadcasts, c \in Chats : target[a][c] = "sent" => target'[a][c] = "sent"
    BY <1>6, <1>7, Closes
  <2> QED
    BY <1>3, <1>5, <2>1, InvFacts DEF GotOnce, Recorded
<1>10. \A a \in Broadcasts : Busy(a)' <=> Busy(a)
  BY <1>2, <1>3, <1>4 DEF Busy
<1>11. NobodyPending(b)' /\ (Unaddressed(b) => Unaddressed(b)')
  BY <1>6, <1>7, Closes DEF NobodyPending, Unaddressed
<1>12. \A a \in Broadcasts \ {b} :
         (Unaddressed(a)' <=> Unaddressed(a)) /\ (NobodyPending(a)' <=> NobodyPending(a)) /\ ~Busy(a)'
  BY <1>4, <1>7 DEF Unaddressed, NobodyPending, Busy
<1>13. Ends'
  BY <1>5, <1>10, <1>11, <1>12, InvFacts DEF Ends
<1>14. StatusTyped' /\ WorkerTyped' /\ GotTyped'
  BY <1>4, <1>5, InvFacts, SidesFacts DEF StatusTyped, WorkerTyped, GotTyped
<1> QED
  BY <1>1, <1>5, <1>7, <1>8, <1>9, <1>10, <1>13, <1>14, WorkerInv, InvFacts, SidesFacts

(* A run that was not stopped is done.                                      *)
LEMMA FinishInv ==
  ASSUME Inv, Finish PROVE Inv'
<1>1. Calm /\ UNCHANGED <<launch, announces, control, controls>>
  BY WorkerIsCalm DEF Finish, working
<1>2. /\ worker.at = "close" /\ worker' = Resting /\ \A c \in Chats : worker.flight[c] = "none"
      /\ UNCHANGED <<target, reachable, parked, got, unsure, hasty>>
  BY InvFacts DEF Finish, Working, working
<1>3. PICK b \in Broadcasts : worker.b = b
  BY <1>2, InvFacts DEF Working
<1>4. WorkerTyped' /\ TargetTyped' /\ GotTyped' /\ Working' /\ GotOnce' /\ \A a : ~Busy(a)'
  BY <1>2, Rests
<1>5. /\ StatusTyped' /\ status'[b] = IF status[b] = "running" THEN "done" ELSE status[b]
      /\ \A a \in Broadcasts \ {b} : status'[a] = status[a]
  BY <1>3, InvFacts, SetsStatusIf DEF Finish, Statuses
<1>6. NobodyPending(b) \/ b \in hasty
  BY <1>2, <1>3, InvFacts DEF Ends, Busy
<1>7. Ends'
  BY <1>2, <1>4, <1>5, <1>6, EndsStay, InvFacts
<1> QED
  BY <1>1, <1>2, <1>4, <1>5, <1>7, WorkerInv, InvFacts, SidesFacts

(* The rest could not be closed out, or the status not written.             *)
LEMMA FinishFailsInv ==
  ASSUME Inv, FinishFails PROVE Inv'
<1>1. Calm /\ UNCHANGED <<launch, announces, control, controls>>
  BY WorkerIsCalm DEF FinishFails
<1>2. /\ worker.at \in {"finish", "close"} /\ worker.todo = {} /\ worker \in WorkerType
      /\ \A c \in Chats : worker.flight[c] = "none"
      /\ UNCHANGED <<status, target, reachable, parked, got, unsure>>
  BY InvFacts DEF FinishFails, Working, WorkerTyped
<1>3. worker.b \in Broadcasts
  BY <1>2, InvFacts DEF Working
<1>4. StatusTyped'
  BY <1>2, InvFacts DEF StatusTyped
<1>5. CASE worker.at = "close"
  <2>1. worker' = Resting /\ hasty' = hasty
    BY <1>5 DEF FinishFails
  <2>2. WorkerTyped' /\ TargetTyped' /\ GotTyped' /\ Working' /\ GotOnce' /\ \A a : ~Busy(a)'
    BY <1>2, <2>1, Rests
  <2>3. Ends'
    BY <1>2, <2>1, <2>2, EndsStay, InvFacts
  <2> QED
    BY <1>1, <1>2, <1>4, <2>1, <2>2, <2>3, WorkerInv, InvFacts, SidesFacts
<1>6. CASE worker.at = "finish"
  <2>1. worker' = [worker EXCEPT !.at = "close"] /\ hasty' = hasty \union {worker.b}
    BY <1>6 DEF FinishFails, Put
  <2>2. /\ worker' \in WorkerType /\ worker'.at = "close" /\ worker'.b = worker.b /\ worker'.todo = {}
        /\ worker'.flight = worker.flight
    BY <1>2, <2>1 DEF WorkerType
  <2>3. Working'
    BY <1>2, <1>3, <2>2 DEF Working
  <2>4. GotOnce'
    BY <1>2, <2>2, InvFacts DEF GotOnce, Recorded
  <2>5. \A a \in Broadcasts : Busy(a)' <=> Busy(a)
    BY <1>6, <2>2 DEF Busy
  <2>6. \A a \in Broadcasts : Busy(a)' => a \in hasty'
    BY <2>1, <2>2 DEF Busy
  <2>7. Ends'
    BY <1>2, <2>1, <2>5, <2>6, EndsStay, InvFacts
  <2>8. WorkerTyped' /\ TargetTyped' /\ GotTyped'
    BY <1>2, <2>2, InvFacts, SidesFacts DEF WorkerTyped, TargetTyped, GotTyped
  <2> QED
    BY <1>1, <1>2, <1>3, <1>4, <2>1, <2>3, <2>4, <2>5, <2>7, <2>8, WorkerInv, InvFacts, SidesFacts
<1> QED
  BY <1>2, <1>5, <1>6

----------------------------------------------------------------------------
(* The theorems                                                            *)

(* A restart ends launches, worker and operators.                           *)
LEMMA CrashInv ==
  ASSUME Inv, Crash PROVE Inv'
<1>1. OutboxLost /\ faults' \in 0..MaxFaults
  BY FaultTyped, InvFacts DEF Crash, OutboxTyped
<1>2. OutboxTyped' /\ Deliveries'
  BY <1>1, LostKeeps DEF Inv
<1>3. launch' = [b \in Broadcasts |-> Grounded] /\ worker' = Resting
  BY DEF Crash
<1>4. UNCHANGED <<status, target, reachable, controls, got, hasty>>
  BY DEF Crash
<1>5. StatusTyped' /\ TargetTyped' /\ LaunchTyped' /\ WorkerTyped'
  BY <1>3, <1>4, Blanks, InvFacts DEF StatusTyped, TargetTyped, LaunchTyped, WorkerTyped
<1>6. ControlTyped' /\ SidesTyped'
  BY <1>4, Blanks DEF Crash, ControlTyped, SidesTyped, Inv, MailTyped
<1>7. \A c \in Chats : worker.flight[c] # "none" => worker.b \in Broadcasts
  BY InvFacts DEF Working
<1>8. unsure' = unsure \union {<<worker.b, c>> : c \in {d \in Chats : worker.flight[d] = "sent"}}
  BY DEF Crash
<1>9. GotTyped'
  BY <1>4, <1>7, <1>8, SidesFacts DEF GotTyped
<1>10. Working' /\ \A a : ~Busy(a)'
  BY <1>3, Blanks DEF Working, Busy
<1>11. GotOnce'
  <2> SUFFICES ASSUME NEW b \in Broadcasts, NEW c \in Chats, <<b, c>> \notin unsure', got'[b][c] > 0
               PROVE got'[b][c] = 1 /\ target'[b][c] = "sent"
    BY DEF GotOnce, Recorded
  <2>1. <<b, c>> \notin unsure /\ ~(worker.b = b /\ worker.flight[c] = "sent")
    BY <1>8
  <2> QED
    BY <1>4, <2>1, InvFacts DEF GotOnce, Recorded
<1>12. \A b \in Broadcasts : launch'[b].at = "idle"
  BY <1>3, Blanks
<1>13. Ordered'
  <2>1. \A b : (Unaddressed(b)' <=> Unaddressed(b)) /\ (NobodyPending(b)' <=> NobodyPending(b))
    BY <1>4 DEF Unaddressed, NobodyPending
  <2> QED
    BY <1>4, <1>10, <1>12, <2>1, InvFacts DEF Ordered, Unmade, Begins, Ends, Begun, LaunchOver
<1>14. Announced'
  <2>1. \A e \in Events : Told(e) => Told(e)'
    BY <1>4, <1>12 DEF Told, ToldAts
  <2>2. \A e \in Events : emitter'[e].at = "idle"
    BY <1>1 DEF OutboxLost, NotEmitting
  <2>3. \A r \in Rows : Fresh(r) => Fresh(r)'
    BY <1>1 DEF OutboxLost, Fresh, NoJob
  <2> QED
    BY <2>1, <2>2, <2>3, EventsOfRows DEF Inv, Announced
<1> QED
  BY <1>2, <1>5, <1>6, <1>9, <1>10, <1>11, <1>13, <1>14 DEF Inv, MailTyped

(* Nothing of an event appears in the outbox but what was handed over. *)
LEMMA NothingFresh ==
  ASSUME OutboxTyped, OutboxNext
  PROVE /\ \A e \in Events : emitter'[e].at = "store" => emitter[e].at = "store"
        /\ \A r \in Rows : Fresh(r) => Fresh(r)' \/ emitter[EventOf(r)].at = "store"
<1> USE DEF OutboxTyped
<1>1. ASSUME NEW e \in Events, NEW stored \in BOOLEAN, Enqueue(e, stored)
      PROVE /\ \A f \in Events : emitter'[f].at = "store" => emitter[f].at = "store"
            /\ \A r \in Rows : Fresh(r) => Fresh(r)' \/ emitter[EventOf(r)].at = "store"
  BY <1>1 DEF Enqueue, NotEmitting, Fresh
<1>2. ASSUME NEW q \in Rows, Lease(q) \/ DispatchWebhook(q) \/ Drop(q) \/ Post(q) \/ ComesDue(q)
                              \/ \E stored \in BOOLEAN : Settle(q, stored)
      PROVE UNCHANGED emitter /\ \A r \in Rows : Fresh(r) => Fresh(r)'
  <2>1. UNCHANGED emitter
    BY <1>2 DEF Lease, DispatchWebhook, Drop, Post, ComesDue, Settle
  <2>2. ~Fresh(q)
    BY <1>2 DEF Lease, DispatchWebhook, Drop, Post, ComesDue, Lapsed, Settle, Fresh, NoRow
  <2>3. \A r \in Rows \ {q} : outbox'[r] = outbox[r] /\ job'[r] = job[r] /\ received'[r] = received[r]
    BY <1>2 DEF Lease, Leased, DispatchWebhook, LeftLeased, Drop, Post, ComesDue, Settle
  <2> QED
    BY <2>1, <2>2, <2>3 DEF Fresh
<1>3. ASSUME NEW h \in Hooks, Switch(h) \/ DeleteWebhook(h)
      PROVE UNCHANGED emitter /\ \A r \in Rows : Fresh(r) => Fresh(r)'
  BY <1>3 DEF Switch, DeleteWebhook, Fresh
<1> QED
  BY <1>1, <1>2, <1>3 DEF OutboxNext, Stored

(* Steps of the outbox leave broadcasts alone.                              *)
LEMMA OutboxInv ==
  ASSUME Inv, OutboxNext, UNCHANGED mailVars PROVE Inv'
<1>1. OutboxTyped' /\ Deliveries'
  BY OutboxKeeps DEF Inv
<1>2. MailTyped' /\ Working' /\ GotOnce' /\ Ordered'
  BY DEF mailVars, Inv, MailTyped, StatusTyped, LaunchTyped, TargetTyped, WorkerTyped, GotTyped, ControlTyped,
         SidesTyped, Working, GotOnce, Recorded, Ordered, Unmade, Begins, Ends, Begun, Busy, NobodyPending,
         Unaddressed
<1>3. \A e \in Events : Told(e)' <=> Told(e)
  BY DEF mailVars, Told
<1>4. Announced'
  BY <1>3, NothingFresh, EventsOfRows DEF Inv, Announced
<1> QED
  BY <1>1, <1>2, <1>4 DEF Inv

(* Every step keeps the invariant.                                          *)
LEMMA StepInv ==
  ASSUME Inv, [Next]_vars PROVE Inv'
<1>1. CASE UNCHANGED vars
  <2>1. UNCHANGED outboxVars /\ Fine
    BY <1>1 DEF vars, Fine
  <2>2. Calm
    BY <2>1, Calms, InvFacts
  <2>3. ControlTyped' /\ SidesTyped'
    BY <1>1 DEF vars, mailVars, Inv, MailTyped, ControlTyped, SidesTyped
  <2> QED
    BY <1>1, <2>2, <2>3, QuietInv DEF vars, mailVars
<1>2. ASSUME NEW b \in Broadcasts,
             \/ \E planned \in BOOLEAN : CreateBroadcast(b, planned)
             \/ ClaimDue(b) \/ LaunchFails(b) \/ SaveFails(b) \/ RetryFailed(b) \/ Unpark(b)
             \/ \E o \in Operators, to \in {"paused", "running", "cancelled"} : ReadStatus(o, b, to)
      PROVE Inv'
  BY <1>2, CreateInv, ClaimInv, LaunchFailsInv, SaveFailsInv, RetryInv, UnparkInv, ReadStatusInv
<1>3. ASSUME NEW b \in Broadcasts, Launch(b) PROVE Inv'
  BY <1>3, ReadAudienceInv, TooLateInv, AddTargetsInv, StartInv, EmitInv, DoneIfEmptyInv, AbandonInv, CancelInv
     DEF Launch
<1>4. ASSUME NEW o \in Operators, WriteStatus(o) PROVE Inv'
  BY <1>4, WriteStatusInv
<1>5. ASSUME NEW c \in Chats, OptOut(c) \/ Record(c, FALSE) PROVE Inv'
  BY <1>5, OptOutInv, RecordInv
<1>6. ASSUME Deliver \/ FinishFails PROVE Inv'
  BY <1>6, PickInv, NextPendingInv, EndBatchInv, SkipInv, FinishInv, SendInv, RecordInv, FinishFailsInv DEF Deliver
<1>7. ASSUME OutboxNext /\ UNCHANGED mailVars PROVE Inv'
  BY <1>7, OutboxInv
<1>8. ASSUME Crash PROVE Inv'
  BY <1>8, CrashInv
<1> QED
  BY <1>1, <1>2, <1>3, <1>4, <1>5, <1>6, <1>7, <1>8 DEF Next

(* The invariant holds in all behaviours.                                   *)
LEMMA AlwaysInv == Spec => []Inv
  BY Begin, StepInv, PTL DEF Spec

(* Every variable of the broadcasts and of the outbox keeps to its type;   *)
(* no delivery has more than webhookMaxAttempts attempts.                  *)
THEOREM BroadcastsTypes == Spec => []TypeOK
  BY AlwaysInv, InvTypes, PTL

(* Who got it twice is in doubt.                                            *)
LEMMA InvMessaged == Inv => MessagedOnce
<1> SUFFICES ASSUME Inv, NEW b \in Broadcasts, NEW c \in Chats, got[b][c] > 1, <<b, c>> \notin unsure
             PROVE FALSE
  BY DEF MessagedOnce
<1>1. got[b][c] \in Nat
  BY SidesFacts DEF GotTyped
<1> QED
  BY <1>1, InvFacts DEF GotOnce

(* Nobody gets a broadcast twice, through pauses, resumptions, retries,    *)
(* quarantines and restarts, unless the outcome of a message was lost.     *)
THEOREM AlwaysMessagedOnce == Spec => []MessagedOnce
  BY AlwaysInv, InvMessaged, PTL

(* A run that is done has nobody pending.                                   *)
LEMMA InvDrained == Inv => DoneIsDrained
  BY InvFacts DEF Ends, DoneIsDrained, NobodyPending

(* A run that is done leaves nobody pending, with the exceptions named.    *)
THEOREM AlwaysDrained == Spec => []DoneIsDrained
  BY AlwaysInv, InvDrained, PTL

(* An endpoint that got an event twice is in doubt.                         *)
LEMMA InvInDoubt == Inv => RepeatedOnlyInDoubt
<1> SUFFICES ASSUME Inv, NEW r \in Rows, received[r] > 1, r \notin doubtful PROVE FALSE
  BY DEF RepeatedOnlyInDoubt
<1>1. received[r] \in Nat /\ Delivery(r)
  BY DEF Inv, OutboxTyped, Deliveries
<1> QED
  BY <1>1 DEF Delivery, Taken

(* An endpoint gets a delivery once, unless the outcome of a post was lost. *)
THEOREM NeverRepeated == Spec => []RepeatedOnlyInDoubt
  BY AlwaysInv, InvInDoubt, PTL

(* Each step loses nothing.                                                 *)
LEMMA StepLoses ==
  ASSUME Inv, [Next]_vars PROVE [LostOnly]_outboxVars
<1>1. CASE OutboxNext
  BY <1>1, StepLosesNothing DEF Inv
<1>2. CASE outbox' = outbox
  BY <1>2 DEF LostOnly
<1>3. OutboxNext \/ outbox' = outbox
  <2>1. CASE UNCHANGED vars
    BY <2>1 DEF vars, outboxVars
  <2>2. ASSUME NEW b \in Broadcasts,
               \/ \E planned \in BOOLEAN : CreateBroadcast(b, planned)
               \/ ClaimDue(b) \/ LaunchFails(b) \/ SaveFails(b) \/ RetryFailed(b) \/ Unpark(b)
               \/ \E o \in Operators, to \in {"paused", "running", "cancelled"} : ReadStatus(o, b, to)
        PROVE outbox' = outbox
    BY <2>2 DEF CreateBroadcast, ClaimDue, LaunchFails, SaveFails, RetryFailed, Unpark, ReadStatus,
                working, serving, outboxVars
  <2>3. ASSUME NEW b \in Broadcasts, Launch(b) PROVE outbox' = outbox
    BY <2>3 DEF Launch, ReadAudience, TooLate, AddTargets, StartBroadcast, EmitBroadcast, DoneIfEmpty,
                AbandonBroadcast, Cancel, outboxVars
  <2>4. ASSUME NEW o \in Operators, WriteStatus(o) PROVE outbox' = outbox
    BY <2>4 DEF WriteStatus, outboxVars
  <2>5. ASSUME NEW c \in Chats, OptOut(c) \/ Record(c, FALSE) PROVE outbox' = outbox
    BY <2>5 DEF OptOut, Record, working, serving, outboxVars
  <2>6. ASSUME Deliver \/ FinishFails PROVE outbox' = outbox
    BY <2>6 DEF Deliver, FinishFails, Pick, NextPendingTargets, EndBatch, SkipRemaining, Finish, Send, Record,
                working, serving, outboxVars
  <2>7. ASSUME Crash PROVE outbox' = outbox
    BY <2>7 DEF Crash, OutboxLost
  <2> QED
    BY <2>1, <2>2, <2>3, <2>4, <2>5, <2>6, <2>7 DEF Next
<1> QED
  BY <1>1, <1>2, <1>3

(* A stored delivery leaves the table only when the endpoint took it, when *)
(* it failed as often as it may, or when the endpoint was off or deleted.  *)
THEOREM NeverLost == Spec => NothingLost
<1>1. Inv /\ [Next]_vars => [LostOnly]_outboxVars
  BY StepLoses
<1>2. Spec => [][LostOnly]_outboxVars
  BY <1>1, AlwaysInv, PTL DEF Spec
<1>3. NothingLost <=> [][LostOnly]_outboxVars
  BY DEF NothingLost, LostOnly
<1> QED
  BY <1>2, <1>3

(* What CancelHolds says, of one step. *)
KeepsCancelled ==
  \A b \in Broadcasts : status[b] = "cancelled" /\ status'[b] # "cancelled" =>
    \/ \E o \in Operators : control[o] = [at |-> "write", b |-> b, to |-> status'[b]] /\ control'[o] = NoControl
    \/ status'[b] = "done" /\ Unaddressed(b)

(* Each step leaves a cancelled broadcast cancelled.                        *)
LEMMA StepKeepsCancelled ==
  ASSUME Inv, [Next]_vars PROVE KeepsCancelled
<1> SUFFICES ASSUME NEW a \in Broadcasts, status[a] = "cancelled", status'[a] # "cancelled"
             PROVE \/ \E o \in Operators :
                        control[o] = [at |-> "write", b |-> a, to |-> status'[a]] /\ control'[o] = NoControl
                   \/ status'[a] = "done" /\ Unaddressed(a)
  BY DEF KeepsCancelled
<1> USE InvFacts
<1>1. ASSUME UNCHANGED vars PROVE FALSE
  BY <1>1 DEF vars, mailVars
<1>2. ASSUME NEW b \in Broadcasts,
             \/ \E planned \in BOOLEAN : CreateBroadcast(b, planned)
             \/ ClaimDue(b) \/ LaunchFails(b) \/ SaveFails(b) \/ RetryFailed(b) \/ Unpark(b)
             \/ \E o \in Operators, to \in {"paused", "running", "cancelled"} : ReadStatus(o, b, to)
      PROVE FALSE
  BY <1>2 DEF CreateBroadcast, ClaimDue, LaunchFails, SaveFails, RetryFailed, Unpark, ReadStatus, SetStatus,
              SetStatusIf, StatusTyped, launching, delivering
<1>3. ASSUME NEW b \in Broadcasts, DoneIfEmpty(b) PROVE status'[a] = "done" /\ Unaddressed(a)
  BY <1>3 DEF DoneIfEmpty, SetStatus, StatusTyped
<1>4. ASSUME NEW b \in Broadcasts,
             ReadAudience(b) \/ TooLate(b) \/ AddTargets(b) \/ StartBroadcast(b) \/ EmitBroadcast(b)
             \/ AbandonBroadcast(b) \/ Cancel(b)
      PROVE FALSE
  BY <1>4 DEF ReadAudience, TooLate, AddTargets, StartBroadcast, EmitBroadcast, AbandonBroadcast, Cancel,
              SetStatus, SetStatusIf, StatusTyped
<1>5. ASSUME NEW o \in Operators, WriteStatus(o)
      PROVE control[o] = [at |-> "write", b |-> a, to |-> status'[a]] /\ control'[o] = NoControl
  <2>1. control \in [Operators -> ControlType] /\ control[o].at = "write" /\ control[o].b \in Broadcasts
    BY <1>5 DEF WriteStatus, Inv, MailTyped, ControlTyped
  <2>2. a = control[o].b /\ status'[a] = control[o].to
    BY <1>5, <2>1 DEF WriteStatus, SetStatus, StatusTyped
  <2>3. control'[o] = NoControl
    BY <1>5, <2>1 DEF WriteStatus
  <2> QED
    BY <2>1, <2>2, <2>3 DEF ControlType
<1>6. ASSUME NEW c \in Chats, OptOut(c) \/ \E stored \in BOOLEAN : Record(c, stored) PROVE FALSE
  BY <1>6 DEF OptOut, Record, SetStatusIf, StatusTyped
<1>7. ASSUME Pick \/ NextPendingTargets \/ EndBatch \/ SkipRemaining \/ Finish \/ FinishFails
             \/ \E c \in Chats : Send(c)
      PROVE FALSE
  BY <1>7 DEF Pick, NextPendingTargets, EndBatch, SkipRemaining, Finish, FinishFails, Send, SetStatusIf, StatusTyped
<1>8. ASSUME OutboxNext /\ UNCHANGED mailVars PROVE FALSE
  BY <1>8 DEF mailVars
<1>9. ASSUME Crash PROVE FALSE
  BY <1>9 DEF Crash
<1> QED
  BY <1>1, <1>2, <1>3, <1>4, <1>5, <1>6, <1>7, <1>8, <1>9 DEF Next, Launch, Deliver

(* A cancelled run stays cancelled, but for the control of an operator who *)
(* looked before, and a launch that closes a run without recipients.       *)
THEOREM AlwaysCancelled == Spec => CancelHolds
<1>1. Inv /\ [Next]_vars => [KeepsCancelled]_vars
  BY StepKeepsCancelled
<1>2. Spec => [][KeepsCancelled]_vars
  BY <1>1, AlwaysInv, PTL DEF Spec
<1>3. CancelHolds <=> [][KeepsCancelled]_vars
  BY DEF CancelHolds, KeepsCancelled
<1> QED
  BY <1>2, <1>3
=============================================================================
