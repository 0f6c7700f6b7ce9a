-------------------------------- MODULE Outbox --------------------------------
(***************************************************************************)
(* Outgoing events (internal/core/manager_webhooks.go, internal/store/     *)
(* webhook_outbox.go). An event is stored once for each endpoint that      *)
(* subscribed. The dispatcher leases what is due, workers send it, and it  *)
(* leaves the table, or is due again after a while; what a restart leaves  *)
(* leased is due when the lease ends.                                      *)
(*                                                                         *)
(* Times are left out: a delivery is due, leased or to be tried later. A   *)
(* lease outlasts its sending, as webhookLease's comment works out. So are *)
(* bodies and signatures, batch sizes, changes of an endpoint's URL, and   *)
(* plugins, which have a dispatcher and workers of their own.              *)
(***************************************************************************)
EXTENDS Naturals, FiniteSets

CONSTANTS
  Events,       \* the events of an instance
  Hooks,        \* the endpoints
  MaxAttempts,  \* webhookMaxAttempts
  MayFail,      \* subset of {"post", "store", "crash", "off"}
  MaxFaults     \* cap on what fails in an instance, refusals aside

ASSUME OutboxAssumption == MaxAttempts \in Nat \ {0} /\ MaxFaults \in Nat

VARIABLES
  outbox,       \* webhook_outbox: [Rows -> ...]
  job,          \* [Rows -> ...] deliveries in the hands of this process
  on,           \* the endpoints there are that are switched on
  emitter,      \* [Events -> ...] an emission that has read its endpoints
  received, refused,  \* [Rows -> Nat] history: posts taken, posts that failed
  doubtful,     \* history: deliveries posted whose outcome was lost
  faults        \* faults so far

outboxVars == <<outbox, job, on, emitter, received, refused, doubtful>>

Rows == Events \X Hooks
EventOf(r) == r[1]
To(r) == r[2]
NoRow == [at |-> "none", attempt |-> 0]
NoJob == [at |-> "none", attempt |-> 0, result |-> "none"]
NotEmitting == [at |-> "idle", to |-> {}]

OutboxTypeOK ==
  /\ outbox \in [Rows -> [at: {"none", "due", "leased", "later"}, attempt: 0..MaxAttempts]]
  /\ job \in [Rows -> [at: {"none", "held", "drop", "queued", "sent"}, attempt: 0..MaxAttempts,
                       result: {"none", "ok", "failed"}]]
  /\ on \subseteq Hooks
  /\ emitter \in [Events -> [at: {"idle", "store"}, to: SUBSET Hooks]]
  /\ received \in [Rows -> Nat] /\ refused \in [Rows -> Nat]
  /\ doubtful \subseteq Rows /\ faults \in 0..MaxFaults

OutboxInit ==
  /\ outbox = [r \in Rows |-> NoRow] /\ job = [r \in Rows |-> NoJob]
  /\ on = Hooks /\ emitter = [e \in Events |-> NotEmitting]
  /\ received = [r \in Rows |-> 0] /\ refused = [r \in Rows |-> 0]
  /\ doubtful = {} /\ faults = 0

Fault(kind) == kind \in MayFail /\ faults < MaxFaults /\ faults' = faults + 1
Fine == faults' = faults
-----------------------------------------------------------------------------
(* Emitting                                                                *)

\* The endpoints are looked up, then one row for each of them is stored in one
\* transaction. An event whose rows cannot be stored is lost, and logged.
LookUp(e) == emitter' = [emitter EXCEPT ![e] = [at |-> "store", to |-> on]]
Enqueue(e, stored) ==
  /\ emitter[e].at = "store"
  /\ emitter' = [emitter EXCEPT ![e] = NotEmitting]
  /\ outbox' = IF ~stored THEN outbox
               ELSE [r \in Rows |-> IF EventOf(r) = e /\ To(r) \in emitter[e].to
                                    THEN [at |-> "due", attempt |-> 0] ELSE outbox[r]]
  /\ IF stored THEN Fine ELSE Fault("store")
  /\ UNCHANGED <<job, on, received, refused, doubtful>>
-----------------------------------------------------------------------------
(* Sending                                                                 *)

\* A plausible slip: the delivery stays due while it is being sent.
LeftDue(r) == outbox
Leased(r) == [outbox EXCEPT ![r].at = "leased"]
Lease(r) ==
  /\ outbox[r].at = "due"
  /\ outbox' = Leased(r)
  /\ job' = [job EXCEPT ![r] = [at |-> "held", attempt |-> outbox[r].attempt + 1, result |-> "none"]]
  /\ Fine /\ UNCHANGED <<on, emitter, received, refused, doubtful>>

\* Deliveries to an endpoint that is off or deleted by now are dropped. Where the
\* endpoints cannot be read, or the row not be deleted, it stays leased.
LeftLeased(r) == Fault("store") /\ job' = [job EXCEPT ![r] = NoJob] /\ UNCHANGED outbox
DispatchWebhook(r) ==
  /\ job[r].at = "held"
  /\ \/ /\ job' = [job EXCEPT ![r].at = IF To(r) \in on THEN "queued" ELSE "drop"]
        /\ Fine /\ UNCHANGED outbox
     \/ LeftLeased(r)
  /\ UNCHANGED <<on, emitter, received, refused, doubtful>>
Drop(r) ==
  /\ job[r].at = "drop"
  /\ \/ /\ job' = [job EXCEPT ![r] = NoJob]
        /\ outbox' = [outbox EXCEPT ![r] = NoRow]
        /\ Fine
     \/ LeftLeased(r)
  /\ UNCHANGED <<on, emitter, received, refused, doubtful>>

\* The endpoint takes it or does not; or takes it and is not heard.
Post(r) ==
  /\ job[r].at = "queued"
  /\ \/ /\ received' = [received EXCEPT ![r] = @ + 1]
        /\ job' = [job EXCEPT ![r].at = "sent", ![r].result = "ok"]
        /\ Fine /\ UNCHANGED <<refused, doubtful>>
     \/ /\ received' = [received EXCEPT ![r] = @ + 1] /\ refused' = [refused EXCEPT ![r] = @ + 1]
        /\ job' = [job EXCEPT ![r].at = "sent", ![r].result = "failed"]
        /\ doubtful' = doubtful \union {r}
        /\ Fault("post")
     \/ /\ "post" \in MayFail
        /\ refused' = [refused EXCEPT ![r] = @ + 1]
        /\ job' = [job EXCEPT ![r].at = "sent", ![r].result = "failed"]
        /\ Fine /\ UNCHANGED <<received, doubtful>>
  /\ UNCHANGED <<outbox, on, emitter>>

\* Delivered or out of attempts, the row goes; otherwise it is due again after
\* a backoff. Neither touches a row that was deleted.
\* A plausible slip: an attempt too few.
FinishedEarly(r) == job[r].result = "ok" \/ job[r].attempt >= MaxAttempts - 1
Finished(r) == job[r].result = "ok" \/ job[r].attempt >= MaxAttempts
Settle(r, stored) ==
  /\ job[r].at = "sent"
  /\ job' = [job EXCEPT ![r] = NoJob]
  /\ IF stored
     THEN /\ outbox' = [outbox EXCEPT ![r] = IF @ = NoRow \/ Finished(r) THEN NoRow
                                             ELSE [at |-> "later", attempt |-> job[r].attempt]]
          /\ Fine /\ UNCHANGED doubtful
     ELSE /\ Fault("store") /\ UNCHANGED outbox
          /\ doubtful' = IF job[r].result = "ok" THEN doubtful \union {r} ELSE doubtful
  /\ UNCHANGED <<on, emitter, received, refused>>

\* A backoff ends, or the lease of a delivery that nobody here is sending.
\* A plausible slip: leases do not end.
BackedOff(r) == outbox[r].at = "later"
Lapsed(r) == outbox[r].at = "later" \/ (outbox[r].at = "leased" /\ job[r].at = "none")
ComesDue(r) ==
  /\ Lapsed(r)
  /\ outbox' = [outbox EXCEPT ![r].at = "due"]
  /\ Fine /\ UNCHANGED <<job, on, emitter, received, refused, doubtful>>

\* An endpoint is switched off or on, or deleted, and then what is waiting for it
\* unless that fails.
Switch(h) ==
  /\ Fault("off")
  /\ on' = (on \ {h}) \union ({h} \ on)
  /\ UNCHANGED <<outbox, job, emitter, received, refused, doubtful>>
DeleteWebhook(h) ==
  /\ Fault("off") /\ h \in on
  /\ on' = on \ {h}
  /\ \/ outbox' = [r \in Rows |-> IF To(r) = h THEN NoRow ELSE outbox[r]]
     \/ "store" \in MayFail /\ UNCHANGED outbox
  /\ UNCHANGED <<job, emitter, received, refused, doubtful>>

\* What a restart does to all this: the table stays.
OutboxLost ==
  /\ job' = [r \in Rows |-> NoJob]
  /\ emitter' = [e \in Events |-> NotEmitting]
  /\ doubtful' = doubtful \union {r \in Rows : job[r].at = "sent" /\ job[r].result = "ok"}
  /\ UNCHANGED <<outbox, on, received, refused>>

Stored == IF "store" \in MayFail THEN BOOLEAN ELSE {TRUE}
OutboxNext ==
  \/ \E e \in Events, stored \in Stored : Enqueue(e, stored)
  \/ \E r \in Rows : Lease(r) \/ DispatchWebhook(r) \/ Drop(r) \/ Post(r) \/ ComesDue(r)
                     \/ \E stored \in Stored : Settle(r, stored)
  \/ \E h \in Hooks : Switch(h) \/ DeleteWebhook(h)
-----------------------------------------------------------------------------
(* Properties                                                              *)

\* A stored delivery leaves the table only when the endpoint took it, when it
\* failed as often as it may, or when the endpoint was off or deleted: no
\* restart, failed write or overlap loses one ("a bulk action of thousands, or
\* a restart, loses none of them").
OffSeen(r) == To(r) \notin on' \/ job[r].at = "drop"
NothingLost ==
  [][\A r \in Rows : outbox[r] # NoRow /\ outbox'[r] = NoRow =>
       received[r] > 0 \/ refused[r] >= MaxAttempts \/ OffSeen(r)]_outboxVars

\* An endpoint gets a delivery once, unless the outcome of a post got lost
\* ("a delivery being sent is not taken again").
RepeatedOnlyInDoubt == \A r \in Rows : received[r] > 1 => r \in doubtful
=============================================================================
