------------------------------ MODULE Broadcasts ------------------------------
(***************************************************************************)
(* Mass messages: composed or scheduled by an operator (internal/core/     *)
(* manager_broadcast.go), sent by a worker that polls the table            *)
(* (internal/telegram/broadcast.go, internal/store/broadcasts.go), and     *)
(* announced to outside systems through the outbox. Composing, starting    *)
(* what is due, the operators' controls and the worker run side by side;   *)
(* a restart ends them all and keeps the tables.                           *)
(*                                                                         *)
(* Left out: attachments, texts and buttons, how an audience is chosen     *)
(* (everyone who can be reached), the bot being off, trimming the history. *)
(***************************************************************************)
EXTENDS Outbox

CONSTANTS
  Broadcasts,   \* ids, in their order; the event of each is its own id
  Chats,
  Batch,        \* recipients taken at a time: broadcastBatch
  Operators,
  MaxControls   \* cap on the operators' doings

ASSUME BroadcastsAssumption ==
  Broadcasts \subseteq Nat \ {0} /\ Broadcasts \subseteq Events /\ MaxControls \in Nat

VARIABLES
  status,       \* broadcasts.status, "none" while there is no row
  target,       \* broadcast_targets
  reachable,    \* the subscribers neither blocked nor opted out
  launch,       \* [Broadcasts -> ...] the goroutine that brings one to its start
  announces,    \* broadcastHooks: the broadcasts whose outside users are held
  worker,       \* the delivery worker
  parked,       \* runs in quarantine
  control,      \* [Operators -> ...] a control between its read and its write
  controls,     \* controls so far
  got,          \* history: how often each chat got each broadcast
  unsure,       \* history: messages sent whose outcome was lost
  hasty         \* history: broadcasts run before their recipients were written, launched
                \* again after they ran, or closed with recipients that were left

mailVars == <<status, target, reachable, launch, announces, worker, parked, control, controls, got,
              unsure, hasty>>
vars == <<outboxVars, faults, mailVars>>

Statuses == {"none", "scheduled", "paused", "running", "done", "cancelled"}
Over == {"done", "cancelled"}
Grounded == [at |-> "idle", planned |-> FALSE, chats |-> {}]
Resting == [at |-> "idle", b |-> 0, todo |-> {}, flight |-> [c \in Chats |-> "none"], lost |-> FALSE]
NoControl == [at |-> "idle", b |-> 0, to |-> "none"]

TypeOK ==
  /\ OutboxTypeOK
  /\ status \in [Broadcasts -> Statuses]
  /\ target \in [Broadcasts -> [Chats -> {"none", "pending", "sent", "failed", "blocked", "skipped"}]]
  /\ reachable \subseteq Chats
  /\ launch \in [Broadcasts -> [at: {"idle", "audience", "targets", "start", "emit", "end", "abandon", "cancel"},
                                planned: BOOLEAN, chats: SUBSET Chats]]
  /\ announces \subseteq Broadcasts
  /\ worker \in [at: {"idle", "picked", "send", "finish", "close"}, b: Broadcasts \union {0}, todo: SUBSET Chats,
                 flight: [Chats -> {"none", "sent", "failed", "rejected", "blocked"}], lost: BOOLEAN]
  /\ parked \subseteq Broadcasts
  /\ control \in [Operators -> [at: {"idle", "write"}, b: Broadcasts \union {0}, to: Statuses]]
  /\ controls \in 0..MaxControls
  /\ got \in [Broadcasts -> [Chats -> Nat]]
  /\ unsure \subseteq Broadcasts \X Chats /\ hasty \subseteq Broadcasts

Init ==
  /\ OutboxInit
  /\ status = [b \in Broadcasts |-> "none"]
  /\ target = [b \in Broadcasts |-> [c \in Chats |-> "none"]]
  /\ reachable = Chats /\ launch = [b \in Broadcasts |-> Grounded] /\ announces = {}
  /\ worker = Resting /\ parked = {} /\ control = [o \in Operators |-> NoControl] /\ controls = 0
  /\ got = [b \in Broadcasts |-> [c \in Chats |-> 0]] /\ unsure = {} /\ hasty = {}

SetStatus(b, to) == status' = [status EXCEPT ![b] = to]
SetStatusIf(b, from, to) == status' = [status EXCEPT ![b] = IF @ = from THEN to ELSE @]
PutLaunch(b, pc) == launch' = [launch EXCEPT ![b] = IF pc = "idle" THEN Grounded ELSE [@ EXCEPT !.at = pc]]
AtLaunch(b, pc) == launch[b].at = pc
Unaddressed(b) == \A c \in Chats : target[b][c] = "none"
-----------------------------------------------------------------------------
(* Composing and starting                                                  *)

delivering == <<target, reachable, worker, parked, control, got, unsure>>
launching == <<delivering, hasty>>

\* Sent at once, the audience is read here; scheduled, when its time has come.
CreateBroadcast(b, planned) ==
  /\ status[b] = "none" /\ \A a \in Broadcasts : a < b => status[a] # "none"
  /\ controls < MaxControls /\ controls' = controls + 1
  /\ planned \/ reachable # {} \/ on # {}
  /\ SetStatus(b, IF planned THEN "scheduled" ELSE "paused")
  /\ launch' = IF planned THEN launch
               ELSE [launch EXCEPT ![b] = [at |-> "targets", planned |-> FALSE, chats |-> reachable]]
  /\ Fine /\ UNCHANGED <<outboxVars, launching, announces>>

\* A due broadcast is claimed first.
ClaimDue(b) ==
  /\ status[b] = "scheduled" /\ AtLaunch(b, "idle")
  /\ SetStatusIf(b, "scheduled", "paused")
  /\ launch' = [launch EXCEPT ![b] = [at |-> "audience", planned |-> TRUE, chats |-> {}]]
  /\ Fine /\ UNCHANGED <<outboxVars, launching, announces, controls>>

\* Too late or with nobody to get it, it is called off; when the database fails
\* it waits again, or, composed just now, stays as it is, or is called off. One
\* paused since it began waits again too; announced by then, it would be
\* announced again, as another event: that failure is left out.
ReadAudience(b) ==
  /\ AtLaunch(b, "audience")
  /\ launch' = [launch EXCEPT ![b].at = IF reachable = {} /\ on = {} THEN "abandon" ELSE "targets",
                              ![b].chats = reachable]
  /\ Fine /\ UNCHANGED <<outboxVars, launching, status, announces, controls>>
TooLate(b) ==
  /\ AtLaunch(b, "audience") /\ PutLaunch(b, "abandon")
  /\ Fine /\ UNCHANGED <<outboxVars, launching, status, announces, controls>>
LaunchFails(b) ==
  /\ launch[b].at \in {"audience", "targets", "start", "emit", "end"}
  /\ AtLaunch(b, "end") =>
       Unaddressed(b) /\ emitter[b].at = "idle" /\ ~(launch[b].planned /\ status[b] = "paused")
  /\ Fault("store")
  /\ IF launch[b].planned
     THEN /\ SetStatusIf(b, "paused", "scheduled") /\ PutLaunch(b, "idle")
          /\ hasty' = IF AtLaunch(b, "emit") /\ status[b] = "paused" THEN hasty \union {b} ELSE hasty
     ELSE /\ UNCHANGED <<status, hasty>>
          /\ PutLaunch(b, IF AtLaunch(b, "targets") THEN "idle" ELSE "abandon")
  /\ UNCHANGED <<outboxVars, delivering, announces, controls>>

\* INSERT OR IGNORE: those who are in already stay as they are.
AddTargets(b) ==
  /\ AtLaunch(b, "targets")
  /\ target' = [target EXCEPT ![b] =
       [c \in Chats |-> IF @[c] = "none" /\ c \in launch[b].chats THEN "pending" ELSE @[c]]]
  /\ announces' = IF on # {} THEN announces \union {b} ELSE announces
  /\ PutLaunch(b, "start")
  /\ Fine /\ UNCHANGED <<outboxVars, status, reachable, worker, parked, control, controls, got, unsure, hasty>>

\* Only from paused, so that a cancellation meanwhile is kept.
StartBroadcast(b) ==
  /\ AtLaunch(b, "start")
  /\ SetStatusIf(b, "paused", "running")
  /\ PutLaunch(b, IF status[b] = "paused" THEN "emit" ELSE "idle")
  /\ announces' = IF status[b] = "paused" THEN announces ELSE announces \ {b}
  /\ Fine /\ UNCHANGED <<outboxVars, launching, controls>>
SaveFails(b) ==
  /\ AtLaunch(b, "start") /\ ~launch[b].planned
  /\ PutLaunch(b, "abandon") /\ Fault("store")
  /\ UNCHANGED <<outboxVars, launching, status, announces, controls>>

\* The outside users are told, and a run with nothing for the bot is done.
EmitBroadcast(b) ==
  /\ AtLaunch(b, "emit")
  /\ announces' = announces \ {b}
  /\ IF b \in announces THEN LookUp(b) ELSE UNCHANGED emitter
  /\ PutLaunch(b, "end")
  /\ Fine /\ UNCHANGED <<outbox, job, on, received, refused, doubtful, launching, status, controls>>
DoneIfEmpty(b) ==
  /\ AtLaunch(b, "end") /\ emitter[b].at = "idle"
  /\ IF Unaddressed(b) THEN SetStatus(b, "done") ELSE UNCHANGED status
  /\ PutLaunch(b, "idle")
  /\ Fine /\ UNCHANGED <<outboxVars, launching, announces, controls>>

\* AbandonBroadcast looks at the status, then writes.
AbandonBroadcast(b) ==
  /\ AtLaunch(b, "abandon")
  /\ announces' = announces \ {b}
  /\ PutLaunch(b, IF status[b] \in Over THEN "idle" ELSE "cancel")
  /\ Fine /\ UNCHANGED <<outboxVars, launching, status, controls>>
Cancel(b) ==
  /\ AtLaunch(b, "cancel")
  /\ SetStatus(b, "cancelled") /\ PutLaunch(b, "idle")
  /\ Fine /\ UNCHANGED <<outboxVars, launching, announces, controls>>
-----------------------------------------------------------------------------
(* The operators and the recipients                                        *)

\* Pause, resume, cancel: the status is looked at, then written whatever it
\* is by then.
Allowed(b, to) ==
  status[b] \notin Over \union {"none"} /\ (status[b] = "scheduled" => to = "cancelled")
ReadStatus(o, b, to) ==
  /\ control[o].at = "idle" /\ controls < MaxControls /\ Allowed(b, to)
  /\ controls' = controls + 1
  /\ control' = [control EXCEPT ![o] = [at |-> "write", b |-> b, to |-> to]]
  /\ Fine
  /\ UNCHANGED <<outboxVars, status, target, reachable, launch, announces, worker, parked, got, unsure, hasty>>
WriteStatus(o) ==
  /\ control[o].at = "write"
  /\ LET b == control[o].b
     IN /\ SetStatus(b, control[o].to)
        /\ hasty' = IF control[o].to = "running" /\ launch[b].at \notin {"idle", "end"} THEN hasty \union {b} ELSE hasty
  /\ control' = [control EXCEPT ![o] = NoControl]
  /\ Fine /\ UNCHANGED <<outboxVars, target, reachable, launch, announces, worker, parked, controls, got, unsure>>

\* The failed ones again, and the run re-opened if it is done, in one go.
\* A plausible slip: everyone who has had an attempt goes again.
Again(state) == state \in {"sent", "failed"}
ToRetry(state) == state = "failed"
RetryFailed(b) ==
  /\ status[b] = "done" /\ controls < MaxControls
  /\ \E c \in Chats : ToRetry(target[b][c])
  /\ controls' = controls + 1
  /\ target' = [target EXCEPT ![b] = [c \in Chats |-> IF ToRetry(@[c]) THEN "pending" ELSE @[c]]]
  /\ SetStatus(b, "running")
  /\ Fine /\ UNCHANGED <<outboxVars, reachable, launch, announces, worker, parked, control, got, unsure, hasty>>

\* Somebody opts out of mailings, or in again.
OptOut(c) ==
  /\ controls < MaxControls /\ controls' = controls + 1
  /\ reachable' = (reachable \ {c}) \union ({c} \ reachable)
  /\ Fine
  /\ UNCHANGED <<outboxVars, status, target, launch, announces, worker, parked, control, got, unsure, hasty>>
-----------------------------------------------------------------------------
(* The worker                                                              *)

serving == <<outboxVars, launch, announces, control, controls>>
working == <<serving, hasty>>
Put(pc) == worker' = [worker EXCEPT !.at = pc]

\* The oldest run, which, parked, holds the younger ones back.
Pick ==
  /\ worker.at = "idle"
  /\ \E b \in Broadcasts \ parked :
       /\ status[b] = "running" /\ \A a \in Broadcasts : a < b => status[a] # "running"
       /\ worker' = [Resting EXCEPT !.at = "picked", !.b = b]
  /\ Fine /\ UNCHANGED <<working, status, target, reachable, parked, got, unsure>>

Waiting(b) == {c \in reachable : target[b][c] = "pending"}
NextPendingTargets ==
  /\ worker.at = "picked"
  /\ IF Waiting(worker.b) = {} THEN Put("finish")
     ELSE \E some \in SUBSET Waiting(worker.b) :
            /\ some # {} /\ Cardinality(some) <= Batch
            /\ Cardinality(some) = Batch \/ some = Waiting(worker.b)
            /\ worker' = [worker EXCEPT !.at = "send", !.todo = some]
  /\ Fine /\ UNCHANGED <<working, status, target, reachable, parked, got, unsure>>

\* Several at a time. A message may arrive and still be reported as failed.
Send(c) ==
  /\ worker.at = "send" /\ c \in worker.todo
  /\ \E outcome \in IF "post" \in MayFail THEN {"sent", "failed", "rejected", "blocked"} ELSE {"sent"} :
       /\ worker' = [worker EXCEPT !.todo = @ \ {c}, !.flight[c] = outcome]
       /\ \/ /\ got' = IF outcome = "sent" THEN [got EXCEPT ![worker.b][c] = @ + 1] ELSE got
             /\ Fine /\ UNCHANGED unsure
          \/ /\ outcome = "failed" /\ Fault("post")
             /\ got' = [got EXCEPT ![worker.b][c] = @ + 1]
             /\ unsure' = unsure \union {<<worker.b, c>>}
  /\ UNCHANGED <<working, status, target, reachable, parked>>

\* Who refuses for good is not written to again. Enough rejections of the text
\* in a row stop the run; how many is left to chance.
\* A plausible slip: a failed recipient stays pending.
OutcomeOrPending(c) == IF worker.flight[c] \in {"failed", "rejected"} THEN "pending" ELSE worker.flight[c]
Outcome(c) == IF worker.flight[c] = "rejected" THEN "failed" ELSE worker.flight[c]
Record(c, stored) ==
  /\ worker.flight[c] # "none"
  /\ reachable' = IF worker.flight[c] = "blocked" THEN reachable \ {c} ELSE reachable
  /\ \/ UNCHANGED status
     \/ worker.flight[c] = "rejected" /\ SetStatusIf(worker.b, "running", "paused")
  /\ IF stored
     THEN /\ target' = [target EXCEPT ![worker.b][c] = Outcome(c)]
          /\ worker' = [worker EXCEPT !.flight[c] = "none"]
          /\ Fine /\ UNCHANGED unsure
     ELSE /\ worker' = [worker EXCEPT !.flight[c] = "none", !.lost = TRUE]
          /\ unsure' = IF worker.flight[c] = "sent" THEN unsure \union {<<worker.b, c>>} ELSE unsure
          /\ Fault("store") /\ UNCHANGED target
  /\ UNCHANGED <<working, parked, got>>

\* A run whose outcomes cannot be stored is parked, in memory, and paused if
\* that can be stored.
Delivered == worker.at = "send" /\ worker.todo = {} /\ \A c \in Chats : worker.flight[c] = "none"
EndBatch ==
  /\ Delivered
  /\ worker' = Resting
  /\ parked' = IF worker.lost THEN parked \union {worker.b} ELSE parked
  /\ UNCHANGED status \/ (worker.lost /\ SetStatusIf(worker.b, "running", "paused"))
  /\ worker.lost /\ status[worker.b] = "running" /\ status' = status => "store" \in MayFail
  /\ Fine /\ UNCHANGED <<working, target, reachable, got, unsure>>
Unpark(b) ==
  /\ b \in parked /\ parked' = parked \ {b}
  /\ Fine /\ UNCHANGED <<working, status, target, reachable, worker, got, unsure>>

\* Whoever is left has opted out; the run is done unless it was stopped.
\* Two plausible slips: those left stay pending, and a stopped run is done too.
SkipNobody ==
  /\ worker.at = "finish" /\ Put("close")
  /\ Fine /\ UNCHANGED <<working, status, target, reachable, parked, got, unsure>>
FinishAnyway ==
  /\ worker.at = "close" /\ worker' = Resting
  /\ SetStatus(worker.b, "done")
  /\ Fine /\ UNCHANGED <<working, target, reachable, parked, got, unsure>>
SkipRemaining ==
  /\ worker.at = "finish" /\ Put("close")
  /\ target' = [target EXCEPT ![worker.b] = [c \in Chats |-> IF @[c] = "pending" THEN "skipped" ELSE @[c]]]
  /\ Fine /\ UNCHANGED <<working, status, reachable, parked, got, unsure>>
Finish ==
  /\ worker.at = "close" /\ worker' = Resting
  /\ SetStatusIf(worker.b, "running", "done")
  /\ Fine /\ UNCHANGED <<working, target, reachable, parked, got, unsure>>

\* That the rest could not be closed out is logged, and the run is done all the
\* same; a status that could not be written is left for the next pass.
FinishFails ==
  /\ Fault("store")
  /\ \/ /\ worker.at = "finish" /\ Put("close")
        /\ hasty' = hasty \union {worker.b}
     \/ /\ worker.at = "close" /\ worker' = Resting
        /\ UNCHANGED hasty
  /\ UNCHANGED <<serving, status, target, reachable, parked, got, unsure>>
-----------------------------------------------------------------------------
Crash ==
  /\ Fault("crash")
  /\ OutboxLost
  /\ launch' = [b \in Broadcasts |-> Grounded] /\ announces' = {}
  /\ worker' = Resting /\ parked' = {} /\ control' = [o \in Operators |-> NoControl]
  /\ unsure' = unsure \union {<<worker.b, c>> : c \in {d \in Chats : worker.flight[d] = "sent"}}
  /\ UNCHANGED <<status, target, reachable, controls, got, hasty>>

Launch(b) ==
  \/ ReadAudience(b) \/ TooLate(b) \/ AddTargets(b) \/ StartBroadcast(b) \/ EmitBroadcast(b)
  \/ DoneIfEmpty(b) \/ AbandonBroadcast(b) \/ Cancel(b)
Deliver ==
  \/ Pick \/ NextPendingTargets \/ EndBatch \/ SkipRemaining \/ Finish
  \/ \E c \in Chats : Send(c) \/ Record(c, TRUE)

Next ==
  \/ \E b \in Broadcasts :
       \/ \E planned \in BOOLEAN : CreateBroadcast(b, planned)
       \/ ClaimDue(b) \/ Launch(b) \/ LaunchFails(b) \/ SaveFails(b) \/ RetryFailed(b) \/ Unpark(b)
       \/ \E o \in Operators, to \in {"paused", "running", "cancelled"} : ReadStatus(o, b, to)
  \/ \E o \in Operators : WriteStatus(o)
  \/ \E c \in Chats : OptOut(c) \/ Record(c, FALSE)
  \/ Deliver \/ FinishFails
  \/ OutboxNext /\ UNCHANGED mailVars
  \/ Crash

Spec == Init /\ [][Next]_vars

\* The loops go on; leases, backoffs and quarantines end by the clock; a write
\* that failed works in the end (the faults of an instance are counted).
Fairness ==
  /\ \A b \in Broadcasts : WF_vars(ClaimDue(b)) /\ WF_vars(Launch(b)) /\ WF_vars(Unpark(b))
  /\ WF_vars(Deliver)
  /\ \A o \in Operators : WF_vars(WriteStatus(o))
  /\ \A e \in Events : WF_vars(Enqueue(e, TRUE) /\ UNCHANGED mailVars)
  /\ \A r \in Rows :
       WF_vars((Lease(r) \/ DispatchWebhook(r) \/ Drop(r) \/ Post(r) \/ ComesDue(r) \/ Settle(r, TRUE))
               /\ UNCHANGED mailVars)
FairSpec == Spec /\ Fairness
-----------------------------------------------------------------------------
(* Properties                                                              *)

\* Nobody gets a broadcast twice, through pauses, retries, quarantines and
\* restarts, unless the outcome of a message was lost ("a restart mid-run
\* resumes instead of losing or repeating anything").
MessagedOnce ==
  \A b \in Broadcasts, c \in Chats : got[b][c] > 1 => <<b, c>> \in unsure

\* A cancelled run stays cancelled: neither the end of its last batch, a failed
\* write, its launch nor a retry runs it again. Only the control of an operator
\* who looked before the cancellation does, and a launch that finds nobody to
\* write to closes it as done (SetBroadcastStatus, SetBroadcastStatusIf).
CancelHolds ==
  [][\A b \in Broadcasts : status[b] = "cancelled" /\ status'[b] # "cancelled" =>
       \/ \E o \in Operators : control[o] = [at |-> "write", b |-> b, to |-> status'[b]] /\ control'[o] = NoControl
       \/ status'[b] = "done" /\ Unaddressed(b)]_vars

\* A run that is done leaves nobody pending, a state no control can move
\* (RetryFailedBroadcast), unless an operator ran it while its recipients
\* were still to be written, paused it while its launch was failing and going
\* to be tried again, or the last recipients could not be closed out.
DoneIsDrained ==
  \A b \in Broadcasts \ hasty : status[b] = "done" => \A c \in Chats : target[b][c] # "pending"

\* A run comes to an end, or is stopped; nothing scheduled waits for good.
RunsEnd == \A b \in Broadcasts : status[b] \in {"running", "scheduled"} ~> status[b] \notin {"running", "scheduled"}

\* Every stored delivery is sent or given up in the end, through restarts.
RowsGo == \A r \in Rows : outbox[r] # NoRow ~> outbox[r] = NoRow
=============================================================================
