------------------------------- MODULE Traffic -------------------------------
(***************************************************************************)
(* Traffic and quotas (internal/core/manager_stats.go, manager_users.go,   *)
(* internal/store/stats.go, users.go). The local Xray counts every user's  *)
(* bytes from the start of its process. A flush reads the counters, books  *)
(* what they have grown by since the baseline kept in the user's row, and  *)
(* moves the baseline; nodes report increments. Both charge the quota, and *)
(* an enforcement pass takes whoever is over it out of the config. Resets, *)
(* edits and restarts come at any moment.                                  *)
(*                                                                         *)
(* Bytes come one at a time and in one direction; a node's coefficient is  *)
(* one. A due flush and the quota watch, which only makes one due early,   *)
(* are one action without a time. Expiry, devices, warnings and billing,   *)
(* which the pass sees to as well, are left out, and so are the AmneziaWG  *)
(* tunnel and the totals per lane. UserSync has the inside of a user sync, *)
(* NodeSync how a report is delivered once.                                *)
(***************************************************************************)
EXTENDS Naturals

CONSTANTS
  Users,
  Limits,      \* the quotas an operator gives; 0 is none
  MayHappen,   \* subset of {"node", "limit", "reset", "period", "api", "store",
               \*            "exit", "restart", "stop", "panel"}
  MaxBytes,    \* cap on the bytes of a user through the local Xray
  MaxEvents    \* cap on what happens of MayHappen

ASSUME BoundsAreNumbers == MaxBytes \in Nat /\ MaxEvents \in Nat /\ Limits \subseteq Nat

VARIABLES
  count,       \* the counters of the running Xray
  served,      \* the users in its config; Manager.applied
  row,         \* users: last counter, use of the quota, quota, notified_status
  day,         \* traffic_daily, of the local server
  flush,       \* the flush that holds statsMu
  pass,        \* [Passes -> ...] enforcement passes, one of which holds enforceMu
  asked,       \* reports of nodes have asked for a pass: enforcePending
  operator,    \* the operator's reset of a user's traffic, under way
  kick,        \* a user sync was asked for
  carried,     \* history: bytes through the local Xray
  noded,       \* history: bytes reported by nodes
  from,        \* history: what both were when the quota's count last began
  alerts,      \* history: alerts that a user ran out
  crossings,   \* history: times a user ran out
  raced,       \* users whose reset met a flush, or went without the counters
  lost,        \* users some of whose bytes went unbooked with a process or a reset
  events

history == <<carried, noded, from, raced, lost>>
enforcing == <<pass, asked, alerts>>
vars == <<count, served, row, day, flush, operator, kick, crossings, events, enforcing, history>>

Passes == {"flush", "report"}
Zero == [u \in Users |-> 0]
NoFlush == [at |-> "idle", who |-> "tick", stats |-> Zero, bases |-> Zero, mark |-> Zero]
NoPass == [at |-> "idle", status |-> [u \in Users |-> "active"], noted |-> [u \in Users |-> "active"], todo |-> {}]
NoReset == [at |-> "idle", users |-> {}, live |-> Zero, mark |-> Zero, stale |-> {}]

Statuses == {"active", "limited"}
Counts == [Users -> Nat]
TypeOK ==
  /\ count \in Counts /\ day \in Counts /\ served \subseteq Users
  /\ row \in [Users -> [base: Nat, used: Nat, limit: Limits, notified: Statuses \union {"new"}]]
  /\ flush \in [at: {"idle", "bases", "write", "reset", "pass", "done"}, who: {"tick", "restart", "stop"},
                stats: Counts, bases: Counts, mark: Counts]
  /\ pass \in [Passes -> [at: {"idle", "wait", "notify", "compare"}, status: [Users -> Statuses],
                          noted: [Users -> Statuses \union {"new"}], todo: SUBSET Users]]
  /\ asked \in BOOLEAN /\ kick \in BOOLEAN
  /\ operator \in [at: {"idle", "write"}, users: SUBSET Users, live: Counts, mark: Counts, stale: SUBSET Users]
  /\ carried \in [Users -> 0..MaxBytes] /\ noded \in Counts /\ from \in Counts
  /\ alerts \in Counts /\ crossings \in Counts
  /\ raced \subseteq Users /\ lost \subseteq Users /\ events \in 0..MaxEvents

Init ==
  /\ count = Zero /\ day = Zero /\ served = Users
  /\ row \in [Users -> {[base |-> 0, used |-> 0, limit |-> l, notified |-> "new"] : l \in Limits}]
  /\ flush = NoFlush /\ pass = [p \in Passes |-> NoPass] /\ asked = FALSE
  /\ operator = NoReset /\ kick = FALSE
  /\ carried = Zero /\ noded = Zero /\ from = Zero /\ alerts = Zero /\ crossings = Zero
  /\ raced = {} /\ lost = {} /\ events = 0

Event(kind) == kind \in MayHappen /\ events < MaxEvents /\ events' = events + 1
Ordinary == events' = events
-----------------------------------------------------------------------------
(* Users and their counters                                                *)

Over(r) == r.limit > 0 /\ r.used >= r.limit
Status(u) == IF Over(row[u]) THEN "limited" ELSE "active"
Working == {u \in Users : Status(u) = "active"}
Total(u) == carried[u] + noded[u]
Totals == [u \in Users |-> Total(u)]

\* A write of the users' rows; whoever it takes over the quota has run out.
RowsBecome(rows) ==
  /\ row' = rows
  /\ crossings' = [u \in Users |-> crossings[u] + IF ~Over(row[u]) /\ Over(rows[u]) THEN 1 ELSE 0]

\* What a counter has grown by since a baseline; a smaller one began again.
\* A plausible slip: that it may begin again is forgotten.
GrowthForward(counter, base) == counter - base
Growth(counter, base) == IF counter < base THEN counter ELSE counter - base

\* The counters a flush has read and not yet booked: of the users that have any.
Holds(u) == flush.at \in {"bases", "write"} /\ flush.stats[u] > 0
Held(u) == IF ~Holds(u) THEN 0
           ELSE Growth(flush.stats[u], IF flush.at = "write" THEN flush.bases[u] ELSE row[u].base)
Reference(u) == IF Holds(u) THEN flush.stats[u] ELSE row[u].base
Unread(u) == Growth(count[u], Reference(u))
Left(u) == Held(u) + Unread(u)

\* A byte of a user in the config. A counter that has begun again and catches up
\* with its baseline before it is read is taken for one that went on.
Carry(u) ==
  /\ u \in served /\ carried[u] < MaxBytes
  /\ count' = [count EXCEPT ![u] = @ + 1]
  /\ carried' = [carried EXCEPT ![u] = @ + 1]
  /\ lost' = IF count[u] + 1 = Reference(u) THEN lost \union {u} ELSE lost
  /\ Ordinary /\ UNCHANGED <<served, row, day, flush, operator, kick, crossings, enforcing, noded, from, raced>>

\* A node's report, booked once. Reports share a pass that waits to run; the pass
\* of one with a user who ran out on the node is not kept waiting, but takes its
\* turn with them all the same.
NodeReport(u) ==
  /\ Event("node")
  /\ RowsBecome([row EXCEPT ![u].used = @ + 1])
  /\ noded' = [noded EXCEPT ![u] = @ + 1]
  /\ asked' = TRUE
  /\ UNCHANGED <<count, served, day, flush, operator, kick, pass, alerts, carried, from, raced, lost>>

SetUserLimits(u, limit) ==
  /\ limit # row[u].limit /\ Event("limit")
  /\ RowsBecome([row EXCEPT ![u].limit = limit])
  /\ kick' = TRUE
  /\ UNCHANGED <<count, served, day, flush, operator, enforcing, history>>

\* The reconcile loop puts the users who are to be served into the config.
SyncUsers ==
  /\ kick /\ kick' = FALSE
  /\ served' = Working
  /\ Ordinary /\ UNCHANGED <<count, row, day, flush, operator, crossings, enforcing, history>>
-----------------------------------------------------------------------------
(* The process and the panel come and go                                   *)

\* Xray's counters end with its process, read or not.
Restarts ==
  /\ count' = Zero
  /\ lost' = lost \union {u \in Users : Unread(u) > 0}

\* It crashes, or is restarted while a flush runs, which reads the same counters.
Exit ==
  /\ Event("exit") /\ Restarts
  /\ UNCHANGED <<served, row, day, flush, operator, kick, crossings, enforcing, carried, noded, from, raced>>
RestartUnderFlush ==
  /\ flush.at # "idle" /\ flush.who # "restart"
  /\ Event("restart") /\ Restarts
  /\ UNCHANGED <<served, row, day, flush, operator, kick, crossings, enforcing, carried, noded, from, raced>>
\* The counters cannot be read before a restart.
RestartUnread ==
  /\ flush.at = "idle" /\ "restart" \in MayHappen
  /\ Event("api") /\ Restarts
  /\ UNCHANGED <<served, row, day, flush, operator, kick, crossings, enforcing, carried, noded, from, raced>>

\* The panel ends, and Xray with it; the next start serves who is to be served.
PanelRestarts ==
  /\ count' = Zero
  /\ lost' = lost \union {u \in Users : Left(u) > 0}
  /\ served' = Working /\ kick' = FALSE
  /\ flush' = NoFlush /\ pass' = [p \in Passes |-> NoPass] /\ asked' = FALSE /\ operator' = NoReset
Killed ==
  /\ Event("panel") /\ PanelRestarts
  /\ UNCHANGED <<row, day, crossings, alerts, carried, noded, from, raced>>
-----------------------------------------------------------------------------
(* Flushing, under statsMu                                                 *)

\* A tick, a restart and a stop begin with the counters.
ReadStats(who) ==
  /\ flush.at = "idle"
  /\ flush' = [NoFlush EXCEPT !.at = "bases", !.who = who, !.stats = count, !.mark = Totals]
  /\ UNCHANGED <<count, served, row, day, operator, kick, crossings, enforcing, history>>
TickStats == ReadStats("tick") /\ Ordinary
FlushBeforeRestart == ReadStats("restart") /\ Event("restart")
FlushTrafficOnStop == ReadStats("stop") /\ Event("stop")

\* A flush that gives up leaves its bytes to the next one, as far as the counters
\* still show them: not when the process was restarted since, or the counter has
\* caught up with an old baseline.
Dropped == {u \in Users : Growth(count[u], row[u].base) < Left(u)}

\* A flush that cannot read the baselines gives up.
TrafficBaselines(read) ==
  /\ flush.at = "bases"
  /\ IF read
     THEN /\ flush' = [flush EXCEPT !.at = "write", !.bases = [u \in Users |-> row[u].base]]
          /\ Ordinary /\ UNCHANGED lost
     ELSE /\ flush' = [NoFlush EXCEPT !.at = "done", !.who = flush.who]
          /\ lost' = lost \union Dropped
          /\ Event("store")
  /\ UNCHANGED <<count, served, row, day, operator, kick, crossings, enforcing, carried, noded, from, raced>>

\* The baseline of the next flush: where this one read the counter.
\* A plausible slip: a baseline that only moves forward.
NewBaseForward(u) == IF flush.stats[u] > row[u].base THEN flush.stats[u] ELSE row[u].base
NewBase(u) == IF flush.stats[u] = 0 THEN row[u].base ELSE flush.stats[u]

\* The users whose baseline a flush moves under a reset that has read the counters.
Moved(rows) ==
  operator' = IF operator.at = "idle" THEN operator
              ELSE [operator EXCEPT !.stale = @ \union {u \in Users : rows[u].base # row[u].base}]

\* One transaction for everyone. When it fails the baselines stay, and the next
\* flush measures from them.
ApplyTrafficDeltas(stored) ==
  /\ flush.at = "write"
  /\ flush' = [flush EXCEPT !.at = "reset"]
  /\ IF stored
     THEN /\ RowsBecome([u \in Users |-> [row[u] EXCEPT !.base = NewBase(u), !.used = @ + Held(u)]])
          /\ Moved(row')
          /\ day' = [u \in Users |-> day[u] + Held(u)]
          /\ Ordinary /\ UNCHANGED lost
     ELSE /\ lost' = lost \union Dropped
          /\ Event("store") /\ UNCHANGED <<row, day, operator, crossings>>
  /\ UNCHANGED <<count, served, kick, enforcing, carried, noded, from, raced>>

\* Quotas whose period is over begin again, at the counters of this flush, booked
\* or not.
ApplyResets(due) ==
  /\ flush.at = "reset"
  /\ RowsBecome([u \in Users |-> IF u \in due THEN [row[u] EXCEPT !.base = flush.stats[u], !.used = 0] ELSE row[u]])
  /\ Moved(row')
  /\ from' = [u \in Users |-> IF u \in due THEN flush.mark[u] ELSE from[u]]
  /\ lost' = lost \union {u \in due : row[u].base # flush.stats[u] /\ Left(u) > 0}
  /\ kick' = (kick \/ due # {})
  /\ IF due = {} THEN Ordinary ELSE Event("period")
  /\ flush' = [NoFlush EXCEPT !.at = IF flush.who = "stop" THEN "done" ELSE "pass", !.who = flush.who]
  /\ pass' = [pass EXCEPT !["flush"].at = IF flush.who = "stop" THEN "idle" ELSE "wait"]
  /\ UNCHANGED <<count, served, day, asked, alerts, carried, noded, raced>>

\* statsMu is let go; what the flush was for goes on.
Release ==
  /\ flush.at = "done"
  /\ \/ /\ flush.who = "tick" /\ flush' = NoFlush
        /\ UNCHANGED <<count, served, kick, pass, asked, operator, lost>>
     \/ /\ flush.who = "restart" /\ flush' = NoFlush /\ Restarts
        /\ UNCHANGED <<served, kick, pass, asked, operator>>
     \/ flush.who = "stop" /\ PanelRestarts
  /\ Ordinary /\ UNCHANGED <<row, day, crossings, alerts, carried, noded, from, raced>>
-----------------------------------------------------------------------------
(* Enforcement passes, under enforceMu                                     *)

\* The pass reports have asked for; a report during it asks for the next.
EnforceTrafficSoon ==
  /\ asked /\ pass["report"].at = "idle"
  /\ asked' = FALSE
  /\ pass' = [pass EXCEPT !["report"].at = "wait"]
  /\ Ordinary /\ UNCHANGED <<count, served, row, day, flush, operator, kick, crossings, alerts, history>>

EndPass(p) ==
  /\ pass' = [pass EXCEPT ![p] = NoPass]
  /\ flush' = IF p = "flush" THEN [flush EXCEPT !.at = "done"] ELSE flush

\* One at a time, and it reads the users after its turn has come.
\* A plausible slip: passes that do not wait for one another.
EnforceAnytime(p) == TRUE
EnforceFree(p) == \A other \in Passes : pass[other].at \in {"idle", "wait"}
EnforcementUsers(p, read) ==
  /\ pass[p].at = "wait" /\ EnforceFree(p)
  /\ IF read
     THEN /\ pass' = [pass EXCEPT ![p] =
               [at |-> IF \E u \in Users : row[u].notified # Status(u) THEN "notify" ELSE "compare",
                status |-> [u \in Users |-> Status(u)],
                noted |-> [u \in Users |-> row[u].notified],
                todo |-> {u \in Users : row[u].notified # Status(u)}]]
          /\ Ordinary /\ UNCHANGED flush
     ELSE EndPass(p) /\ Event("store")
  /\ UNCHANGED <<count, served, row, day, operator, kick, crossings, asked, alerts, history>>

\* The new status is recorded before anyone is told of it, and nobody is told
\* when it cannot be.
Without(p, u) ==
  IF pass[p].todo = {u} THEN [NoPass EXCEPT !.at = "compare"] ELSE [pass[p] EXCEPT !.todo = @ \ {u}]
NotifyStatusTransition(p, u, stored) ==
  /\ pass[p].at = "notify" /\ u \in pass[p].todo
  /\ pass' = [pass EXCEPT ![p] = Without(p, u)]
  /\ IF stored
     THEN /\ row' = [row EXCEPT ![u].notified = pass[p].status[u]]
          /\ alerts' = IF pass[p].noted[u] = "active" /\ pass[p].status[u] = "limited"
                       THEN [alerts EXCEPT ![u] = @ + 1] ELSE alerts
          /\ Ordinary
     ELSE Event("store") /\ UNCHANGED <<row, alerts>>
  /\ UNCHANGED <<count, served, day, flush, operator, kick, crossings, asked, history>>

\* A plausible slip: that nobody is missing from the config is enough.
WorkingIDsAdded == ~(Working \subseteq served)
WorkingIDsChanged == Working # served
EnforceAfterTraffic(p) ==
  /\ pass[p].at = "compare"
  /\ \/ kick' = (kick \/ WorkingIDsChanged) /\ Ordinary
     \/ UNCHANGED kick /\ Event("store")
  /\ EndPass(p)
  /\ UNCHANGED <<count, served, row, day, operator, crossings, asked, alerts, history>>
-----------------------------------------------------------------------------
(* The operator's reset, of one user or of several                         *)

\* The counters come from Xray's command line tool, or are taken for zero.
LiveCounter(users, heard) ==
  /\ operator.at = "idle" /\ Event("reset") /\ (heard \/ "api" \in MayHappen)
  /\ operator' = [at |-> "write", users |-> users, live |-> IF heard THEN count ELSE Zero,
                  mark |-> Totals, stale |-> IF heard THEN {} ELSE users]
  /\ UNCHANGED <<count, served, row, day, flush, kick, crossings, enforcing, history>>

\* It takes no statsMu. What the counters grew by since the last flush is not
\* booked. A flush that has them in hand, or has moved the baseline since they were
\* read, books them on the new count all the same.
ResetTraffic ==
  LET users == operator.users IN
  /\ operator.at = "write" /\ operator' = NoReset
  /\ RowsBecome([u \in Users |-> IF u \in users THEN [row[u] EXCEPT !.base = operator.live[u], !.used = 0] ELSE row[u]])
  /\ from' = [u \in Users |-> IF u \in users THEN operator.mark[u] ELSE from[u]]
  /\ raced' = raced \union IF flush.at \in {"bases", "write"} THEN users ELSE operator.stale \intersect users
  /\ lost' = lost \union {u \in users : Left(u) > 0}
  /\ kick' = TRUE
  /\ Ordinary /\ UNCHANGED <<count, served, day, flush, enforcing, carried, noded>>
-----------------------------------------------------------------------------
Flush ==
  \/ TickStats \/ FlushBeforeRestart \/ FlushTrafficOnStop
  \/ \E ok \in BOOLEAN : TrafficBaselines(ok) \/ ApplyTrafficDeltas(ok)
  \/ \E due \in SUBSET Users : ApplyResets(due)
  \/ Release
Pass(p) ==
  \/ EnforceAfterTraffic(p)
  \/ \E ok \in BOOLEAN : EnforcementUsers(p, ok) \/ \E u \in Users : NotifyStatusTransition(p, u, ok)
Operator ==
  \/ \E u \in Users, limit \in Limits : SetUserLimits(u, limit)
  \/ \E users \in SUBSET Users \ {{}}, heard \in BOOLEAN : LiveCounter(users, heard)
  \/ ResetTraffic
Next ==
  \/ \E u \in Users : Carry(u) \/ NodeReport(u)
  \/ SyncUsers \/ Exit \/ RestartUnderFlush \/ RestartUnread \/ Killed
  \/ Flush \/ Operator
  \/ EnforceTrafficSoon \/ \E p \in Passes : Pass(p)

Spec == Init /\ [][Next]_vars

\* The stats loop ticks on, a flush and a pass that have begun go on, and so does
\* the reconcile loop. MaxEvents ends the faults: calls succeed again some time.
FairSpec ==
  /\ Spec
  /\ WF_vars(TickStats) /\ WF_vars(Release) /\ WF_vars(SyncUsers)
  /\ WF_vars(\E ok \in BOOLEAN : TrafficBaselines(ok) \/ ApplyTrafficDeltas(ok))
  /\ WF_vars(\E due \in SUBSET Users : ApplyResets(due))
  /\ WF_vars(EnforceTrafficSoon) /\ \A p \in Passes : WF_vars(Pass(p))
-----------------------------------------------------------------------------
(* Nobody is charged for more than they used: whatever restarts, failed writes,
   node reports and resets of a period come between (PollStats, ApplyResets), what
   is booked and what is still to be booked never exceeds what went through, since
   the day's count and since the quota's began, but for users whose reset by the
   operator met a flush. And unless bytes went with a process or a reset, every one
   of them is booked, once. *)
Accounted ==
  \A u \in Users \ raced :
    /\ day[u] + Left(u) <= carried[u]
    /\ row[u].used + Left(u) <= Total(u) - from[u]
    /\ u \notin lost => day[u] + Left(u) = carried[u]

(* One alert each time a user runs out (notifyStatusTransitions), however many
   passes, of flushes and of reports, meet. *)
AlertedOnce == \A u \in Users : alerts[u] <= crossings[u]

(* Users are served as their quota says in the end (enforceAfterTraffic): whoever
   has used it up is cut, also by bytes that were not booked when a report, a reset
   or an edit came, and whoever has some left is back. *)
QuotaFollows ==
  <>[](served = {u \in Users : row[u].limit = 0 \/ row[u].used + Left(u) < row[u].limit})
=============================================================================
