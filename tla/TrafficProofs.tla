---------------------------- MODULE TrafficProofs ----------------------------
(***************************************************************************)
(* What the accounting of traffic promises, for any users, quotas, numbers *)
(* of bytes and of things that happen.                                     *)
(***************************************************************************)
EXTENDS Traffic, TLAPS

(* A pass in its turn judges users by what it read; whoever runs out after *)
(* that is one more to run out than alerts were sent.                      *)
InTurn(p) == pass[p].at \in {"notify", "compare"}
Judged(p, u) == pass[p].at = "notify" /\ u \in pass[p].todo
Unalerted(u) == alerts[u] < crossings[u]
Alerting ==
  /\ \A p, q \in Passes : InTurn(p) /\ InTurn(q) => p = q
  /\ \A u \in Users : alerts[u] <= crossings[u]
  /\ \A u \in Users : row[u].notified = "active" /\ Over(row[u]) => Unalerted(u)
  /\ \A p \in Passes, u \in Users : Judged(p, u) =>
       /\ pass[p].noted[u] = row[u].notified
       /\ pass[p].noted[u] = "active" /\ pass[p].status[u] = "limited" => Unalerted(u)
       /\ pass[p].status[u] = "active" /\ Over(row[u]) => Unalerted(u)

(* Whatever a flush or a reset of the operator has read, the bytes since   *)
(* then and those booked by now never exceed what went through.            *)
Reading == flush.at \in {"bases", "write", "reset"}
FlushSound(u) ==
  Reading =>
    /\ day[u] + Held(u) + Growth(count[u], flush.stats[u]) <= carried[u]
    /\ flush.mark[u] + Growth(count[u], flush.stats[u]) <= Total(u)
    /\ flush.at = "write" => flush.bases[u] = row[u].base
ResetSound(u) ==
  operator.at = "write" /\ u \in operator.users \ operator.stale =>
    /\ day[u] + Growth(count[u], operator.live[u]) <= carried[u]
    /\ operator.mark[u] + Growth(count[u], operator.live[u]) <= Total(u)
BookedOnce(u) ==
  /\ day[u] + Left(u) <= carried[u]
  /\ row[u].used + Left(u) <= Total(u) - from[u]
  /\ u \notin lost => day[u] + Left(u) = carried[u]
Books == \A u \in Users \ raced : FlushSound(u) /\ ResetSound(u) /\ BookedOnce(u)

(* The pass of a flush is made while the flush waits for it.               *)
Waits == pass["flush"].at # "idle" => flush.at = "pass"

IInv == TypeOK /\ Waits /\ Books

(***************************************************************************)
(* Types                                                                   *)
(***************************************************************************)

UserRow == [base: Nat, used: Nat, limit: Limits, notified: Statuses \union {"new"}]
FlushType == [at: {"idle", "bases", "write", "reset", "pass", "done"}, who: {"tick", "restart", "stop"},
              stats: Counts, bases: Counts, mark: Counts]
PassType == [at: {"idle", "wait", "notify", "compare"}, status: [Users -> Statuses],
             noted: [Users -> Statuses \union {"new"}], todo: SUBSET Users]
ResetType == [at: {"idle", "write"}, users: SUBSET Users, live: Counts, mark: Counts, stale: SUBSET Users]

(* The empty values are values.                                             *)
LEMMA Blank ==
  /\ Zero \in Counts /\ NoFlush \in FlushType /\ NoPass \in PassType /\ NoReset \in ResetType
  BY DEF Zero, Counts, NoFlush, FlushType, NoPass, PassType, Statuses, NoReset, ResetType

(* What a counter has grown by is no more than it shows.                    *)
LEMMA GrowthIsNat ==
  ASSUME NEW c \in Nat, NEW b \in Nat
  PROVE  Growth(c, b) \in Nat /\ Growth(c, b) <= c
  BY DEF Growth

(* What is held and what is unread are numbers.                            *)
LEMMA LeftIsNat ==
  ASSUME TypeOK, NEW u \in Users
  PROVE  Held(u) \in Nat /\ Unread(u) \in Nat /\ Left(u) \in Nat /\ Reference(u) \in Nat
<1>1. count[u] \in Nat /\ row[u].base \in Nat /\ flush.stats[u] \in Nat /\ flush.bases[u] \in Nat
  BY DEF TypeOK, Counts
<1>2. Held(u) \in Nat
  <2>1. /\ Growth(flush.stats[u], row[u].base) \in Nat
        /\ Growth(flush.stats[u], flush.bases[u]) \in Nat
    BY <1>1, GrowthIsNat
  <2> QED
    BY <2>1 DEF Held
<1>3. Reference(u) \in Nat
  BY <1>1 DEF Reference
<1>4. Unread(u) \in Nat
  BY <1>1, <1>3, GrowthIsNat DEF Unread
<1> QED
  BY <1>2, <1>3, <1>4 DEF Left

(* Rows of the right type make rows and a count of crossings of the right  *)
(* type.                                                                   *)
LEMMA RowsType ==
  ASSUME TypeOK, NEW rows \in [Users -> UserRow], RowsBecome(rows)
  PROVE  row' \in [Users -> UserRow] /\ crossings' \in Counts
  BY DEF TypeOK, RowsBecome, Counts

(* The types at a boot ...                                                  *)
LEMMA TypeStarts ==
  ASSUME Init
  PROVE  TypeOK
<1>1. row \in [Users -> UserRow]
  BY DEF Init, UserRow
<1>2. pass \in [Passes -> PassType]
  BY Blank DEF Init
<1>3. carried \in [Users -> 0..MaxBytes] /\ events \in 0..MaxEvents
  BY BoundsAreNumbers DEF Init, Zero
<1> QED
  BY <1>1, <1>2, <1>3, Blank DEF Init, TypeOK, UserRow, PassType, FlushType, ResetType

(* ... and after every step.                                                *)
LEMMA TypeSteps ==
  ASSUME TypeOK, [Next]_vars
  PROVE  TypeOK'
<1> USE DEF history, enforcing
<1>0. /\ row \in [Users -> UserRow] /\ flush \in FlushType /\ pass \in [Passes -> PassType]
      /\ operator \in ResetType
  BY DEF TypeOK, UserRow, FlushType, PassType, ResetType
<1>w. Working \subseteq Users
  BY DEF Working
<1>e. ASSUME Ordinary \/ \E kind \in MayHappen : Event(kind)
      PROVE  events' \in 0..MaxEvents
  BY <1>e, BoundsAreNumbers DEF TypeOK, Ordinary, Event
<1>p. ASSUME NEW p \in Passes, EndPass(p)
      PROVE  pass' \in [Passes -> PassType] /\ flush' \in FlushType
  BY <1>p, <1>0, Blank DEF EndPass, FlushType
<1>r. ASSUME Restarts
      PROVE  count' \in Counts /\ lost' \subseteq Users
  BY <1>r, Blank DEF Restarts, TypeOK
<1>l. ASSUME PanelRestarts
      PROVE  /\ count' \in Counts /\ lost' \subseteq Users /\ served' \subseteq Users /\ kick' \in BOOLEAN
             /\ flush' \in FlushType /\ pass' \in [Passes -> PassType] /\ asked' \in BOOLEAN
             /\ operator' \in ResetType
  BY <1>l, <1>w, Blank DEF PanelRestarts, TypeOK
<1>m. ASSUME NEW rows, Moved(rows)
      PROVE  operator' \in ResetType
  BY <1>m, <1>0 DEF Moved, ResetType
<1>t. Totals \in Counts
  BY DEF Totals, Total, Counts, TypeOK
<1>1. ASSUME NEW u \in Users, Carry(u)
      PROVE  TypeOK'
  <2>1. carried' \in [Users -> 0..MaxBytes] /\ count' \in Counts
    BY <1>1, BoundsAreNumbers DEF Carry, TypeOK, Counts
  <2> QED
    BY <1>1, <2>1, <1>e DEF Carry, TypeOK
<1>2. ASSUME NEW u \in Users, NodeReport(u)
      PROVE  TypeOK'
  <2>1. [row EXCEPT ![u].used = @ + 1] \in [Users -> UserRow]
    BY <1>0 DEF UserRow
  <2>2. row' \in [Users -> UserRow] /\ crossings' \in Counts
    BY <1>2, <2>1, RowsType DEF NodeReport
  <2>3. noded' \in Counts
    BY <1>2 DEF NodeReport, TypeOK, Counts
  <2> QED
    BY <1>2, <2>2, <2>3, <1>e DEF NodeReport, TypeOK, UserRow, Event
<1>3. ASSUME NEW u \in Users, NEW limit \in Limits, SetUserLimits(u, limit)
      PROVE  TypeOK'
  <2>1. [row EXCEPT ![u].limit = limit] \in [Users -> UserRow]
    BY <1>0 DEF UserRow
  <2>2. row' \in [Users -> UserRow] /\ crossings' \in Counts
    BY <1>3, <2>1, RowsType DEF SetUserLimits
  <2> QED
    BY <1>3, <2>2, <1>e DEF SetUserLimits, TypeOK, UserRow, Event
<1>4. ASSUME SyncUsers
      PROVE  TypeOK'
  BY <1>4, <1>w, <1>e DEF SyncUsers, TypeOK
<1>5. ASSUME Exit \/ RestartUnderFlush \/ RestartUnread
      PROVE  TypeOK'
  BY <1>5, <1>r, <1>e DEF Exit, RestartUnderFlush, RestartUnread, TypeOK, Event
<1>6. ASSUME Killed
      PROVE  TypeOK'
  BY <1>6, <1>l, <1>e DEF Killed, TypeOK, FlushType, PassType, ResetType, Event
<1>7. ASSUME TickStats \/ FlushBeforeRestart \/ FlushTrafficOnStop
      PROVE  TypeOK'
  <2>1. PICK who \in {"tick", "restart", "stop"} : ReadStats(who)
    BY <1>7 DEF TickStats, FlushBeforeRestart, FlushTrafficOnStop
  <2>2. flush' \in FlushType
    BY <2>1, <1>t, Blank DEF ReadStats, FlushType, TypeOK
  <2>3. events' \in 0..MaxEvents
    BY <1>7, <1>e DEF TickStats, FlushBeforeRestart, FlushTrafficOnStop, Event
  <2> QED
    BY <2>1, <2>2, <2>3 DEF ReadStats, TypeOK, FlushType
<1>8. ASSUME NEW ok \in BOOLEAN, TrafficBaselines(ok)
      PROVE  TypeOK'
  <2>1. [u \in Users |-> row[u].base] \in Counts
    BY <1>0 DEF UserRow, Counts
  <2>2. flush' \in FlushType
    BY <1>8, <1>0, <2>1, Blank DEF TrafficBaselines, FlushType
  <2> QED
    BY <1>8, <2>2, <1>e DEF TrafficBaselines, TypeOK, FlushType, Dropped, Event
<1>9. ASSUME NEW ok \in BOOLEAN, ApplyTrafficDeltas(ok)
      PROVE  TypeOK'
  <2>1. flush' \in FlushType
    BY <1>9, <1>0 DEF ApplyTrafficDeltas, FlushType
  <2>2. events' \in 0..MaxEvents /\ lost' \subseteq Users
    BY <1>9, <1>e DEF ApplyTrafficDeltas, Event, Dropped, TypeOK
  <2>3. row' \in [Users -> UserRow] /\ crossings' \in Counts /\ day' \in Counts /\ operator' \in ResetType
    <3>1. CASE ok
      <4>1. \A u \in Users : NewBase(u) \in Nat /\ Held(u) \in Nat
        BY <1>0, LeftIsNat DEF NewBase, FlushType, Counts, UserRow
      <4>2. [u \in Users |-> [row[u] EXCEPT !.base = NewBase(u), !.used = @ + Held(u)]] \in [Users -> UserRow]
        <5>1. ASSUME NEW u \in Users
              PROVE  [row[u] EXCEPT !.base = NewBase(u), !.used = @ + Held(u)] \in UserRow
          <6>1. row[u] \in UserRow /\ NewBase(u) \in Nat /\ Held(u) \in Nat
            BY <1>0, <4>1
          <6>2. row[u].used + Held(u) \in Nat
            BY <6>1 DEF UserRow
          <6> QED
            BY <6>1, <6>2 DEF UserRow
        <5> QED
          BY <5>1
      <4>3. row' \in [Users -> UserRow] /\ crossings' \in Counts
        BY <1>9, <3>1, <4>2, RowsType DEF ApplyTrafficDeltas
      <4>4. day' \in Counts
        <5>1. \A u \in Users : day[u] + Held(u) \in Nat
          BY <4>1 DEF TypeOK, Counts
        <5>2. day' = [u \in Users |-> day[u] + Held(u)]
          BY <1>9, <3>1 DEF ApplyTrafficDeltas
        <5> QED
          BY <5>1, <5>2 DEF Counts
      <4> QED
        BY <1>9, <3>1, <4>3, <4>4, <1>m DEF ApplyTrafficDeltas
    <3>2. CASE ~ok
      BY <1>9, <3>2, <1>0 DEF ApplyTrafficDeltas, TypeOK
    <3> QED
      BY <3>1, <3>2
  <2> QED
    BY <1>9, <2>1, <2>2, <2>3 DEF ApplyTrafficDeltas, TypeOK, UserRow, FlushType, ResetType
<1>10. ASSUME NEW due \in SUBSET Users, ApplyResets(due)
       PROVE  TypeOK'
  <2>1. [u \in Users |-> IF u \in due THEN [row[u] EXCEPT !.base = flush.stats[u], !.used = 0] ELSE row[u]]
          \in [Users -> UserRow]
    BY <1>0 DEF UserRow, FlushType, Counts
  <2>2. row' \in [Users -> UserRow] /\ crossings' \in Counts
    BY <1>10, <2>1, RowsType DEF ApplyResets
  <2>3. operator' \in ResetType
    BY <1>10, <1>m DEF ApplyResets
  <2>4. flush' \in FlushType
    BY <1>10, <1>0, Blank DEF ApplyResets, FlushType
  <2>5. pass' \in [Passes -> PassType]
    BY <1>10, <1>0 DEF ApplyResets, PassType, Passes
  <2>6. from' \in Counts
    BY <1>10, <1>0 DEF ApplyResets, FlushType, Counts, TypeOK
  <2>7. events' \in 0..MaxEvents /\ lost' \subseteq Users /\ kick' \in BOOLEAN
    BY <1>10, <1>e DEF ApplyResets, Event, TypeOK
  <2> QED
    BY <1>10, <2>2, <2>3, <2>4, <2>5, <2>6, <2>7 DEF ApplyResets, TypeOK, UserRow, FlushType, ResetType, PassType
<1>11. ASSUME Release
       PROVE  TypeOK'
  BY <1>11, <1>r, <1>l, <1>e, Blank DEF Release, TypeOK, FlushType, PassType, ResetType
<1>12. ASSUME EnforceTrafficSoon
       PROVE  TypeOK'
  <2>1. pass' \in [Passes -> PassType]
    BY <1>12, <1>0 DEF EnforceTrafficSoon, PassType
  <2> QED
    BY <1>12, <2>1, <1>e DEF EnforceTrafficSoon, TypeOK, PassType
<1>13. ASSUME NEW p \in Passes, NEW ok \in BOOLEAN, EnforcementUsers(p, ok)
       PROVE  TypeOK'
  <2>1. pass' \in [Passes -> PassType] /\ flush' \in FlushType
    <3>1. CASE ok
      <4>1. \A u \in Users : Status(u) \in Statuses /\ row[u].notified \in Statuses \union {"new"}
        BY <1>0 DEF Status, Statuses, UserRow
      <4>2. /\ [u \in Users |-> Status(u)] \in [Users -> Statuses]
            /\ [u \in Users |-> row[u].notified] \in [Users -> Statuses \union {"new"}]
        BY <4>1
      <4>3. PICK at \in {"notify", "compare"} : pass' = [pass EXCEPT ![p] =
              [at |-> at, status |-> [u \in Users |-> Status(u)], noted |-> [u \in Users |-> row[u].notified],
               todo |-> {u \in Users : row[u].notified # Status(u)}]]
        <5>1. CASE \E u \in Users : row[u].notified # Status(u)
          BY <1>13, <3>1, <5>1 DEF EnforcementUsers
        <5>2. CASE ~\E u \in Users : row[u].notified # Status(u)
          BY <1>13, <3>1, <5>2 DEF EnforcementUsers
        <5> QED
          BY <5>1, <5>2
      <4> QED
        BY <1>13, <3>1, <4>2, <4>3, <1>0 DEF EnforcementUsers, PassType
    <3>2. CASE ~ok
      BY <1>13, <3>2, <1>p DEF EnforcementUsers
    <3> QED
      BY <3>1, <3>2
  <2> QED
    BY <1>13, <2>1, <1>e DEF EnforcementUsers, TypeOK, PassType, FlushType, Event
<1>14. ASSUME NEW p \in Passes, NEW u \in Users, NEW ok \in BOOLEAN, NotifyStatusTransition(p, u, ok)
       PROVE  TypeOK'
  <2>1. pass' \in [Passes -> PassType]
    <3>1. Without(p, u) \in PassType
      BY <1>0, Blank DEF Without, PassType
    <3> QED
      BY <1>14, <1>0, <3>1 DEF NotifyStatusTransition
  <2>2. row' \in [Users -> UserRow] /\ alerts' \in Counts
    <3>1. pass[p].status[u] \in Statuses
      BY <1>0 DEF PassType
    <3>2. [row EXCEPT ![u].notified = pass[p].status[u]] \in [Users -> UserRow]
      BY <1>0, <3>1 DEF UserRow
    <3>3. [alerts EXCEPT ![u] = @ + 1] \in Counts /\ alerts \in Counts
      BY DEF TypeOK, Counts
    <3> QED
      BY <1>14, <1>0, <3>2, <3>3 DEF NotifyStatusTransition
  <2> QED
    BY <1>14, <2>1, <2>2, <1>e DEF NotifyStatusTransition, TypeOK, PassType, UserRow, Event
<1>15. ASSUME NEW p \in Passes, EnforceAfterTraffic(p)
       PROVE  TypeOK'
  BY <1>15, <1>p, <1>e DEF EnforceAfterTraffic, TypeOK, PassType, FlushType, Event
<1>16. ASSUME NEW users \in SUBSET Users, NEW heard \in BOOLEAN, LiveCounter(users, heard)
       PROVE  TypeOK'
  <2>1. operator' \in ResetType
    BY <1>16, <1>t, Blank DEF LiveCounter, ResetType, TypeOK
  <2> QED
    BY <1>16, <2>1, <1>e DEF LiveCounter, TypeOK, ResetType, Event
<1>17. ASSUME ResetTraffic
       PROVE  TypeOK'
  <2>1. [u \in Users |-> IF u \in operator.users THEN [row[u] EXCEPT !.base = operator.live[u], !.used = 0]
                         ELSE row[u]] \in [Users -> UserRow]
    BY <1>0 DEF UserRow, ResetType, Counts
  <2>2. row' \in [Users -> UserRow] /\ crossings' \in Counts
    BY <1>17, <2>1, RowsType DEF ResetTraffic
  <2>3. from' \in Counts
    BY <1>17, <1>0 DEF ResetTraffic, ResetType, Counts, TypeOK
  <2>4. raced' \subseteq Users /\ lost' \subseteq Users
    BY <1>17, <1>0 DEF ResetTraffic, ResetType, TypeOK
  <2> QED
    BY <1>17, <2>2, <2>3, <2>4, <1>e, Blank DEF ResetTraffic, TypeOK, UserRow, ResetType
<1>18. CASE UNCHANGED vars
  BY <1>18 DEF vars, TypeOK
<1> QED
  BY <1>1, <1>2, <1>3, <1>4, <1>5, <1>6, <1>7, <1>8, <1>9, <1>10, <1>11, <1>12, <1>13, <1>14, <1>15, <1>16, <1>17, <1>18
     DEF Next, Flush, Pass, Operator

(* Everything keeps to its range; above all no counter and no quota's use  *)
(* falls below zero (recordStats).                                         *)
THEOREM TrafficTypes == Spec => []TypeOK
  BY TypeStarts, TypeSteps, PTL DEF Spec

(***************************************************************************)
(* One alert each time a user runs out                                     *)
(***************************************************************************)

(* Record and alerts agree at a boot.                                       *)
LEMMA AlertStarts ==
  ASSUME Init
  PROVE  Alerting
  BY DEF Init, Alerting, InTurn, Judged, NoPass, Zero

(* Passes wait, end or stay as they are.                                   *)
NobodyJudges == \A p \in Passes : InTurn(p)' => pass'[p] = pass[p]

(* Whoever is taken over the quota is one more to run out.                 *)
LEMMA AlertRows ==
  ASSUME TypeOK, Alerting, NobodyJudges, UNCHANGED alerts,
         NEW rows, RowsBecome(rows), \A u \in Users : rows[u].notified = row[u].notified
  PROVE  Alerting'
<1>0. \A u \in Users : alerts[u] \in Nat /\ crossings[u] \in Nat
  BY DEF TypeOK, Counts
<1>1. \A u \in Users : crossings'[u] = crossings[u] + IF ~Over(row[u]) /\ Over(rows[u]) THEN 1 ELSE 0
  BY DEF RowsBecome
<1>2. \A u \in Users :
        /\ crossings[u] <= crossings'[u]
        /\ Unalerted(u) => Unalerted(u)'
        /\ ~Over(row[u]) /\ Over(row'[u]) => Unalerted(u)'
  BY <1>0, <1>1 DEF Unalerted, RowsBecome, Alerting
<1>3. \A u \in Users : alerts'[u] <= crossings'[u]
  BY <1>0, <1>1, <1>2 DEF Alerting
<1>4. \A p, q \in Passes : InTurn(p)' /\ InTurn(q)' => p = q
  BY DEF NobodyJudges, InTurn, Alerting
<1>5. \A u \in Users : row'[u].notified = row[u].notified
  BY DEF RowsBecome
<1>6. ASSUME NEW u \in Users, row'[u].notified = "active", Over(row'[u])
      PROVE  Unalerted(u)'
  <2>1. CASE Over(row[u])
    BY <1>2, <1>5, <1>6, <2>1 DEF Alerting, Unalerted
  <2>2. CASE ~Over(row[u])
    BY <1>2, <1>6, <2>2 DEF Unalerted
  <2> QED
    BY <2>1, <2>2
<1>7. ASSUME NEW p \in Passes, NEW u \in Users, Judged(p, u)'
      PROVE  /\ pass'[p].noted[u] = row'[u].notified
             /\ pass'[p].noted[u] = "active" /\ pass'[p].status[u] = "limited" => Unalerted(u)'
             /\ pass'[p].status[u] = "active" /\ Over(row'[u]) => Unalerted(u)'
  <2>1. pass'[p] = pass[p] /\ Judged(p, u)
    BY <1>7 DEF NobodyJudges, InTurn, Judged
  <2>2. pass[p].noted[u] = "active" /\ pass[p].status[u] = "limited" => Unalerted(u)'
    BY <2>1, <1>2 DEF Alerting, Unalerted
  <2>3. ASSUME pass[p].status[u] = "active", Over(row'[u])
        PROVE  Unalerted(u)'
    <3>1. CASE Over(row[u])
      BY <1>2, <2>1, <2>3, <3>1 DEF Alerting, Unalerted
    <3>2. CASE ~Over(row[u])
      BY <1>2, <2>3, <3>2 DEF Unalerted
    <3> QED
      BY <3>1, <3>2
  <2> QED
    BY <2>1, <2>2, <2>3, <1>5 DEF Alerting
<1> QED
  BY <1>3, <1>4, <1>6, <1>7 DEF Alerting

(* Steps that judge nobody and touch no row.                                *)
LEMMA AlertSame ==
  ASSUME Alerting, NobodyJudges, UNCHANGED <<row, alerts, crossings>>
  PROVE  Alerting'
  BY DEF Alerting, NobodyJudges, InTurn, Judged, Unalerted

(* Every step keeps record and alerts in step.                              *)
LEMMA AlertSteps ==
  ASSUME TypeOK, Alerting, [Next]_vars
  PROVE  Alerting'
<1> USE DEF history, enforcing
<1>0. /\ row \in [Users -> UserRow] /\ pass \in [Passes -> PassType]
      /\ \A u \in Users : alerts[u] \in Nat /\ crossings[u] \in Nat
  BY DEF TypeOK, UserRow, PassType, Counts
<1>s. ASSUME UNCHANGED pass
      PROVE  NobodyJudges
  BY <1>s DEF NobodyJudges
<1>p. ASSUME NEW p \in Passes, EndPass(p)
      PROVE  NobodyJudges
  BY <1>p, <1>0 DEF NobodyJudges, EndPass, InTurn, NoPass
<1>l. ASSUME PanelRestarts
      PROVE  NobodyJudges
  BY <1>l DEF NobodyJudges, PanelRestarts, InTurn, NoPass
<1>1. ASSUME NEW u \in Users, Carry(u)
      PROVE  Alerting'
  BY <1>1, <1>s, AlertSame DEF Carry
<1>2. ASSUME NEW u \in Users, NodeReport(u)
      PROVE  Alerting'
  <2>1. \A v \in Users : [row EXCEPT ![u].used = @ + 1][v].notified = row[v].notified
    BY <1>0 DEF UserRow
  <2> QED
    BY <1>2, <2>1, <1>s, AlertRows DEF NodeReport
<1>3. ASSUME NEW u \in Users, NEW limit \in Limits, SetUserLimits(u, limit)
      PROVE  Alerting'
  <2>1. \A v \in Users : [row EXCEPT ![u].limit = limit][v].notified = row[v].notified
    BY <1>0 DEF UserRow
  <2> QED
    BY <1>3, <2>1, <1>s, AlertRows DEF SetUserLimits
<1>4. ASSUME SyncUsers \/ Exit \/ RestartUnderFlush \/ RestartUnread
      PROVE  Alerting'
  BY <1>4, <1>s, AlertSame DEF SyncUsers, Exit, RestartUnderFlush, RestartUnread
<1>5. ASSUME Killed
      PROVE  Alerting'
  BY <1>5, <1>l, AlertSame DEF Killed
<1>6. ASSUME TickStats \/ FlushBeforeRestart \/ FlushTrafficOnStop
      PROVE  Alerting'
  BY <1>6, <1>s, AlertSame DEF TickStats, FlushBeforeRestart, FlushTrafficOnStop, ReadStats
<1>7. ASSUME NEW ok \in BOOLEAN, TrafficBaselines(ok)
      PROVE  Alerting'
  BY <1>7, <1>s, AlertSame DEF TrafficBaselines
<1>8. ASSUME NEW ok \in BOOLEAN, ApplyTrafficDeltas(ok)
      PROVE  Alerting'
  <2>1. CASE ok
    <3> DEFINE rows == [u \in Users |-> [row[u] EXCEPT !.base = NewBase(u), !.used = @ + Held(u)]]
    <3>1. \A u \in Users : rows[u].notified = row[u].notified
      BY <1>0 DEF UserRow
    <3>2. RowsBecome(rows)
      BY <1>8, <2>1 DEF ApplyTrafficDeltas
    <3> QED
      BY <1>8, <3>1, <3>2, <1>s, AlertRows DEF ApplyTrafficDeltas
  <2>2. CASE ~ok
    BY <1>8, <2>2, <1>s, AlertSame DEF ApplyTrafficDeltas
  <2> QED
    BY <2>1, <2>2
<1>9. ASSUME NEW due \in SUBSET Users, ApplyResets(due)
      PROVE  Alerting'
  <2> DEFINE rows == [u \in Users |-> IF u \in due THEN [row[u] EXCEPT !.base = flush.stats[u], !.used = 0]
                                      ELSE row[u]]
  <2>1. \A u \in Users : rows[u].notified = row[u].notified
    BY <1>0 DEF UserRow
  <2>2. RowsBecome(rows)
    BY <1>9 DEF ApplyResets
  <2>3. NobodyJudges
    BY <1>9, <1>0 DEF ApplyResets, NobodyJudges, InTurn, PassType, Passes
  <2> QED
    BY <1>9, <2>1, <2>2, <2>3, AlertRows DEF ApplyResets
<1>10. ASSUME Release
       PROVE  Alerting'
  <2>1. NobodyJudges
    BY <1>10, <1>s, <1>l DEF Release
  <2> QED
    BY <1>10, <2>1, AlertSame DEF Release
<1>11. ASSUME EnforceTrafficSoon
       PROVE  Alerting'
  <2>1. NobodyJudges
    BY <1>11, <1>0 DEF EnforceTrafficSoon, NobodyJudges, InTurn, PassType, Passes
  <2> QED
    BY <1>11, <2>1, AlertSame DEF EnforceTrafficSoon
<1>12. ASSUME NEW p \in Passes, NEW ok \in BOOLEAN, EnforcementUsers(p, ok)
       PROVE  Alerting'
  <2>1. CASE ok
    <3>1. /\ pass' = [pass EXCEPT ![p] = pass'[p]]
          /\ pass'[p].status = [u \in Users |-> Status(u)]
          /\ pass'[p].noted = [u \in Users |-> row[u].notified]
      BY <1>12, <2>1, <1>0 DEF EnforcementUsers
    <3>2. \A q \in Passes : q # p => ~InTurn(q)'
      BY <1>12, <3>1, <1>0 DEF EnforcementUsers, EnforceFree, InTurn
    <3>3. UNCHANGED <<row, alerts, crossings>>
      BY <1>12 DEF EnforcementUsers
    <3>4. ASSUME NEW u \in Users
          PROVE  /\ pass'[p].noted[u] = row[u].notified
                 /\ pass'[p].noted[u] = "active" /\ pass'[p].status[u] = "limited" => Unalerted(u)
                 /\ ~(pass'[p].status[u] = "active" /\ Over(row[u]))
      BY <3>1 DEF Status, Alerting
    <3> QED
      BY <3>2, <3>3, <3>4 DEF Alerting, Judged, InTurn, Unalerted
  <2>2. CASE ~ok
    BY <1>12, <2>2, <1>p, AlertSame DEF EnforcementUsers
  <2> QED
    BY <2>1, <2>2
<1>13. ASSUME NEW p \in Passes, NEW u \in Users, NEW ok \in BOOLEAN, NotifyStatusTransition(p, u, ok)
       PROVE  Alerting'
  <2>1. Judged(p, u) /\ \A q \in Passes : q # p => ~InTurn(q)
    BY <1>13 DEF NotifyStatusTransition, Judged, InTurn, Alerting
  <2>2. /\ \A q \in Passes : q # p => pass'[q] = pass[q]
        /\ \A v \in Users : Judged(p, v)' =>
             /\ Judged(p, v) /\ v # u
             /\ pass'[p].noted = pass[p].noted
             /\ pass'[p].status = pass[p].status
    <3>1. pass' = [pass EXCEPT ![p] = Without(p, u)]
      BY <1>13 DEF NotifyStatusTransition
    <3>2. CASE pass[p].todo = {u}
      BY <3>1, <3>2, <1>0 DEF Without, Judged, NoPass
    <3>3. CASE pass[p].todo # {u}
      BY <3>1, <3>3, <1>0 DEF Without, Judged, PassType
    <3> QED
      BY <3>2, <3>3
  <2>3. crossings' = crossings
    BY <1>13 DEF NotifyStatusTransition
  <2>4. \A v \in Users : v # u => row'[v] = row[v] /\ alerts'[v] = alerts[v]
    BY <1>13, <1>0 DEF NotifyStatusTransition, TypeOK, Counts
  <2>5. alerts'[u] <= crossings[u] /\ (row'[u].notified = "active" /\ Over(row'[u]) => Unalerted(u)')
    <3>1. CASE ok
      <4>1. /\ row'[u].notified = pass[p].status[u] /\ row'[u].used = row[u].used /\ row'[u].limit = row[u].limit
        BY <1>13, <3>1, <1>0 DEF NotifyStatusTransition, UserRow
      <4>2. CASE pass[p].noted[u] = "active" /\ pass[p].status[u] = "limited"
        <5>1. Unalerted(u) /\ alerts'[u] = alerts[u] + 1
          BY <1>13, <2>1, <3>1, <4>2 DEF Alerting, NotifyStatusTransition, TypeOK, Counts
        <5> QED
          BY <4>1, <4>2, <5>1, <1>0 DEF Unalerted
      <4>3. CASE ~(pass[p].noted[u] = "active" /\ pass[p].status[u] = "limited")
        <5>1. alerts' = alerts
          BY <1>13, <3>1, <4>3 DEF NotifyStatusTransition
        <5>2. Over(row'[u]) = Over(row[u])
          BY <4>1 DEF Over
        <5> QED
          BY <2>1, <2>3, <4>1, <5>1, <5>2 DEF Alerting, Unalerted
      <4> QED
        BY <4>2, <4>3
    <3>2. CASE ~ok
      BY <1>13, <2>3, <3>2 DEF NotifyStatusTransition, Alerting, Unalerted
    <3> QED
      BY <3>1, <3>2
  <2>6. \A q, r \in Passes : InTurn(q)' /\ InTurn(r)' => q = r
    BY <2>1, <2>2 DEF InTurn
  <2>7. \A q \in Passes : q # p => \A v \in Users : ~Judged(q, v)'
    BY <2>1, <2>2 DEF InTurn, Judged
  <2> QED
    BY <2>2, <2>3, <2>4, <2>5, <2>6, <2>7 DEF Alerting, Unalerted
<1>14. ASSUME NEW p \in Passes, EnforceAfterTraffic(p)
       PROVE  Alerting'
  BY <1>14, <1>p, AlertSame DEF EnforceAfterTraffic
<1>15. ASSUME NEW users \in SUBSET Users, NEW heard \in BOOLEAN, LiveCounter(users, heard)
       PROVE  Alerting'
  BY <1>15, <1>s, AlertSame DEF LiveCounter
<1>16. ASSUME ResetTraffic
       PROVE  Alerting'
  <2> DEFINE rows == [u \in Users |-> IF u \in operator.users
                                      THEN [row[u] EXCEPT !.base = operator.live[u], !.used = 0] ELSE row[u]]
  <2>1. \A u \in Users : rows[u].notified = row[u].notified
    BY <1>0 DEF UserRow
  <2>2. RowsBecome(rows)
    BY <1>16 DEF ResetTraffic
  <2> QED
    BY <1>16, <2>1, <2>2, <1>s, AlertRows DEF ResetTraffic
<1>17. CASE UNCHANGED vars
  BY <1>17, <1>s, AlertSame DEF vars
<1> QED
  BY <1>1, <1>2, <1>3, <1>4, <1>5, <1>6, <1>7, <1>8, <1>9, <1>10, <1>11, <1>12, <1>13, <1>14, <1>15, <1>16, <1>17
     DEF Next, Flush, Pass, Operator

(* However many passes meet, of flushes and of reports, nobody is alerted  *)
(* of more often than they ran out (notifyStatusTransitions).              *)
THEOREM AlwaysAlertedOnce == Spec => []AlertedOnce
<1>1. TypeOK /\ Alerting => AlertedOnce
  BY DEF Alerting, AlertedOnce
<1>2. TypeOK /\ Alerting /\ [Next]_vars => (TypeOK /\ Alerting)'
  BY TypeSteps, AlertSteps
<1>3. Init => TypeOK /\ Alerting
  BY TypeStarts, AlertStarts
<1> QED
  BY <1>1, <1>2, <1>3, PTL DEF Spec

(***************************************************************************)
(* Every byte is booked once                                               *)
(***************************************************************************)

(* What a counter has grown by: reading it half way, or starting it again, *)
(* never shows more than there was.                                        *)
LEMMA GrowthRules ==
  ASSUME NEW c \in Nat, NEW b \in Nat, NEW s \in Nat
  PROVE  /\ Growth(c, c) = 0 /\ Growth(0, b) = 0
         /\ Growth(c + 1, b) <= Growth(c, b) + 1
         /\ c + 1 # b => Growth(c + 1, b) = Growth(c, b) + 1
         /\ Growth(c, b) <= Growth(s, b) + Growth(c, s)
  BY DEF Growth

(* What is counted is a natural.                                            *)
LEMMA Numbers ==
  ASSUME TypeOK, NEW u \in Users
  PROVE  /\ count[u] \in Nat /\ day[u] \in Nat /\ carried[u] \in Nat /\ noded[u] \in Nat /\ from[u] \in Nat
         /\ row[u].base \in Nat /\ row[u].used \in Nat
         /\ flush.stats[u] \in Nat /\ flush.bases[u] \in Nat /\ flush.mark[u] \in Nat
         /\ operator.live[u] \in Nat /\ operator.mark[u] \in Nat
         /\ Total(u) \in Nat
  BY BoundsAreNumbers DEF TypeOK, Counts, Total

(* What is left, with and without a flush that has the counters in hand.   *)
LEMMA LeftCases ==
  ASSUME TypeOK, NEW u \in Users
  PROVE  /\ ~Holds(u) => Held(u) = 0 /\ Left(u) = Growth(count[u], row[u].base)
         /\ Holds(u) => Left(u) = Held(u) + Growth(count[u], flush.stats[u])
  BY Numbers, LeftIsNat, GrowthIsNat DEF Held, Left, Unread, Reference

(* At a boot nothing is booked and nothing read.                            *)
LEMMA BooksStart ==
  ASSUME Init
  PROVE  Waits /\ Books
<1>1. Waits
  BY DEF Init, Waits, NoPass, Passes
<1>2. ASSUME NEW u \in Users
      PROVE  FlushSound(u) /\ ResetSound(u) /\ BookedOnce(u)
  <2>1. count[u] = 0 /\ row[u].base = 0 /\ row[u].used = 0 /\ day[u] = 0 /\ carried[u] = 0 /\ Total(u) = 0 /\ from[u] = 0
    BY <1>2 DEF Init, Zero, Total
  <2>2. ~Reading /\ ~Holds(u) /\ operator.at = "idle"
    BY DEF Init, Reading, Holds, NoFlush, NoReset
  <2>3. Left(u) = 0
    BY <2>1, <2>2 DEF Left, Held, Unread, Reference, Growth
  <2> QED
    BY <2>1, <2>2, <2>3 DEF FlushSound, ResetSound, BookedOnce
<1> QED
  BY <1>1, <1>2 DEF Books

(* The pass of a flush runs inside the flush.                               *)
LEMMA WaitsStep ==
  ASSUME TypeOK, Waits, [Next]_vars
  PROVE  Waits'
<1> USE DEF history, enforcing
<1>0. pass \in [Passes -> PassType] /\ "flush" \in Passes
  BY DEF TypeOK, PassType, Passes
<1>1. ASSUME NEW p \in Passes, EndPass(p)
      PROVE  Waits'
  BY <1>0, <1>1 DEF Waits, EndPass, NoPass
<1>2. ASSUME PanelRestarts
      PROVE  Waits'
  BY <1>0, <1>2 DEF PanelRestarts, Waits, NoPass
<1>3. ASSUME UNCHANGED pass, UNCHANGED flush \/ flush.at # "pass"
      PROVE  Waits'
  BY <1>3 DEF Waits
<1>4. ASSUME NEW u \in Users, \/ Carry(u) \/ NodeReport(u) \/ \E limit \in Limits : SetUserLimits(u, limit)
      PROVE  Waits'
  BY <1>3, <1>4 DEF Carry, NodeReport, SetUserLimits
<1>5. ASSUME SyncUsers \/ Exit \/ RestartUnderFlush \/ RestartUnread \/ ResetTraffic
      PROVE  Waits'
  BY <1>3, <1>5 DEF SyncUsers, Exit, RestartUnderFlush, RestartUnread, ResetTraffic
<1>6. ASSUME Killed
      PROVE  Waits'
  BY <1>2, <1>6 DEF Killed
<1>7. ASSUME TickStats \/ FlushBeforeRestart \/ FlushTrafficOnStop
      PROVE  Waits'
  BY <1>3, <1>7 DEF TickStats, FlushBeforeRestart, FlushTrafficOnStop, ReadStats
<1>8. ASSUME NEW ok \in BOOLEAN, TrafficBaselines(ok) \/ ApplyTrafficDeltas(ok)
      PROVE  Waits'
  BY <1>3, <1>8 DEF TrafficBaselines, ApplyTrafficDeltas
<1>9. ASSUME NEW due \in SUBSET Users, ApplyResets(due)
      PROVE  Waits'
  BY <1>0, <1>9 DEF ApplyResets, Waits, NoFlush, PassType
<1>10. ASSUME Release
       PROVE  Waits'
  BY <1>2, <1>3, <1>10 DEF Release
<1>11. ASSUME EnforceTrafficSoon
       PROVE  Waits'
  BY <1>0, <1>11 DEF EnforceTrafficSoon, Waits
<1>12. ASSUME NEW p \in Passes, NEW ok \in BOOLEAN, EnforcementUsers(p, ok)
       PROVE  Waits'
  <2>1. CASE ok
    BY <1>0, <1>12, <2>1 DEF EnforcementUsers, Waits
  <2>2. CASE ~ok
    BY <1>1, <1>12, <2>2 DEF EnforcementUsers
  <2> QED
    BY <2>1, <2>2
<1>13. ASSUME NEW p \in Passes, NEW u \in Users, NEW ok \in BOOLEAN, NotifyStatusTransition(p, u, ok)
       PROVE  Waits'
  BY <1>0, <1>13 DEF NotifyStatusTransition, Waits
<1>14. ASSUME NEW p \in Passes, EnforceAfterTraffic(p)
       PROVE  Waits'
  BY <1>1, <1>14 DEF EnforceAfterTraffic
<1>15. ASSUME NEW users \in SUBSET Users, NEW heard \in BOOLEAN, LiveCounter(users, heard)
       PROVE  Waits'
  BY <1>3, <1>15 DEF LiveCounter
<1>16. CASE UNCHANGED vars
  BY <1>3, <1>16 DEF vars
<1> QED
  BY <1>4, <1>5, <1>6, <1>7, <1>8, <1>9, <1>10, <1>11, <1>12, <1>13, <1>14, <1>15, <1>16
     DEF Next, Flush, Pass, Operator

(***************************************************************************)
(* The steps, one user at a time                                           *)
(***************************************************************************)

Sound(u) == FlushSound(u) /\ ResetSound(u) /\ BookedOnce(u)

(* What leaves the counters and a user's baseline alone.                   *)
LEMMA SoundSame ==
  ASSUME TypeOK, TypeOK', NEW u \in Users, Sound(u),
         UNCHANGED <<count, day, operator, carried, from>>, lost \subseteq lost',
         row'[u].base = row[u].base, noded'[u] - noded[u] = row'[u].used - row[u].used, noded[u] <= noded'[u],
         UNCHANGED flush \/ (~Reading /\ ~Reading')
  PROVE  Sound(u)'
<1>1. Held(u)' = Held(u) /\ Left(u)' = Left(u) /\ Holds(u)' = Holds(u)
  BY DEF Held, Left, Unread, Reference, Holds, Reading
<1>2. Total(u)' = Total(u) + (noded'[u] - noded[u]) /\ Total(u) <= Total(u)' /\ Total(u)' \in Nat
  <2>1. carried'[u] = carried[u] /\ noded'[u] \in Nat
    BY DEF TypeOK, Counts
  <2>2. carried[u] \in Nat /\ noded[u] \in Nat
    BY Numbers
  <2>3. Total(u) = carried[u] + noded[u] /\ Total(u)' = carried'[u] + noded'[u]
    BY DEF Total
  <2> QED
    BY <2>1, <2>2, <2>3
<1>3. Left(u) \in Nat /\ Growth(count[u], flush.stats[u]) \in Nat /\ Growth(count[u], operator.live[u]) \in Nat
  BY LeftIsNat, Numbers, GrowthIsNat
<1>4. noded'[u] \in Nat /\ row'[u].used \in Nat
  BY DEF TypeOK, Counts
<1>5. FlushSound(u)'
  BY <1>1, <1>2, <1>3, Numbers DEF Sound, FlushSound, Reading
<1>6. ResetSound(u)'
  BY <1>1, <1>2, <1>3, Numbers DEF Sound, ResetSound
<1>7. BookedOnce(u)'
  BY <1>1, <1>2, <1>3, <1>4, Numbers DEF Sound, BookedOnce
<1> QED
  BY <1>5, <1>6, <1>7 DEF Sound

(* A byte.                                                                 *)
LEMMA SoundCarry ==
  ASSUME TypeOK, TypeOK', NEW u \in Users, Sound(u), NEW v \in Users, Carry(v)
  PROVE  Sound(u)'
<1>1. CASE u # v
  <2>1. count'[u] = count[u] /\ carried'[u] = carried[u]
    BY <1>1 DEF Carry, TypeOK, Counts
  <2>2. Held(u)' = Held(u) /\ Left(u)' = Left(u) /\ Total(u)' = Total(u)
    BY <2>1 DEF Carry, Held, Left, Unread, Reference, Holds, Total, history
  <2> QED
    BY <2>1, <2>2 DEF Carry, Sound, FlushSound, ResetSound, BookedOnce, Reading, history
<1>2. CASE u = v
  <2>1. count'[u] = count[u] + 1 /\ carried'[u] = carried[u] + 1
    BY <1>2 DEF Carry, TypeOK, Counts
  <2>2. Held(u)' = Held(u) /\ Reference(u)' = Reference(u) /\ Total(u)' = Total(u) + 1
    BY <2>1, Numbers DEF Carry, Held, Reference, Holds, Total
  <2>3. Growth(count'[u], flush.stats[u]) <= Growth(count[u], flush.stats[u]) + 1
    BY <2>1, Numbers, GrowthRules
  <2>4. Growth(count'[u], operator.live[u]) <= Growth(count[u], operator.live[u]) + 1
    BY <2>1, Numbers, GrowthRules
  <2>5. /\ Unread(u)' <= Unread(u) + 1
        /\ count[u] + 1 # Reference(u) => Unread(u)' = Unread(u) + 1
    BY <2>1, <2>2, Numbers, LeftIsNat DEF Unread, Growth
  <2>6. /\ Held(u) \in Nat /\ Unread(u) \in Nat /\ Unread(u)' \in Nat
        /\ Growth(count[u], flush.stats[u]) \in Nat /\ Growth(count'[u], flush.stats[u]) \in Nat
        /\ Growth(count[u], operator.live[u]) \in Nat /\ Growth(count'[u], operator.live[u]) \in Nat
    BY <2>1, <2>2, Numbers, LeftIsNat DEF Unread, Growth
  <2>7. FlushSound(u)'
    BY <2>1, <2>2, <2>3, <2>6, Numbers DEF Sound, FlushSound, Reading, Carry
  <2>8. ResetSound(u)'
    BY <2>1, <2>2, <2>4, <2>6, Numbers DEF Sound, ResetSound, Carry
  <2>9. u \notin lost' => u \notin lost /\ count[u] + 1 # Reference(u)
    BY <1>2 DEF Carry
  <2>10. BookedOnce(u)'
    BY <2>1, <2>2, <2>5, <2>6, <2>9, Numbers DEF Sound, BookedOnce, Left, Carry
  <2> QED
    BY <2>7, <2>8, <2>10 DEF Sound
<1> QED
  BY <1>1, <1>2

(* What the numbers of a user are on either side of a step.                *)
LEMMA Sides ==
  ASSUME TypeOK, TypeOK', NEW u \in Users
  PROVE  /\ Held(u) \in Nat /\ Left(u) \in Nat /\ Held(u)' \in Nat /\ Left(u)' \in Nat
         /\ Growth(count[u], flush.stats[u]) \in Nat /\ Growth(count[u], operator.live[u]) \in Nat
         /\ Growth(count[u], row[u].base) \in Nat
         /\ count'[u] \in Nat /\ flush'.stats[u] \in Nat /\ row'[u].base \in Nat /\ row'[u].used \in Nat
         /\ day'[u] \in Nat /\ from'[u] \in Nat
         /\ ~Holds(u)' => Held(u)' = 0 /\ Left(u)' = Growth(count'[u], row'[u].base)
<1>1. count'[u] \in Nat /\ row'[u].base \in Nat /\ row'[u].used \in Nat /\ day'[u] \in Nat /\ from'[u] \in Nat
  BY DEF TypeOK, Counts
<1>2. flush'.stats[u] \in Nat /\ flush'.bases[u] \in Nat
  BY DEF TypeOK, Counts
<1>3. Held(u)' \in Nat /\ Reference(u)' \in Nat
  BY <1>1, <1>2, GrowthIsNat DEF Held, Reference
<1>4. Left(u)' \in Nat
  <2>1. Unread(u)' \in Nat
    BY <1>1, <1>3, GrowthIsNat DEF Unread
  <2> QED
    BY <1>3, <2>1 DEF Left
<1>5. ASSUME ~Holds(u)'
      PROVE  Held(u)' = 0 /\ Left(u)' = Growth(count'[u], row'[u].base)
  <2>1. Held(u)' = 0 /\ Reference(u)' = row'[u].base
    BY <1>5 DEF Held, Reference
  <2>2. Growth(count'[u], row'[u].base) \in Nat
    BY <1>1, GrowthIsNat
  <2> QED
    BY <2>1, <2>2 DEF Left, Unread
<1> QED
  BY <1>1, <1>2, <1>3, <1>4, <1>5, LeftIsNat, GrowthIsNat, Numbers

(* The counters end with the process; what a flush has in hand stays.      *)
LEMMA SoundRestarts ==
  ASSUME TypeOK, TypeOK', NEW u \in Users, Sound(u), Restarts,
         UNCHANGED <<row, day, operator, carried, noded, from>>, UNCHANGED flush \/ (~Reading /\ ~Reading')
  PROVE  Sound(u)'
<1>1. count'[u] = 0 /\ (u \notin lost' => u \notin lost /\ Unread(u) = 0)
  BY Numbers, LeftIsNat DEF Restarts, Zero
<1>2. Held(u)' = Held(u) /\ Reference(u)' = Reference(u)
  BY DEF Held, Reference, Holds, Reading
<1>3. Left(u)' = Held(u)
  BY <1>1, <1>2, LeftIsNat DEF Left, Unread, Growth
<1>4. Left(u) = Held(u) + Unread(u) /\ Unread(u) \in Nat
  BY LeftIsNat DEF Left
<1>5. Growth(count'[u], flush.stats[u]) = 0 /\ Growth(count'[u], operator.live[u]) = 0
  BY <1>1, Numbers DEF Growth
<1>6. Total(u)' = Total(u)
  BY DEF Total
<1>7. FlushSound(u)'
  BY <1>2, <1>5, <1>6, Sides, Numbers DEF Sound, FlushSound, Reading
<1>8. ResetSound(u)'
  BY <1>5, <1>6, Sides, Numbers DEF Sound, ResetSound
<1>9. BookedOnce(u)'
  BY <1>1, <1>3, <1>4, <1>6, Sides, Numbers DEF Sound, BookedOnce
<1> QED
  BY <1>7, <1>8, <1>9 DEF Sound

(* With the panel, the flush and the reset end too.                        *)
LEMMA SoundPanel ==
  ASSUME TypeOK, TypeOK', NEW u \in Users, Sound(u), PanelRestarts,
         UNCHANGED <<row, day, carried, noded, from>>
  PROVE  Sound(u)'
<1>1. count'[u] = 0 /\ (u \notin lost' => u \notin lost /\ Left(u) = 0)
  BY LeftIsNat DEF PanelRestarts, Zero
<1>2. ~Reading' /\ ~Holds(u)' /\ operator'.at = "idle"
  BY DEF PanelRestarts, Reading, Holds, NoFlush, NoReset
<1>3. Left(u)' = 0
  BY <1>1, <1>2, Sides DEF Growth
<1>4. Total(u)' = Total(u)
  BY DEF Total
<1>5. FlushSound(u)' /\ ResetSound(u)'
  BY <1>2 DEF FlushSound, ResetSound
<1>6. BookedOnce(u)'
  BY <1>1, <1>3, <1>4, Sides, Numbers DEF Sound, BookedOnce
<1> QED
  BY <1>5, <1>6 DEF Sound

(* A flush takes the counters in hand.                                     *)
LEMMA SoundReadStats ==
  ASSUME TypeOK, TypeOK', NEW u \in Users, Sound(u), NEW who \in {"tick", "restart", "stop"}, ReadStats(who)
  PROVE  Sound(u)'
<1> USE DEF history, enforcing
<1>1. /\ UNCHANGED <<count, row, day, operator, carried, noded, from, lost>>
      /\ flush.at = "idle" /\ flush'.at = "bases" /\ flush'.stats[u] = count[u] /\ flush'.mark[u] = Total(u)
  BY DEF ReadStats, NoFlush, Totals
<1>2. Left(u) = Growth(count[u], row[u].base)
  BY <1>1, LeftCases DEF Holds
<1>3. Held(u)' = Growth(count[u], row[u].base)
  BY <1>1, Numbers DEF Held, Holds, Growth
<1>4. Left(u)' = Growth(count[u], row[u].base)
  <2>1. Unread(u)' = 0
    BY <1>1, Numbers DEF Unread, Reference, Holds, Growth
  <2> QED
    BY <1>3, <2>1, Sides DEF Left
<1>5. Growth(count'[u], flush'.stats[u]) = 0
  BY <1>1, Numbers DEF Growth
<1>6. Total(u)' = Total(u)
  BY <1>1 DEF Total
<1>7. FlushSound(u)'
  BY <1>1, <1>2, <1>3, <1>5, <1>6, Sides, Numbers DEF Sound, BookedOnce, FlushSound
<1>8. ResetSound(u)'
  BY <1>1, <1>6 DEF Sound, ResetSound
<1>9. BookedOnce(u)'
  BY <1>1, <1>2, <1>4, <1>6 DEF Sound, BookedOnce
<1> QED
  BY <1>7, <1>8, <1>9 DEF Sound

(* A flush that gives up, before it reads the baselines or as it writes:   *)
(* measured from the old baseline there is no more than there was.         *)
LEMMA SoundDropped ==
  ASSUME TypeOK, TypeOK', NEW u \in Users, Sound(u),
         UNCHANGED <<count, row, day, operator, carried, noded, from>>, lost' = lost \union Dropped,
         flush.at \in {"bases", "write"}, flush'.at \in {"reset", "done"},
         flush'.at = "reset" => flush'.stats = flush.stats /\ flush'.mark = flush.mark,
         flush.at = "write" => flush.bases[u] = row[u].base
  PROVE  Sound(u)'
<1>1. Left(u)' = Growth(count[u], row[u].base) /\ Held(u)' = 0
  BY Sides DEF Holds
<1>2. Left(u)' <= Left(u)
  <2>1. CASE Holds(u)
    <3>1. Held(u) = Growth(flush.stats[u], row[u].base)
      BY <2>1 DEF Held
    <3>2. Left(u) = Held(u) + Growth(count[u], flush.stats[u])
      BY <2>1, LeftCases
    <3> QED
      BY <1>1, <3>1, <3>2, GrowthRules, Numbers
  <2>2. CASE ~Holds(u)
    BY <1>1, <2>2, LeftCases, Sides
  <2> QED
    BY <2>1, <2>2
<1>3. u \notin lost' => u \notin lost /\ Left(u)' = Left(u)
  BY <1>1, <1>2, Sides DEF Dropped
<1>4. Total(u)' = Total(u)
  BY DEF Total
<1>5. FlushSound(u)'
  BY <1>1, <1>4, Sides, Numbers DEF Sound, FlushSound, Reading
<1>6. ResetSound(u)'
  BY <1>4 DEF Sound, ResetSound
<1>7. BookedOnce(u)'
  BY <1>2, <1>3, <1>4, Sides, Numbers DEF Sound, BookedOnce
<1> QED
  BY <1>5, <1>6, <1>7 DEF Sound

(* Baselines are read, or the flush gives up.                               *)
LEMMA SoundBaselines ==
  ASSUME TypeOK, TypeOK', NEW u \in Users, Sound(u), NEW ok \in BOOLEAN, TrafficBaselines(ok)
  PROVE  Sound(u)'
<1> USE DEF history, enforcing
<1>1. UNCHANGED <<count, row, day, operator, carried, noded, from>> /\ flush.at = "bases"
  BY DEF TrafficBaselines
<1>2. CASE ok
  <2>1. /\ flush'.at = "write" /\ flush'.stats = flush.stats /\ flush'.mark = flush.mark
        /\ flush'.bases[u] = row[u].base /\ lost' = lost
    <3>1. flush \in FlushType
      BY DEF TypeOK, FlushType
    <3>2. flush' = [flush EXCEPT !.at = "write", !.bases = [v \in Users |-> row[v].base]] /\ lost' = lost
      BY <1>2 DEF TrafficBaselines
    <3> QED
      BY <3>1, <3>2 DEF FlushType
  <2>2. Held(u)' = Held(u) /\ Left(u)' = Left(u) /\ Total(u)' = Total(u)
    BY <1>1, <2>1 DEF Held, Left, Unread, Reference, Holds, Total
  <2> QED
    BY <1>1, <2>1, <2>2 DEF Sound, FlushSound, ResetSound, BookedOnce, Reading
<1>3. CASE ~ok
  BY <1>1, <1>3, SoundDropped DEF TrafficBaselines, NoFlush
<1> QED
  BY <1>2, <1>3

(* What a flush books leaves its hand, and the baseline moves with it.     *)
LEMMA SoundDeltas ==
  ASSUME TypeOK, TypeOK', NEW u \in Users, Sound(u), NEW ok \in BOOLEAN, ApplyTrafficDeltas(ok)
  PROVE  Sound(u)'
<1> USE DEF history, enforcing
<1>0. row[u] \in UserRow
  BY DEF TypeOK, UserRow
<1>1. /\ UNCHANGED <<count, carried, noded, from>> /\ flush.at = "write"
      /\ flush'.at = "reset" /\ flush'.stats = flush.stats /\ flush'.mark = flush.mark
      /\ flush.bases[u] = row[u].base
  BY DEF ApplyTrafficDeltas, TypeOK, Sound, FlushSound, Reading
<1>2. CASE ok
  <2>1. /\ row'[u].base = NewBase(u) /\ row'[u].used = row[u].used + Held(u)
        /\ day'[u] = day[u] + Held(u) /\ lost' = lost
    <3>1. row'[u] = [row[u] EXCEPT !.base = NewBase(u), !.used = @ + Held(u)]
      BY <1>2 DEF ApplyTrafficDeltas, RowsBecome
    <3>2. day'[u] = day[u] + Held(u) /\ lost' = lost
      BY <1>2 DEF ApplyTrafficDeltas
    <3> QED
      BY <1>0, <3>1, <3>2 DEF UserRow
  <2>2. Left(u)' = Growth(count[u], NewBase(u)) /\ Held(u)' = 0
    BY <1>1, <2>1, Sides DEF Holds
  <2>3. Left(u) = Held(u) + Left(u)'
    <3>1. CASE Holds(u)
      BY <1>1, <2>2, <3>1, LeftCases DEF NewBase, Holds
    <3>2. CASE ~Holds(u)
      <4>1. flush.stats[u] = 0
        BY <1>1, <3>2, Numbers DEF Holds
      <4> QED
        BY <2>2, <3>2, <4>1, LeftCases, Sides DEF NewBase
    <3> QED
      BY <3>1, <3>2
  <2>4. Total(u)' = Total(u)
    BY <1>1 DEF Total
  <2>5. FlushSound(u)'
    BY <1>1, <2>1, <2>2, <2>4, Sides, Numbers DEF Sound, FlushSound, Reading
  <2>6. ResetSound(u)'
    <3>1. /\ operator'.at = operator.at /\ operator'.users = operator.users /\ operator'.live = operator.live
          /\ operator'.mark = operator.mark
          /\ operator.at # "idle" => operator'.stale = operator.stale \union {v \in Users : row'[v].base # row[v].base}
      BY <1>2 DEF ApplyTrafficDeltas, Moved, TypeOK
    <3>2. ASSUME operator'.at = "write", u \in operator'.users \ operator'.stale
          PROVE  /\ day'[u] + Growth(count[u], operator.live[u]) <= carried[u]
                 /\ operator.mark[u] + Growth(count[u], operator.live[u]) <= Total(u)
      <4>1. operator.at = "write" /\ u \in operator.users \ operator.stale /\ row'[u].base = row[u].base
        BY <3>1, <3>2
      <4>2. Held(u) = 0
        BY <1>1, <2>1, <4>1, Numbers DEF Held, Holds, NewBase, Growth
      <4> QED
        BY <2>1, <4>1, <4>2, Numbers DEF Sound, ResetSound
    <3> QED
      BY <1>1, <2>4, <3>1, <3>2 DEF ResetSound
  <2>7. BookedOnce(u)'
    BY <1>1, <2>1, <2>3, <2>4, Sides, Numbers DEF Sound, BookedOnce
  <2> QED
    BY <2>5, <2>6, <2>7 DEF Sound
<1>3. CASE ~ok
  <2>1. UNCHANGED <<row, day, operator>> /\ lost' = lost \union Dropped
    BY <1>3 DEF ApplyTrafficDeltas
  <2> QED
    BY <1>1, <2>1, SoundDropped
<1> QED
  BY <1>2, <1>3

(* A period that is over begins again where the flush read the counters.   *)
LEMMA SoundResets ==
  ASSUME TypeOK, TypeOK', NEW u \in Users, Sound(u), NEW due \in SUBSET Users, ApplyResets(due)
  PROVE  Sound(u)'
<1> USE DEF history, enforcing
<1>1. /\ UNCHANGED <<count, day, carried, noded>> /\ flush.at = "reset" /\ ~Reading'
  BY DEF ApplyResets, NoFlush, Reading
<1>2. ~Holds(u) /\ ~Holds(u)'
  BY <1>1 DEF Holds, Reading
<1>3. /\ Held(u) = 0 /\ Left(u) = Growth(count[u], row[u].base)
      /\ Left(u)' = Growth(count[u], row'[u].base)
  BY <1>1, <1>2, LeftCases, Sides
<1>4. Total(u)' = Total(u)
  BY <1>1 DEF Total
<1>5. FlushSound(u)'
  BY <1>1 DEF FlushSound
<1>6. ResetSound(u)'
  <2>1. operator'.at = operator.at /\ operator'.users = operator.users /\ operator'.live = operator.live
        /\ operator'.mark = operator.mark /\ operator.stale \subseteq operator'.stale
    BY DEF ApplyResets, Moved, TypeOK
  <2> QED
    BY <1>1, <1>4, <2>1 DEF Sound, ResetSound
<1>7. BookedOnce(u)'
  <2>1. CASE u \in due
    <3>1. /\ row'[u].base = flush.stats[u] /\ row'[u].used = 0 /\ from'[u] = flush.mark[u]
          /\ u \notin lost' => u \notin lost /\ (row[u].base = flush.stats[u] \/ Left(u) = 0)
      <4>1. row[u] \in UserRow
        BY DEF TypeOK, UserRow
      <4>2. row'[u] = [row[u] EXCEPT !.base = flush.stats[u], !.used = 0] /\ from'[u] = flush.mark[u]
        BY <2>1 DEF ApplyResets, RowsBecome
      <4>3. u \notin lost' => u \notin lost /\ (row[u].base = flush.stats[u] \/ Left(u) = 0)
        <5>1. lost' = lost \union {v \in due : row[v].base # flush.stats[v] /\ Left(v) > 0}
          BY DEF ApplyResets
        <5> QED
          BY <2>1, <5>1, Sides
      <4> QED
        BY <4>1, <4>2, <4>3 DEF UserRow
    <3>2. /\ day[u] + Left(u)' <= carried[u] /\ flush.mark[u] + Left(u)' <= Total(u)
      BY <1>1, <1>3, <3>1, Numbers, Sides DEF Sound, FlushSound, Reading
    <3>3. u \notin lost' => Left(u)' = Left(u)
      BY <1>3, <3>1, <3>2, Numbers, Sides DEF Sound, BookedOnce
    <3> QED
      BY <1>1, <1>4, <3>1, <3>2, <3>3, Numbers, Sides DEF Sound, BookedOnce
  <2>2. CASE u \notin due
    <3>1. row'[u] = row[u] /\ from'[u] = from[u] /\ lost \subseteq lost'
      BY <2>2 DEF ApplyResets, RowsBecome, TypeOK
    <3> QED
      BY <1>1, <1>3, <1>4, <3>1 DEF Sound, BookedOnce
  <2> QED
    BY <2>1, <2>2
<1> QED
  BY <1>5, <1>6, <1>7 DEF Sound

(* The operator's reset reads the counters, or fails to.                   *)
LEMMA SoundLive ==
  ASSUME TypeOK, TypeOK', NEW u \in Users, Sound(u),
         NEW users \in SUBSET Users, NEW heard \in BOOLEAN, LiveCounter(users, heard)
  PROVE  Sound(u)'
<1> USE DEF history, enforcing
<1>1. UNCHANGED <<count, row, day, flush, carried, noded, from, lost>>
  BY DEF LiveCounter
<1>2. Held(u)' = Held(u) /\ Left(u)' = Left(u) /\ Total(u)' = Total(u)
  BY <1>1 DEF Held, Left, Unread, Reference, Holds, Total
<1>3. ResetSound(u)'
  <2>1. CASE heard
    <3>1. operator'.live[u] = count[u] /\ operator'.mark[u] = Total(u)
      BY <2>1 DEF LiveCounter, Totals
    <3>2. Growth(count[u], count[u]) = 0
      BY Numbers, GrowthRules
    <3>3. day[u] <= carried[u]
      BY Numbers, Sides DEF Sound, BookedOnce
    <3> QED
      BY <1>1, <1>2, <3>1, <3>2, <3>3, Numbers DEF ResetSound
  <2>2. CASE ~heard
    BY <2>2 DEF LiveCounter, ResetSound
  <2> QED
    BY <2>1, <2>2
<1> QED
  BY <1>1, <1>2, <1>3 DEF Sound, FlushSound, BookedOnce, Reading

(* It begins the quota's count where it read the counters, unless it met a *)
(* flush.                                                                  *)
LEMMA SoundResetTraffic ==
  ASSUME TypeOK, TypeOK', NEW u \in Users, Sound(u), ResetTraffic, u \notin raced'
  PROVE  Sound(u)'
<1> USE DEF history, enforcing
<1>1. /\ UNCHANGED <<count, day, flush, carried, noded>> /\ operator.at = "write" /\ operator'.at = "idle"
  BY DEF ResetTraffic, NoReset
<1>2. ResetSound(u)'
  BY <1>1 DEF ResetSound
<1>3. Total(u)' = Total(u)
  BY <1>1 DEF Total
<1>4. CASE u \in operator.users
  <2>1. /\ row'[u].base = operator.live[u] /\ row'[u].used = 0 /\ from'[u] = operator.mark[u]
        /\ u \notin lost' => u \notin lost /\ Left(u) = 0
    <3>1. row[u] \in UserRow
      BY DEF TypeOK, UserRow
    <3>2. row'[u] = [row[u] EXCEPT !.base = operator.live[u], !.used = 0] /\ from'[u] = operator.mark[u]
      BY <1>4 DEF ResetTraffic, RowsBecome
    <3>3. u \notin lost' => u \notin lost /\ Left(u) = 0
      <4>1. lost' = lost \union {v \in operator.users : Left(v) > 0}
        BY DEF ResetTraffic
      <4> QED
        BY <1>4, <4>1, Sides
    <3> QED
      BY <3>1, <3>2, <3>3 DEF UserRow
  <2>2. flush.at \notin {"bases", "write"} /\ u \notin operator.stale
    BY <1>4 DEF ResetTraffic
  <2>3. ~Holds(u) /\ ~Holds(u)'
    BY <1>1, <2>2 DEF Holds
  <2>4. Held(u) = 0 /\ Held(u)' = 0 /\ Left(u)' = Growth(count[u], operator.live[u])
    BY <1>1, <2>1, <2>3, LeftCases, Sides
  <2>5. FlushSound(u)'
    BY <1>1, <1>3, <2>2, <2>4 DEF Sound, FlushSound, Reading
  <2>6. day[u] + Left(u)' <= carried[u] /\ operator.mark[u] + Left(u)' <= Total(u)
    BY <1>1, <1>4, <2>2, <2>4 DEF Sound, ResetSound
  <2>7. BookedOnce(u)'
    BY <1>1, <1>3, <2>1, <2>6, Numbers, Sides DEF Sound, BookedOnce
  <2> QED
    BY <1>2, <2>5, <2>7 DEF Sound
<1>5. CASE u \notin operator.users
  <2>1. row'[u] = row[u] /\ from'[u] = from[u] /\ lost \subseteq lost'
    BY <1>5 DEF ResetTraffic, RowsBecome, TypeOK
  <2>2. Held(u)' = Held(u) /\ Left(u)' = Left(u)
    BY <1>1, <2>1 DEF Held, Left, Unread, Reference, Holds
  <2>3. FlushSound(u)' /\ BookedOnce(u)'
    BY <1>1, <1>3, <2>1, <2>2 DEF Sound, FlushSound, BookedOnce, Reading
  <2> QED
    BY <1>2, <2>3 DEF Sound
<1> QED
  BY <1>4, <1>5

(* An alert or a charge elsewhere is not the local server's business.      *)
LEMMA SoundRows ==
  ASSUME TypeOK, TypeOK', NEW u \in Users, Sound(u),
         \/ \E v \in Users : NodeReport(v)
         \/ \E v \in Users, limit \in Limits : SetUserLimits(v, limit)
         \/ \E p \in Passes, v \in Users, ok \in BOOLEAN : NotifyStatusTransition(p, v, ok)
  PROVE  Sound(u)'
<1> USE DEF history, enforcing
<1>1. row \in [Users -> UserRow] /\ noded \in [Users -> Nat]
  BY DEF TypeOK, UserRow, Counts
<1>2. ASSUME NEW v \in Users, NodeReport(v)
      PROVE  /\ row'[u].base = row[u].base /\ noded'[u] - noded[u] = row'[u].used - row[u].used
             /\ noded[u] <= noded'[u]
  <2>1. row' = [row EXCEPT ![v].used = @ + 1] /\ noded' = [noded EXCEPT ![v] = @ + 1]
    BY <1>2 DEF NodeReport, RowsBecome
  <2>2. CASE u = v
    <3>1. row'[u] = [row[u] EXCEPT !.used = @ + 1] /\ noded'[u] = noded[u] + 1
      BY <1>1, <2>1, <2>2
    <3>2. row'[u].base = row[u].base /\ row'[u].used = row[u].used + 1
      BY <1>1, <3>1 DEF UserRow
    <3> QED
      BY <3>1, <3>2, Numbers
  <2>3. CASE u # v
    BY <1>1, <2>1, <2>3, Numbers
  <2> QED
    BY <2>2, <2>3
<1>3. ASSUME NEW v \in Users, NEW limit \in Limits, SetUserLimits(v, limit)
      PROVE  row'[u].base = row[u].base /\ row'[u].used = row[u].used
  BY <1>1, <1>3 DEF SetUserLimits, RowsBecome, UserRow
<1>4. ASSUME NEW p \in Passes, NEW v \in Users, NEW ok \in BOOLEAN, NotifyStatusTransition(p, v, ok)
      PROVE  row'[u].base = row[u].base /\ row'[u].used = row[u].used
  BY <1>1, <1>4 DEF NotifyStatusTransition, UserRow
<1>5. CASE \E v \in Users : NodeReport(v)
  BY <1>2, <1>5, SoundSame DEF NodeReport
<1>6. CASE \E v \in Users, limit \in Limits : SetUserLimits(v, limit)
  BY <1>3, <1>6, Numbers, SoundSame DEF SetUserLimits
<1>7. CASE \E p \in Passes, v \in Users, ok \in BOOLEAN : NotifyStatusTransition(p, v, ok)
  <2>1. row'[u].base = row[u].base /\ row'[u].used = row[u].used
    BY <1>4, <1>7
  <2>2. UNCHANGED <<count, day, operator, flush, carried, noded, from, lost>>
    BY <1>7 DEF NotifyStatusTransition
  <2> QED
    BY <2>1, <2>2, Numbers, SoundSame
<1> QED
  BY <1>5, <1>6, <1>7

(* Nor is a sync or the rest of a pass.                                    *)
LEMMA SoundPasses ==
  ASSUME TypeOK, TypeOK', Waits, NEW u \in Users, Sound(u),
         \/ SyncUsers \/ EnforceTrafficSoon
         \/ \E p \in Passes, ok \in BOOLEAN : EnforcementUsers(p, ok)
         \/ \E p \in Passes : EnforceAfterTraffic(p)
         \/ UNCHANGED vars
  PROVE  Sound(u)'
<1> USE DEF history, enforcing
<1>1. UNCHANGED <<count, row, day, operator, carried, noded, from, lost>>
  BY DEF SyncUsers, EnforceTrafficSoon, EnforcementUsers, EnforceAfterTraffic, vars
<1>2. UNCHANGED flush \/ (~Reading /\ ~Reading')
  <2>1. ASSUME NEW p \in Passes, EndPass(p), pass[p].at # "idle"
        PROVE  UNCHANGED flush \/ (~Reading /\ ~Reading')
    BY <2>1 DEF EndPass, Waits, Reading, TypeOK
  <2> QED
    BY <2>1 DEF SyncUsers, EnforceTrafficSoon, EnforcementUsers, EnforceAfterTraffic, vars
<1> QED
  BY <1>1, <1>2, Numbers, SoundSame

(* Every step keeps the books of every user.                                *)
LEMMA BooksStep ==
  ASSUME TypeOK, TypeOK', Waits, Books, [Next]_vars
  PROVE  Books'
<1> USE DEF history, enforcing
<1>1. raced \subseteq raced'
  BY DEF Next, Flush, Pass, Operator, Carry, NodeReport, SyncUsers, Exit, RestartUnderFlush, RestartUnread,
         Killed, TickStats, FlushBeforeRestart, FlushTrafficOnStop, ReadStats, TrafficBaselines,
         ApplyTrafficDeltas, ApplyResets, Release, EnforceTrafficSoon, EnforcementUsers,
         NotifyStatusTransition, EnforceAfterTraffic, LiveCounter, ResetTraffic, SetUserLimits, vars
<1>2. SUFFICES ASSUME NEW u \in Users, u \notin raced', Sound(u)
               PROVE  Sound(u)'
  BY <1>1 DEF Books, Sound
<1>3. ASSUME NEW v \in Users, Carry(v)
      PROVE  Sound(u)'
  BY <1>2, <1>3, SoundCarry
<1>4. ASSUME Exit \/ RestartUnderFlush \/ RestartUnread
      PROVE  Sound(u)'
  BY <1>2, <1>4, SoundRestarts DEF Exit, RestartUnderFlush, RestartUnread
<1>5. ASSUME Killed
      PROVE  Sound(u)'
  BY <1>2, <1>5, SoundPanel DEF Killed
<1>6. ASSUME TickStats \/ FlushBeforeRestart \/ FlushTrafficOnStop
      PROVE  Sound(u)'
  BY <1>2, <1>6, SoundReadStats DEF TickStats, FlushBeforeRestart, FlushTrafficOnStop
<1>7. ASSUME NEW ok \in BOOLEAN, TrafficBaselines(ok) \/ ApplyTrafficDeltas(ok)
      PROVE  Sound(u)'
  BY <1>2, <1>7, SoundBaselines, SoundDeltas
<1>8. ASSUME NEW due \in SUBSET Users, ApplyResets(due)
      PROVE  Sound(u)'
  BY <1>2, <1>8, SoundResets
<1>9. ASSUME Release
      PROVE  Sound(u)'
  <2>1. UNCHANGED <<row, day, carried, noded, from>> /\ ~Reading
    BY <1>9 DEF Release, Reading
  <2>2. CASE flush.who = "tick" /\ flush' = NoFlush /\ UNCHANGED <<count, served, kick, pass, asked, operator, lost>>
    BY <1>2, <2>1, <2>2, Numbers, SoundSame DEF Reading, NoFlush
  <2>3. CASE flush' = NoFlush /\ Restarts /\ UNCHANGED operator
    BY <1>2, <2>1, <2>3, SoundRestarts DEF Reading, NoFlush
  <2>4. CASE PanelRestarts
    BY <1>2, <2>1, <2>4, SoundPanel
  <2> QED
    BY <1>9, <2>2, <2>3, <2>4 DEF Release
<1>10. ASSUME NEW users \in SUBSET Users, NEW heard \in BOOLEAN, LiveCounter(users, heard)
       PROVE  Sound(u)'
  BY <1>2, <1>10, SoundLive
<1>11. ASSUME ResetTraffic
       PROVE  Sound(u)'
  BY <1>2, <1>11, SoundResetTraffic
<1> QED
  BY <1>2, <1>3, <1>4, <1>5, <1>6, <1>7, <1>8, <1>9, <1>10, <1>11, SoundRows, SoundPasses
     DEF Next, Flush, Pass, Operator

(* Nobody is charged for more than they used, and what no process and no   *)
(* reset took along is booked once, for any users, quotas and numbers of   *)
(* bytes, failed writes, restarts and resets (TickStats, ResetTraffic).    *)
THEOREM AlwaysAccounted == Spec => []Accounted
<1>1. IInv => Accounted
  BY DEF IInv, Books, BookedOnce, Accounted
<1>2. IInv /\ [Next]_vars => IInv'
  BY TypeSteps, WaitsStep, BooksStep DEF IInv
<1>3. Init => IInv
  BY TypeStarts, BooksStart DEF IInv
<1> QED
  BY <1>1, <1>2, <1>3, PTL DEF Spec
=============================================================================
