---------------------------- MODULE SupervisedProofs ----------------------------
(***************************************************************************)
(* What the supervisor promises under a node agent, for any users,         *)
(* configs, processes and monitors. The proof goes by the operations: what *)
(* each one makes of a record that is Sound, whoever calls it.             *)
(***************************************************************************)
EXTENDS Supervised, FiniteSetTheorems, TLAPS

(* One child at most, known as `cur`; none while suspended or closed.      *)
One(x) == Alive(x) = {p \in {x.cur} : p # NoPid}
Down(x) == x.suspended \/ x.closed => x.cur = NoPid
Sound(x) == x \in SupervisorState /\ One(x) /\ Down(x)

(* The process, if there is one, is what the file says.                    *)
Match(x) ==
  Running(x) =>
    /\ Current(x).keys = KeysOf(x.file)
    /\ Current(x).quic = KeysOf(x.file)
    /\ x.file # NoConfig => Current(x).shape = x.file.shape

(* What stays as it is in operations that only start and stop.             *)
SameOrders(x, y) == y.suspended = x.suspended /\ y.closed = x.closed

(***************************************************************************)
(* Starting and stopping                                                   *)
(***************************************************************************)

(* The keys of a config, and of none.                                       *)
LEMMA KeysOfType ==
  ASSUME NEW c \in MaybeConfig
  PROVE  KeysOf(c) \in [Accounts -> 0..MaxKey]
  BY SupervisorAssumption DEF KeysOf, NoKeys, MaybeConfig, Config

(* A record with another orders or files is the same child.                *)
LEMMA CurrentType ==
  ASSUME NEW x \in SupervisorState, One(x), Running(x)
  PROVE  /\ x.cur \in Pids /\ Current(x) \in Proc
         /\ \A p \in Pids : p # x.cur => x.procs[p] = NoProc
<1>1. x.cur \in Pids
  BY DEF SupervisorState, Running
<1>2. x.cur \in Alive(x)
  BY <1>1 DEF One, Running
<1>3. x.procs[x.cur] \in Proc
  BY <1>1, <1>2 DEF Alive, SupervisorState
<1>4. ASSUME NEW p \in Pids, p # x.cur PROVE x.procs[p] = NoProc
  BY <1>4 DEF One, Alive
<1> QED
  BY <1>1, <1>3, <1>4 DEF Current

(* Without a current child there is none.                                   *)
LEMMA NobodyAlive ==
  ASSUME NEW x \in SupervisorState, One(x), ~Running(x)
  PROVE  x.cur = NoPid /\ \A p \in Pids : x.procs[p] = NoProc
  BY DEF One, Alive, Running

(* StopProc leaves no child, and files and orders as they are.             *)
LEMMA StopProcSound ==
  ASSUME NEW x \in SupervisorState, One(x)
  PROVE  /\ Sound(StopProc(x)) /\ ~Running(StopProc(x)) /\ SameOrders(x, StopProc(x))
         /\ StopProc(x).file = x.file
<1>1. CASE ~Running(x)
  BY <1>1 DEF StopProc, Sound, Down, Running, SameOrders
<1>2. CASE Running(x)
  <2> DEFINE y == [x EXCEPT !.procs[x.cur] = NoProc, !.cur = NoPid, !.restarts = 0]
  <2>1. StopProc(x) = y
    BY <1>2 DEF StopProc
  <2>2. \A p \in Pids : y.procs[p] = NoProc
    BY <1>2, CurrentType DEF SupervisorState
  <2>3. y \in SupervisorState
    <3>1. [x.procs EXCEPT ![x.cur] = NoProc] \in [Pids -> Proc \union {NoProc}]
      BY DEF SupervisorState
    <3>2. 0 \in 0..MaxRestarts
      BY SupervisorAssumption
    <3> QED
      BY <3>1, <3>2 DEF SupervisorState
  <2>4. /\ y.cur = NoPid /\ y.suspended = x.suspended /\ y.closed = x.closed /\ y.file = x.file
    BY DEF SupervisorState
  <2>5. One(y) /\ Down(y) /\ ~Running(y)
    BY <2>2, <2>4 DEF One, Alive, Down, Running
  <2> QED
    BY <2>1, <2>3, <2>4, <2>5 DEF Sound, SameOrders
<1> QED
  BY <1>1, <1>2

(* StartProc starts a child from the file when there is none.              *)
LEMMA StartProcSound ==
  ASSUME NEW x, Sound(x), ~Running(x), NEW works \in BOOLEAN
  PROVE  /\ Sound(StartProc(x, works)) /\ Match(StartProc(x, works))
         /\ SameOrders(x, StartProc(x, works)) /\ StartProc(x, works).file = x.file
<1>1. CASE x.closed \/ x.suspended \/ ~works
  BY <1>1 DEF StartProc, Match, SameOrders
<1>2. CASE ~(x.closed \/ x.suspended \/ ~works)
  <2>1. x \in SupervisorState /\ x.cur = NoPid /\ \A p \in Pids : x.procs[p] = NoProc
    BY NobodyAlive DEF Sound
  <2> DEFINE p == CHOOSE q \in Pids : x.procs[q] = NoProc
             child == [cfg |-> x.file, shape |-> IF x.file = NoConfig THEN NoConfig ELSE x.file.shape,
                       keys |-> KeysOf(x.file), quic |-> KeysOf(x.file),
                       lost |-> FALSE, proven |-> FALSE]
             y == [x EXCEPT !.cur = p, !.procs[p] = child]
  <2>2. StartProc(x, works) = y
    BY <1>2 DEF StartProc
  <2>3. p \in Pids
    BY <2>1, SupervisorAssumption
  <2>4. x.file \in MaybeConfig
    BY <2>1 DEF SupervisorState
  <2>5. child \in Proc
    <3>1. (IF x.file = NoConfig THEN NoConfig ELSE x.file.shape) \in Shapes \union {NoConfig}
      BY <2>4 DEF MaybeConfig, Config
    <3> QED
      BY <2>4, <3>1, KeysOfType DEF Proc
  <2>6. child # NoProc /\ p # NoPid
    BY <2>3, <2>5, SupervisorAssumption
  <2> HIDE DEF p, child
  <2>7. y \in SupervisorState
    BY <2>1, <2>3, <2>5 DEF SupervisorState
  <2>8. /\ y.cur = p /\ y.procs[p] = child /\ \A q \in Pids : q # p => y.procs[q] = NoProc
        /\ y.suspended = x.suspended /\ y.closed = x.closed /\ y.file = x.file
    BY <2>1, <2>3 DEF SupervisorState
  <2> HIDE DEF y
  <2>9. One(y)
    BY <2>3, <2>6, <2>8 DEF One, Alive
  <2>10. Down(y) /\ SameOrders(x, y)
    BY <1>2, <2>8 DEF Down, SameOrders
  <2>11. Match(y)
    <3>1. child.keys = KeysOf(x.file) /\ child.quic = KeysOf(x.file)
      BY DEF child
    <3>2. x.file # NoConfig => child.shape = x.file.shape
      BY DEF child
    <3> QED
      BY <2>8, <3>1, <3>2 DEF Match, Current
  <2> QED
    BY <2>2, <2>7, <2>8, <2>9, <2>10, <2>11 DEF Sound
<1> QED
  BY <1>1, <1>2

(* Restart ends in a child from the file, or in none.                      *)
LEMMA RestartSound ==
  ASSUME NEW x \in SupervisorState, One(x), NEW works \in BOOLEAN
  PROVE  /\ Sound(Restart(x, works)) /\ Match(Restart(x, works))
         /\ SameOrders(x, Restart(x, works)) /\ Restart(x, works).file = x.file
<1>1. /\ Sound(StopProc(x)) /\ ~Running(StopProc(x)) /\ SameOrders(x, StopProc(x))
      /\ StopProc(x).file = x.file
  BY StopProcSound
<1> QED
  BY <1>1, StartProcSound DEF Restart, SameOrders

(***************************************************************************)
(* Putting a config into effect                                            *)
(***************************************************************************)

(* A config written to the file, with the copy of the old one, and what is *)
(* noted of an apply leave the child alone.                                *)
LEMMA ReplacedSound ==
  ASSUME NEW x, Sound(x), NEW d \in Config
  PROVE  Sound(Replaced(x, d)) /\ SameOrders(x, Replaced(x, d))
<1>1. Replaced(x, d) \in SupervisorState
  BY DEF Replaced, Sound, SupervisorState, MaybeConfig
<1>2. /\ Replaced(x, d).procs = x.procs /\ Replaced(x, d).cur = x.cur
      /\ Replaced(x, d).suspended = x.suspended /\ Replaced(x, d).closed = x.closed
  BY DEF Replaced, Sound, SupervisorState
<1> QED
  BY <1>1, <1>2 DEF Sound, One, Alive, Down, SameOrders

(* A config that is noted changes nothing that runs.                        *)
LEMMA NotedSound ==
  ASSUME NEW x, Sound(x), NEW d \in Config
  PROVE  /\ Sound(Noted(x, d)) /\ SameOrders(x, Noted(x, d))
         /\ Match(x) => Match(Noted(x, d))
<1>1. Noted(x, d) \in SupervisorState
  BY DEF Noted, Sound, SupervisorState, MaybeConfig
<1>2. /\ Noted(x, d).procs = x.procs /\ Noted(x, d).cur = x.cur /\ Noted(x, d).file = x.file
      /\ Noted(x, d).suspended = x.suspended /\ Noted(x, d).closed = x.closed
  BY DEF Noted, Sound, SupervisorState
<1> QED
  BY <1>1, <1>2 DEF Sound, One, Alive, Down, SameOrders, Match, Running, Current

(* A refused config changes nothing; any other is in the file, and in the  *)
(* child if there is one.                                                  *)
LEMMA ApplyRawSound ==
  ASSUME NEW x, Sound(x), NEW d \in Config, NEW works \in BOOLEAN
  PROVE  /\ Sound(ApplyRaw(x, d, works)) /\ SameOrders(x, ApplyRaw(x, d, works))
         /\ Match(ApplyRaw(x, d, works)) \/ (d.shape \in Refused /\ ApplyRaw(x, d, works) = x)
<1>1. CASE d.shape \in Refused
  BY <1>1 DEF ApplyRaw, SameOrders
<1>2. CASE d.shape \notin Refused
  <2> DEFINE y == Restart(Replaced(x, d), works)
  <2>1. Sound(y) /\ Match(y) /\ SameOrders(x, y)
    BY ReplacedSound, RestartSound DEF Sound, SameOrders
  <2>2. ApplyRaw(x, d, works) = y \/ ApplyRaw(x, d, works) = Noted(y, d)
    BY <1>2 DEF ApplyRaw
  <2> HIDE DEF y
  <2> QED
    BY <2>1, <2>2, NotedSound DEF SameOrders
<1> QED
  BY <1>1, <1>2

(* The child changed in place is still the one child.                      *)
LEMMA ChildChanged ==
  ASSUME NEW x, Sound(x), Running(x), NEW c \in Proc
  PROVE  /\ Sound([x EXCEPT !.procs[x.cur] = c])
         /\ SameOrders(x, [x EXCEPT !.procs[x.cur] = c])
         /\ [x EXCEPT !.procs[x.cur] = c].file = x.file
         /\ [x EXCEPT !.procs[x.cur] = c].cur = x.cur
         /\ Current([x EXCEPT !.procs[x.cur] = c]) = c
<1> DEFINE y == [x EXCEPT !.procs[x.cur] = c]
<1>1. /\ x \in SupervisorState /\ x.cur \in Pids
      /\ \A p \in Pids : p # x.cur => x.procs[p] = NoProc
  BY CurrentType DEF Sound
<1>2. y \in SupervisorState
  <2>1. [x.procs EXCEPT ![x.cur] = c] \in [Pids -> Proc \union {NoProc}]
    BY <1>1 DEF SupervisorState
  <2> QED
    BY <1>1, <2>1 DEF SupervisorState
<1>3. /\ y.cur = x.cur /\ y.procs[x.cur] = c /\ \A p \in Pids : p # x.cur => y.procs[p] = NoProc
      /\ y.file = x.file /\ y.suspended = x.suspended /\ y.closed = x.closed
  BY <1>1 DEF SupervisorState
<1>4. c # NoProc /\ x.cur # NoPid
  BY <1>1, SupervisorAssumption
<1> HIDE DEF y
<1>5. One(y)
  BY <1>1, <1>3, <1>4 DEF One, Alive
<1>6. Down(y)
  BY <1>3 DEF Sound, Down
<1>7. Sound(y) /\ SameOrders(x, y) /\ y.file = x.file /\ y.cur = x.cur /\ Current(y) = c
  BY <1>2, <1>3, <1>5, <1>6 DEF Sound, SameOrders, Current
<1> QED
  BY <1>7 DEF y

(* A live change: the users whose keys differ, and the Hysteria2 lanes.    *)
LEMMA ChangedType ==
  ASSUME NEW c \in Proc, NEW from \in Config, NEW to \in Config
  PROVE  Changed(c, from, to) \in Proc
  BY DEF Changed, Proc, Config

(* A live change of users keeps the child.                                  *)
LEMMA ChangeUsersSound ==
  ASSUME NEW x, Sound(x), Running(x), NEW from \in Config, NEW to \in Config
  PROVE  /\ Sound(ChangeUsers(x, from, to)) /\ SameOrders(x, ChangeUsers(x, from, to))
         /\ ChangeUsers(x, from, to).file = x.file /\ ChangeUsers(x, from, to).cur = x.cur
         /\ Current(ChangeUsers(x, from, to)) = Changed(Current(x), from, to)
<1>1. Changed(Current(x), from, to) \in Proc
  BY CurrentType, ChangedType DEF Sound
<1> QED
  BY <1>1, ChildChanged DEF ChangeUsers

(* A live change that went through leaves child and file at the new config.*)
LEMMA TryLiveUsersSound ==
  ASSUME NEW x, Sound(x), Running(x), Match(x), NEW d \in Config,
         x.file = d \/ LiveChange(x, d)
  PROVE  /\ Sound(TryLiveUsers(x, d)) /\ Match(TryLiveUsers(x, d))
         /\ SameOrders(x, TryLiveUsers(x, d))
<1>1. CASE x.file = d
  BY <1>1 DEF TryLiveUsers, SameOrders
<1>2. CASE x.file # d
  <2>1. x.file \in Config
    BY <1>2 DEF LiveChange, UsersAlone, CustomAlone, Sound, SupervisorState, MaybeConfig
  <2> DEFINE y == ChangeUsers(x, x.file, d)
             z == WriteConfig(y, d)
  <2>2. TryLiveUsers(x, d) = z
    BY <1>2 DEF TryLiveUsers
  <2>3. /\ Sound(y) /\ SameOrders(x, y) /\ y.cur = x.cur
        /\ Current(y) = Changed(Current(x), x.file, d)
    BY <2>1, ChangeUsersSound
  <2>4. /\ Current(x) \in Proc
        /\ x.file # NoConfig => Current(x).keys = x.file.keys /\ Current(x).quic = x.file.keys
        /\ x.file = NoConfig => Current(x).keys = NoKeys /\ Current(x).quic = NoKeys
    BY CurrentType DEF Match, Sound, KeysOf
  <2>5. x.file # NoConfig
    BY <1>2 DEF LiveChange, UsersAlone, CustomAlone
  <2>6. Current(y).keys = d.keys /\ Current(y).quic = d.keys /\ Current(y).shape = d.shape
    BY <2>1, <2>3, <2>4, <2>5 DEF Changed, Proc, Config
  <2> HIDE DEF y
  <2>7. z \in SupervisorState
    BY <2>3 DEF WriteConfig, Sound, SupervisorState, MaybeConfig
  <2>8. /\ z.procs = y.procs /\ z.cur = y.cur /\ z.file = d
        /\ z.suspended = y.suspended /\ z.closed = y.closed
    BY <2>3 DEF WriteConfig, Sound, SupervisorState
  <2> HIDE DEF z
  <2>9. Sound(z) /\ SameOrders(x, z)
    BY <2>3, <2>7, <2>8 DEF Sound, One, Alive, Down, SameOrders
  <2>10. d # NoConfig => KeysOf(d) = d.keys
    BY DEF KeysOf
  <2>11. d # NoConfig
    BY SupervisorAssumption
  <2> QED
    BY <2>2, <2>6, <2>8, <2>9, <2>10, <2>11 DEF Match, Current
<1> QED
  BY <1>1, <1>2

(***************************************************************************)
(* The invariant                                                           *)
(***************************************************************************)

(* The agent holds on to a config; only while an apply that has tried a     *)
(* live change is under way may the child differ from the file; and the    *)
(* flag of the agent means a suspended supervisor, unless a start failed.  *)
AgentFits == agent.at # "idle" => agent.cfg \in Config
ChildFits == (agent.at # "idle" /\ agent.tried) \/ Match(xray)
OrderHeard ==
  /\ switched.off => revoked
  /\ revoked /\ ~switched.failed => xray.suspended

IInv == TypeOK /\ Sound(xray) /\ AgentFits /\ ChildFits /\ OrderHeard

(* The invariant when the agent comes up.                                   *)
LEMMA InitInv == Init => IInv
<1> SUFFICES ASSUME Init PROVE IInv
  OBVIOUS
<1>1. xray \in SupervisorState
  <2>1. 0 \in 0..MaxRestarts
    BY SupervisorAssumption
  <2> QED
    BY <2>1 DEF Init, SupervisorInit, SupervisorState, MaybeConfig
<1>2. TypeOK
  <2>1. SupervisorTypeOK
    BY <1>1 DEF Init, SupervisorInit, SupervisorTypeOK
  <2>2. agent \in [at: {"idle", "raw", "restore"}, cfg: MaybeConfig, tried: BOOLEAN]
    BY DEF Init, Settled, MaybeConfig
  <2>3. revoked \in BOOLEAN /\ switched \in [off: BOOLEAN, failed: BOOLEAN]
    BY DEF Init
  <2>4. pushes \in 0..MaxPushes
    BY SupervisedAssumption DEF Init
  <2> QED
    BY <2>1, <2>2, <2>3, <2>4 DEF TypeOK
<1>3. Sound(xray) /\ Match(xray)
  BY <1>1 DEF Init, SupervisorInit, Sound, One, Alive, Down, Match, Running
<1>4. AgentFits /\ ChildFits /\ OrderHeard
  BY <1>3 DEF Init, Settled, AgentFits, ChildFits, OrderHeard
<1> QED
  BY <1>2, <1>3, <1>4 DEF IInv

(* Every step that leaves agent and orders alone and the supervisor Sound  *)
(* and matching, or matching if it did.                                    *)
LEMMA AsideInv ==
  ASSUME IInv, Sound(xray'), SameOrders(xray, xray'), Match(xray) => Match(xray'),
         monitor' \in [Monitors -> {"idle", "decide", "quick", "rollback", "loop", "sleep"}],
         UNCHANGED <<agent, revoked, switched, pushes>>
  PROVE  IInv'
<1>1. TypeOK'
  BY DEF IInv, TypeOK, SupervisorTypeOK, Sound
<1>2. AgentFits' /\ ChildFits' /\ OrderHeard'
  BY DEF IInv, AgentFits, ChildFits, OrderHeard, SameOrders
<1> QED
  BY <1>1, <1>2 DEF IInv

(* A start works or fails.                                                  *)
LEMMA WorksType == \A works \in Works : works \in BOOLEAN
  BY DEF Works

(***************************************************************************)
(* Monitors                                                                *)
(***************************************************************************)

(* A child that exits leaves none.                                          *)
LEMMA CrashInv ==
  ASSUME IInv, NEW m \in Monitors, Crash(m), UNCHANGED <<agent, revoked, switched, pushes>>
  PROVE  IInv'
<1> DEFINE y == [xray EXCEPT !.procs[xray.cur] = NoProc, !.cur = NoPid,
                             !.restarts = IF Current(xray).proven THEN 0 ELSE @]
<1>1. /\ xray \in SupervisorState /\ xray.cur \in Pids
      /\ \A p \in Pids : p # xray.cur => xray.procs[p] = NoProc
  BY CurrentType DEF IInv, Sound, Crash
<1>2. xray' = y
  BY DEF Crash
<1>3. y \in SupervisorState
  <2>1. [xray.procs EXCEPT ![xray.cur] = NoProc] \in [Pids -> Proc \union {NoProc}]
    BY <1>1 DEF SupervisorState
  <2>2. (IF Current(xray).proven THEN 0 ELSE xray.restarts) \in 0..MaxRestarts
    BY <1>1, SupervisorAssumption DEF SupervisorState
  <2> QED
    BY <1>1, <2>1, <2>2 DEF SupervisorState
<1>4. /\ y.cur = NoPid /\ \A p \in Pids : y.procs[p] = NoProc
      /\ y.suspended = xray.suspended /\ y.closed = xray.closed
  BY <1>1 DEF SupervisorState
<1> HIDE DEF y
<1>5. Sound(y) /\ SameOrders(xray, y) /\ Match(y)
  BY <1>3, <1>4 DEF Sound, One, Alive, Down, SameOrders, Match, Running
<1>6. monitor' \in [Monitors -> {"idle", "decide", "quick", "rollback", "loop", "sleep"}]
  BY DEF Crash, IInv, TypeOK, SupervisorTypeOK
<1> QED
  BY <1>2, <1>5, <1>6, AsideInv

(* A monitor decides without touching anything.                             *)
LEMMA ThinkInv ==
  ASSUME IInv, NEW m \in Monitors, Think(m), UNCHANGED <<agent, revoked, switched, pushes>>
  PROVE  IInv'
<1>1. monitor' \in [Monitors -> {"idle", "decide", "quick", "rollback", "loop", "sleep"}]
  BY DEF Think, Decide, AskXray, BackOff, IInv, TypeOK, SupervisorTypeOK
<1>2. CASE UNCHANGED xray
  BY <1>1, <1>2, AsideInv DEF IInv, SameOrders
<1>3. CASE xray' # xray
  <2>1. xray' = [xray EXCEPT !.restarts = @ + 1] /\ xray.restarts # MaxRestarts
    BY <1>3 DEF Think, Decide, AskXray, BackOff
  <2>2. xray \in SupervisorState
    BY DEF IInv, Sound
  <2>3. xray.restarts + 1 \in 0..MaxRestarts
    BY <2>1, <2>2, SupervisorAssumption DEF SupervisorState
  <2>4. xray' \in SupervisorState
    BY <2>1, <2>2, <2>3 DEF SupervisorState
  <2>5. /\ xray'.procs = xray.procs /\ xray'.cur = xray.cur /\ xray'.file = xray.file
        /\ xray'.suspended = xray.suspended /\ xray'.closed = xray.closed
    BY <2>1, <2>2 DEF SupervisorState
  <2>6. Sound(xray') /\ SameOrders(xray, xray') /\ (Match(xray) => Match(xray'))
    BY <2>4, <2>5 DEF IInv, Sound, One, Alive, Down, SameOrders, Match, Running, Current
  <2> QED
    BY <1>1, <2>6, AsideInv
<1> QED
  BY <1>2, <1>3

(* A roll-back or a new start finds no child, or does nothing.             *)
LEMMA SuperviseInv ==
  ASSUME IInv, NEW m \in Monitors, NEW works \in BOOLEAN, Supervise(m, works),
         UNCHANGED <<agent, revoked, switched, pushes>>
  PROVE  IInv'
<1>1. monitor' \in [Monitors -> {"idle", "decide", "quick", "rollback", "loop", "sleep"}]
  BY DEF Supervise, RollBack, StartAgain, IInv, TypeOK, SupervisorTypeOK
<1>2. CASE Superseded
  <2>1. UNCHANGED xray
    BY <1>2 DEF Supervise, RollBack, StartAgain
  <2> QED
    BY <1>1, <2>1, AsideInv DEF IInv, SameOrders
<1>3. CASE ~Superseded /\ RollBack(m, works)
  <2> DEFINE y == [xray EXCEPT !.rolledBack = TRUE, !.file = xray.bak]
  <2>1. xray \in SupervisorState /\ ~Running(xray)
    BY <1>3 DEF IInv, Sound, Superseded
  <2>2. y \in SupervisorState
    BY <2>1 DEF SupervisorState
  <2>3. /\ y.procs = xray.procs /\ y.cur = xray.cur
        /\ y.suspended = xray.suspended /\ y.closed = xray.closed
    BY <2>1 DEF SupervisorState
  <2>4. xray' = StartProc(y, works)
    BY <1>3 DEF RollBack, RestoreBackup
  <2> HIDE DEF y
  <2>5. Sound(y) /\ ~Running(y) /\ SameOrders(xray, y)
    BY <2>1, <2>2, <2>3 DEF IInv, Sound, One, Alive, Down, SameOrders, Running
  <2>6. Sound(xray') /\ Match(xray') /\ SameOrders(xray, xray')
    BY <2>4, <2>5, StartProcSound DEF SameOrders
  <2> QED
    BY <1>1, <2>6, AsideInv
<1>4. CASE ~Superseded /\ StartAgain(m, works)
  <2>1. Sound(xray) /\ ~Running(xray) /\ xray' = StartProc(xray, works)
    BY <1>4 DEF IInv, Superseded, StartAgain
  <2>2. Sound(xray') /\ Match(xray') /\ SameOrders(xray, xray')
    BY <2>1, StartProcSound
  <2> QED
    BY <1>1, <2>2, AsideInv
<1> QED
  BY <1>2, <1>3, <1>4 DEF Supervise

(* A child is found to have stayed up.                                      *)
LEMMA HealthyInv ==
  ASSUME IInv, Healthy, UNCHANGED <<agent, revoked, switched, pushes>>
  PROVE  IInv'
<1> DEFINE c == [Current(xray) EXCEPT !.proven = TRUE]
           y == [xray EXCEPT !.procs[xray.cur] = c]
<1>1. Sound(xray) /\ Running(xray) /\ Current(xray) \in Proc
  BY CurrentType DEF IInv, Sound, Healthy
<1>2. c \in Proc /\ c.keys = Current(xray).keys /\ c.quic = Current(xray).quic
        /\ c.shape = Current(xray).shape /\ Current(xray).cfg \in MaybeConfig
  BY <1>1 DEF Proc
<1>3. xray' = [y EXCEPT !.promote = Current(xray).cfg]
  BY <1>1 DEF Healthy, Sound, SupervisorState
<1> HIDE DEF c
<1>4. /\ Sound(y) /\ SameOrders(xray, y) /\ y.file = xray.file /\ y.cur = xray.cur
      /\ Current(y) = c
  BY <1>1, <1>2, ChildChanged
<1> HIDE DEF y
<1>5. xray' \in SupervisorState
  BY <1>2, <1>3, <1>4 DEF Sound, SupervisorState
<1>6. /\ xray'.procs = y.procs /\ xray'.cur = y.cur /\ xray'.file = y.file
      /\ xray'.suspended = y.suspended /\ xray'.closed = y.closed
  BY <1>3, <1>4 DEF Sound, SupervisorState
<1>7. Sound(xray') /\ SameOrders(xray, xray')
  BY <1>4, <1>5, <1>6 DEF Sound, One, Alive, Down, SameOrders
<1>8. Match(xray) => Match(xray')
  BY <1>1, <1>2, <1>4, <1>6 DEF Match, Current
<1>9. monitor' \in [Monitors -> {"idle", "decide", "quick", "rollback", "loop", "sleep"}]
  BY DEF Healthy, IInv, TypeOK, SupervisorTypeOK
<1> QED
  BY <1>7, <1>8, <1>9, AsideInv

(* Its config becomes the one to roll back to; a minute passes.             *)
LEMMA AgeingInv ==
  ASSUME IInv, Promote \/ Aged, UNCHANGED <<agent, revoked, switched, pushes>>
  PROVE  IInv'
<1>1. xray \in SupervisorState
  BY DEF IInv, Sound
<1>2. xray' \in SupervisorState
  BY <1>1 DEF Promote, Aged, SupervisorState, MaybeConfig
<1>3. /\ xray'.procs = xray.procs /\ xray'.cur = xray.cur /\ xray'.file = xray.file
      /\ xray'.suspended = xray.suspended /\ xray'.closed = xray.closed
  BY <1>1 DEF Promote, Aged, SupervisorState
<1>4. Sound(xray') /\ SameOrders(xray, xray') /\ (Match(xray) => Match(xray'))
  BY <1>2, <1>3 DEF IInv, Sound, One, Alive, Down, SameOrders, Match, Running, Current
<1>5. monitor' \in [Monitors -> {"idle", "decide", "quick", "rollback", "loop", "sleep"}]
  BY DEF Promote, Aged, IInv, TypeOK, SupervisorTypeOK
<1> QED
  BY <1>4, <1>5, AsideInv

(***************************************************************************)
(* The agent                                                               *)
(***************************************************************************)

(* Restarts from the side, whatever they restart.                          *)
LEMMA RestartInv ==
  ASSUME IInv, NEW works \in BOOLEAN, Reload(works) \/ WatchdogActs(works)
  PROVE  IInv'
<1>1. xray' = Restart(xray, works) /\ UNCHANGED <<monitor, agent, revoked, switched, pushes>>
  BY DEF Reload, WatchdogActs
<1>2. Sound(xray') /\ Match(xray') /\ SameOrders(xray, xray')
  BY <1>1, RestartSound DEF IInv, Sound
<1>3. monitor' \in [Monitors -> {"idle", "decide", "quick", "rollback", "loop", "sleep"}]
  BY <1>1 DEF IInv, TypeOK, SupervisorTypeOK
<1> QED
  BY <1>1, <1>2, <1>3, AsideInv

(* A live change that failed is undone by a restart on the file.            *)
LEMMA RawRestoreInv ==
  ASSUME IInv, NEW works \in BOOLEAN, RawRestore(works)
  PROVE  IInv'
<1>1. Sound(xray') /\ Match(xray') /\ SameOrders(xray, xray')
  BY RestartSound DEF RawRestore, IInv, Sound
<1>2. TypeOK'
  BY <1>1 DEF RawRestore, Settled, IInv, TypeOK, SupervisorTypeOK, Sound, MaybeConfig
<1>3. AgentFits' /\ ChildFits' /\ OrderHeard'
  BY <1>1 DEF RawRestore, Settled, IInv, AgentFits, ChildFits, OrderHeard, SameOrders
<1> QED
  BY <1>1, <1>2, <1>3 DEF IInv

(* A full apply: only a refused config leaves the child as it was, and     *)
(* then a live change before it is still to be undone.                     *)
LEMMA RawApplyInv ==
  ASSUME IInv, NEW works \in BOOLEAN, RawApply(works)
  PROVE  IInv'
<1>1. agent.cfg \in Config
  BY DEF RawApply, IInv, AgentFits
<1>2. /\ Sound(xray') /\ SameOrders(xray, xray')
      /\ Match(xray') \/ (agent.cfg.shape \in Refused /\ xray' = xray)
  BY <1>1, ApplyRawSound DEF RawApply, IInv
<1>3. agent' \in [at: {"idle", "raw", "restore"}, cfg: MaybeConfig, tried: BOOLEAN]
  BY DEF RawApply, Settled, IInv, TypeOK, MaybeConfig
<1>4. TypeOK'
  BY <1>2, <1>3 DEF RawApply, IInv, TypeOK, SupervisorTypeOK, Sound
<1>5. AgentFits' /\ OrderHeard'
  BY <1>1, <1>2 DEF RawApply, Settled, IInv, TypeOK, AgentFits, OrderHeard, SameOrders
<1>6. ChildFits'
  <2>1. CASE Match(xray')
    BY <2>1 DEF ChildFits
  <2>2. CASE agent.cfg.shape \in Refused /\ xray' = xray /\ agent.tried
    BY <2>2 DEF RawApply, ApplyFails, ChildFits, IInv, TypeOK
  <2>3. CASE xray' = xray /\ ~agent.tried
    BY <2>3 DEF ChildFits, IInv
  <2> QED
    BY <1>2, <2>1, <2>2, <2>3 DEF IInv, TypeOK
<1> QED
  BY <1>2, <1>4, <1>5, <1>6 DEF IInv

(* The live half, done, failed part way, or not tried.                     *)
LEMMA TryLiveInv ==
  ASSUME IInv, NEW d \in Pushed, NEW api \in BOOLEAN, TryLive(d, api)
  PROVE  IInv'
<1>1. /\ d \in Config /\ agent.at = "idle" /\ Match(xray) /\ Sound(xray) /\ pushes' \in 0..MaxPushes
      /\ UNCHANGED <<monitor, revoked, switched>>
  BY SupervisedAssumption DEF TryLive, IInv, TypeOK, ChildFits
<1>2. ASSUME Sound(xray'), SameOrders(xray, xray'), AgentFits', ChildFits',
             agent' \in [at: {"idle", "raw", "restore"}, cfg: MaybeConfig, tried: BOOLEAN]
      PROVE  IInv'
  <2>1. TypeOK'
    BY <1>1, <1>2 DEF IInv, TypeOK, SupervisorTypeOK, Sound
  <2>2. OrderHeard'
    BY <1>1, <1>2 DEF IInv, OrderHeard, SameOrders
  <2> QED
    BY <1>2, <2>1, <2>2 DEF IInv
<1>3. CASE /\ Running(xray) /\ (xray.file = d \/ (LiveChange(xray, d) /\ LiveWorks(xray, d, api)))
           /\ xray' = TryLiveUsers(xray, d)
           /\ agent' = agent
  <2>1. Sound(xray') /\ Match(xray') /\ SameOrders(xray, xray')
    BY <1>1, <1>3, TryLiveUsersSound
  <2> QED
    BY <1>1, <1>2, <1>3, <2>1 DEF IInv, TypeOK, AgentFits, ChildFits
<1>4. ASSUME Running(xray), xray.file # d, LiveChange(xray, d),
             agent' = [at |-> "raw", cfg |-> d, tried |-> TRUE],
             NEW done \in SUBSET Accounts, NEW lost \in BOOLEAN,
             NEW part, part = [shape |-> xray.file.shape,
                      keys |-> [u \in Accounts |-> IF u \in done THEN d.keys[u] ELSE xray.file.keys[u]]],
             NEW some, some = [xray EXCEPT !.procs[xray.cur] =
                                [Changed(Current(xray), xray.file, part) EXCEPT !.quic = Current(xray).quic]],
             xray' = IF lost THEN LoseQuic(some) ELSE some
      PROVE  IInv'
  <2> DEFINE c == [Changed(Current(xray), xray.file, part) EXCEPT !.quic = Current(xray).quic]
  <2>1. xray.file \in Config
    BY <1>1, <1>4 DEF LiveChange, UsersAlone, CustomAlone, Sound, SupervisorState, MaybeConfig
  <2>2. part \in Config
    BY <1>1, <1>4, <2>1 DEF Config
  <2>3. Current(xray) \in Proc
    BY <1>1, <1>4, CurrentType DEF Sound
  <2>4. c \in Proc
    BY <2>1, <2>2, <2>3, ChangedType DEF Proc
  <2> HIDE DEF c
  <2>5. some = [xray EXCEPT !.procs[xray.cur] = c]
    BY <1>4 DEF c
  <2>6. Sound(some) /\ SameOrders(xray, some) /\ some.cur = xray.cur /\ Current(some) = c
    BY <1>1, <1>4, <2>4, <2>5, ChildChanged
  <2>7. Sound(LoseQuic(some)) /\ SameOrders(xray, LoseQuic(some))
    <3> DEFINE l == [Current(some) EXCEPT !.lost = TRUE]
               y == [some EXCEPT !.procs[some.cur] = l]
    <3>1. l \in Proc
      BY <2>4, <2>6 DEF Proc
    <3>2. LoseQuic(some) = [y EXCEPT !.applied = NoConfig]
      BY <2>6 DEF LoseQuic, Sound, SupervisorState
    <3> HIDE DEF l
    <3>3. Sound(y) /\ SameOrders(some, y)
      BY <1>4, <2>6, <3>1, ChildChanged DEF Running
    <3> HIDE DEF y
    <3>4. LoseQuic(some) \in SupervisorState
      BY <3>2, <3>3 DEF Sound, SupervisorState, MaybeConfig
    <3>5. LET z == LoseQuic(some)
          IN z.procs = y.procs /\ z.cur = y.cur /\ z.suspended = y.suspended /\ z.closed = y.closed
      BY <3>2, <3>3 DEF Sound, SupervisorState
    <3> QED
      BY <2>6, <3>3, <3>4, <3>5 DEF Sound, One, Alive, Down, SameOrders
  <2>8. Sound(xray') /\ SameOrders(xray, xray')
    BY <1>4, <2>6, <2>7
  <2> QED
    BY <1>1, <1>2, <1>4, <2>8 DEF AgentFits, ChildFits, MaybeConfig
<1>5. CASE xray' = xray /\ agent' = [at |-> "raw", cfg |-> d, tried |-> FALSE]
  BY <1>1, <1>2, <1>5 DEF AgentFits, ChildFits, MaybeConfig, SameOrders
<1> QED
  BY <1>3, <1>4, <1>5 DEF TryLive

(* A new order to the supervisor is not an operation on the child.         *)
LEMMA OrderedSound ==
  ASSUME NEW x \in SupervisorState, One(x), NEW b \in BOOLEAN
  PROVE  /\ [x EXCEPT !.suspended = b] \in SupervisorState /\ One([x EXCEPT !.suspended = b])
         /\ [x EXCEPT !.suspended = b].suspended = b
         /\ [x EXCEPT !.closed = b] \in SupervisorState /\ One([x EXCEPT !.closed = b])
         /\ [x EXCEPT !.closed = b].suspended = x.suspended
  BY DEF SupervisorState, One, Alive

(* An order that comes while the flag is set is passed over; the flag then *)
(* stands for a suspension, or a start has failed.                         *)
LEMMA RevokeInv ==
  ASSUME IInv, Revoke
  PROVE  IInv'
<1>1. xray \in SupervisorState /\ One(xray) /\ agent.at = "idle" /\ Match(xray)
  BY DEF IInv, Sound, Revoke, ChildFits
<1> DEFINE y == [xray EXCEPT !.suspended = TRUE]
<1>2. /\ Sound(StopProc(y)) /\ ~Running(StopProc(y)) /\ StopProc(y).suspended = TRUE
  BY <1>1, OrderedSound, StopProcSound DEF SameOrders
<1>3. Sound(xray') /\ Match(xray') /\ (revoked \/ xray'.suspended) /\ (revoked => xray' = xray)
  BY <1>1, <1>2 DEF Revoke, Suspend, Match, IInv
<1>4. TypeOK'
  BY <1>3 DEF Revoke, IInv, TypeOK, SupervisorTypeOK, Sound
<1>5. OrderHeard'
  BY <1>3 DEF Revoke, IInv, TypeOK, OrderHeard
<1>6. AgentFits' /\ ChildFits'
  BY <1>1, <1>3 DEF Revoke, AgentFits, ChildFits
<1> QED
  BY <1>3, <1>4, <1>5, <1>6 DEF IInv

(* A node that is taken back starts its child, or fails to.                 *)
LEMMA TakeBackInv ==
  ASSUME IInv, NEW works \in BOOLEAN, TakeBack(works)
  PROVE  IInv'
<1> DEFINE y == [xray EXCEPT !.suspended = FALSE]
<1>1. y \in SupervisorState /\ One(y) /\ agent.at = "idle"
  BY OrderedSound DEF IInv, Sound, TakeBack
<1>2. Sound(xray') /\ Match(xray')
  BY <1>1, RestartSound DEF TakeBack, Resume
<1>3. StartFails(y, works) \in BOOLEAN
  BY DEF StartFails
<1>4. TypeOK'
  BY <1>2, <1>3 DEF TakeBack, IInv, TypeOK, SupervisorTypeOK, Sound
<1>5. OrderHeard'
  BY DEF TakeBack, OrderHeard
<1>6. AgentFits' /\ ChildFits'
  BY <1>1, <1>2 DEF TakeBack, AgentFits, ChildFits
<1> QED
  BY <1>2, <1>4, <1>5, <1>6 DEF IInv

(* The agent shuts down.                                                    *)
LEMMA ShutDownInv ==
  ASSUME IInv, ShutDown
  PROVE  IInv'
<1>1. xray \in SupervisorState /\ One(xray)
  BY DEF IInv, Sound
<1>2. /\ Sound(xray') /\ ~Running(xray') /\ xray'.suspended = xray.suspended
  BY <1>1, OrderedSound, StopProcSound DEF ShutDown, Stop, SameOrders
<1>3. Match(xray')
  BY <1>2 DEF Match
<1>4. TypeOK'
  BY <1>2 DEF ShutDown, IInv, TypeOK, SupervisorTypeOK, Sound
<1>5. AgentFits' /\ ChildFits' /\ OrderHeard'
  BY <1>2, <1>3 DEF ShutDown, IInv, AgentFits, ChildFits, OrderHeard
<1> QED
  BY <1>2, <1>3, <1>4, <1>5 DEF IInv

(***************************************************************************)
(* The theorems                                                            *)
(***************************************************************************)

(* Every step keeps the invariant.                                          *)
LEMMA StepInv == IInv /\ [Next]_vars => IInv'
<1> SUFFICES ASSUME IInv, [Next]_vars PROVE IInv'
  OBVIOUS
<1>1. ASSUME NEW d \in Pushed, NEW api \in Answers, TryLive(d, api) PROVE IInv'
  BY <1>1, TryLiveInv DEF Answers
<1>2. ASSUME NEW works \in Works,
             \/ RawApply(works) \/ RawRestore(works) \/ TakeBack(works)
             \/ Reload(works) \/ WatchdogActs(works)
      PROVE  IInv'
  BY <1>2, WorksType, RawApplyInv, RawRestoreInv, TakeBackInv, RestartInv
<1>3. CASE Revoke \/ ShutDown
  BY <1>3, RevokeInv, ShutDownInv
<1>4. CASE ByItself
  <2>1. CASE Healthy
    BY <1>4, <2>1, HealthyInv DEF ByItself
  <2>2. CASE Promote \/ Aged
    BY <1>4, <2>2, AgeingInv DEF ByItself
  <2>3. ASSUME NEW m \in Monitors, Crash(m) \/ Think(m) PROVE IInv'
    BY <1>4, <2>3, CrashInv, ThinkInv DEF ByItself
  <2>4. ASSUME NEW m \in Monitors, NEW works \in Works, Supervise(m, works) PROVE IInv'
    BY <1>4, <2>4, WorksType, SuperviseInv DEF ByItself
  <2> QED
    BY <1>4, <2>1, <2>2, <2>3, <2>4 DEF ByItself
<1>5. CASE UNCHANGED vars
  BY <1>5 DEF vars, IInv, TypeOK, SupervisorTypeOK, AgentFits, ChildFits, OrderHeard
<1> QED
  BY <1>1, <1>2, <1>3, <1>4, <1>5 DEF Next

(* The supervisor and its caller keep together, whatever crashes, fails or *)
(* is restarted (startProc, stopProc, ApplyRawLive, superviseRestart).     *)
THEOREM AlwaysSound == Spec => []IInv
<1>1. Init => IInv
  BY InitInv
<1>2. IInv /\ [Next]_vars => IInv'
  BY StepInv
<1> QED
  BY <1>1, <1>2, PTL DEF Spec

(* The supervisor, its monitors and the agent keep to their types.         *)
THEOREM SupervisedTypes == Spec => []TypeOK
<1>1. IInv => TypeOK
  BY DEF IInv
<1> QED
  BY <1>1, AlwaysSound, PTL

(* There is never a second Xray, whoever starts and restarts the process   *)
(* and however many crashes are being supervised (startProc's callers).    *)
THEOREM NeverTwoChildren == Spec => []OneChild
<1>1. IInv => OneChild
  <2> SUFFICES ASSUME IInv PROVE OneChild
    OBVIOUS
  <2>1. Alive(xray) = {p \in {xray.cur} : p # NoPid}
    BY DEF IInv, Sound, One
  <2>2. CASE xray.cur = NoPid
    BY <2>1, <2>2, FS_EmptySet DEF OneChild
  <2>3. CASE xray.cur # NoPid
    <3>1. Alive(xray) = {xray.cur}
      BY <2>1, <2>3
    <3>2. Cardinality({xray.cur}) = 1
      BY FS_Singleton
    <3>3. Cardinality(Alive(xray)) <= 1
      BY <3>1, <3>2
    <3> QED
      BY <2>1, <3>3 DEF OneChild
  <2> QED
    BY <2>2, <2>3
<1> QED
  BY <1>1, AlwaysSound, PTL

(* A node switched off, or shut down, runs no Xray, unless taking it back  *)
(* failed to start Xray before (suspended and closed in startProc).        *)
THEOREM AlwaysStaysDown == Spec => []StaysDown
<1>1. IInv => StaysDown
  <2> SUFFICES ASSUME IInv, (switched.off /\ ~switched.failed) \/ xray.closed PROVE Alive(xray) = {}
    BY DEF StaysDown
  <2>1. xray.cur = NoPid
    BY DEF IInv, OrderHeard, Sound, Down
  <2> QED
    BY <2>1 DEF IInv, Sound, One
<1> QED
  BY <1>1, AlwaysSound, PTL

(* Outside of an apply the process is what the file says, for any users,   *)
(* keys and shapes, whatever failed before (ApplyRawLive).                 *)
THEOREM AlwaysWhatFileSays == Spec => []RunsWhatFileSays
<1>1. IInv => RunsWhatFileSays
  BY DEF IInv, ChildFits, Match, RunsWhatFileSays
<1> QED
  BY <1>1, AlwaysSound, PTL
=============================================================================
