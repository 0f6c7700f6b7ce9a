------------------------------ MODULE Supervisor ------------------------------
(***************************************************************************)
(* The supervisor of the Xray child process (internal/xray): the config    *)
(* file and its rollback copy, the process, what was applied last, and the *)
(* goroutines that bring a crashed process back.                           *)
(*                                                                         *)
(* Every operation holds runMu from start to end, so each is one           *)
(* transformer of the record `xray`; what happens outside that lock - an   *)
(* exit, the decision to roll back, the promotion of a config that proved  *)
(* itself, calls to the API of the process - is an action of its own.      *)
(*                                                                         *)
(* Left out: the traffic flush before a restart, log tapping, connection   *)
(* cutting, WireGuard peers (kept as Hysteria2 users are), and `restarting`*)
(* and the watchdog's cooldown, which only alter what is reported.         *)
(***************************************************************************)
EXTENDS Naturals, FiniteSets

CONSTANTS
  Accounts,     \* users a config may hold
  MaxKey,       \* the last key of a user; under key 0 the user is not in
  Shapes,       \* everything in a config but its users
  Base,         \* [Shapes -> Shapes]: a shape without its custom inbounds
  Refused,      \* shapes that do not load: `xray run -test` refuses them
  Crashing,     \* shapes that load but do not stay up
  NoConfig, NoProc, Pids, NoPid, Monitors, MaxRestarts

VARIABLES
  xray,         \* the supervisor, the two files and the children alive
  monitor       \* [Monitors -> ...] where each goroutine of a crash stands

Config == [shape: Shapes, keys: [Accounts -> 0..MaxKey]]
MaybeConfig == Config \union {NoConfig}
NoKeys == [u \in Accounts |-> 0]
KeysOf(c) == IF c = NoConfig THEN NoKeys ELSE c.keys

\* A child: what it read at its start, the inbounds it has now, who is on the
\* lanes changed user by user and who on the Hysteria2 lanes.
Proc == [cfg: MaybeConfig, shape: Shapes \union {NoConfig}, keys: [Accounts -> 0..MaxKey],
         quic: [Accounts -> 0..MaxKey], lost: BOOLEAN, proven: BOOLEAN]

ASSUME SupervisorAssumption ==
  /\ MaxKey \in Nat /\ MaxRestarts \in Nat
  /\ Base \in [Shapes -> Shapes] /\ NoConfig \notin Config
  /\ Pids # {} /\ NoPid \notin Pids /\ NoProc \notin Proc

SupervisorState ==
  [file: MaybeConfig, bak: MaybeConfig, applied: MaybeConfig, promote: MaybeConfig,
   procs: [Pids -> Proc \union {NoProc}], cur: Pids \union {NoPid}, closed: BOOLEAN,
   suspended: BOOLEAN, restarts: 0..MaxRestarts, recent: BOOLEAN, rolledBack: BOOLEAN]

SupervisorTypeOK ==
  /\ xray \in SupervisorState
  /\ monitor \in [Monitors -> {"idle", "decide", "quick", "rollback", "loop", "sleep"}]

SupervisorInit ==
  /\ xray = [file |-> NoConfig, bak |-> NoConfig, applied |-> NoConfig,
             promote |-> NoConfig, procs |-> [p \in Pids |-> NoProc], cur |-> NoPid, closed |-> FALSE,
             suspended |-> FALSE, restarts |-> 0, recent |-> FALSE, rolledBack |-> FALSE]
  /\ monitor = [m \in Monitors |-> "idle"]

Running(x) == x.cur # NoPid
Current(x) == x.procs[x.cur]
Alive(x) == {p \in Pids : x.procs[p] # NoProc}
Loads(c) == c # NoConfig /\ c.shape \notin Refused
StaysUp(c) == Loads(c) /\ c.shape \notin Crashing
-----------------------------------------------------------------------------
(* Starting and stopping the child                                         *)

\* A plausible slip: only a closed supervisor refuses to start.
StartProcSuspended(x, works) ==
  IF x.closed \/ ~works THEN x
  ELSE LET p == CHOOSE q \in Pids : x.procs[q] = NoProc
       IN [x EXCEPT !.cur = p,
             !.procs[p] = [cfg |-> x.file, shape |-> IF x.file = NoConfig THEN NoConfig ELSE x.file.shape,
                           keys |-> KeysOf(x.file), quic |-> KeysOf(x.file),
                           lost |-> FALSE, proven |-> FALSE]]

\* Ignored, and no error, while closed or suspended; `works` is whether the
\* operating system starts the process.
StartProc(x, works) ==
  IF x.closed \/ x.suspended \/ ~works THEN x
  ELSE LET p == CHOOSE q \in Pids : x.procs[q] = NoProc
       IN [x EXCEPT !.cur = p,
             !.procs[p] = [cfg |-> x.file, shape |-> IF x.file = NoConfig THEN NoConfig ELSE x.file.shape,
                           keys |-> KeysOf(x.file), quic |-> KeysOf(x.file),
                           lost |-> FALSE, proven |-> FALSE]]
StartFails(x, works) == ~(x.closed \/ x.suspended \/ works)

StopProc(x) ==
  IF ~Running(x) THEN x
  ELSE [x EXCEPT !.procs[x.cur] = NoProc, !.cur = NoPid, !.restarts = 0]

Restart(x, works) == StartProc(StopProc(x), works)
Suspend(x) == StopProc([x EXCEPT !.suspended = TRUE])
Resume(x, works) == Restart([x EXCEPT !.suspended = FALSE], works)
Stop(x) == StopProc([x EXCEPT !.closed = TRUE])
-----------------------------------------------------------------------------
(* Putting a config into effect                                            *)

UsersAlone(a, b) == a # NoConfig /\ b # NoConfig /\ a.shape = b.shape
CustomAlone(a, b) == a # NoConfig /\ a.shape # b.shape /\ Base[a.shape] = Base[b.shape]

\* The users two configs give different keys are removed and added; the
\* Hysteria2 lanes are brought to their whole list.
Changed(child, from, to) ==
  [child EXCEPT !.shape = to.shape,
                !.keys = [u \in Accounts |-> IF from.keys[u] # to.keys[u] THEN to.keys[u] ELSE @[u]],
                !.quic = IF from.keys # to.keys THEN to.keys ELSE @]
ChangeUsers(x, from, to) == [x EXCEPT !.procs[x.cur] = Changed(Current(x), from, to)]

\* A failed change of the Hysteria2 lanes makes the next Apply restart.
LoseQuic(x) ==
  [x EXCEPT !.procs[x.cur] = [Current(x) EXCEPT !.lost = TRUE], !.applied = NoConfig]

\* A live change fails when the API does, when the new inbound does not load
\* or when the Hysteria2 lanes are lost.
LiveWorks(x, to, api) ==
  api /\ to.shape \notin Refused /\ (x.file.keys # to.keys => ~Current(x).lost)

SameAsRunning(x, d) == Running(x) /\ x.applied = d
RunningMatchesDisk(x) ==
  Running(x) /\ x.applied # NoConfig /\ (x.file = x.applied \/ UsersAlone(x.applied, x.file))

Noted(x, d) == [x EXCEPT !.recent = TRUE, !.rolledBack = FALSE, !.applied = d]
Replaced(x, d) == [x EXCEPT !.bak = IF x.file = NoConfig THEN @ ELSE x.file, !.file = d]

\* ApplyRaw: refused configs change nothing; a failed start leaves the new
\* file and no process.
ApplyRaw(x, d, works) ==
  IF d.shape \in Refused THEN x
  ELSE LET y == Restart(Replaced(x, d), works)
       IN IF StartFails(x, works) THEN y ELSE Noted(y, d)
ApplyFails(x, d, works) == d.shape \in Refused \/ StartFails(x, works)

\* Apply: the running config again is only noted; a change of the custom
\* inbounds alone is made in the running process.
AppliesLive(x, d, api) ==
  /\ RunningMatchesDisk(x) /\ CustomAlone(x.file, d) /\ LiveWorks(x, d, api)
Apply(x, d, api, works) ==
  IF SameAsRunning(x, d) THEN Noted(x, d)
  ELSE IF AppliesLive(x, d, api) THEN Noted(Replaced(ChangeUsers(x, x.file, d), d), d)
  ELSE ApplyRaw(x, d, works)
ApplyError(x, d, api, works) ==
  ~SameAsRunning(x, d) /\ ~AppliesLive(x, d, api) /\ ApplyFails(x, d, works)

\* A plausible slip: the file is left alone after a live change.
WriteNoConfig(x, d) == x
WriteConfig(x, d) == [x EXCEPT !.file = d]

\* The live half of ApplyRawLive: done when the file says the same already or
\* only users or custom inbounds differ and the API takes them.
LiveChange(x, d) == Running(x) /\ (UsersAlone(x.file, d) \/ CustomAlone(x.file, d))
TryLiveUsers(x, d) ==
  IF x.file = d THEN x ELSE WriteConfig(ChangeUsers(x, x.file, d), d)
-----------------------------------------------------------------------------
(* Crashes                                                                 *)

Idle(m) == monitor[m] = "idle"

\* The process exits by itself: its monitor takes note, and starts to
\* supervise. A process that ran for long is a fresh failure and no reason
\* to revert anything.
Crash(m) ==
  /\ Running(xray) /\ Idle(m)
  /\ monitor' = [monitor EXCEPT ![m] = IF Current(xray).proven THEN "loop" ELSE "decide"]
  /\ xray' = [xray EXCEPT !.procs[xray.cur] = NoProc, !.cur = NoPid,
                          !.restarts = IF Current(xray).proven THEN 0 ELSE @]

\* superviseRestart asks, without runMu, whether to revert: the first crash
\* after an Apply, or ...
FirstCrash == xray.restarts = 0 /\ xray.recent
Decide(m) ==
  /\ monitor[m] = "decide"
  /\ monitor' = [monitor EXCEPT ![m] =
       IF xray.bak = NoConfig THEN "loop"
       ELSE IF FirstCrash THEN "rollback"
       ELSE IF xray.rolledBack THEN "loop" ELSE "quick"]
  /\ UNCHANGED xray

\* ... a file that does not load, which takes seconds to find out.
Unloadable == xray.file # NoConfig /\ ~Loads(xray.file)
AskXray(m) ==
  /\ monitor[m] = "quick"
  /\ monitor' = [monitor EXCEPT ![m] = IF Unloadable THEN "rollback" ELSE "loop"]
  /\ UNCHANGED xray

\* A plausible slip: a process that somebody else started is not looked for.
OrderedDown == xray.closed \/ xray.suspended

\* Under runMu again: somebody else may have started, suspended or closed.
Superseded == xray.closed \/ xray.suspended \/ Running(xray)

RestoreBackup(x, works) == StartProc([x EXCEPT !.rolledBack = TRUE, !.file = x.bak], works)
\* A plausible slip: a roll-back whose start fails ends the supervision.
RollBackOnce(m, works) ==
  /\ monitor[m] = "rollback"
  /\ xray' = IF Superseded THEN xray ELSE RestoreBackup(xray, works)
  /\ monitor' = [monitor EXCEPT ![m] = IF Superseded THEN "loop" ELSE "idle"]
RollBack(m, works) ==
  /\ monitor[m] = "rollback"
  /\ xray' = IF Superseded THEN xray ELSE RestoreBackup(xray, works)
  /\ monitor' = [monitor EXCEPT ![m] = IF Superseded \/ ~works THEN "loop" ELSE "idle"]

\* The count only sets the delay, which does not grow past a cap (backoffFor);
\* here it is counted up to MaxRestarts.
BackOff(m) ==
  /\ monitor[m] = "loop"
  /\ monitor' = [monitor EXCEPT ![m] = IF Superseded THEN "idle" ELSE "sleep"]
  /\ xray' = IF Superseded \/ xray.restarts = MaxRestarts THEN xray
             ELSE [xray EXCEPT !.restarts = @ + 1]

StartAgain(m, works) ==
  /\ monitor[m] = "sleep"
  /\ xray' = IF Superseded THEN xray ELSE StartProc(xray, works)
  /\ monitor' = [monitor EXCEPT ![m] = IF Superseded \/ works THEN "idle" ELSE "loop"]

Supervise(m, works) == RollBack(m, works) \/ StartAgain(m, works)
Think(m) == Decide(m) \/ AskXray(m) \/ BackOff(m)

\* The process has run for healthyUptime: a crash counts as fresh from here
\* on, and its config becomes the rollback copy - looked at under one lock,
\* written under none. The waits of a monitor are shorter than that run.
Healthy ==
  /\ Running(xray) /\ ~Current(xray).proven /\ StaysUp(Current(xray).cfg)
  /\ xray.promote = NoConfig
  /\ \A m \in Monitors : monitor[m] \notin {"decide", "quick", "rollback"}
  /\ xray' = [xray EXCEPT !.procs[xray.cur] = [Current(xray) EXCEPT !.proven = TRUE],
                          !.promote = Current(xray).cfg]
  /\ UNCHANGED monitor
Promote ==
  /\ xray.promote # NoConfig
  /\ xray' = [xray EXCEPT !.bak = xray.promote, !.promote = NoConfig]
  /\ UNCHANGED monitor

\* A minute has passed since the last Apply.
Aged ==
  /\ xray.recent
  /\ xray' = [xray EXCEPT !.recent = FALSE]
  /\ UNCHANGED monitor
=============================================================================
