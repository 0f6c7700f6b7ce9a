------------------------------ MODULE Supervised ------------------------------
(***************************************************************************)
(* The supervisor in the hands of a node agent. The agent's poll applies   *)
(* configs with ApplyRawLive, three critical sections one after another,   *)
(* and suspends and resumes on the panel's word, which it knows by a flag  *)
(* of its own; restarts come from the certificate and geo loops and from   *)
(* the watchdog, and a stop from the signal handler, each in between as it *)
(* likes.                                                                  *)
(***************************************************************************)
EXTENDS Supervisor

CONSTANTS
  Pushed,       \* the configs the panel may push
  MayFail,      \* subset of {"start", "api", "wedge", "stop"}
  MaxPushes     \* cap on the pushes of an instance

ASSUME SupervisedAssumption == Pushed \subseteq Config /\ MaxPushes \in Nat

VARIABLES
  agent,        \* where ApplyRawLive stands: at, the config, was a live change tried
  revoked,      \* the agent's flag: set when it suspends, cleared when Xray started
  switched,     \* history: off, by the panel's last word, and has a resume failed since
  pushes        \* pushes so far, for the cap

vars == <<xray, monitor, agent, revoked, switched, pushes>>

Settled == [at |-> "idle", cfg |-> NoConfig, tried |-> FALSE]

TypeOK ==
  /\ SupervisorTypeOK
  /\ agent \in [at: {"idle", "raw", "restore"}, cfg: MaybeConfig, tried: BOOLEAN]
  /\ revoked \in BOOLEAN /\ switched \in [off: BOOLEAN, failed: BOOLEAN]
  /\ pushes \in 0..MaxPushes

Init ==
  /\ SupervisorInit
  /\ agent = Settled /\ revoked = FALSE /\ switched = [off |-> FALSE, failed |-> FALSE]
  /\ pushes = 0

\* Does the operating system start a process, does the API answer?
Works == IF "start" \in MayFail THEN BOOLEAN ELSE {TRUE}
Answers == IF "api" \in MayFail THEN BOOLEAN ELSE {TRUE}
-----------------------------------------------------------------------------
\* A pushed config: unchanged, changed live, or left to ApplyRaw - after a
\* change that failed part way, which leaves some users changed and some not.
TryLive(d, api) ==
  /\ agent.at = "idle" /\ ~switched.off /\ pushes < MaxPushes
  /\ pushes' = pushes + 1
  /\ \/ /\ Running(xray) /\ (xray.file = d \/ (LiveChange(xray, d) /\ LiveWorks(xray, d, api)))
        /\ xray' = TryLiveUsers(xray, d)
        /\ agent' = agent
     \/ /\ Running(xray) /\ xray.file # d /\ LiveChange(xray, d) /\ ~LiveWorks(xray, d, api)
        /\ \E done \in SUBSET Accounts, lost \in BOOLEAN :
             LET part == [shape |-> xray.file.shape,
                          keys |-> [u \in Accounts |-> IF u \in done THEN d.keys[u] ELSE xray.file.keys[u]]]
                 some == [xray EXCEPT !.procs[xray.cur] =
                            [Changed(Current(xray), xray.file, part) EXCEPT !.quic = Current(xray).quic]]
             IN (lost => done = Accounts) /\ xray' = IF lost THEN LoseQuic(some) ELSE some
        /\ agent' = [at |-> "raw", cfg |-> d, tried |-> TRUE]
     \/ /\ ~(Running(xray) /\ (xray.file = d \/ LiveChange(xray, d)))
        /\ xray' = xray
        /\ agent' = [at |-> "raw", cfg |-> d, tried |-> FALSE]
  /\ UNCHANGED <<monitor, revoked, switched>>

\* A plausible slip: a failed apply leaves what the live change did.
RawApplyGivesUp(works) ==
  /\ agent.at = "raw"
  /\ xray' = ApplyRaw(xray, agent.cfg, works)
  /\ agent' = Settled
  /\ UNCHANGED <<monitor, revoked, switched, pushes>>
RawApply(works) ==
  /\ agent.at = "raw"
  /\ xray' = ApplyRaw(xray, agent.cfg, works)
  /\ agent' = IF ApplyFails(xray, agent.cfg, works) /\ agent.tried
              THEN [agent EXCEPT !.at = "restore"] ELSE Settled
  /\ UNCHANGED <<monitor, revoked, switched, pushes>>

\* Whatever the live change left behind gives way to what the file says.
RawRestore(works) ==
  /\ agent.at = "restore"
  /\ xray' = Restart(xray, works)
  /\ agent' = Settled
  /\ UNCHANGED <<monitor, revoked, switched, pushes>>

\* The panel's word to stop, passed over while the flag is still set; and to
\* serve again, where the flag outlives a start that fails.
Revoke ==
  /\ agent.at = "idle"
  /\ xray' = IF revoked THEN xray ELSE Suspend(xray)
  /\ revoked' = TRUE
  /\ switched' = [off |-> TRUE, failed |-> revoked /\ switched.failed]
  /\ UNCHANGED <<monitor, agent, pushes>>

TakeBack(works) ==
  /\ agent.at = "idle" /\ revoked
  /\ LET y == [xray EXCEPT !.suspended = FALSE]
     IN /\ xray' = Resume(xray, works)
        /\ revoked' = StartFails(y, works)
        /\ switched' = [off |-> FALSE, failed |-> StartFails(y, works)]
  /\ UNCHANGED <<monitor, agent, pushes>>

\* The certificate or geo files changed; the file on disk is read again.
Reload(works) ==
  /\ xray.file # NoConfig
  /\ xray' = Restart(xray, works)
  /\ UNCHANGED <<monitor, agent, revoked, switched, pushes>>

ShutDown ==
  /\ "stop" \in MayFail /\ ~xray.closed
  /\ xray' = Stop(xray)
  /\ UNCHANGED <<monitor, agent, revoked, switched, pushes>>

\* The watchdog judges without runMu that the process is wedged, and has it
\* restarted after that, whatever has come in between.
WatchdogActs(works) ==
  /\ "wedge" \in MayFail /\ xray.file # NoConfig
  /\ xray' = Restart(xray, works)
  /\ UNCHANGED <<monitor, agent, revoked, switched, pushes>>

ByItself ==
  /\ \/ Healthy \/ Promote \/ Aged
     \/ \E m \in Monitors : Crash(m) \/ Think(m) \/ \E works \in Works : Supervise(m, works)
  /\ UNCHANGED <<agent, revoked, switched, pushes>>

Next ==
  \/ \E d \in Pushed, api \in Answers : TryLive(d, api)
  \/ \E works \in Works : RawApply(works) \/ RawRestore(works) \/ TakeBack(works)
                          \/ Reload(works) \/ WatchdogActs(works)
  \/ Revoke \/ ShutDown
  \/ ByItself

Spec == Init /\ [][Next]_vars

\* A monitor's goroutine goes on, and a start attempted again and again
\* works in the end.
MonitorGoesOn(m) ==
  /\ Think(m) \/ RollBack(m, TRUE) \/ (StartAgain(m, TRUE) /\ Superseded)
  /\ UNCHANGED <<agent, revoked, switched, pushes>>
StartsInTheEnd(m) == StartAgain(m, TRUE) /\ UNCHANGED <<agent, revoked, switched, pushes>>
Fairness == \A m \in Monitors : WF_vars(MonitorGoesOn(m)) /\ SF_vars(StartsInTheEnd(m))
FairSpec == Spec /\ Fairness
-----------------------------------------------------------------------------
(* Properties                                                              *)

\* There is never a second Xray: the loops of two crashes, an apply, a
\* restart and the watchdog all start the process, and two would fight for
\* the ports (startProc and its callers).
OneChild ==
  /\ Cardinality(Alive(xray)) <= 1
  /\ Alive(xray) = {p \in {xray.cur} : p # NoPid}

\* A node the panel revoked serves nobody until it is taken back, and a
\* supervisor that is shut down never starts anything, whatever was decided
\* before (the checks of `suspended` and `closed` in startProc). It is so
\* unless it was being taken back and that start failed.
StaysDown == (switched.off /\ ~switched.failed) \/ xray.closed => Alive(xray) = {}

\* What Resume says: "A suspended node is one the panel switched off" and
\* nothing else puts it "back to serving users".
RevokedServesNobody == switched.off => Alive(xray) = {}

\* What runs is what the file says, users of both kinds of lanes and shape,
\* whenever the agent is not in the middle of an apply: after live changes
\* that failed half way, refused configs, failed starts, roll-backs and
\* restarts in between (ApplyRawLive: "what runs is at least what the file
\* says"). A crash restart then brings back the same users.
RunsWhatFileSays ==
  agent.at = "idle" /\ Running(xray) =>
    /\ Current(xray).keys = KeysOf(xray.file)
    /\ Current(xray).quic = KeysOf(xray.file)
    /\ xray.file # NoConfig => Current(xray).shape = xray.file.shape

\* A crash is recovered from whatever else fails meanwhile: as long as a
\* monitor is at it, Xray comes up, unless the node is switched off
\* (superviseRestart).
CrashRecovers ==
  \A m \in Monitors : monitor[m] # "idle" ~> Running(xray) \/ xray.suspended \/ xray.closed
=============================================================================
