------------------------------- MODULE UserSync -------------------------------
(***************************************************************************)
(* How the panel's own Xray is kept at the users of the database: edits    *)
(* that ask for a sync, the reconcile loop that coalesces them, the live   *)
(* sync that adds and removes users through the API, and the full          *)
(* reconcile it falls back to (internal/core/manager.go), over the         *)
(* supervisor. A sync is cut where it reads, calls the API or writes;      *)
(* crashes and restarts of the process land in between.                    *)
(*                                                                         *)
(* Left out: waking the nodes (with nodes waiting the ids are read a       *)
(* moment earlier, for both purposes), bridges and WireGuard identities,   *)
(* the other protocol servers that are brought along, and panics. Where    *)
(* the inbounds cannot be read, the config is made without them; that a    *)
(* live sync then also leaves them alone on the process is not told apart. *)
(***************************************************************************)
EXTENDS Supervisor

CONSTANTS
  StartOn,      \* the users working at the start
  StartShapes,  \* the shapes the settings may have at the start
  MayFail,      \* subset of {"api", "quic", "start", "crash", "restart", "read", "write"}
  Edits,        \* subset of {"switch", "rekey", "shape"}
  MaxEdits      \* cap on the edits of an instance

VARIABLES
  on, key,      \* database: the working users and the key of each user
  shape,        \* settings: everything else that goes into the config
  applied,      \* m.applied: the users believed to be on the process
  rekeyed, rekeySeq, \* m.rekeyed: the rekey not yet taken over, by number
  kick, structural,  \* reconcileCh and structuralPending
  configError,  \* settings.last_config_error
  loop,         \* where the reconcile loop stands and what it has read
  editor,       \* where the request that edits stands
  edits,        \* edits so far, for the cap
  suspect       \* history: what has come between the process and the database

db == <<on, key, shape, editor, edits>>
believed == <<applied, rekeyed, rekeySeq>>
vars == <<xray, monitor, db, believed, kick, structural, configError, loop, suspect>>

Working == [u \in Accounts |-> IF u \in on THEN key[u] ELSE 0]
Users(keys) == {u \in Accounts : keys[u] # 0}
NoUser == "nobody"
Idling == [at |-> "idle", seq |-> 0, shape |-> NoConfig, keys |-> NoKeys, added |-> {}, removed |-> {}]
At(pc) == loop.at = pc
\* What a sync has read is of no use to an idle loop, nor to a reconcile.
Goto(pc) == loop' = IF pc \in {"idle", "reconcile"} THEN [Idling EXCEPT !.at = pc] ELSE [loop EXCEPT !.at = pc]

ASSUME UserSyncAssumption ==
  /\ StartOn \subseteq Accounts /\ StartShapes \subseteq Shapes /\ MaxEdits \in Nat /\ MaxKey >= 1

LoopState ==
  [at: {"idle", "debounce", "drained", "ids", "seq", "creds", "remove", "add", "write", "quic",
        "reconcile", "read", "apply"},
   seq: 0..MaxEdits, shape: Shapes \union {NoConfig}, keys: [Accounts -> 0..MaxKey],
   added: SUBSET Accounts, removed: SUBSET Accounts]

TypeOK ==
  /\ SupervisorTypeOK
  /\ on \subseteq Accounts /\ key \in [Accounts -> 1..MaxKey] /\ shape \in Shapes
  /\ applied \subseteq Accounts
  /\ rekeyed \in [Accounts -> 0..MaxEdits] /\ rekeySeq \in 0..MaxEdits
  /\ kick \in BOOLEAN /\ structural \in BOOLEAN /\ configError \in BOOLEAN
  /\ loop \in LoopState
  /\ editor \in [at: {"idle", "mark", "pend", "kick"}, user: Accounts \union {NoUser}]
  /\ edits \in 0..MaxEdits
  /\ suspect \subseteq {"failed", "skipped", "midsync", "reverted", "unread"}

\* A boot ends its set-up with a full reconcile.
Init ==
  /\ SupervisorInit
  /\ on = StartOn /\ key = [u \in Accounts |-> 1] /\ shape \in StartShapes
  /\ applied = {} /\ rekeyed = [u \in Accounts |-> 0] /\ rekeySeq = 0
  /\ kick = FALSE /\ structural = FALSE /\ configError = FALSE
  /\ loop = [Idling EXCEPT !.at = "reconcile"]
  /\ editor = [at |-> "idle", user |-> NoUser] /\ edits = 0
  /\ suspect = {}
-----------------------------------------------------------------------------
(* Edits                                                                   *)

Edit ==
  /\ editor.at = "idle" /\ edits < MaxEdits
  /\ edits' = edits + 1
  /\ UNCHANGED <<xray, monitor, believed, kick, structural, configError, loop, suspect>>

\* A user is switched off, runs out or comes back.
SwitchUser(u) ==
  /\ Edit /\ "switch" \in Edits
  /\ on' = (on \ {u}) \union ({u} \ on)
  /\ editor' = [at |-> "kick", user |-> NoUser]
  /\ UNCHANGED <<key, shape>>

\* New credentials: stored first, marked next, then the sync is asked for.
ResetKey(u) ==
  /\ Edit /\ "rekey" \in Edits /\ key[u] < MaxKey
  /\ key' = [key EXCEPT ![u] = @ + 1]
  /\ editor' = [at |-> "mark", user |-> u]
  /\ UNCHANGED <<on, shape>>
MarkRekeyed ==
  /\ editor.at = "mark"
  /\ rekeySeq' = rekeySeq + 1
  /\ rekeyed' = [rekeyed EXCEPT ![editor.user] = rekeySeq + 1]
  /\ editor' = [at |-> "kick", user |-> NoUser]
  /\ UNCHANGED <<xray, monitor, on, key, shape, edits, applied, kick, structural, configError, loop, suspect>>

\* A structural change is flagged before the loop is kicked.
ChangeShape ==
  /\ Edit /\ "shape" \in Edits
  /\ shape' \in Shapes \ {shape}
  /\ editor' = [at |-> "pend", user |-> NoUser]
  /\ UNCHANGED <<on, key>>
TriggerReconcile ==
  /\ editor.at = "pend"
  /\ structural' = TRUE
  /\ editor' = [at |-> "kick", user |-> NoUser]
  /\ UNCHANGED <<xray, monitor, on, key, shape, edits, believed, kick, configError, loop, suspect>>

SignalReload ==
  /\ editor.at = "kick"
  /\ kick' = TRUE
  /\ editor' = [at |-> "idle", user |-> NoUser]
  /\ UNCHANGED <<xray, monitor, on, key, shape, edits, believed, structural, configError, loop, suspect>>
-----------------------------------------------------------------------------
(* The reconcile loop                                                      *)

quiet == <<xray, monitor, db, suspect>>

\* Woken, it waits a moment, empties the channel and only then looks whether
\* the batch holds a structural change.
Woken ==
  /\ At("idle") /\ kick
  /\ kick' = FALSE /\ Goto("debounce")
  /\ UNCHANGED <<quiet, believed, structural, configError>>
Drain ==
  /\ At("debounce")
  /\ kick' = FALSE /\ Goto("drained")
  /\ UNCHANGED <<quiet, believed, structural, configError>>
Choose ==
  /\ At("drained")
  /\ structural' = FALSE /\ Goto(IF structural THEN "reconcile" ELSE "ids")
  /\ UNCHANGED <<quiet, believed, kick, configError>>

\* A plausible slip: all rekeys are taken for in, late ones with them.
ClearAllRekeyed(seq) == rekeyed' = [u \in Accounts |-> 0]
\* setApplied and clearRekeyed: the rekeys up to the number read are in.
ClearRekeyed(seq) == rekeyed' = [u \in Accounts |-> IF rekeyed[u] <= seq THEN 0 ELSE rekeyed[u]]
SetApplied(keys, seq) == applied' = Users(keys) /\ ClearRekeyed(seq) /\ UNCHANGED rekeySeq

\* A sync that cannot read is left to the reconcile.
SyncUnread == "read" \in MayFail /\ Goto("reconcile")

\* A stopped Xray is not changed live; ids that did not move end the sync.
WorkingIDsChanged == on # applied \/ \E u \in Accounts : rekeyed[u] # 0
CheckIDs ==
  /\ At("ids")
  /\ \/ Goto(IF ~Running(xray) THEN "reconcile" ELSE IF WorkingIDsChanged THEN "seq" ELSE "idle")
     \/ SyncUnread
  /\ UNCHANGED <<quiet, believed, kick, structural, configError>>
RekeyedUpTo ==
  /\ At("seq")
  /\ \/ loop' = [loop EXCEPT !.at = "creds", !.seq = rekeySeq, !.shape = shape]
     \/ SyncUnread
  /\ UNCHANGED <<quiet, believed, kick, structural, configError>>

\* genOptsFor: inbounds that cannot be read are taken for none.
OptionsRead == {loop.shape} \union IF "read" \in MayFail THEN {Base[loop.shape]} ELSE {}
Unread(read) == suspect' = IF read THEN suspect ELSE suspect \union {"unread"}

\* The credentials, and from them who is to go and who is to come: a rekeyed
\* user goes with the old key and comes with the new one.
Diff ==
  /\ At("creds")
  /\ LET rekeys == {u \in applied \intersect on : rekeyed[u] \in 1..loop.seq}
         added == (on \ applied) \union rekeys
         removed == (applied \ on) \union rekeys
     IN \/ /\ added \union removed = {}
           /\ ClearRekeyed(loop.seq) /\ Goto("idle")
           /\ UNCHANGED <<applied, rekeySeq, suspect>>
        \/ /\ added \union removed # {}
           /\ \E s \in OptionsRead :
                /\ loop' = [loop EXCEPT !.at = "remove", !.shape = s, !.keys = Working,
                                        !.added = added, !.removed = removed]
                /\ Unread(s = loop.shape)
           /\ UNCHANGED believed
        \/ SyncUnread /\ UNCHANGED <<believed, suspect>>
  /\ UNCHANGED <<xray, monitor, db, kick, structural, configError>>

\* Calls to the API of whichever process is there. One that fails part way
\* has done some of its users; removing who is not there is no failure,
\* adding who is there is.
SetKeys(done, keys) ==
  xray' = [xray EXCEPT !.procs[xray.cur].keys = [u \in Accounts |-> IF u \in done THEN keys[u] ELSE @[u]]]
RemoveUsers ==
  /\ At("remove")
  /\ \/ /\ Running(xray) \/ loop.removed = {}
        /\ IF loop.removed = {} THEN UNCHANGED xray ELSE SetKeys(loop.removed, NoKeys)
        /\ Goto("add")
     \/ /\ "api" \in MayFail /\ Running(xray) /\ loop.removed # {}
        /\ \E done \in SUBSET loop.removed : SetKeys(done, NoKeys)
        /\ Goto("reconcile")
     \/ ~Running(xray) /\ loop.removed # {} /\ Goto("reconcile") /\ UNCHANGED xray
  /\ UNCHANGED <<monitor, db, suspect, believed, kick, structural, configError>>

AddUsers ==
  /\ At("add")
  /\ LET free == {u \in loop.added : Running(xray) /\ Current(xray).keys[u] = 0}
     IN \/ /\ loop.added = free
           /\ IF free = {} THEN UNCHANGED xray ELSE SetKeys(free, loop.keys)
           /\ Goto("write")
        \/ /\ loop.added # {} /\ Running(xray)
           /\ free # loop.added \/ "api" \in MayFail
           /\ \E done \in SUBSET free : SetKeys(done, loop.keys)
           /\ Goto("reconcile")
        \/ ~Running(xray) /\ loop.added # {} /\ Goto("reconcile") /\ UNCHANGED xray
  /\ UNCHANGED <<monitor, db, suspect, believed, kick, structural, configError>>

\* The file follows, so that a crash restart loads the same users, and then
\* the rules of the relayed servers, by calls to the process.
GeneratedFrom(s) == [shape |-> s, keys |-> loop.keys]
Generated == GeneratedFrom(loop.shape)
WriteFile ==
  /\ At("write")
  /\ \/ /\ xray' = WriteConfig(xray, Generated)
        /\ SetApplied(loop.keys, loop.seq)
        /\ Goto("quic") \/ (("api" \in MayFail \/ ~Running(xray)) /\ Goto("reconcile"))
     \/ "write" \in MayFail /\ Goto("reconcile") /\ UNCHANGED <<xray, believed>>
  /\ UNCHANGED <<monitor, db, suspect, kick, structural, configError>>

\* SyncHysteria knows what the process started with and what it changed
\* since, and brings its lanes to the whole list. MarkConfigApplied ends it.
SyncHysteria ==
  /\ At("quic")
  /\ \/ /\ Running(xray) /\ ~Current(xray).lost
        /\ xray' = [xray EXCEPT !.procs[xray.cur].quic = loop.keys]
        /\ \/ configError' = FALSE /\ Goto("idle")
           \/ "write" \in MayFail /\ Goto("reconcile") /\ UNCHANGED configError
     \/ /\ Running(xray) /\ "quic" \in MayFail
        /\ xray' = LoseQuic(xray)
        /\ Goto("reconcile") /\ UNCHANGED configError
     \/ ~Running(xray) /\ Goto("reconcile") /\ UNCHANGED <<xray, configError>>
  /\ UNCHANGED <<monitor, db, suspect, believed, kick, structural>>
-----------------------------------------------------------------------------
(* The full reconcile                                                      *)

\* A read that fails ends the reconcile; nothing tries again, and only if it
\* is the one of the options an error is recorded.
GiveUp == "read" \in MayFail /\ loop' = Idling /\ Unread(FALSE)
BeginReconcile ==
  /\ At("reconcile")
  /\ \/ /\ loop' = [loop EXCEPT !.at = "read", !.seq = rekeySeq, !.shape = shape]
        /\ UNCHANGED suspect
     \/ GiveUp
  /\ UNCHANGED <<xray, monitor, db, believed, kick, structural, configError>>
ReadCredentials ==
  /\ At("read")
  /\ \/ loop' = [loop EXCEPT !.at = "apply", !.keys = Working] /\ UNCHANGED <<configError, suspect>>
     \/ GiveUp /\ configError' \in {configError, TRUE}
  /\ UNCHANGED <<xray, monitor, db, believed, kick, structural>>

Works == IF "start" \in MayFail THEN BOOLEAN ELSE {TRUE}
Answers == IF "api" \in MayFail THEN BOOLEAN ELSE {TRUE}
Stored == IF "write" \in MayFail THEN BOOLEAN ELSE {TRUE}
\* History. An apply that succeeded without a restart - the config was the
\* one already running, or changed its custom inbounds alone - may have left
\* other than it generated; one made without the inbounds has left them out.
PutRight(x) ==
  /\ Running(x) /\ x.file = Generated
  /\ Current(x).shape = loop.shape /\ Current(x).keys = loop.keys /\ Current(x).quic = loop.keys
Suspected(d, api, works) ==
  IF ApplyError(xray, d, api, works) THEN suspect \union {"failed"}
  ELSE IF d # Generated THEN suspect \union {"unread"}
  ELSE IF (SameAsRunning(xray, d) \/ AppliesLive(xray, d, api)) /\ ~PutRight(xray')
  THEN suspect \union {"skipped"} ELSE {}
ApplyGenerated(api, works) ==
  /\ At("apply")
  /\ \E s \in OptionsRead, stored \in Stored :
       LET d == GeneratedFrom(s)
           failed == ApplyError(xray, d, api, works)
       IN /\ xray' = Apply(xray, d, api, works)
          /\ configError' = IF stored THEN failed ELSE configError
          /\ IF failed THEN UNCHANGED believed ELSE SetApplied(loop.keys, loop.seq)
          /\ suspect' = Suspected(d, api, works)
  /\ loop' = Idling
  /\ UNCHANGED <<monitor, db, kick, structural>>

Loop ==
  \/ Woken \/ Drain \/ Choose \/ CheckIDs \/ RekeyedUpTo \/ Diff \/ RemoveUsers \/ AddUsers
  \/ WriteFile \/ SyncHysteria \/ BeginReconcile \/ ReadCredentials
  \/ \E api \in Answers, works \in Works : ApplyGenerated(api, works)
-----------------------------------------------------------------------------
(* The process                                                             *)

\* Started while a sync has changed the process and not yet the file, it
\* comes up with the users of before.
MidSync == Running(xray') /\ ((loop.at = "add" /\ loop.removed # {}) \/ loop.at = "write")
Mark(tag, cond) == suspect' = IF cond THEN suspect \union {tag} ELSE suspect

\* The operator's button and a renewed certificate restart without applyMu.
RestartXray ==
  /\ "restart" \in MayFail /\ xray.file # NoConfig
  /\ \E works \in Works : xray' = Restart(xray, works)
  /\ Mark("midsync", MidSync)
  /\ UNCHANGED <<monitor, db, believed, kick, structural, configError, loop>>

Exits == /\ "crash" \in MayFail \/ (Running(xray) /\ ~StaysUp(Current(xray).cfg))
         /\ \E m \in Monitors : Crash(m)
         /\ UNCHANGED suspect
Recovers ==
  \E m \in Monitors :
    \/ Think(m) /\ UNCHANGED suspect
    \/ \E works \in Works : StartAgain(m, works) /\ Mark("midsync", MidSync)
    \/ \E works \in Works : RollBack(m, works) /\ Mark("reverted", ~Superseded)
Process ==
  /\ Exits \/ Recovers \/ ((Healthy \/ Promote \/ Aged) /\ UNCHANGED suspect)
  /\ UNCHANGED <<db, believed, kick, structural, configError, loop>>

Next ==
  \/ \E u \in Accounts : SwitchUser(u) \/ ResetKey(u)
  \/ ChangeShape \/ MarkRekeyed \/ TriggerReconcile \/ SignalReload
  \/ Loop \/ RestartXray \/ Process

Spec == Init /\ [][Next]_vars
-----------------------------------------------------------------------------
(* Properties                                                              *)

Quiet == At("idle") /\ editor.at = "idle" /\ ~kick /\ ~structural /\ ~configError

Serves(c, keys, quic) == c = shape /\ keys = Working /\ quic = Working

\* With nothing left to do, Xray serves exactly the users of the database
\* with their current keys, on every kind of lane - whatever edits, crashes,
\* restarts and failures came in between, unless since the last apply that
\* restarted or found everything right (syncUsersOnce says it falls back "so
\* Xray never drifts from the DB")
\*   - an apply failed: its error may not have been stored, and a later live
\*     sync clears it, by a difference against the users of before
\*     (reconcileLocked returns before setApplied, MarkConfigApplied);
\*   - an apply restarted nothing, the config being the one already running
\*     or changing its custom inbounds alone, although a failed sync had
\*     changed the process or a sync had written the file with a change since
\*     taken back (Apply compares with what it applied last);
\*   - settings, credentials or options could not be read, which a reconcile
\*     returns without an error left behind, or inbounds could not, which are
\*     left out then (reconcileLocked, genOptsFor; of Reconcile it is said
\*     that "failures are recorded in settings.last_config_error");
\*   - a roll-back to an older config; or
\*   - a start in the middle of a sync
\* (syncUsers, reconcileLocked, Apply).
ServesDatabase ==
  Quiet /\ Running(xray) /\ suspect = {} =>
    Serves(Current(xray).shape, Current(xray).keys, Current(xray).quic)

\* ... and so does the file a crash restart loads, with the same exceptions
\* but the start in the middle of a sync (WriteConfig: "so a crash-restart
\* preserves the change").
DiskFollows ==
  Quiet /\ xray.file # NoConfig /\ suspect \subseteq {"midsync"} =>
    Serves(xray.file.shape, xray.file.keys, xray.file.keys)
=============================================================================
