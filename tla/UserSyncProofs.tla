---------------------------- MODULE UserSyncProofs ----------------------------
(***************************************************************************)
(* That the panel's Xray ends up serving the users of the database, and    *)
(* its file too, for any users, keys, configs, edits and failures. What    *)
(* the loop has read differs from the database only by edits that will     *)
(* wake it again; what the file differs by is marked; and what the process *)
(* differs by from the file is marked, or is being changed right now.      *)
(***************************************************************************)
EXTENDS UserSync, TLAPS

(***************************************************************************)
(* Starting and stopping                                                   *)
(***************************************************************************)

(* The panel never suspends or closes its supervisor while it runs, and    *)
(* has one child at most, known as `cur`.                                  *)
One(x) == \A p \in Pids : x.procs[p] # NoProc <=> p = x.cur
Up(x) == x \in SupervisorState /\ One(x) /\ ~x.closed /\ ~x.suspended

(* The process, if there is one, is what the file says.                    *)
FromFile(x) ==
  Running(x) =>
    /\ Current(x).keys = KeysOf(x.file) /\ Current(x).quic = KeysOf(x.file)
    /\ x.file # NoConfig => Current(x).shape = x.file.shape

(* The keys of a config, and of none.                                      *)
LEMMA KeysOfType ==
  ASSUME NEW c \in MaybeConfig
  PROVE  KeysOf(c) \in [Accounts -> 0..MaxKey]
  BY SupervisorAssumption DEF KeysOf, NoKeys, MaybeConfig, Config

(* What `cur` names is a process.                                          *)
LEMMA CurrentType ==
  ASSUME NEW x, Up(x), Running(x)
  PROVE  x.cur \in Pids /\ Current(x) \in Proc
<1>1. x.cur \in Pids
  BY DEF Up, SupervisorState, Running
<1> QED
  BY <1>1 DEF Up, One, SupervisorState, Current

(* A stop leaves no process, and the file as it is.                        *)
LEMMA StopProcUp ==
  ASSUME NEW x, Up(x)
  PROVE  Up(StopProc(x)) /\ ~Running(StopProc(x)) /\ StopProc(x).file = x.file
<1>1. CASE ~Running(x)
  BY <1>1 DEF StopProc
<1>2. CASE Running(x)
  <2> DEFINE y == [x EXCEPT !.procs[x.cur] = NoProc, !.cur = NoPid, !.restarts = 0]
  <2>1. x.cur \in Pids /\ x \in SupervisorState
    BY <1>2, CurrentType DEF Up
  <2>2. /\ y.procs = [x.procs EXCEPT ![x.cur] = NoProc] /\ y.cur = NoPid
        /\ y.closed = x.closed /\ y.suspended = x.suspended /\ y.file = x.file
    BY DEF SupervisorState
  <2>3. y \in SupervisorState
    <3>1. 0 \in 0..MaxRestarts
      BY SupervisorAssumption
    <3>2. [x.procs EXCEPT ![x.cur] = NoProc] \in [Pids -> Proc \union {NoProc}]
      BY <2>1 DEF SupervisorState
    <3> QED
      BY <2>1, <3>1, <3>2 DEF SupervisorState
  <2>4. StopProc(x) = y
    BY <1>2 DEF StopProc
  <2>5. \A p \in Pids : y.procs[p] = NoProc /\ p # NoPid
    BY <2>1, <2>2, SupervisorAssumption DEF Up, One, SupervisorState
  <2> HIDE DEF y
  <2> QED
    BY <2>2, <2>3, <2>4, <2>5 DEF Up, One, Running
<1> QED
  BY <1>1, <1>2

(* A start that works has a free process to start, and it reads the file.  *)
LEMMA StartProcUp ==
  ASSUME NEW x, Up(x), ~Running(x), NEW works \in BOOLEAN
  PROVE  /\ Up(StartProc(x, works)) /\ FromFile(StartProc(x, works))
         /\ StartProc(x, works).file = x.file
         /\ works => Running(StartProc(x, works))
<1>1. CASE ~works
  BY <1>1 DEF StartProc, FromFile
<1>2. CASE works
  <2> DEFINE p == CHOOSE q \in Pids : x.procs[q] = NoProc
             child == [cfg |-> x.file, shape |-> IF x.file = NoConfig THEN NoConfig ELSE x.file.shape,
                       keys |-> KeysOf(x.file), quic |-> KeysOf(x.file),
                       lost |-> FALSE, proven |-> FALSE]
             y == [x EXCEPT !.cur = p, !.procs[p] = child]
  <2>1. StartProc(x, works) = y
    BY <1>2 DEF StartProc, Up
  <2>2. \A q \in Pids : x.procs[q] = NoProc
    BY SupervisorAssumption DEF Up, One, Running
  <2>3. p \in Pids /\ p # NoPid
    BY <2>2, SupervisorAssumption
  <2>4. child \in Proc
    <3>1. x.file \in MaybeConfig
      BY DEF Up, SupervisorState
    <3>2. (IF x.file = NoConfig THEN NoConfig ELSE x.file.shape) \in Shapes \union {NoConfig}
      BY <3>1 DEF MaybeConfig, Config
    <3> QED
      BY <3>1, <3>2, KeysOfType DEF Proc
  <2>5. child # NoProc
    BY <2>4, SupervisorAssumption
  <2>6. child.keys = KeysOf(x.file) /\ child.quic = KeysOf(x.file)
    OBVIOUS
  <2>7. x.file # NoConfig => child.shape = x.file.shape
    OBVIOUS
  <2> HIDE DEF p, child
  <2>8. y \in SupervisorState
    BY <2>3, <2>4 DEF Up, SupervisorState
  <2>9. /\ y.cur = p /\ y.procs = [x.procs EXCEPT ![p] = child]
        /\ y.closed = x.closed /\ y.suspended = x.suspended /\ y.file = x.file
    BY DEF Up, SupervisorState
  <2>10. y.procs[p] = child /\ \A q \in Pids : q # p => y.procs[q] = NoProc
    BY <2>2, <2>3, <2>9 DEF Up, SupervisorState
  <2> HIDE DEF y
  <2>11. Up(y)
    BY <2>3, <2>5, <2>8, <2>9, <2>10 DEF Up, One
  <2>12. FromFile(y) /\ Running(y)
    BY <2>3, <2>6, <2>7, <2>9, <2>10 DEF FromFile, Running, Current
  <2> QED
    BY <2>1, <2>9, <2>11, <2>12
<1> QED
  BY <1>1, <1>2

(* So has a restart.                                                       *)
LEMMA RestartUp ==
  ASSUME NEW x, Up(x), NEW works \in BOOLEAN
  PROVE  /\ Up(Restart(x, works)) /\ FromFile(Restart(x, works))
         /\ Restart(x, works).file = x.file
         /\ works => Running(Restart(x, works))
  BY StopProcUp, StartProcUp DEF Restart

(***************************************************************************)
(* Putting a config into effect                                            *)
(***************************************************************************)

(* A config that is put in place is the file; the process stays.           *)
LEMMA ReplacedUp ==
  ASSUME NEW x, Up(x), NEW d \in Config
  PROVE  /\ Up(Replaced(x, d)) /\ Replaced(x, d).file = d
         /\ Replaced(x, d).procs = x.procs /\ Replaced(x, d).cur = x.cur
<1>1. Replaced(x, d) \in SupervisorState
  BY DEF Replaced, Up, SupervisorState, MaybeConfig
<1>2. /\ Replaced(x, d).procs = x.procs /\ Replaced(x, d).cur = x.cur /\ Replaced(x, d).file = d
      /\ Replaced(x, d).suspended = x.suspended /\ Replaced(x, d).closed = x.closed
  BY DEF Replaced, Up, SupervisorState
<1> QED
  BY <1>1, <1>2 DEF Up, One

(* ... taking note of it leaves both alone, ...                            *)
LEMMA NotedUp ==
  ASSUME NEW x, Up(x), NEW d \in Config
  PROVE  /\ Up(Noted(x, d)) /\ Noted(x, d).file = x.file
         /\ Noted(x, d).procs = x.procs /\ Noted(x, d).cur = x.cur
<1>1. Noted(x, d) \in SupervisorState
  BY DEF Noted, Up, SupervisorState, MaybeConfig
<1>2. /\ Noted(x, d).procs = x.procs /\ Noted(x, d).cur = x.cur /\ Noted(x, d).file = x.file
      /\ Noted(x, d).suspended = x.suspended /\ Noted(x, d).closed = x.closed
  BY DEF Noted, Up, SupervisorState
<1> QED
  BY <1>1, <1>2 DEF Up, One

(* ... and writing the file is no more than that.                          *)
LEMMA WriteConfigUp ==
  ASSUME NEW x, Up(x), NEW d \in Config
  PROVE  /\ Up(WriteConfig(x, d)) /\ WriteConfig(x, d).file = d
         /\ WriteConfig(x, d).procs = x.procs /\ WriteConfig(x, d).cur = x.cur
<1>1. WriteConfig(x, d) \in SupervisorState
  BY DEF WriteConfig, Up, SupervisorState, MaybeConfig
<1>2. /\ WriteConfig(x, d).procs = x.procs /\ WriteConfig(x, d).cur = x.cur
      /\ WriteConfig(x, d).suspended = x.suspended /\ WriteConfig(x, d).closed = x.closed
      /\ WriteConfig(x, d).file = d
  BY DEF WriteConfig, Up, SupervisorState
<1> QED
  BY <1>1, <1>2 DEF Up, One

(* The child changed in place is still the one child.                      *)
LEMMA ChildChanged ==
  ASSUME NEW x, Up(x), Running(x), NEW c \in Proc
  PROVE  LET y == [x EXCEPT !.procs[x.cur] = c] IN
         Up(y) /\ y.file = x.file /\ y.cur = x.cur /\ Current(y) = c
<1> DEFINE y == [x EXCEPT !.procs[x.cur] = c]
<1>1. x.cur \in Pids /\ c # NoProc
  BY CurrentType, SupervisorAssumption
<1>2. /\ y.cur = x.cur /\ y.procs = [x.procs EXCEPT ![x.cur] = c] /\ y.file = x.file
      /\ y.closed = x.closed /\ y.suspended = x.suspended
  BY DEF Up, SupervisorState
<1>3. y \in SupervisorState
  <2>1. [x.procs EXCEPT ![x.cur] = c] \in [Pids -> Proc \union {NoProc}]
    BY <1>1 DEF Up, SupervisorState
  <2> QED
    BY <2>1 DEF Up, SupervisorState
<1> HIDE DEF y
<1>4. y.procs[x.cur] = c /\ \A p \in Pids : p # x.cur => y.procs[p] = x.procs[p]
  BY <1>1, <1>2 DEF Up, SupervisorState
<1>5. Up(y) /\ y.file = x.file /\ y.cur = x.cur /\ Current(y) = c
  BY <1>1, <1>2, <1>3, <1>4 DEF Up, One, Current
<1> QED
  BY <1>5 DEF y

(* A refused config changes nothing; any other is in the file, and if the  *)
(* start works in a process that has read it.                              *)
LEMMA ApplyRawUp ==
  ASSUME NEW x, Up(x), NEW d \in Config, NEW works \in BOOLEAN
  PROVE  /\ Up(ApplyRaw(x, d, works))
         /\ d.shape \notin Refused /\ works =>
              /\ ApplyRaw(x, d, works).file = d /\ Running(ApplyRaw(x, d, works))
              /\ FromFile(ApplyRaw(x, d, works))
<1>1. CASE d.shape \in Refused
  BY <1>1 DEF ApplyRaw
<1>2. CASE d.shape \notin Refused
  <2> DEFINE y == Restart(Replaced(x, d), works)
  <2>1. Up(y) /\ y.file = d /\ FromFile(y) /\ (works => Running(y))
    BY ReplacedUp, RestartUp
  <2> HIDE DEF y
  <2>2. /\ Up(Noted(y, d)) /\ Noted(y, d).file = d /\ Noted(y, d).cur = y.cur
        /\ Noted(y, d).procs = y.procs
    BY <2>1, NotedUp
  <2>3. FromFile(Noted(y, d)) /\ (works => Running(Noted(y, d)))
    BY <2>1, <2>2 DEF FromFile, Running, Current
  <2>4. ApplyRaw(x, d, works) = IF StartFails(x, works) THEN y ELSE Noted(y, d)
    BY <1>2 DEF ApplyRaw, y
  <2>5. works => ~StartFails(x, works)
    BY DEF StartFails
  <2> QED
    BY <1>2, <2>1, <2>2, <2>3, <2>4, <2>5
<1> QED
  BY <1>1, <1>2

(* A process whose users are changed is a process.                         *)
LEMMA ChangedType ==
  ASSUME NEW c \in Proc, NEW from \in Config, NEW to \in Config
  PROVE  Changed(c, from, to) \in Proc
  BY DEF Changed, Proc, Config

(* Whatever an apply comes to, there is one child at most; one that fails  *)
(* and one that restarts are as told.                                      *)
LEMMA ApplyUp ==
  ASSUME NEW x, Up(x), NEW d \in Config, NEW api \in BOOLEAN, NEW works \in BOOLEAN
  PROVE  /\ Up(Apply(x, d, api, works))
         /\ \/ ApplyError(x, d, api, works) \/ SameAsRunning(x, d) \/ AppliesLive(x, d, api)
            \/ /\ Apply(x, d, api, works).file = d /\ Running(Apply(x, d, api, works))
               /\ FromFile(Apply(x, d, api, works))
<1>1. CASE SameAsRunning(x, d)
  BY <1>1, NotedUp DEF Apply
<1>2. CASE ~SameAsRunning(x, d) /\ AppliesLive(x, d, api)
  <2> DEFINE y == ChangeUsers(x, x.file, d)
  <2>1. Running(x) /\ x.file \in Config
    BY <1>2 DEF AppliesLive, RunningMatchesDisk, CustomAlone, Up, SupervisorState, MaybeConfig
  <2>2. Changed(Current(x), x.file, d) \in Proc
    BY <2>1, CurrentType, ChangedType
  <2>3. Up(y)
    BY <2>1, <2>2, ChildChanged DEF ChangeUsers
  <2>4. Apply(x, d, api, works) = Noted(Replaced(y, d), d)
    BY <1>2 DEF Apply
  <2> HIDE DEF y
  <2> QED
    BY <1>2, <2>3, <2>4, ReplacedUp, NotedUp
<1>3. CASE ~SameAsRunning(x, d) /\ ~AppliesLive(x, d, api)
  <2>1. Apply(x, d, api, works) = ApplyRaw(x, d, works)
    BY <1>3 DEF Apply
  <2>2. ApplyError(x, d, api, works) \/ (d.shape \notin Refused /\ works)
    BY <1>3 DEF ApplyError, ApplyFails, StartFails, Up
  <2> QED
    BY <2>1, <2>2, ApplyRawUp
<1> QED
  BY <1>1, <1>2, <1>3

(***************************************************************************)
(* The invariant                                                           *)
(***************************************************************************)

(* What will still wake the loop, and what will still make it reconcile.   *)
Coming == kick \/ editor.at = "kick"
Reshaping == structural \/ editor.at = "pend"

(* A new key that is marked or about to be, and one the loop has not read. *)
Marking(u) == editor.at = "mark" /\ editor.user = u
Pending(u) == rekeyed[u] # 0 \/ Marking(u)
Late(u) == rekeyed[u] > loop.seq \/ Marking(u)

(* How far the loop has come: it has read the settings, it has read the    *)
(* credentials, it is changing the process, it is about to apply anew.     *)
HasShape == loop.at \in {"creds", "remove", "add", "write", "quic", "read", "apply"}
HasKeys == loop.at \in {"remove", "add", "write", "quic", "apply"}
Changing == loop.at \in {"remove", "add", "write"}
Renewing == loop.at \in {"reconcile", "read", "apply"}

(* The users a sync has not dealt with yet.                                *)
Todo == IF At("remove") THEN loop.added \union loop.removed
        ELSE IF At("add") THEN loop.added ELSE {}

(* Keys as the loop has read them, but for users it leaves out and for     *)
(* those whose key has changed since.                                      *)
AsRead(keys, but) ==
  \A u \in Accounts : u \in but \/ keys[u] = loop.keys[u] \/ (loop.keys[u] # 0 /\ Late(u))

(* Keys as in the file, but for those marked as changed.                   *)
AsFile(keys) ==
  \A u \in Accounts : keys[u] = KeysOf(xray.file)[u] \/ (u \in applied /\ Pending(u))

Clean == suspect \subseteq {"midsync"}

(* A sync under way whose options were read without the custom inbounds.   *)
Partly == "unread" \in suspect /\ loop.at \in {"remove", "add", "write", "quic"}

(* Rekeys are numbered by the edits that made them.                        *)
NumbersFit ==
  /\ loop.seq <= rekeySeq /\ \A u \in Accounts : rekeyed[u] <= rekeySeq
  /\ rekeySeq <= edits /\ (editor.at = "mark" => rekeySeq < edits)
  /\ editor.at = "mark" => editor.user \in Accounts

(* What the loop has read is what the database holds, or an edit is on its *)
(* way to the loop.                                                        *)
ReadFits ==
  /\ HasShape => /\ loop.shape \in Shapes /\ (loop.shape = shape \/ Reshaping \/ Partly)
                 /\ \A u \in Accounts : rekeyed[u] <= loop.seq \/ Coming
  /\ HasKeys => /\ on = Users(loop.keys) \/ Coming
                /\ \A u \in Accounts : loop.keys[u] = 0 \/ loop.keys[u] = key[u] \/ Late(u)
  /\ At("remove") \/ At("add") => \A u \in loop.removed \ loop.added : loop.keys[u] = 0

(* An idle loop has nothing to do, or is about to be woken.                *)
BelievedFits ==
  /\ {"failed", "unread"} \intersect suspect = {} /\ At("idle") => ~WorkingIDsChanged \/ Coming
  /\ At("quic") => /\ applied = Users(loop.keys)
                   /\ \A u \in Accounts : rekeyed[u] = 0 \/ rekeyed[u] > loop.seq

(* The file holds the users believed to be on the process, with the keys   *)
(* of the database or marked ones, and its shape.                          *)
FileFits ==
  Clean =>
    /\ applied = Users(KeysOf(xray.file))
    /\ \A u \in applied : KeysOf(xray.file)[u] = key[u] \/ Pending(u)
    /\ ~Renewing => xray.file # NoConfig /\ (xray.file.shape = shape \/ Reshaping)
    /\ Changing => AsRead(KeysOf(xray.file), loop.added \union loop.removed)
    /\ At("quic") => xray.file = Generated

(* The process is as the file, or as the sync under way has made it.       *)
ProcessFits ==
  suspect = {} /\ Running(xray) /\ ~Renewing =>
    /\ Current(xray).shape = xray.file.shape \/ Reshaping
    /\ At("quic") \/ Current(xray).quic = KeysOf(xray.file)
    /\ IF HasKeys THEN AsRead(Current(xray).keys, Todo) ELSE AsFile(Current(xray).keys)

IInv ==
  /\ TypeOK /\ Up(xray)
  /\ NumbersFit /\ ReadFits /\ BelievedFits /\ FileFits /\ ProcessFits

(* It holds at a boot, before the first reconcile.                         *)
LEMMA InitInv == Init => IInv
<1> SUFFICES ASSUME Init PROVE IInv
  OBVIOUS
<1>1. xray \in SupervisorState
  <2>1. 0 \in 0..MaxRestarts
    BY SupervisorAssumption
  <2> QED
    BY <2>1 DEF Init, SupervisorInit, SupervisorState, MaybeConfig
<1>2. Up(xray) /\ ~Running(xray) /\ xray.file = NoConfig
  BY <1>1, SupervisorAssumption DEF Init, SupervisorInit, Up, One, Running
<1>3. loop \in LoopState /\ At("reconcile") /\ loop.seq = 0
  <2>1. 0 \in 0..MaxEdits /\ NoKeys \in [Accounts -> 0..MaxKey]
    BY UserSyncAssumption, SupervisorAssumption DEF NoKeys
  <2>2. Idling \in LoopState
    BY <2>1 DEF Idling, LoopState
  <2>3. loop = [Idling EXCEPT !.at = "reconcile"]
    BY DEF Init
  <2> QED
    BY <2>2, <2>3 DEF LoopState, At, Idling
<1>4. TypeOK
  <2>1. SupervisorTypeOK
    BY <1>1 DEF Init, SupervisorInit, SupervisorTypeOK
  <2>2. on \subseteq Accounts /\ key \in [Accounts -> 1..MaxKey] /\ shape \in Shapes
    BY UserSyncAssumption, SupervisorAssumption DEF Init
  <2>3. rekeyed \in [Accounts -> 0..MaxEdits] /\ rekeySeq \in 0..MaxEdits /\ edits \in 0..MaxEdits
    BY UserSyncAssumption DEF Init
  <2>4. editor \in [at: {"idle", "mark", "pend", "kick"}, user: Accounts \union {NoUser}]
    BY DEF Init
  <2> QED
    BY <1>3, <2>1, <2>2, <2>3, <2>4 DEF TypeOK, Init
<1>5. NumbersFit
  BY <1>3 DEF Init, NumbersFit
<1>6. ReadFits /\ BelievedFits
  BY <1>3 DEF ReadFits, Partly, BelievedFits, HasShape, HasKeys, At
<1>7. FileFits
  BY <1>2, <1>3 DEF FileFits, Renewing, Changing, At, Init, Users, KeysOf, NoKeys
<1>8. ProcessFits
  BY <1>2 DEF ProcessFits
<1> QED
  BY <1>2, <1>4, <1>5, <1>6, <1>7, <1>8 DEF IInv

(***************************************************************************)
(* Steps beside the loop and the edits                                     *)
(***************************************************************************)

(* The same file, and no other child.                                      *)
SameChild(x, y) ==
  /\ y.file = x.file
  /\ Running(y) => /\ Running(x) /\ Current(y).shape = Current(x).shape
                   /\ Current(y).keys = Current(x).keys /\ Current(y).quic = Current(x).quic

Places == {"idle", "decide", "quick", "rollback", "loop", "sleep"}

(* A step that leaves child and file as they were, starts a child from the *)
(* file, or is under suspicion.                                            *)
LEMMA AsideInv ==
  ASSUME IInv, UNCHANGED <<db, believed, kick, structural, configError, loop>>,
         Up(xray'), monitor' \in [Monitors -> Places],
         \/ suspect' = suspect
         \/ suspect' = suspect \union {"midsync"}
         \/ suspect' = suspect \union {"reverted"},
         \/ SameChild(xray, xray')
         \/ "reverted" \in suspect'
         \/ /\ xray'.file = xray.file /\ FromFile(xray')
            /\ ~MidSync \/ "midsync" \in suspect'
  PROVE  IInv'
<1> USE DEF db, believed
<1>1. TypeOK'
  <2>1. SupervisorTypeOK'
    BY DEF SupervisorTypeOK, Up, Places
  <2>2. suspect' \subseteq {"failed", "skipped", "midsync", "reverted", "unread"}
    BY DEF IInv, TypeOK
  <2> QED
    BY <2>1, <2>2 DEF IInv, TypeOK
<1>2. NumbersFit' /\ ReadFits'
  BY DEF IInv, NumbersFit, ReadFits, Partly, HasShape, HasKeys, Coming, Reshaping, Late, Marking, At, Users
<1>3. BelievedFits'
  BY DEF IInv, BelievedFits, WorkingIDsChanged, Coming, At, Users
<1>4. FileFits'
  <2> SUFFICES ASSUME Clean' PROVE FileFits'
    BY DEF FileFits
  <2>1. Clean /\ xray'.file = xray.file
    BY DEF Clean, SameChild
  <2> QED
    BY <2>1 DEF IInv, FileFits, Renewing, Changing, AsRead, Late, Marking, Pending, Reshaping,
                At, Generated, GeneratedFrom, Users
<1>5. ProcessFits'
  <2> SUFFICES ASSUME suspect' = {}, Running(xray'), ~Renewing' PROVE ProcessFits'
    BY DEF ProcessFits
  <2>1. suspect = {} /\ Clean /\ xray'.file = xray.file /\ ~Renewing
    BY DEF SameChild, Clean, Renewing
  <2>2. FileFits /\ ProcessFits
    BY DEF IInv
  <2>3. CASE SameChild(xray, xray')
    BY <2>1, <2>2, <2>3 DEF SameChild, ProcessFits, AsRead, AsFile, Late, Marking, Pending, Reshaping,
                            At, HasKeys, Todo
  <2>4. CASE FromFile(xray') /\ ~MidSync
    <3>1. /\ Current(xray').keys = KeysOf(xray.file) /\ Current(xray').quic = KeysOf(xray.file)
          /\ xray.file # NoConfig /\ Current(xray').shape = xray.file.shape
      BY <2>1, <2>2, <2>4 DEF FromFile, FileFits
    <3>2. AsFile(Current(xray).keys)'
      BY <2>1, <3>1 DEF AsFile
    <3>3. ASSUME HasKeys PROVE AsRead(KeysOf(xray.file), Todo)
      <4>1. CASE At("remove") \/ (At("add") /\ loop.removed = {})
        BY <2>1, <2>2, <4>1 DEF FileFits, Changing, AsRead, Todo, At
      <4>2. CASE At("quic")
        <5>1. xray.file = Generated
          BY <2>1, <2>2, <4>2 DEF FileFits
        <5>2. KeysOf(xray.file) = loop.keys
          BY <2>1, <2>2, <5>1 DEF FileFits, KeysOf, Generated, GeneratedFrom
        <5> QED
          BY <5>2 DEF AsRead
      <4> QED
        BY <2>1, <2>4, <3>3, <4>1, <4>2 DEF MidSync, HasKeys, Renewing, At
    <3>4. HasKeys' => AsRead(Current(xray).keys, Todo)'
      BY <3>1, <3>3 DEF HasKeys, AsRead, Todo, At, Late, Marking
    <3> QED
      BY <2>1, <3>1, <3>2, <3>4 DEF ProcessFits
  <2> QED
    BY <2>1, <2>3, <2>4
<1> QED
  BY <1>1, <1>2, <1>3, <1>4, <1>5 DEF IInv

(* A step that changes only what the supervisor keeps beside the file and  *)
(* the child.                                                              *)
LEMMA SameChildIfSame ==
  ASSUME NEW x, NEW y, y.file = x.file, y.cur = x.cur, y.procs = x.procs
  PROVE  SameChild(x, y)
  BY DEF SameChild, Running, Current

(* The process exits.                                                      *)
LEMMA ExitsInv ==
  ASSUME IInv, UNCHANGED <<db, believed, kick, structural, configError, loop>>, Exits
  PROVE  IInv'
<1>1. PICK m \in Monitors : Crash(m) /\ suspect' = suspect
  BY DEF Exits
<1>2. Up(xray) /\ Running(xray) /\ monitor \in [Monitors -> Places]
  BY <1>1 DEF IInv, TypeOK, SupervisorTypeOK, Places, Crash
<1>3. xray.cur \in Pids /\ Current(xray) \in Proc
  BY <1>2, CurrentType
<1> DEFINE count == IF Current(xray).proven THEN 0 ELSE xray.restarts
<1>4. xray' = [xray EXCEPT !.procs[xray.cur] = NoProc, !.cur = NoPid, !.restarts = count]
  BY <1>1 DEF Crash
<1>5. count \in 0..MaxRestarts
  BY <1>2, SupervisorAssumption DEF Up, SupervisorState
<1> HIDE DEF count
<1>6. /\ xray'.procs = [xray.procs EXCEPT ![xray.cur] = NoProc] /\ xray'.cur = NoPid
      /\ xray'.closed = xray.closed /\ xray'.suspended = xray.suspended /\ xray'.file = xray.file
  BY <1>2, <1>4 DEF Up, SupervisorState
<1>7. xray' \in SupervisorState
  <2>1. [xray.procs EXCEPT ![xray.cur] = NoProc] \in [Pids -> Proc \union {NoProc}]
    BY <1>2, <1>3 DEF Up, SupervisorState
  <2> QED
    BY <1>2, <1>4, <1>5, <2>1 DEF Up, SupervisorState
<1>8. \A p \in Pids : xray'.procs[p] = NoProc /\ p # NoPid
  BY <1>2, <1>3, <1>6, SupervisorAssumption DEF Up, One, SupervisorState
<1>9. Up(xray') /\ SameChild(xray, xray')
  BY <1>2, <1>6, <1>7, <1>8 DEF Up, One, SameChild, Running
<1>10. monitor' \in [Monitors -> Places]
  BY <1>1, <1>2 DEF Crash, Places
<1> QED
  BY <1>1, <1>9, <1>10, AsideInv

(* The count of restarts, and the decisions of a monitor.                  *)
LEMMA ThinkInv ==
  ASSUME IInv, UNCHANGED <<db, believed, kick, structural, configError, loop>>,
         NEW m \in Monitors, Think(m), suspect' = suspect
  PROVE  IInv'
<1>1. Up(xray) /\ monitor \in [Monitors -> Places]
  BY DEF IInv, TypeOK, SupervisorTypeOK, Places
<1>2. monitor' \in [Monitors -> Places]
  BY <1>1 DEF Think, Decide, AskXray, BackOff, Places
<1>3. CASE xray' = xray
  BY <1>1, <1>2, <1>3, SameChildIfSame, AsideInv
<1>4. CASE xray' = [xray EXCEPT !.restarts = @ + 1] /\ xray.restarts # MaxRestarts
  <2>1. xray' \in SupervisorState
    <3>1. xray.restarts + 1 \in 0..MaxRestarts
      BY <1>1, <1>4, SupervisorAssumption DEF Up, SupervisorState
    <3> QED
      BY <1>1, <1>4, <3>1 DEF Up, SupervisorState
  <2>2. /\ xray'.file = xray.file /\ xray'.cur = xray.cur /\ xray'.procs = xray.procs
        /\ xray'.closed = xray.closed /\ xray'.suspended = xray.suspended
    BY <1>1, <1>4 DEF Up, SupervisorState
  <2>3. Up(xray') /\ SameChild(xray, xray')
    BY <1>1, <2>1, <2>2, SameChildIfSame DEF Up, One
  <2> QED
    BY <1>2, <2>3, AsideInv
<1> QED
  BY <1>3, <1>4 DEF Think, Decide, AskXray, BackOff

(* The process is started again, from the file.                            *)
LEMMA StartAgainInv ==
  ASSUME IInv, UNCHANGED <<db, believed, kick, structural, configError, loop>>,
         NEW m \in Monitors, NEW works \in BOOLEAN, StartAgain(m, works), Mark("midsync", MidSync)
  PROVE  IInv'
<1>1. Up(xray) /\ monitor \in [Monitors -> Places]
  BY DEF IInv, TypeOK, SupervisorTypeOK, Places
<1>2. monitor' \in [Monitors -> Places]
  BY <1>1 DEF StartAgain, Places
<1>3. CASE Superseded
  <2>1. xray' = xray
    BY <1>3 DEF StartAgain
  <2> QED
    BY <1>1, <1>2, <2>1, SameChildIfSame, AsideInv DEF Mark
<1>4. CASE ~Superseded
  <2>1. xray' = StartProc(xray, works) /\ ~Running(xray)
    BY <1>4 DEF StartAgain, Superseded
  <2>2. Up(xray') /\ FromFile(xray') /\ xray'.file = xray.file
    BY <1>1, <2>1, StartProcUp
  <2> QED
    BY <1>2, <2>2, AsideInv DEF Mark
<1> QED
  BY <1>3, <1>4

(* A roll-back puts the copy in the place of the file.                     *)
LEMMA RollBackInv ==
  ASSUME IInv, UNCHANGED <<db, believed, kick, structural, configError, loop>>,
         NEW m \in Monitors, NEW works \in BOOLEAN, RollBack(m, works), Mark("reverted", ~Superseded)
  PROVE  IInv'
<1>1. Up(xray) /\ monitor \in [Monitors -> Places]
  BY DEF IInv, TypeOK, SupervisorTypeOK, Places
<1>2. monitor' \in [Monitors -> Places]
  BY <1>1 DEF RollBack, Places
<1>3. CASE Superseded
  <2>1. xray' = xray /\ suspect' = suspect
    BY <1>3 DEF RollBack, Mark
  <2> QED
    BY <1>1, <1>2, <2>1, SameChildIfSame, AsideInv
<1>4. CASE ~Superseded
  <2> DEFINE y == [xray EXCEPT !.rolledBack = TRUE, !.file = xray.bak]
  <2>1. xray' = StartProc(y, works) /\ ~Running(xray)
    BY <1>4 DEF RollBack, RestoreBackup, Superseded
  <2>2. y \in SupervisorState
    BY <1>1 DEF Up, SupervisorState
  <2>3. /\ y.cur = xray.cur /\ y.procs = xray.procs
        /\ y.closed = xray.closed /\ y.suspended = xray.suspended
    BY <1>1 DEF Up, SupervisorState
  <2> HIDE DEF y
  <2>4. Up(y) /\ ~Running(y)
    BY <1>1, <2>1, <2>2, <2>3 DEF Up, One, Running
  <2>5. Up(xray')
    BY <2>1, <2>4, StartProcUp
  <2>6. suspect' = suspect \union {"reverted"}
    BY <1>4 DEF Mark
  <2> QED
    BY <1>2, <2>5, <2>6, AsideInv
<1> QED
  BY <1>3, <1>4

(* What becomes of a process that stays up.                                *)
LEMMA SettledInv ==
  ASSUME IInv, UNCHANGED <<db, believed, kick, structural, configError, loop>>,
         Healthy \/ Promote \/ Aged, suspect' = suspect
  PROVE  IInv'
<1>1. Up(xray) /\ monitor \in [Monitors -> Places] /\ monitor' = monitor
  BY DEF IInv, TypeOK, SupervisorTypeOK, Places, Healthy, Promote, Aged
<1>2. CASE Healthy
  <2> DEFINE c == [Current(xray) EXCEPT !.proven = TRUE]
             y == [xray EXCEPT !.procs[xray.cur] = c]
  <2>1. Running(xray) /\ Current(xray) \in Proc
    BY <1>1, <1>2, CurrentType DEF Healthy
  <2>2. /\ c \in Proc /\ c.shape = Current(xray).shape
        /\ c.keys = Current(xray).keys /\ c.quic = Current(xray).quic
    BY <2>1 DEF Proc
  <2>3. xray' = [xray EXCEPT !.procs[xray.cur] = c, !.promote = Current(xray).cfg]
    BY <1>2 DEF Healthy
  <2> HIDE DEF c
  <2>4. Up(y) /\ y.file = xray.file /\ y.cur = xray.cur /\ Current(y) = c
    BY <1>1, <2>1, <2>2, ChildChanged
  <2>5. xray' = [y EXCEPT !.promote = Current(xray).cfg]
    BY <1>1, <2>3 DEF Up, SupervisorState
  <2> HIDE DEF y
  <2>6. Current(xray).cfg \in MaybeConfig
    BY <2>1 DEF Proc
  <2>7. xray' \in SupervisorState
    BY <2>4, <2>5, <2>6 DEF Up, SupervisorState
  <2>8. /\ xray'.file = y.file /\ xray'.cur = y.cur /\ xray'.procs = y.procs
        /\ xray'.closed = y.closed /\ xray'.suspended = y.suspended
    BY <2>4, <2>5 DEF Up, SupervisorState
  <2>9. Up(xray')
    BY <2>4, <2>7, <2>8 DEF Up, One
  <2>10. SameChild(xray, xray')
    BY <2>1, <2>2, <2>4, <2>8 DEF SameChild, Running, Current
  <2> QED
    BY <1>1, <2>9, <2>10, AsideInv
<1>3. CASE Promote \/ Aged
  <2>1. xray' \in SupervisorState
    BY <1>1, <1>3 DEF Promote, Aged, Up, SupervisorState, MaybeConfig
  <2>2. /\ xray'.file = xray.file /\ xray'.cur = xray.cur /\ xray'.procs = xray.procs
        /\ xray'.closed = xray.closed /\ xray'.suspended = xray.suspended
    BY <1>1, <1>3 DEF Promote, Aged, Up, SupervisorState
  <2>3. Up(xray') /\ SameChild(xray, xray')
    BY <1>1, <2>1, <2>2, SameChildIfSame DEF Up, One
  <2> QED
    BY <1>1, <2>3, AsideInv
<1> QED
  BY <1>2, <1>3

(* All of them.                                                           *)
LEMMA ProcessInv == ASSUME IInv, Process PROVE IInv'
<1>1. UNCHANGED <<db, believed, kick, structural, configError, loop>>
  BY DEF Process
<1>2. CASE Recovers
  <2>1. PICK m \in Monitors :
          \/ Think(m) /\ UNCHANGED suspect
          \/ \E works \in Works : StartAgain(m, works) /\ Mark("midsync", MidSync)
          \/ \E works \in Works : RollBack(m, works) /\ Mark("reverted", ~Superseded)
    BY <1>2 DEF Recovers
  <2>2. Works \subseteq BOOLEAN
    BY DEF Works
  <2> QED
    BY <1>1, <2>1, <2>2, ThinkInv, StartAgainInv, RollBackInv
<1> QED
  BY <1>1, <1>2, ExitsInv, SettledInv DEF Process

(* The operator's restart reads the file, whatever a sync is doing.        *)
LEMMA RestartXrayInv == ASSUME IInv, RestartXray PROVE IInv'
<1>1. UNCHANGED <<monitor, db, believed, kick, structural, configError, loop>>
  BY DEF RestartXray
<1>2. Up(xray) /\ monitor' \in [Monitors -> Places]
  BY <1>1 DEF IInv, TypeOK, SupervisorTypeOK, Places
<1>3. PICK works \in Works : xray' = Restart(xray, works)
  BY DEF RestartXray
<1>4. works \in BOOLEAN
  BY DEF Works
<1>5. Up(xray') /\ FromFile(xray') /\ xray'.file = xray.file
  BY <1>2, <1>3, <1>4, RestartUp
<1> QED
  BY <1>1, <1>2, <1>5, AsideInv DEF RestartXray, Mark

(***************************************************************************)
(* Edits                                                                   *)
(***************************************************************************)

(* An edit leaves the supervisor, the loop and what has come between as    *)
(* they are.                                                               *)
Outside == UNCHANGED <<xray, monitor, configError, loop, suspect>>

(* Of an edit that leaves alone what is marked and what wakes the loop.    *)
LEMMA EditType ==
  ASSUME IInv, Outside, UNCHANGED <<applied, kick, structural>>,
         on' \subseteq Accounts, key' \in [Accounts -> 1..MaxKey], shape' \in Shapes,
         rekeyed' \in [Accounts -> 0..MaxEdits], rekeySeq' \in 0..MaxEdits, edits' \in 0..MaxEdits,
         editor' \in [at: {"idle", "mark", "pend", "kick"}, user: Accounts \union {NoUser}]
  PROVE  TypeOK' /\ Up(xray)'
  BY DEF IInv, TypeOK, SupervisorTypeOK, Outside, Up, One

(* An edit counts, and changes nothing that is marked already.             *)
LEMMA EditFits ==
  ASSUME IInv, Edit
  PROVE  /\ Outside /\ UNCHANGED <<applied, rekeyed, rekeySeq, kick, structural>>
         /\ editor.at = "idle" /\ edits' \in 0..MaxEdits /\ edits < edits'
         /\ rekeySeq <= edits /\ edits \in Nat /\ rekeySeq \in Nat
  BY UserSyncAssumption DEF IInv, TypeOK, NumbersFit, Edit, Outside, believed

(* A user is switched: the loop is about to be kicked.                     *)
LEMMA SwitchUserInv == ASSUME IInv, NEW u \in Accounts, SwitchUser(u) PROVE IInv'
<1>1. /\ Outside /\ UNCHANGED <<applied, rekeyed, rekeySeq, kick, structural, key, shape>>
      /\ editor.at = "idle" /\ editor' = [at |-> "kick", user |-> NoUser]
      /\ on' = (on \ {u}) \union ({u} \ on)
  BY EditFits DEF SwitchUser
<1>2. /\ editor'.at = "kick" /\ edits' \in 0..MaxEdits /\ edits < edits'
      /\ rekeySeq <= edits /\ edits \in Nat /\ rekeySeq \in Nat
  BY <1>1, EditFits DEF SwitchUser
<1>3. TypeOK' /\ Up(xray)'
  <2>1. editor' \in [at: {"idle", "mark", "pend", "kick"}, user: Accounts \union {NoUser}]
    BY <1>1
  <2> QED
    BY <1>1, <1>2, <2>1, EditType DEF IInv, TypeOK
<1>4. NumbersFit'
  BY <1>1, <1>2 DEF IInv, NumbersFit, Outside
<1>5. ReadFits'
  BY <1>1, <1>2 DEF IInv, ReadFits, Partly, Outside, HasShape, HasKeys, Coming, Reshaping, Late, Marking, At
<1>6. BelievedFits'
  BY <1>1, <1>2 DEF IInv, BelievedFits, Outside, Coming, At, Users
<1>7. FileFits'
  BY <1>1, <1>2 DEF IInv, FileFits, Outside, Clean, Renewing, Changing, AsRead, Late, Marking,
                    Pending, Reshaping, At, Generated, GeneratedFrom, Users
<1>8. ProcessFits'
  BY <1>1, <1>2 DEF IInv, ProcessFits, Outside, Renewing, HasKeys, AsRead, AsFile, Todo, Late,
                    Marking, Pending, Reshaping, At
<1> QED
  BY <1>3, <1>4, <1>5, <1>6, <1>7, <1>8 DEF IInv

(* A new key is about to be marked.                                        *)
LEMMA ResetKeyInv == ASSUME IInv, NEW u \in Accounts, ResetKey(u) PROVE IInv'
<1>1. /\ Outside /\ UNCHANGED <<applied, rekeyed, rekeySeq, kick, structural, on, shape>>
      /\ editor.at = "idle" /\ editor' = [at |-> "mark", user |-> u]
      /\ key' = [key EXCEPT ![u] = @ + 1] /\ key[u] < MaxKey
  BY EditFits DEF ResetKey
<1>2. /\ editor'.at = "mark" /\ editor'.user = u /\ edits' \in 0..MaxEdits /\ edits < edits'
      /\ rekeySeq <= edits /\ edits \in Nat /\ rekeySeq \in Nat
  BY <1>1, EditFits DEF ResetKey
<1>3. TypeOK' /\ Up(xray)'
  <2>1. editor' \in [at: {"idle", "mark", "pend", "kick"}, user: Accounts \union {NoUser}]
    BY <1>1
  <2>2. key' \in [Accounts -> 1..MaxKey]
    BY <1>1, SupervisorAssumption DEF IInv, TypeOK
  <2> QED
    BY <1>1, <1>2, <2>1, <2>2, EditType DEF IInv, TypeOK
<1>4. NumbersFit'
  BY <1>1, <1>2 DEF IInv, NumbersFit, Outside
<1>5. \A v \in Accounts : key'[v] = key[v] \/ Marking(v)'
  BY <1>1, <1>2 DEF IInv, TypeOK, Marking
<1>6. ReadFits'
  BY <1>1, <1>2, <1>5 DEF IInv, ReadFits, Partly, Outside, HasShape, HasKeys, Coming, Reshaping, Late,
                          Marking, At, Users
<1>7. BelievedFits'
  BY <1>1, <1>2 DEF IInv, BelievedFits, Outside, Coming, At, Users, WorkingIDsChanged
<1>8. FileFits'
  BY <1>1, <1>2, <1>5 DEF IInv, FileFits, Outside, Clean, Renewing, Changing, AsRead, Late, Marking,
                          Pending, Reshaping, At, Generated, GeneratedFrom, Users
<1>9. ProcessFits'
  BY <1>1, <1>2 DEF IInv, ProcessFits, Outside, Renewing, HasKeys, AsRead, AsFile, Todo, Late,
                    Marking, Pending, Reshaping, At
<1> QED
  BY <1>3, <1>4, <1>6, <1>7, <1>8, <1>9 DEF IInv

(* The mark carries a number the loop has not read.                        *)
LEMMA MarkRekeyedInv == ASSUME IInv, MarkRekeyed PROVE IInv'
<1> DEFINE u == editor.user
<1>1. /\ Outside /\ UNCHANGED <<applied, kick, structural, on, key, shape, edits>>
      /\ editor.at = "mark" /\ editor' = [at |-> "kick", user |-> NoUser]
      /\ rekeySeq' = rekeySeq + 1 /\ rekeyed' = [rekeyed EXCEPT ![u] = rekeySeq + 1]
  BY DEF MarkRekeyed, Outside
<1>2. /\ u \in Accounts /\ rekeySeq < edits /\ editor'.at = "kick" /\ loop.seq <= rekeySeq
      /\ \A v \in Accounts : rekeyed[v] <= rekeySeq
      /\ rekeySeq \in Nat /\ edits \in 0..MaxEdits /\ loop.seq \in Nat
      /\ rekeyed \in [Accounts -> 0..MaxEdits]
  BY <1>1, UserSyncAssumption DEF IInv, NumbersFit, TypeOK, LoopState
<1> HIDE DEF u
<1>3. TypeOK' /\ Up(xray)'
  <2>1. editor' \in [at: {"idle", "mark", "pend", "kick"}, user: Accounts \union {NoUser}]
    BY <1>1
  <2>2. rekeySeq + 1 \in 0..MaxEdits
    BY <1>2, UserSyncAssumption
  <2> QED
    BY <1>1, <1>2, <2>1, <2>2, EditType DEF IInv, TypeOK
<1>4. NumbersFit'
  BY <1>1, <1>2 DEF NumbersFit, Outside
<1>5. /\ rekeyed'[u] = rekeySeq + 1 /\ rekeyed'[u] > loop.seq /\ rekeyed'[u] # 0
      /\ \A v \in Accounts : v # u => rekeyed'[v] = rekeyed[v]
      /\ \A v \in Accounts : Marking(v) => v = u
  BY <1>1, <1>2 DEF Marking, u
<1>6. ReadFits'
  BY <1>1, <1>2, <1>5 DEF IInv, ReadFits, Partly, Outside, HasShape, HasKeys, Coming, Reshaping, Late,
                          Marking, At, Users
<1>7. BelievedFits'
  BY <1>1, <1>2, <1>5 DEF IInv, BelievedFits, Outside, Coming, At, Users
<1>8. \A v \in Accounts : /\ Late(v) => rekeyed'[v] > loop.seq
                          /\ Pending(v) => rekeyed'[v] # 0
  BY <1>2, <1>5 DEF Late, Pending
<1>9. FileFits'
  BY <1>1, <1>2, <1>8 DEF IInv, FileFits, Outside, Clean, Renewing, Changing, AsRead, Late,
                          Pending, Reshaping, At, Generated, GeneratedFrom, Users
<1>10. ProcessFits'
  BY <1>1, <1>2, <1>8 DEF IInv, ProcessFits, Outside, Renewing, HasKeys, AsRead, AsFile, Todo, Late,
                          Pending, Reshaping, At
<1> QED
  BY <1>3, <1>4, <1>6, <1>7, <1>9, <1>10 DEF IInv

(* A new shape is about to be flagged.                                     *)
LEMMA ChangeShapeInv == ASSUME IInv, ChangeShape PROVE IInv'
<1>1. /\ Outside /\ UNCHANGED <<applied, rekeyed, rekeySeq, kick, structural, on, key>>
      /\ editor.at = "idle" /\ editor' = [at |-> "pend", user |-> NoUser] /\ shape' \in Shapes
  BY EditFits DEF ChangeShape
<1>2. /\ editor'.at = "pend" /\ edits' \in 0..MaxEdits /\ edits < edits'
      /\ rekeySeq <= edits /\ edits \in Nat /\ rekeySeq \in Nat
  BY <1>1, EditFits DEF ChangeShape
<1>3. TypeOK' /\ Up(xray)'
  <2>1. editor' \in [at: {"idle", "mark", "pend", "kick"}, user: Accounts \union {NoUser}]
    BY <1>1
  <2> QED
    BY <1>1, <1>2, <2>1, EditType DEF IInv, TypeOK
<1>4. NumbersFit'
  BY <1>1, <1>2 DEF IInv, NumbersFit, Outside
<1>5. ReadFits'
  BY <1>1, <1>2 DEF IInv, ReadFits, Partly, Outside, HasShape, HasKeys, Coming, Reshaping, Late, Marking,
                    At, Users
<1>6. BelievedFits'
  BY <1>1, <1>2 DEF IInv, BelievedFits, Outside, Coming, At, Users, WorkingIDsChanged
<1>7. FileFits'
  BY <1>1, <1>2 DEF IInv, FileFits, Outside, Clean, Renewing, Changing, AsRead, Late, Marking,
                    Pending, Reshaping, At, Generated, GeneratedFrom, Users
<1>8. ProcessFits'
  BY <1>1, <1>2 DEF IInv, ProcessFits, Outside, Renewing, HasKeys, AsRead, AsFile, Todo, Late,
                    Marking, Pending, Reshaping, At
<1> QED
  BY <1>3, <1>4, <1>5, <1>6, <1>7, <1>8 DEF IInv

(* The flag, and the kick, take over what the request was about to do.     *)
LEMMA SignalInv ==
  ASSUME IInv, Outside, UNCHANGED <<applied, rekeyed, rekeySeq, on, key, shape, edits>>,
         kick' \in BOOLEAN, structural' \in BOOLEAN,
         editor' \in [at: {"idle", "kick"}, user: {NoUser}],
         editor.at # "mark", Reshaping => Reshaping', Coming => Coming'
  PROVE  IInv'
<1>1. \A u \in Accounts : ~Marking(u) /\ ~Marking(u)'
  BY DEF Marking
<1>2. TypeOK' /\ Up(xray)'
  BY DEF IInv, TypeOK, SupervisorTypeOK, Outside, Up, One
<1>3. NumbersFit'
  BY DEF IInv, NumbersFit, Outside
<1>4. ReadFits'
  BY <1>1 DEF IInv, ReadFits, Partly, Outside, HasShape, HasKeys, Late, At, Users
<1>5. BelievedFits'
  BY DEF IInv, BelievedFits, Outside, At, Users, WorkingIDsChanged
<1>6. FileFits'
  BY <1>1 DEF IInv, FileFits, Outside, Clean, Renewing, Changing, AsRead, Late,
              Pending, At, Generated, GeneratedFrom, Users
<1>7. ProcessFits'
  BY <1>1 DEF IInv, ProcessFits, Outside, Renewing, HasKeys, AsRead, AsFile, Todo, Late, Pending, At
<1> QED
  BY <1>2, <1>3, <1>4, <1>5, <1>6, <1>7 DEF IInv

(* Both signals: the flag before the kick, and the kick.                   *)
LEMMA SignalsInv == ASSUME IInv, TriggerReconcile \/ SignalReload PROVE IInv'
<1>1. CASE TriggerReconcile
  <2>1. /\ editor.at = "pend" /\ editor' = [at |-> "kick", user |-> NoUser]
        /\ kick' = kick /\ structural' = TRUE
        /\ Outside /\ UNCHANGED <<applied, rekeyed, rekeySeq, on, key, shape, edits>>
    BY <1>1 DEF TriggerReconcile, Outside, believed
  <2>2. editor'.at = "kick" /\ (Reshaping => Reshaping') /\ (Coming => Coming')
    BY <2>1 DEF Reshaping, Coming
  <2>3. kick' \in BOOLEAN /\ structural' \in BOOLEAN
    BY <2>1 DEF IInv, TypeOK
  <2> QED
    BY <2>1, <2>2, <2>3, SignalInv
<1>2. CASE SignalReload
  <2>1. /\ editor.at = "kick" /\ editor' = [at |-> "idle", user |-> NoUser]
        /\ structural' = structural /\ kick' = TRUE
        /\ Outside /\ UNCHANGED <<applied, rekeyed, rekeySeq, on, key, shape, edits>>
    BY <1>2 DEF SignalReload, Outside, believed
  <2>2. editor'.at = "idle" /\ (Reshaping => Reshaping') /\ (Coming => Coming')
    BY <2>1 DEF Reshaping, Coming
  <2>3. kick' \in BOOLEAN /\ structural' \in BOOLEAN
    BY <2>1 DEF IInv, TypeOK
  <2> QED
    BY <2>1, <2>2, <2>3, SignalInv
<1> QED
  BY <1>1, <1>2

(***************************************************************************)
(* The loop                                                                *)
(***************************************************************************)

Stops == {"idle", "debounce", "drained", "ids", "seq", "creds", "remove", "add", "write", "quic",
          "reconcile", "read", "apply"}

(* The loop keeps what it has read until it is idle again or reconciles.   *)
LEMMA GotoFits ==
  ASSUME TypeOK, NEW pc \in Stops, Goto(pc)
  PROVE  /\ loop' \in LoopState /\ loop'.at = pc
         /\ IF pc \in {"idle", "reconcile"} THEN loop'.seq = 0
            ELSE /\ loop'.seq = loop.seq /\ loop'.shape = loop.shape
                 /\ loop'.keys = loop.keys /\ loop'.added = loop.added
                 /\ loop'.removed = loop.removed
<1>1. loop \in LoopState
  BY DEF TypeOK
<1>2. CASE pc \in {"idle", "reconcile"}
  <2>1. 0 \in 0..MaxEdits /\ NoKeys \in [Accounts -> 0..MaxKey]
    BY UserSyncAssumption, SupervisorAssumption DEF NoKeys
  <2>2. loop' = [Idling EXCEPT !.at = pc]
    BY <1>2 DEF Goto
  <2> QED
    BY <1>2, <2>1, <2>2 DEF Idling, LoopState
<1>3. CASE pc \notin {"idle", "reconcile"}
  <2>1. loop' = [loop EXCEPT !.at = pc]
    BY <1>3 DEF Goto
  <2> QED
    BY <1>1, <1>3, <2>1 DEF LoopState, Stops
<1> QED
  BY <1>2, <1>3

(* A step of the loop that reads, or decides, and changes neither database *)
(* nor process.                                                            *)
LEMMA QuietType ==
  ASSUME IInv, UNCHANGED <<xray, monitor, on, key, shape, editor, edits, applied, rekeySeq>>,
         suspect' = suspect \/ suspect' = suspect \union {"unread"},
         loop' \in LoopState, rekeyed' \in [Accounts -> 0..MaxEdits],
         kick' \in BOOLEAN, structural' \in BOOLEAN, configError' \in BOOLEAN
  PROVE  TypeOK' /\ Up(xray)'
<1>1. suspect' \subseteq {"failed", "skipped", "midsync", "reverted", "unread"}
  BY DEF IInv, TypeOK
<1> QED
  BY <1>1 DEF IInv, TypeOK, SupervisorTypeOK, Up, One

(* A reconcile that cannot read leaves everything as it is.                *)
LEMMA GiveUpInv ==
  ASSUME IInv, UNCHANGED <<xray, monitor, db, believed, kick, structural>>, configError' \in BOOLEAN,
         GiveUp
  PROVE  IInv'
<1>1. /\ UNCHANGED <<xray, monitor, on, key, shape, editor, edits, applied, rekeyed, rekeySeq>>
      /\ loop' = Idling /\ suspect' = suspect \union {"unread"}
  BY DEF GiveUp, Unread, db, believed
<1>2. loop' \in LoopState /\ loop'.at = "idle" /\ loop'.seq = 0
  <2>1. 0 \in 0..MaxEdits /\ NoKeys \in [Accounts -> 0..MaxKey]
    BY UserSyncAssumption, SupervisorAssumption DEF NoKeys
  <2> QED
    BY <1>1, <2>1 DEF Idling, LoopState
<1>3. TypeOK' /\ Up(xray)'
  <2>1. rekeyed' \in [Accounts -> 0..MaxEdits] /\ kick' \in BOOLEAN /\ structural' \in BOOLEAN
    BY <1>1 DEF IInv, TypeOK
  <2> QED
    BY <1>1, <1>2, <2>1, QuietType
<1>4. NumbersFit'
  BY <1>1, <1>2 DEF IInv, NumbersFit, TypeOK
<1>5. ReadFits'
  BY <1>2 DEF ReadFits, Partly, HasShape, HasKeys, At
<1>6. BelievedFits' /\ FileFits' /\ ProcessFits'
  BY <1>1, <1>2 DEF BelievedFits, FileFits, ProcessFits, Clean, At
<1> QED
  BY <1>3, <1>4, <1>5, <1>6 DEF IInv

(* A sync that fails leaves everything to the reconcile.                   *)
LEMMA FallBackInv ==
  ASSUME IInv, UNCHANGED <<monitor, db, suspect, believed, kick, structural, configError>>,
         Up(xray)', xray'.file = xray.file, Goto("reconcile")
  PROVE  IInv'
<1>1. /\ UNCHANGED <<on, key, shape, editor, edits, applied, rekeyed, rekeySeq>>
  BY DEF db, believed
<1>2. loop' \in LoopState /\ loop'.at = "reconcile" /\ loop'.seq = 0
  BY GotoFits DEF IInv, Stops
<1>3. TypeOK'
  BY <1>1, <1>2 DEF IInv, TypeOK, SupervisorTypeOK, Up
<1>4. NumbersFit'
  BY <1>1, <1>2 DEF IInv, NumbersFit, TypeOK
<1>5. ReadFits' /\ BelievedFits' /\ ProcessFits'
  BY <1>2 DEF ReadFits, Partly, BelievedFits, ProcessFits, HasShape, HasKeys, Renewing, At
<1>6. FileFits'
  BY <1>1, <1>2 DEF IInv, FileFits, Clean, Renewing, Changing, At, Pending, Marking, Users
<1> QED
  BY <1>3, <1>4, <1>5, <1>6 DEF IInv

(* The loop wakes, waits and looks whether to reconcile: it has read       *)
(* nothing yet, so what it was told it will read.                          *)
LEMMA WakingInv == ASSUME IInv, Woken \/ Drain \/ Choose PROVE IInv'
<1>1. /\ UNCHANGED quiet /\ UNCHANGED <<applied, rekeyed, rekeySeq, configError>>
      /\ \/ /\ At("idle") /\ Goto("debounce") /\ structural' = structural /\ kick' = FALSE
         \/ /\ At("debounce") /\ Goto("drained") /\ structural' = structural /\ kick' = FALSE
         \/ /\ At("drained") /\ Goto("ids") /\ ~structural /\ structural' = FALSE /\ kick' = kick
         \/ /\ At("drained") /\ Goto("reconcile") /\ structural' = FALSE /\ kick' = kick
  <2>1. CASE Woken
    BY <2>1 DEF Woken, believed
  <2>2. CASE Drain
    BY <2>2 DEF Drain, believed
  <2>3. CASE Choose /\ structural
    BY <2>3 DEF Choose, believed
  <2>4. CASE Choose /\ ~structural
    BY <2>4 DEF Choose, believed
  <2> QED
    BY <2>1, <2>2, <2>3, <2>4
<1>2. PICK pc \in {"debounce", "drained", "ids", "reconcile"} :
        Goto(pc) /\ (pc = "reconcile" \/ structural' \/ ~structural)
  BY <1>1
<1>3. loop' \in LoopState /\ loop'.at = pc /\ loop'.seq <= rekeySeq
  BY <1>2, GotoFits DEF IInv, Stops, NumbersFit, TypeOK
<1>4. loop.at \in {"idle", "debounce", "drained"}
  BY <1>1 DEF At
<1>5. UNCHANGED <<xray, monitor, on, key, shape, editor, edits, suspect>>
  BY <1>1 DEF quiet, db
<1>6. TypeOK' /\ Up(xray)'
  <2>1. kick' \in BOOLEAN /\ structural' \in BOOLEAN
    BY <1>1 DEF IInv, TypeOK
  <2> QED
    BY <1>1, <1>3, <1>5, <2>1, QuietType DEF IInv, TypeOK
<1>7. NumbersFit'
  BY <1>1, <1>3, <1>5 DEF IInv, NumbersFit
<1>8. ReadFits' /\ BelievedFits'
  BY <1>1, <1>2, <1>3 DEF ReadFits, Partly, BelievedFits, HasShape, HasKeys, At
<1>9. FileFits'
  <2>1. pc # "reconcile" => (Reshaping => Reshaping')
    BY <1>1, <1>2, <1>3, <1>5 DEF Reshaping
  <2>2. ~Renewing /\ (Renewing' <=> pc = "reconcile") /\ ~Changing' /\ ~At("quic")'
    BY <1>2, <1>3, <1>4 DEF Renewing, Changing, At
  <2> QED
    BY <1>1, <1>5, <2>1, <2>2 DEF IInv, FileFits, Clean, Pending, Marking, Users
<1>10. ProcessFits'
  <2>1. pc # "reconcile" => (Reshaping => Reshaping')
    BY <1>1, <1>2, <1>3, <1>5 DEF Reshaping
  <2>2. /\ ~Renewing /\ (Renewing' <=> pc = "reconcile")
        /\ ~HasKeys /\ ~HasKeys' /\ ~At("quic")
    BY <1>2, <1>3, <1>4 DEF Renewing, HasKeys, At
  <2> QED
    BY <1>1, <1>5, <2>1, <2>2 DEF IInv, ProcessFits, AsFile, Pending, Marking
<1> QED
  BY <1>6, <1>7, <1>8, <1>9, <1>10 DEF IInv

(* The ids are compared: the sync ends here only if there is none to make. *)
LEMMA CheckIDsInv == ASSUME IInv, CheckIDs PROVE IInv'
<1>1. /\ UNCHANGED <<applied, rekeyed, rekeySeq, kick, structural, configError>>
      /\ UNCHANGED quiet /\ loop.at = "ids"
  BY DEF CheckIDs, believed, At
<1>2. PICK pc \in {"reconcile", "seq", "idle"} : Goto(pc) /\ (pc = "idle" => ~WorkingIDsChanged)
  BY DEF CheckIDs, SyncUnread
<1>3. /\ loop' \in LoopState /\ loop'.at = pc /\ loop'.seq <= rekeySeq
  BY <1>2, GotoFits DEF IInv, Stops, NumbersFit, TypeOK
<1>4. UNCHANGED <<xray, monitor, on, key, shape, editor, edits, suspect>>
  BY <1>1 DEF quiet, db
<1>5. TypeOK' /\ Up(xray)'
  BY <1>1, <1>3, <1>4, QuietType DEF IInv, TypeOK
<1>6. NumbersFit'
  BY <1>1, <1>3, <1>4 DEF IInv, NumbersFit
<1>7. ReadFits' /\ BelievedFits'
  BY <1>1, <1>2, <1>3, <1>4 DEF ReadFits, Partly, BelievedFits, HasShape, HasKeys, At, WorkingIDsChanged
<1>8. FileFits'
  BY <1>1, <1>3, <1>4 DEF IInv, FileFits, Clean, Renewing, Changing, Reshaping, At, Pending, Marking, Users
<1>9. ProcessFits'
  BY <1>1, <1>3, <1>4 DEF IInv, ProcessFits, Renewing, HasKeys, Reshaping, At, AsFile, Pending, Marking
<1> QED
  BY <1>5, <1>6, <1>7, <1>8, <1>9 DEF IInv

(* The number of the last rekey, and the settings, for a sync or for a     *)
(* reconcile.                                                              *)
LEMMA ReadSettingsInv == ASSUME IInv, RekeyedUpTo \/ BeginReconcile PROVE IInv'
<1>1. UNCHANGED <<xray, monitor, db, believed, kick, structural, configError>>
  BY DEF RekeyedUpTo, BeginReconcile, quiet
<1>2. UNCHANGED <<on, key, shape, editor, edits, applied, rekeyed, rekeySeq>> /\ shape \in Shapes
  BY <1>1 DEF db, believed, IInv, TypeOK
<1>3. CASE \E pc \in {"creds", "read"} :
             /\ loop' = [loop EXCEPT !.at = pc, !.seq = rekeySeq, !.shape = shape]
             /\ loop.at = IF pc = "read" THEN "reconcile" ELSE "seq"
             /\ suspect' = suspect
  <2>1. PICK pc \in {"creds", "read"} :
          /\ loop' = [loop EXCEPT !.at = pc, !.seq = rekeySeq, !.shape = shape]
          /\ loop.at = IF pc = "read" THEN "reconcile" ELSE "seq"
    BY <1>3
  <2>2. suspect' = suspect
    BY <1>3
  <2>3. /\ loop' \in LoopState /\ loop'.at = pc /\ loop'.seq = rekeySeq /\ loop'.shape = shape
    BY <1>2, <2>1 DEF IInv, TypeOK, LoopState
  <2>4. TypeOK' /\ Up(xray)'
    BY <1>1, <1>2, <2>2, <2>3, QuietType DEF IInv, TypeOK
  <2>5. NumbersFit' /\ \A u \in Accounts : rekeyed[u] <= rekeySeq
    BY <1>2, <2>3 DEF IInv, NumbersFit, TypeOK
  <2>6. ReadFits' /\ BelievedFits'
    BY <1>1, <1>2, <2>3, <2>5 DEF ReadFits, Partly, BelievedFits, HasShape, HasKeys, At
  <2>7. FileFits'
    BY <1>1, <1>2, <2>1, <2>2, <2>3
       DEF IInv, FileFits, Clean, Renewing, Changing, Reshaping, At, Pending, Marking, Users
  <2>8. ProcessFits'
    BY <1>1, <1>2, <2>1, <2>2, <2>3
       DEF IInv, ProcessFits, Renewing, HasKeys, Reshaping, At, AsFile, Pending, Marking
  <2> QED
    BY <2>4, <2>5, <2>6, <2>7, <2>8 DEF IInv
<1>4. CASE GiveUp
  <2>1. configError' \in BOOLEAN
    BY <1>1 DEF IInv, TypeOK
  <2> QED
    BY <1>1, <1>4, <2>1, GiveUpInv
<1>5. CASE SyncUnread /\ suspect' = suspect
  <2>1. Up(xray)' /\ xray'.file = xray.file
    BY <1>1 DEF IInv, Up, One
  <2> QED
    BY <1>1, <1>5, <2>1, FallBackInv DEF SyncUnread
<1> QED
  BY <1>3, <1>4, <1>5 DEF RekeyedUpTo, BeginReconcile, At, quiet

(* The working users, with their keys.                                     *)
LEMMA WorkingFits ==
  ASSUME TypeOK
  PROVE  /\ Working \in [Accounts -> 0..MaxKey] /\ Users(Working) = on
         /\ \A u \in Accounts : Working[u] = IF u \in on THEN key[u] ELSE 0
<1>1. on \subseteq Accounts /\ key \in [Accounts -> 1..MaxKey]
  BY DEF TypeOK
<1> QED
  BY <1>1, SupervisorAssumption DEF Working, Users

(* What a reconcile reads is what the database holds then.                 *)
LEMMA ReadCredentialsInv == ASSUME IInv, ReadCredentials PROVE IInv'
<1>1. UNCHANGED <<xray, monitor, db, believed, kick, structural>> /\ loop.at = "read"
  BY DEF ReadCredentials, At
<1>2. UNCHANGED <<on, key, shape, editor, edits, applied, rekeyed, rekeySeq>>
  BY <1>1 DEF db, believed
<1>3. CASE loop' = [loop EXCEPT !.at = "apply", !.keys = Working] /\ UNCHANGED <<configError, suspect>>
  <2>1. /\ Working \in [Accounts -> 0..MaxKey] /\ Users(Working) = on
        /\ \A u \in Accounts : Working[u] = IF u \in on THEN key[u] ELSE 0
    BY WorkingFits DEF IInv
  <2>2. /\ loop' \in LoopState /\ loop'.at = "apply" /\ loop'.keys = Working
        /\ loop'.seq = loop.seq /\ loop'.shape = loop.shape
    BY <1>3, <2>1 DEF IInv, TypeOK, LoopState
  <2>3. TypeOK' /\ Up(xray)'
    BY <1>1, <1>2, <1>3, <2>2, QuietType DEF IInv, TypeOK
  <2>4. NumbersFit'
    BY <1>2, <2>2 DEF IInv, NumbersFit
  <2>5. ReadFits' /\ BelievedFits'
    BY <1>1, <1>2, <2>1, <2>2
       DEF IInv, ReadFits, Partly, BelievedFits, HasShape, HasKeys, At, Coming, Reshaping, Users
  <2>6. FileFits'
    BY <1>1, <1>2, <1>3, <2>2 DEF IInv, FileFits, Clean, Renewing, Changing, At, Pending, Marking, Users
  <2>7. ProcessFits'
    BY <2>2 DEF ProcessFits, Renewing
  <2> QED
    BY <2>3, <2>4, <2>5, <2>6, <2>7 DEF IInv
<1>4. CASE GiveUp /\ configError' \in {configError, TRUE}
  <2>1. configError' \in BOOLEAN
    BY <1>4 DEF IInv, TypeOK
  <2> QED
    BY <1>1, <1>4, <2>1, GiveUpInv
<1> QED
  BY <1>3, <1>4 DEF ReadCredentials

(* The users who go and who come: all whom the process may hold other than *)
(* read, but for keys that have changed since.                             *)
LEMMA DiffInv == ASSUME IInv, Diff PROVE IInv'
<1> DEFINE rekeys == {u \in applied \intersect on : rekeyed[u] \in 1..loop.seq}
           added == (on \ applied) \union rekeys
           removed == (applied \ on) \union rekeys
<1>1. /\ UNCHANGED <<xray, monitor, db, applied, rekeySeq, kick, structural, configError>>
      /\ loop.at = "creds"
      /\ \/ /\ added \union removed = {} /\ ClearRekeyed(loop.seq) /\ Goto("idle")
            /\ suspect' = suspect
         \/ /\ rekeyed' = rekeyed
            /\ \E s \in OptionsRead :
                 /\ loop' = [loop EXCEPT !.at = "remove", !.shape = s, !.keys = Working,
                                         !.added = added, !.removed = removed]
                 /\ Unread(s = loop.shape)
         \/ SyncUnread /\ rekeyed' = rekeyed /\ suspect' = suspect
  BY DEF Diff, believed, At
<1>2. UNCHANGED <<on, key, shape, editor, edits, rekeySeq>>
  BY <1>1 DEF db
<1>3. /\ on \subseteq Accounts /\ applied \subseteq Accounts
      /\ rekeyed \in [Accounts -> 0..MaxEdits] /\ loop \in LoopState /\ loop.seq \in 0..MaxEdits
      /\ loop.seq <= rekeySeq /\ rekeySeq \in 0..MaxEdits
  BY DEF IInv, TypeOK, NumbersFit, LoopState
<1>4. \A u \in applied \intersect on : u \in rekeys <=> rekeyed[u] # 0 /\ rekeyed[u] <= loop.seq
  BY <1>3, UserSyncAssumption
<1>5. /\ \A u \in Accounts : u \in added \union removed \/ (u \in on <=> u \in applied)
      /\ \A u \in Accounts : u \in removed \ added => u \notin on
      /\ \A u \in applied \intersect on : u \in added <=> u \in rekeys
      /\ \A u \in applied \intersect on : u \in removed <=> u \in rekeys
      /\ added \subseteq Accounts /\ removed \subseteq Accounts
  BY <1>3
<1> HIDE DEF rekeys, added, removed
<1>6. \A u \in Accounts : rekeyed[u] <= loop.seq \/ Coming
  BY <1>1 DEF IInv, ReadFits, Partly, HasShape
<1>7. Coming' = Coming /\ Reshaping' = Reshaping /\ \A u : Marking(u)' = Marking(u)
  BY <1>1, <1>2 DEF Coming, Reshaping, Marking
<1>8. CASE /\ added \union removed = {} /\ ClearRekeyed(loop.seq) /\ Goto("idle")
           /\ suspect' = suspect
  <2>1. loop' \in LoopState /\ loop'.at = "idle" /\ loop'.seq = 0
    BY <1>8, GotoFits DEF IInv, Stops
  <2>2. /\ rekeyed' \in [Accounts -> 0..MaxEdits]
        /\ \A u \in Accounts : rekeyed'[u] = IF rekeyed[u] <= loop.seq THEN 0 ELSE rekeyed[u]
    BY <1>3, <1>8, UserSyncAssumption DEF ClearRekeyed
  <2>3. on = applied
    BY <1>3, <1>5, <1>8
  <2>4. \A u \in applied : rekeyed'[u] = rekeyed[u]
    BY <1>3, <1>4, <1>5, <1>8, <2>2, <2>3
  <2>5. TypeOK' /\ Up(xray)'
    BY <1>1, <1>2, <1>8, <2>1, <2>2, QuietType DEF IInv, TypeOK
  <2>6. NumbersFit'
    BY <1>2, <1>3, <2>1, <2>2 DEF IInv, NumbersFit
  <2>7. ReadFits'
    BY <2>1 DEF ReadFits, Partly, HasShape, HasKeys, At
  <2>8. BelievedFits'
    <3>1. \A u \in Accounts : rekeyed'[u] = 0 \/ Coming
      BY <1>6, <2>2
    <3> QED
      BY <1>1, <1>2, <1>7, <1>8, <2>1, <2>3, <3>1 DEF BelievedFits, WorkingIDsChanged, At
  <2>9. FileFits'
    BY <1>1, <1>2, <1>3, <1>7, <1>8, <2>1, <2>4
       DEF IInv, FileFits, Clean, Renewing, Changing, At, Pending, Users
  <2>10. ProcessFits'
    BY <1>1, <1>2, <1>3, <1>7, <1>8, <2>1, <2>4
       DEF IInv, ProcessFits, Renewing, HasKeys, At, AsFile, Pending
  <2> QED
    BY <2>5, <2>6, <2>7, <2>8, <2>9, <2>10 DEF IInv
<1>9. CASE /\ rekeyed' = rekeyed
           /\ \E s \in OptionsRead :
                /\ loop' = [loop EXCEPT !.at = "remove", !.shape = s, !.keys = Working,
                                        !.added = added, !.removed = removed]
                /\ Unread(s = loop.shape)
  <2>1. PICK s \in OptionsRead :
          /\ loop' = [loop EXCEPT !.at = "remove", !.shape = s, !.keys = Working,
                                  !.added = added, !.removed = removed]
          /\ Unread(s = loop.shape)
    BY <1>9
  <2>2. /\ IF s = loop.shape THEN suspect' = suspect ELSE suspect' = suspect \union {"unread"}
    BY <2>1 DEF Unread
  <2>3. s \in Shapes /\ (loop.shape = shape \/ Reshaping)
    <3>1. loop.shape \in Shapes /\ (loop.shape = shape \/ Reshaping)
      BY <1>1 DEF IInv, ReadFits, Partly, HasShape
    <3> QED
      BY <3>1, SupervisorAssumption DEF OptionsRead
  <2>4. /\ Working \in [Accounts -> 0..MaxKey] /\ Users(Working) = on
        /\ \A u \in Accounts : Working[u] = IF u \in on THEN key[u] ELSE 0
    BY WorkingFits DEF IInv
  <2>5. /\ loop' \in LoopState /\ loop'.at = "remove" /\ loop'.keys = Working
        /\ loop'.seq = loop.seq /\ loop'.shape = s
        /\ loop'.added = added /\ loop'.removed = removed
    BY <1>3, <1>5, <2>1, <2>3, <2>4 DEF LoopState
  <2>6. \A u \in Accounts : Pending(u)' = Pending(u) /\ Late(u)' = Late(u)
    BY <1>7, <1>9, <2>5 DEF Pending, Late
  <2>7. TypeOK' /\ Up(xray)'
    BY <1>1, <1>2, <1>9, <2>2, <2>5, QuietType DEF IInv, TypeOK
  <2>8. NumbersFit'
    BY <1>1, <1>2, <1>9, <2>5 DEF IInv, NumbersFit
  <2>9. ReadFits'
    <3>1. s = shape \/ Reshaping \/ "unread" \in suspect'
      BY <2>2, <2>3
    <3> QED
      BY <1>2, <1>5, <1>6, <1>7, <1>9, <2>4, <2>5, <2>3, <3>1 DEF ReadFits, Partly, HasShape, HasKeys, At, Users
  <2>10. BelievedFits'
    BY <2>5 DEF BelievedFits, At
  <2>11. \A u \in Accounts : u \notin added \union removed /\ Pending(u) /\ u \in applied => Late(u)
    BY <1>3, <1>4, <1>5 DEF Pending, Late
  <2>12. /\ \A u \in Accounts : u \notin added \union removed => (u \in applied <=> u \in on)
        /\ \A u \in on : key[u] # 0
    BY <1>3, <1>5, SupervisorAssumption DEF IInv, TypeOK
  <2>13. FileFits'
    <3> SUFFICES ASSUME Clean' PROVE FileFits'
      BY DEF FileFits
    <3>1. Clean /\ loop.at = "creds"
      BY <1>1, <2>2 DEF Clean
    <3>2. /\ applied = Users(KeysOf(xray.file))
          /\ \A u \in applied : KeysOf(xray.file)[u] = key[u] \/ Pending(u)
          /\ xray.file # NoConfig /\ (xray.file.shape = shape \/ Reshaping)
      BY <3>1 DEF IInv, FileFits, Renewing
    <3>3. \A u \in Accounts : \/ u \in added \union removed
                              \/ KeysOf(xray.file)[u] = Working[u]
                              \/ Working[u] # 0 /\ Late(u)
      BY <2>4, <2>11, <2>12, <3>2 DEF Users
    <3>4. AsRead(KeysOf(xray.file), loop.added \union loop.removed)'
      BY <1>1, <1>2, <2>5, <2>6, <3>3 DEF AsRead
    <3> QED
      BY <1>1, <1>2, <1>7, <2>5, <2>6, <3>2, <3>4 DEF FileFits, At, Users
  <2>14. ProcessFits'
    <3> SUFFICES ASSUME suspect = {}, Running(xray) PROVE ProcessFits'
      BY <1>1, <2>2 DEF ProcessFits
    <3>1. /\ applied = Users(KeysOf(xray.file))
          /\ \A u \in applied : KeysOf(xray.file)[u] = key[u] \/ Pending(u)
      BY DEF IInv, FileFits, Clean
    <3>2. /\ Current(xray).shape = xray.file.shape \/ Reshaping
          /\ Current(xray).quic = KeysOf(xray.file)
          /\ AsFile(Current(xray).keys)
      BY <1>1 DEF IInv, ProcessFits, Renewing, HasKeys, At
    <3>3. \A u \in Accounts : \/ u \in added \union removed
                              \/ Current(xray).keys[u] = Working[u]
                              \/ Working[u] # 0 /\ Late(u)
      BY <2>4, <2>11, <2>12, <3>1, <3>2 DEF Users, AsFile
    <3>4. AsRead(Current(xray).keys, Todo)'
      BY <1>1, <1>2, <2>5, <2>6, <3>3 DEF AsRead, Todo, At
    <3> QED
      BY <1>1, <1>2, <1>7, <2>5, <3>2, <3>4 DEF ProcessFits, HasKeys
  <2> QED
    BY <2>7, <2>8, <2>9, <2>10, <2>13, <2>14 DEF IInv
<1>10. CASE SyncUnread /\ rekeyed' = rekeyed /\ suspect' = suspect
  <2>1. Up(xray)' /\ xray'.file = xray.file
    BY <1>1 DEF IInv, Up, One
  <2> QED
    BY <1>1, <1>10, <2>1, FallBackInv DEF SyncUnread, believed
<1> QED
  BY <1>1, <1>8, <1>9, <1>10

(***************************************************************************)
(* The changes to the process                                              *)
(***************************************************************************)

(* A call to the API changes the keys of some users, and nothing else.     *)
LEMMA SetKeysFits ==
  ASSUME Up(xray), Running(xray), NEW done, NEW keys \in [Accounts -> 0..MaxKey], SetKeys(done, keys)
  PROVE  /\ Up(xray)' /\ Running(xray)' /\ xray'.file = xray.file
         /\ Current(xray)'.shape = Current(xray).shape /\ Current(xray)'.quic = Current(xray).quic
         /\ \A u \in Accounts :
              Current(xray)'.keys[u] = IF u \in done THEN keys[u] ELSE Current(xray).keys[u]
<1> DEFINE old == Current(xray)
           new == [u \in Accounts |-> IF u \in done THEN keys[u] ELSE old.keys[u]]
           c == [old EXCEPT !.keys = new]
<1>1. old \in Proc
  BY CurrentType
<1>2. new \in [Accounts -> 0..MaxKey]
  BY <1>1 DEF Proc
<1>3. xray' = [xray EXCEPT !.procs[xray.cur] = c]
  BY DEF SetKeys, Current
<1> HIDE DEF new
<1>4. c \in Proc /\ c.keys = new /\ c.shape = old.shape /\ c.quic = old.quic
  BY <1>1, <1>2 DEF Proc
<1> HIDE DEF c, old
<1>5. Up(xray') /\ xray'.file = xray.file /\ xray'.cur = xray.cur /\ Current(xray') = c
  BY <1>3, <1>4, ChildChanged
<1>6. \A u \in Accounts : new[u] = IF u \in done THEN keys[u] ELSE old.keys[u]
  BY DEF new
<1> QED
  BY <1>4, <1>5, <1>6 DEF Running, old

(* A sync that goes on: the keys of those it still has to deal with are    *)
(* all that may be other than read.                                        *)
LEMMA GoOnInv ==
  ASSUME IInv, UNCHANGED <<monitor, db, suspect, believed, kick, structural, configError>>,
         Up(xray)', xray'.file = xray.file, Running(xray)' => Running(xray),
         Running(xray) => /\ Current(xray)'.shape = Current(xray).shape
                          /\ Current(xray)'.quic = Current(xray).quic,
         \/ At("remove") /\ Goto("add")
         \/ At("add") /\ Goto("write"),
         suspect = {} /\ Running(xray) => AsRead(Current(xray).keys, Todo)'
  PROVE  IInv'
<1>1. UNCHANGED <<on, key, shape, editor, edits, applied, rekeyed, rekeySeq>>
  BY DEF db, believed
<1>2. PICK pc \in {"add", "write"} :
        /\ Goto(pc) /\ loop.at \in {"remove", "add"} /\ (pc = "add" => loop.at = "remove")
  BY DEF At
<1>3. /\ loop' \in LoopState /\ loop'.at = pc /\ loop'.seq = loop.seq /\ loop'.shape = loop.shape
      /\ loop'.keys = loop.keys /\ loop'.added = loop.added /\ loop'.removed = loop.removed
  BY <1>2, GotoFits DEF IInv, Stops
<1>4. TypeOK'
  BY <1>1, <1>3 DEF IInv, TypeOK, SupervisorTypeOK, Up
<1>5. NumbersFit'
  BY <1>1, <1>3 DEF IInv, NumbersFit
<1>6. ReadFits'
  BY <1>1, <1>2, <1>3 DEF IInv, ReadFits, Partly, HasShape, HasKeys, At, Coming, Reshaping, Late, Marking, Users
<1>7. BelievedFits'
  BY <1>2, <1>3 DEF BelievedFits, At
<1>8. FileFits'
  BY <1>1, <1>2, <1>3 DEF IInv, FileFits, Clean, Renewing, Changing, At, AsRead, Late, Pending,
                          Marking, Reshaping, Users
<1>9. ProcessFits'
  BY <1>1, <1>2, <1>3 DEF IInv, ProcessFits, Renewing, HasKeys, At, Reshaping
<1> QED
  BY <1>4, <1>5, <1>6, <1>7, <1>8, <1>9 DEF IInv

(* What a sync in the middle knows.                                        *)
LEMMA SyncFits ==
  ASSUME IInv, At("remove") \/ At("add")
  PROVE  /\ Up(xray) /\ loop.keys \in [Accounts -> 0..MaxKey] /\ NoKeys \in [Accounts -> 0..MaxKey]
         /\ \A u \in loop.removed \ loop.added : loop.keys[u] = 0
         /\ loop.added \subseteq Accounts /\ loop.removed \subseteq Accounts
         /\ suspect = {} /\ Running(xray) => AsRead(Current(xray).keys, Todo)
<1>1. ~Renewing /\ HasKeys
  BY DEF Renewing, HasKeys, At
<1> QED
  BY <1>1, SupervisorAssumption DEF IInv, TypeOK, LoopState, ReadFits, Partly, ProcessFits, NoKeys

(* Those who go are gone.                                                  *)
LEMMA RemoveUsersInv == ASSUME IInv, RemoveUsers PROVE IInv'
<1>1. At("remove") /\ UNCHANGED <<monitor, db, suspect, believed, kick, structural, configError>>
  BY DEF RemoveUsers
<1>2. /\ Up(xray) /\ loop.keys \in [Accounts -> 0..MaxKey] /\ NoKeys \in [Accounts -> 0..MaxKey]
      /\ \A u \in loop.removed \ loop.added : loop.keys[u] = 0
      /\ suspect = {} /\ Running(xray) => AsRead(Current(xray).keys, Todo)
  BY <1>1, SyncFits
<1>3. CASE loop.removed = {} /\ UNCHANGED xray /\ Goto("add")
  <2>1. /\ loop'.at = "add" /\ loop'.seq = loop.seq /\ loop'.keys = loop.keys
        /\ loop'.added = loop.added
    BY <1>3, GotoFits DEF IInv, Stops
  <2>2. suspect = {} /\ Running(xray) => AsRead(Current(xray).keys, Todo)'
    BY <1>1, <1>2, <1>3, <2>1 DEF AsRead, Todo, At, Late, Marking, db, believed
  <2> QED
    BY <1>1, <1>2, <1>3, <2>2, GoOnInv
<1>4. CASE Running(xray) /\ SetKeys(loop.removed, NoKeys) /\ Goto("add")
  <2>1. /\ loop'.at = "add" /\ loop'.seq = loop.seq /\ loop'.keys = loop.keys
        /\ loop'.added = loop.added
    BY <1>4, GotoFits DEF IInv, Stops
  <2>2. /\ Up(xray)' /\ Running(xray)' /\ xray'.file = xray.file
        /\ Current(xray)'.shape = Current(xray).shape /\ Current(xray)'.quic = Current(xray).quic
        /\ \A u \in Accounts : Current(xray)'.keys[u] =
             IF u \in loop.removed THEN NoKeys[u] ELSE Current(xray).keys[u]
    BY <1>2, <1>4, SetKeysFits
  <2>3. \A u \in Accounts : NoKeys[u] = 0
    BY DEF NoKeys
  <2>4. suspect = {} => AsRead(Current(xray).keys, Todo)'
    <3> SUFFICES ASSUME suspect = {}, NEW u \in Accounts, u \notin loop.added
                 PROVE  Current(xray)'.keys[u] = loop.keys[u] \/ (loop.keys[u] # 0 /\ Late(u)')
      BY <2>1 DEF AsRead, Todo, At
    <3>1. CASE u \in loop.removed
      BY <1>2, <2>2, <2>3, <3>1
    <3>2. CASE u \notin loop.removed
      <4>1. Current(xray)'.keys[u] = Current(xray).keys[u]
        BY <2>2, <3>2
      <4>2. Late(u)' = Late(u)
        BY <1>1, <2>1 DEF Late, Marking, db, believed
      <4> QED
        BY <1>1, <1>2, <1>4, <3>2, <4>1, <4>2 DEF AsRead, Todo
    <3> QED
      BY <3>1, <3>2
  <2> QED
    BY <1>1, <1>4, <2>2, <2>4, GoOnInv
<1>5. CASE Goto("reconcile")
  <2>1. CASE xray' = xray
    BY <1>1, <1>2, <1>5, <2>1, FallBackInv
  <2>2. CASE Running(xray) /\ \E done \in SUBSET loop.removed : SetKeys(done, NoKeys)
    BY <1>1, <1>2, <1>5, <2>2, SetKeysFits, FallBackInv
  <2>3. CASE loop.removed = {} /\ Goto("add")
    BY <1>5, <2>3, GotoFits DEF IInv, Stops
  <2>4. CASE SetKeys(loop.removed, NoKeys) /\ Goto("add")
    BY <1>5, <2>4, GotoFits DEF IInv, Stops
  <2> QED
    BY <1>5, <2>1, <2>2, <2>3, <2>4 DEF RemoveUsers
<1> QED
  BY <1>3, <1>4, <1>5 DEF RemoveUsers

(* Those who come are there.                                               *)
LEMMA AddUsersInv == ASSUME IInv, AddUsers PROVE IInv'
<1> DEFINE free == {u \in loop.added : Running(xray) /\ Current(xray).keys[u] = 0}
<1>1. At("add") /\ UNCHANGED <<monitor, db, suspect, believed, kick, structural, configError>>
  BY DEF AddUsers
<1>2. \/ /\ loop.added = free /\ Goto("write")
         /\ IF free = {} THEN UNCHANGED xray ELSE SetKeys(free, loop.keys)
      \/ /\ Running(xray) /\ Goto("reconcile")
         /\ \E done \in SUBSET free : SetKeys(done, loop.keys)
      \/ Goto("reconcile") /\ UNCHANGED xray
  BY DEF AddUsers
<1>3. free # {} => Running(xray)
  OBVIOUS
<1> HIDE DEF free
<1>4. /\ Up(xray) /\ loop.keys \in [Accounts -> 0..MaxKey]
      /\ suspect = {} /\ Running(xray) => AsRead(Current(xray).keys, loop.added)
  <2>1. Todo = loop.added
    BY <1>1 DEF Todo, At
  <2> QED
    BY <1>1, <2>1, SyncFits
<1>5. CASE loop.added = free /\ Goto("write") /\ (IF free = {} THEN UNCHANGED xray ELSE SetKeys(free, loop.keys))
  <2>1. /\ loop'.at = "write" /\ loop'.seq = loop.seq /\ loop'.keys = loop.keys
    BY <1>5, GotoFits DEF IInv, Stops
  <2>2. /\ Up(xray)' /\ xray'.file = xray.file /\ Running(xray)' = Running(xray)
        /\ Running(xray) =>
             /\ Current(xray)'.shape = Current(xray).shape /\ Current(xray)'.quic = Current(xray).quic
             /\ \A u \in Accounts : Current(xray)'.keys[u] =
                  IF u \in loop.added THEN loop.keys[u] ELSE Current(xray).keys[u]
    <3>1. CASE free = {}
      BY <1>4, <1>5, <3>1
    <3>2. CASE free # {}
      BY <1>3, <1>4, <1>5, <3>2, SetKeysFits
    <3> QED
      BY <3>1, <3>2
  <2>3. \A u \in Accounts : Late(u)' = Late(u)
    BY <1>1, <2>1 DEF Late, Marking, db, believed
  <2>4. suspect = {} /\ Running(xray) => AsRead(Current(xray).keys, Todo)'
    BY <1>4, <2>1, <2>2, <2>3 DEF AsRead
  <2> QED
    BY <1>1, <1>5, <2>2, <2>4, GoOnInv
<1>6. CASE Goto("reconcile") /\ (UNCHANGED xray \/ (Running(xray) /\ \E done \in SUBSET free : SetKeys(done, loop.keys)))
  BY <1>1, <1>4, <1>6, SetKeysFits, FallBackInv
<1> QED
  BY <1>2, <1>5, <1>6

(* What the loop has generated is a config, of the shape of the settings   *)
(* unless the sync has not read them all.                                  *)
LEMMA GeneratedType ==
  ASSUME IInv, At("write") \/ At("quic") \/ At("apply")
  PROVE  /\ Generated \in Config /\ Generated # NoConfig /\ KeysOf(Generated) = loop.keys
         /\ Generated.shape = loop.shape /\ (loop.shape = shape \/ Reshaping \/ Partly)
<1>1. /\ loop.shape \in Shapes /\ loop.keys \in [Accounts -> 0..MaxKey]
      /\ (loop.shape = shape \/ Reshaping \/ Partly)
  BY DEF IInv, ReadFits, HasShape, At, TypeOK, LoopState
<1> QED
  BY <1>1, SupervisorAssumption DEF Generated, GeneratedFrom, Config, KeysOf

(* Whom the loop has read is believed to be in, and of the rekeys those it *)
(* has not read are left.                                                  *)
LEMMA SetAppliedFits ==
  ASSUME IInv, HasKeys, SetApplied(loop.keys, loop.seq)
  PROVE  /\ applied' = Users(loop.keys) /\ applied' \subseteq Accounts /\ rekeySeq' = rekeySeq
         /\ rekeyed' \in [Accounts -> 0..MaxEdits]
         /\ \A u \in Accounts : /\ rekeyed'[u] = 0 \/ (rekeyed'[u] > loop.seq /\ Coming)
                                /\ rekeyed'[u] <= rekeySeq
                                /\ rekeyed[u] > loop.seq => rekeyed'[u] = rekeyed[u] /\ rekeyed'[u] # 0
         /\ (on = Users(loop.keys) \/ Coming)
         /\ \A u \in Accounts : loop.keys[u] = 0 \/ loop.keys[u] = key[u] \/ Late(u)
<1>1. /\ rekeyed \in [Accounts -> 0..MaxEdits] /\ loop.seq \in 0..MaxEdits /\ rekeySeq \in 0..MaxEdits
      /\ \A u \in Accounts : rekeyed[u] <= rekeySeq
  BY DEF IInv, TypeOK, NumbersFit, LoopState
<1>2. /\ rekeyed' = [u \in Accounts |-> IF rekeyed[u] <= loop.seq THEN 0 ELSE rekeyed[u]]
      /\ applied' = Users(loop.keys) /\ rekeySeq' = rekeySeq
  BY DEF SetApplied, ClearRekeyed
<1>3. \A u \in Accounts : rekeyed[u] <= loop.seq \/ Coming
  BY DEF IInv, ReadFits, Partly, HasKeys, HasShape
<1>4. /\ (on = Users(loop.keys) \/ Coming)
      /\ \A u \in Accounts : loop.keys[u] = 0 \/ loop.keys[u] = key[u] \/ Late(u)
  BY DEF IInv, ReadFits, Partly
<1> QED
  BY <1>1, <1>2, <1>3, <1>4, UserSyncAssumption DEF Users

(* The file is as read, and the process too, unless a call to it failed.   *)
LEMMA WrittenInv ==
  ASSUME IInv, UNCHANGED <<monitor, db, suspect, kick, structural, configError>>,
         At("write"), xray' = WriteConfig(xray, Generated), SetApplied(loop.keys, loop.seq),
         NEW pc \in {"quic", "reconcile"}, Goto(pc)
  PROVE  IInv'
<1>1. UNCHANGED <<on, key, shape, editor, edits>>
  BY DEF db
<1>2. /\ loop' \in LoopState /\ loop'.at = pc /\ loop'.seq <= rekeySeq
      /\ pc = "quic" => /\ loop'.seq = loop.seq /\ loop'.shape = loop.shape
                        /\ loop'.keys = loop.keys
  BY GotoFits DEF IInv, Stops, NumbersFit, TypeOK
<1>3. /\ Generated \in Config /\ Generated # NoConfig /\ KeysOf(Generated) = loop.keys
      /\ Generated.shape = loop.shape /\ (loop.shape = shape \/ Reshaping \/ Partly)
  BY GeneratedType
<1>4. /\ HasKeys /\ HasShape /\ ~Renewing /\ Changing /\ ~At("quic") /\ Todo = {}
  BY DEF At, HasKeys, HasShape, Renewing, Changing, Todo
<1>5. /\ applied' = Users(loop.keys) /\ applied' \subseteq Accounts /\ rekeySeq' = rekeySeq
      /\ rekeyed' \in [Accounts -> 0..MaxEdits]
      /\ \A u \in Accounts : /\ rekeyed'[u] = 0 \/ (rekeyed'[u] > loop.seq /\ Coming)
                             /\ rekeyed'[u] <= rekeySeq
                             /\ rekeyed[u] > loop.seq => rekeyed'[u] = rekeyed[u] /\ rekeyed'[u] # 0
      /\ (on = Users(loop.keys) \/ Coming)
      /\ \A u \in Accounts : loop.keys[u] = 0 \/ loop.keys[u] = key[u] \/ Late(u)
  BY <1>4, SetAppliedFits
<1>6. /\ Up(xray') /\ xray'.file = Generated /\ xray'.procs = xray.procs /\ xray'.cur = xray.cur
  BY <1>3, WriteConfigUp DEF IInv
<1>7. Coming' = Coming /\ Reshaping' = Reshaping /\ \A u \in Accounts : Marking(u)' = Marking(u)
  BY <1>1 DEF Coming, Reshaping, Marking
<1>8. \A u \in Accounts : Late(u) => Pending(u)'
  <2>1. \A u \in Accounts : rekeyed[u] > loop.seq => rekeyed'[u] # 0
    BY <1>5
  <2> QED
    BY <1>7, <2>1 DEF Late, Pending
<1>9. TypeOK'
  BY <1>1, <1>2, <1>5, <1>6 DEF IInv, TypeOK, SupervisorTypeOK, Up
<1>10. NumbersFit'
  BY <1>1, <1>2, <1>5 DEF IInv, NumbersFit
<1>11. CASE pc = "reconcile"
  <2>1. ReadFits' /\ BelievedFits' /\ ProcessFits'
    BY <1>2, <1>11 DEF ReadFits, BelievedFits, ProcessFits, HasShape, HasKeys, Renewing, At
  <2>2. FileFits'
    <3>1. /\ KeysOf(xray.file)' = loop.keys /\ applied' = Users(KeysOf(xray.file))'
          /\ \A u \in applied' : KeysOf(xray.file)'[u] = key[u] \/ Pending(u)'
      BY <1>3, <1>5, <1>6, <1>8 DEF Users, KeysOf
    <3> QED
      BY <1>1, <1>2, <1>11, <3>1 DEF FileFits, Renewing, Changing, At
  <2> QED
    BY <1>6, <1>9, <1>10, <2>1, <2>2 DEF IInv
<1>12. CASE pc = "quic"
  <2>1. \A u \in Accounts : Late(u) => Late(u)'
    BY <1>2, <1>5, <1>7, <1>12 DEF Late
  <2>2. ReadFits'
    <3>1. loop.shape \in Shapes /\ 0 <= loop.seq
      BY <1>4, UserSyncAssumption DEF IInv, ReadFits, TypeOK, LoopState
    <3>2. \A u \in Accounts : rekeyed'[u] <= loop.seq \/ Coming
      BY <1>5, <3>1
    <3>3. on = Users(loop.keys) \/ Coming
      BY <1>5
    <3>4. \A u \in Accounts : loop.keys[u] = 0 \/ loop.keys[u] = key[u] \/ Late(u)'
      BY <1>5, <2>1
    <3>5. loop.shape = shape \/ Reshaping \/ Partly'
      BY <1>2, <1>3, <1>12 DEF Partly
    <3> QED
      BY <1>1, <1>2, <1>7, <1>12, <3>1, <3>2, <3>3, <3>4, <3>5 DEF ReadFits, At, Users
  <2>3. BelievedFits'
    BY <1>2, <1>5, <1>12 DEF BelievedFits, At, Users
  <2>4. Generated' = Generated
    BY <1>2, <1>12 DEF Generated, GeneratedFrom
  <2>5. FileFits'
    <3> SUFFICES ASSUME Clean' PROVE FileFits'
      BY DEF FileFits
    <3>1. loop.shape = shape \/ Reshaping
      BY <1>3 DEF Clean, Partly
    <3> QED
      BY <1>1, <1>2, <1>3, <1>5, <1>6, <1>7, <1>8, <1>12, <2>4, <3>1 DEF FileFits, Changing, At, Users
  <2>6. ProcessFits'
    <3> SUFFICES ASSUME suspect = {}, Running(xray) PROVE ProcessFits'
      BY <1>6 DEF ProcessFits, Running
    <3>1. (xray.file.shape = shape \/ Reshaping) /\ (loop.shape = shape \/ Reshaping)
      BY <1>3, <1>4 DEF IInv, FileFits, Clean, Partly
    <3>2. (Current(xray).shape = xray.file.shape \/ Reshaping) /\ AsRead(Current(xray).keys, Todo)
      BY <1>4 DEF IInv, ProcessFits
    <3>3. Current(xray)' = Current(xray)
      BY <1>6 DEF Current
    <3>4. AsRead(Current(xray).keys, Todo)'
      BY <1>2, <1>4, <1>12, <2>1, <3>2, <3>3 DEF AsRead
    <3>5. Current(xray)'.shape = xray'.file.shape \/ Reshaping'
      BY <1>3, <1>6, <1>7, <3>1, <3>2, <3>3
    <3> QED
      BY <1>2, <1>12, <3>4, <3>5 DEF ProcessFits, HasKeys, At
  <2> QED
    BY <1>6, <1>9, <1>10, <2>2, <2>3, <2>5, <2>6 DEF IInv
<1> QED
  BY <1>11, <1>12

(* A file that cannot be written is left to the reconcile.                 *)
LEMMA WriteFileInv == ASSUME IInv, WriteFile PROVE IInv'
<1>1. At("write") /\ UNCHANGED <<monitor, db, suspect, kick, structural, configError>>
  BY DEF WriteFile
<1>2. CASE /\ xray' = WriteConfig(xray, Generated) /\ SetApplied(loop.keys, loop.seq)
           /\ Goto("quic") \/ Goto("reconcile")
  BY <1>1, <1>2, WrittenInv
<1>3. CASE Goto("reconcile") /\ UNCHANGED <<xray, believed>>
  <2>1. Up(xray)' /\ xray'.file = xray.file
    BY <1>3 DEF IInv, Up, One
  <2> QED
    BY <1>1, <1>3, <2>1, FallBackInv
<1> QED
  BY <1>2, <1>3 DEF WriteFile

(* The last lanes follow, and the sync is over; or they, or the note of    *)
(* it, are left to the reconcile.                                          *)
LEMMA SyncHysteriaInv == ASSUME IInv, SyncHysteria PROVE IInv'
<1>1. UNCHANGED <<monitor, db, suspect, believed, kick, structural>> /\ At("quic") /\ Up(xray)
  BY DEF SyncHysteria, IInv
<1>2. CASE /\ Running(xray) /\ xray' = LoseQuic(xray) /\ Goto("reconcile") /\ UNCHANGED configError
  <2> DEFINE c == [Current(xray) EXCEPT !.lost = TRUE]
             y == [xray EXCEPT !.procs[xray.cur] = c]
  <2>1. c \in Proc
    BY <1>1, <1>2, CurrentType DEF Proc
  <2>2. xray' = [xray EXCEPT !.procs[xray.cur] = c, !.applied = NoConfig]
    BY <1>2 DEF LoseQuic
  <2> HIDE DEF c
  <2>3. Up(y) /\ y.file = xray.file
    BY <1>1, <1>2, <2>1, ChildChanged
  <2>4. xray' = [y EXCEPT !.applied = NoConfig]
    BY <1>1, <2>2 DEF Up, SupervisorState
  <2> HIDE DEF y
  <2>5. xray' \in SupervisorState
    BY <2>3, <2>4 DEF Up, SupervisorState, MaybeConfig
  <2>6. /\ xray'.file = y.file /\ xray'.cur = y.cur /\ xray'.procs = y.procs
        /\ xray'.closed = y.closed /\ xray'.suspended = y.suspended
    BY <2>3, <2>4 DEF Up, SupervisorState
  <2>7. Up(xray)' /\ xray'.file = xray.file
    BY <2>3, <2>5, <2>6 DEF Up, One
  <2> QED
    BY <1>1, <1>2, <2>7, FallBackInv
<1>3. CASE Goto("reconcile") /\ UNCHANGED <<xray, configError>>
  BY <1>1, <1>3, FallBackInv
<1>4. CASE /\ Running(xray) /\ xray' = [xray EXCEPT !.procs[xray.cur].quic = loop.keys]
           /\ \/ configError' = FALSE /\ Goto("idle")
              \/ Goto("reconcile") /\ UNCHANGED configError
  <2> DEFINE c == [Current(xray) EXCEPT !.quic = loop.keys]
  <2>1. Current(xray) \in Proc /\ loop.keys \in [Accounts -> 0..MaxKey]
    BY <1>1, <1>4, CurrentType DEF IInv, TypeOK, LoopState
  <2>2. /\ c \in Proc /\ c.quic = loop.keys /\ c.keys = Current(xray).keys
        /\ c.shape = Current(xray).shape
    BY <2>1 DEF Proc
  <2>3. xray' = [xray EXCEPT !.procs[xray.cur] = c]
    BY <1>4 DEF Current
  <2> HIDE DEF c
  <2>4. Up(xray') /\ xray'.file = xray.file /\ xray'.cur = xray.cur /\ Current(xray') = c
    BY <1>1, <1>4, <2>2, <2>3, ChildChanged
  <2>5. CASE Goto("reconcile") /\ UNCHANGED configError
    BY <1>1, <2>4, <2>5, FallBackInv
  <2>6. CASE configError' = FALSE /\ Goto("idle")
    <3>1. UNCHANGED <<on, key, shape, editor, edits, applied, rekeyed, rekeySeq>>
      BY <1>1 DEF db, believed
    <3>2. loop' \in LoopState /\ loop'.at = "idle" /\ loop'.seq = 0
      BY <2>6, GotoFits DEF IInv, Stops
    <3>3. /\ HasKeys /\ HasShape /\ ~Renewing /\ ~Changing /\ Todo = {}
      BY <1>1 DEF At, HasKeys, HasShape, Renewing, Changing, Todo
    <3>4. /\ Coming' = Coming /\ Reshaping' = Reshaping
          /\ \A u \in Accounts : Pending(u)' = Pending(u)
      BY <1>1, <3>1 DEF Coming, Reshaping, Pending, Marking
    <3>5. /\ applied = Users(loop.keys) /\ applied \subseteq Accounts
          /\ \A u \in Accounts : rekeyed[u] = 0 \/ rekeyed[u] > loop.seq
          /\ \A u \in Accounts : rekeyed[u] <= loop.seq \/ Coming
          /\ (on = Users(loop.keys) \/ Coming)
          /\ rekeyed \in [Accounts -> 0..MaxEdits] /\ loop.seq \in 0..MaxEdits
      BY <1>1, <3>3 DEF IInv, BelievedFits, ReadFits, Partly, TypeOK, LoopState
    <3>6. \A u \in Accounts : Late(u) => Pending(u)
      BY <3>5 DEF Late, Pending
    <3>7. TypeOK'
      BY <1>1, <2>4, <2>6, <3>1, <3>2 DEF IInv, TypeOK, SupervisorTypeOK, Up
    <3>8. NumbersFit'
      BY <3>1, <3>2 DEF IInv, NumbersFit, TypeOK
    <3>9. ReadFits'
      BY <3>2 DEF ReadFits, Partly, HasShape, HasKeys, At
    <3>10. BelievedFits'
      <4>1. on = applied \/ Coming
        BY <3>5
      <4>2. \A u \in Accounts : rekeyed[u] = 0 \/ Coming
        BY <3>5, UserSyncAssumption
      <4> QED
        BY <3>1, <3>2, <3>4, <4>1, <4>2 DEF BelievedFits, WorkingIDsChanged, At
    <3>11. FileFits'
      BY <1>1, <2>4, <3>1, <3>2, <3>3, <3>4, <3>5
         DEF IInv, FileFits, Clean, Changing, Renewing, At, Users
    <3>12. ProcessFits'
      <4> SUFFICES ASSUME suspect = {} PROVE ProcessFits'
        BY <1>1 DEF ProcessFits
      <4>1. xray.file = Generated
        BY <1>1 DEF IInv, FileFits, Clean
      <4>2. KeysOf(xray.file) = loop.keys
        BY <1>1, <4>1, GeneratedType
      <4>3. (Current(xray).shape = xray.file.shape \/ Reshaping) /\ AsRead(Current(xray).keys, Todo)
        BY <1>4, <3>3 DEF IInv, ProcessFits
      <4>4. \A u \in Accounts : \/ Current(xray).keys[u] = KeysOf(xray.file)[u]
                                \/ u \in applied /\ Pending(u)
        BY <3>3, <3>5, <3>6, <4>2, <4>3 DEF AsRead, Users
      <4>5. AsFile(Current(xray).keys)'
        BY <2>2, <2>4, <3>1, <3>4, <4>4 DEF AsFile
      <4>6. Current(xray)'.quic = KeysOf(xray.file)'
        BY <2>2, <2>4, <4>2
      <4> QED
        BY <2>2, <2>4, <3>2, <3>4, <4>3, <4>5, <4>6 DEF ProcessFits, HasKeys, At
    <3> QED
      BY <2>4, <3>7, <3>8, <3>9, <3>10, <3>11, <3>12 DEF IInv
  <2> QED
    BY <1>4, <2>5, <2>6
<1> QED
  BY <1>2, <1>3, <1>4 DEF SyncHysteria

(* An apply that fails is under suspicion; one that succeeds leaves file   *)
(* and process as generated, or is.                                        *)
LEMMA ApplyGeneratedInv ==
  ASSUME IInv, NEW api \in BOOLEAN, NEW works \in BOOLEAN, ApplyGenerated(api, works)
  PROVE  IInv'
<1>1. At("apply") /\ loop' = Idling /\ UNCHANGED <<monitor, db, kick, structural>>
  BY DEF ApplyGenerated
<1>2. PICK s \in OptionsRead, stored \in Stored :
        LET d == GeneratedFrom(s)
            failed == ApplyError(xray, d, api, works)
        IN /\ xray' = Apply(xray, d, api, works)
           /\ configError' = IF stored THEN failed ELSE configError
           /\ IF failed THEN UNCHANGED believed ELSE SetApplied(loop.keys, loop.seq)
           /\ suspect' = Suspected(d, api, works)
  BY DEF ApplyGenerated
<1> DEFINE d == GeneratedFrom(s)
           failed == ApplyError(xray, d, api, works)
           quick == SameAsRunning(xray, d) \/ AppliesLive(xray, d, api)
<1>3. /\ At("apply") /\ xray' = Apply(xray, d, api, works)
      /\ configError' = (IF stored THEN failed ELSE configError) /\ loop' = Idling
      /\ IF failed THEN UNCHANGED believed ELSE SetApplied(loop.keys, loop.seq)
      /\ suspect' = Suspected(d, api, works)
      /\ UNCHANGED <<monitor, db, kick, structural>>
  BY <1>1, <1>2
<1>4. /\ Generated \in Config /\ Generated # NoConfig /\ KeysOf(Generated) = loop.keys
      /\ Generated.shape = loop.shape /\ (loop.shape = shape \/ Reshaping)
  BY <1>3, GeneratedType DEF Partly, At
<1>5. d \in Config
  <2>1. loop.shape \in Shapes /\ loop.keys \in [Accounts -> 0..MaxKey]
    BY <1>1 DEF IInv, ReadFits, HasShape, At, TypeOK, LoopState
  <2>2. s \in Shapes
    BY <2>1, SupervisorAssumption DEF OptionsRead
  <2> QED
    BY <2>1, <2>2 DEF GeneratedFrom, Config
<1>6. /\ Up(xray')
      /\ \/ failed \/ quick
         \/ xray'.file = d /\ Running(xray') /\ FromFile(xray')
  BY <1>3, <1>5, ApplyUp DEF IInv
<1>7. configError' \in BOOLEAN
  <2>1. failed \in BOOLEAN
    BY DEF ApplyError, SameAsRunning, AppliesLive, ApplyFails, StartFails
  <2>2. configError \in BOOLEAN
    BY DEF IInv, TypeOK
  <2> HIDE DEF failed
  <2> QED
    BY <1>3, <2>1, <2>2, Zenon
<1>8. /\ failed => suspect' = suspect \union {"failed"}
      /\ ~failed => \/ suspect' = suspect \union {"unread"}
                    \/ suspect' = suspect \union {"skipped"}
                    \/ suspect' = {} /\ d = Generated /\ (~quick \/ PutRight(xray'))
  BY <1>3 DEF Suspected, failed, quick
<1> HIDE DEF failed, quick, d
<1>9. loop' \in LoopState /\ loop'.at = "idle" /\ loop'.seq = 0
  <2>1. 0 \in 0..MaxEdits /\ NoKeys \in [Accounts -> 0..MaxKey]
    BY UserSyncAssumption, SupervisorAssumption DEF NoKeys
  <2> QED
    BY <1>3, <2>1 DEF Idling, LoopState
<1>10. UNCHANGED <<on, key, shape, editor, edits, kick, structural, monitor>>
  BY <1>3 DEF db
<1>11. HasKeys /\ HasShape
  BY <1>3 DEF HasKeys, HasShape, At
<1>12. /\ Coming' = Coming /\ Reshaping' = Reshaping
      /\ \A u \in Accounts : Marking(u)' = Marking(u)
  BY <1>10 DEF Coming, Reshaping, Marking
<1>13. ReadFits'
  BY <1>9 DEF ReadFits, Partly, HasShape, HasKeys, At
<1>14. CASE failed
  <2>1. UNCHANGED <<applied, rekeyed, rekeySeq>> /\ suspect' = suspect \union {"failed"}
    BY <1>3, <1>8, <1>14 DEF believed
  <2>2. TypeOK'
    BY <1>6, <1>7, <1>9, <1>10, <2>1 DEF IInv, TypeOK, SupervisorTypeOK, Up
  <2>3. NumbersFit'
    BY <1>9, <1>10, <2>1 DEF IInv, NumbersFit, TypeOK
  <2>4. BelievedFits' /\ FileFits' /\ ProcessFits'
    BY <1>9, <2>1 DEF BelievedFits, FileFits, ProcessFits, Clean, At
  <2> QED
    BY <1>6, <1>13, <2>2, <2>3, <2>4 DEF IInv
<1>15. CASE ~failed
  <2>1. /\ applied' = Users(loop.keys) /\ applied' \subseteq Accounts /\ rekeySeq' = rekeySeq
        /\ rekeyed' \in [Accounts -> 0..MaxEdits]
        /\ \A u \in Accounts : /\ rekeyed'[u] = 0 \/ (rekeyed'[u] > loop.seq /\ Coming)
                               /\ rekeyed'[u] <= rekeySeq
                               /\ rekeyed[u] > loop.seq => rekeyed'[u] = rekeyed[u] /\ rekeyed'[u] # 0
        /\ (on = Users(loop.keys) \/ Coming)
        /\ \A u \in Accounts : loop.keys[u] = 0 \/ loop.keys[u] = key[u] \/ Late(u)
    BY <1>3, <1>11, <1>15, SetAppliedFits
  <2>2. \A u \in Accounts : Late(u) => Pending(u)'
    BY <1>12, <2>1 DEF Late, Pending
  <2>3. TypeOK'
    <3>1. suspect' \subseteq {"failed", "skipped", "midsync", "reverted", "unread"}
      BY <1>8, <1>15 DEF IInv, TypeOK
    <3> QED
      BY <1>6, <1>7, <1>9, <1>10, <2>1, <3>1 DEF IInv, TypeOK, SupervisorTypeOK, Up
  <2>4. NumbersFit'
    BY <1>9, <1>10, <2>1 DEF IInv, NumbersFit, TypeOK
  <2>5. BelievedFits'
    <3>1. on = applied' \/ Coming
      BY <2>1
    <3>2. \A u \in Accounts : rekeyed'[u] = 0 \/ Coming
      BY <2>1
    <3> QED
      BY <1>9, <1>10, <1>12, <3>1, <3>2 DEF BelievedFits, WorkingIDsChanged, At
  <2>6. CASE suspect' = suspect \union {"skipped"} \/ suspect' = suspect \union {"unread"}
    <3>1. FileFits' /\ ProcessFits'
      BY <2>6 DEF FileFits, ProcessFits, Clean
    <3> QED
      BY <1>6, <1>13, <2>3, <2>4, <2>5, <3>1 DEF IInv
  <2>7. CASE suspect' = {} /\ d = Generated /\ (~quick \/ PutRight(xray'))
    <3>1. /\ xray'.file = Generated /\ Current(xray)'.shape = loop.shape
          /\ Current(xray)'.keys = loop.keys /\ Current(xray)'.quic = loop.keys
      <4>1. CASE PutRight(xray')
        BY <4>1 DEF PutRight
      <4>2. CASE ~quick
        BY <1>4, <1>6, <1>15, <2>7, <4>2 DEF FromFile
      <4> QED
        BY <2>7, <4>1, <4>2
    <3>2. FileFits'
      <4>1. KeysOf(xray.file)' = loop.keys /\ xray'.file # NoConfig /\ xray'.file.shape = loop.shape
        BY <1>4, <3>1 DEF KeysOf
      <4>2. applied' = Users(KeysOf(xray.file))'
        BY <2>1, <4>1 DEF Users
      <4>3. \A u \in applied' : KeysOf(xray.file)'[u] = key[u] \/ Pending(u)'
        BY <2>1, <2>2, <4>1 DEF Users
      <4> QED
        BY <1>4, <1>9, <1>10, <1>12, <4>1, <4>2, <4>3 DEF FileFits, Changing, At
    <3>3. ProcessFits'
      <4>1. KeysOf(xray.file)' = loop.keys /\ xray'.file.shape = loop.shape
        BY <1>4, <3>1 DEF KeysOf
      <4>2. AsFile(Current(xray).keys)'
        BY <3>1, <4>1 DEF AsFile
      <4> QED
        BY <1>9, <3>1, <4>1, <4>2 DEF ProcessFits, HasKeys, At
    <3> QED
      BY <1>6, <1>13, <2>3, <2>4, <2>5, <3>2, <3>3 DEF IInv
  <2> QED
    BY <1>8, <1>15, <2>6, <2>7
<1> QED
  BY <1>14, <1>15

(***************************************************************************)
(* What the runs check                                                     *)
(***************************************************************************)

(* A step that changes nothing.                                            *)
LEMMA StutterInv == ASSUME IInv, UNCHANGED vars PROVE IInv'
<1>1. UNCHANGED <<db, believed, kick, structural, configError, loop, suspect, xray, monitor>>
  BY DEF vars
<1>2. SameChild(xray, xray') /\ Up(xray') /\ monitor' \in [Monitors -> Places]
  BY <1>1 DEF IInv, SameChild, TypeOK, SupervisorTypeOK, Places
<1> QED
  BY <1>1, <1>2, AsideInv

(* Every step of the editors, the loop and the process keeps the invariant. *)
LEMMA StepInv == IInv /\ [Next]_vars => IInv'
<1> SUFFICES ASSUME IInv, [Next]_vars PROVE IInv'
  OBVIOUS
<1>1. CASE \E u \in Accounts : SwitchUser(u) \/ ResetKey(u)
  BY <1>1, SwitchUserInv, ResetKeyInv
<1>2. CASE ChangeShape \/ MarkRekeyed \/ TriggerReconcile \/ SignalReload
  BY <1>2, ChangeShapeInv, MarkRekeyedInv, SignalsInv
<1>3. CASE Loop
  <2>1. CASE Woken \/ Drain \/ Choose
    BY <2>1, WakingInv
  <2>2. CASE CheckIDs
    BY <2>2, CheckIDsInv
  <2>3. CASE RekeyedUpTo \/ BeginReconcile
    BY <2>3, ReadSettingsInv
  <2>4. CASE Diff \/ ReadCredentials
    BY <2>4, DiffInv, ReadCredentialsInv
  <2>5. CASE RemoveUsers \/ AddUsers
    BY <2>5, RemoveUsersInv, AddUsersInv
  <2>6. CASE WriteFile \/ SyncHysteria
    BY <2>6, WriteFileInv, SyncHysteriaInv
  <2>7. CASE \E api \in Answers, works \in Works : ApplyGenerated(api, works)
    <3>1. Answers \subseteq BOOLEAN /\ Works \subseteq BOOLEAN
      BY DEF Answers, Works
    <3>2. PICK api \in Answers, works \in Works : ApplyGenerated(api, works)
      BY <2>7
    <3> QED
      BY <3>1, <3>2, ApplyGeneratedInv
  <2> QED
    BY <1>3, <2>1, <2>2, <2>3, <2>4, <2>5, <2>6, <2>7 DEF Loop
<1>4. CASE RestartXray
  BY <1>4, RestartXrayInv
<1>5. CASE Process
  BY <1>5, ProcessInv
<1>6. CASE UNCHANGED vars
  BY <1>6, StutterInv
<1> QED
  BY <1>1, <1>2, <1>3, <1>4, <1>5, <1>6 DEF Next

(* With nothing left to do the users believed to be on the process are     *)
(* those of the database, and no key waits to be taken over.               *)
LEMMA QuietFits ==
  ASSUME IInv, Quiet, {"failed", "unread"} \intersect suspect = {}
  PROVE  /\ on = applied /\ \A u \in Accounts : ~Pending(u)
         /\ ~Reshaping /\ ~HasKeys /\ ~Renewing /\ ~At("quic")
<1>1. ~Coming /\ ~Reshaping /\ \A u \in Accounts : ~Marking(u)
  BY DEF Quiet, Coming, Reshaping, Marking
<1>2. ~WorkingIDsChanged
  BY <1>1 DEF IInv, BelievedFits, Quiet
<1>3. ~HasKeys /\ ~Renewing /\ ~At("quic")
  BY DEF Quiet, HasKeys, Renewing, At
<1> QED
  BY <1>1, <1>2, <1>3 DEF WorkingIDsChanged, Pending

(* Where nothing is under suspicion but a start in the middle of a sync,   *)
(* the file is the database then.                                          *)
LEMMA QuietFile ==
  ASSUME IInv, Quiet, Clean
  PROVE  /\ xray.file # NoConfig /\ xray.file.shape = shape
         /\ KeysOf(xray.file) = Working /\ xray.file.keys = Working
<1>1. /\ on = applied /\ \A u \in Accounts : ~Pending(u)
      /\ ~Reshaping /\ ~Renewing
  BY QuietFits DEF Clean
<1>2. /\ applied = Users(KeysOf(xray.file))
      /\ \A u \in applied : KeysOf(xray.file)[u] = key[u] \/ Pending(u)
      /\ xray.file # NoConfig /\ (xray.file.shape = shape \/ Reshaping)
  BY <1>1 DEF IInv, FileFits
<1>3. xray.file \in Config
  BY <1>2 DEF IInv, Up, SupervisorState, MaybeConfig
<1>4. xray.file.keys \in [Accounts -> 0..MaxKey] /\ KeysOf(xray.file) = xray.file.keys
  BY <1>2, <1>3 DEF Config, KeysOf
<1>5. \A u \in Accounts : xray.file.keys[u] = IF u \in on THEN key[u] ELSE 0
  BY <1>1, <1>2, <1>4 DEF Users, IInv, TypeOK
<1>6. xray.file.keys = Working
  BY <1>4, <1>5 DEF Working
<1> QED
  BY <1>1, <1>2, <1>4, <1>6

(* The states of the synchronisation have the types of the module, with    *)
(* any users, keys, configs and number of edits.                           *)
THEOREM TypeCorrect == Spec => []TypeOK
<1>1. IInv => TypeOK
  BY DEF IInv
<1> QED
  BY <1>1, InitInv, StepInv, PTL DEF Spec

(* With nothing left to do Xray serves exactly the users of the database   *)
(* with their current keys, on every kind of lane, and the settings: after *)
(* any edits, crashes, restarts, failed reads, writes, calls and starts    *)
(* that did not end in one of the five things marked as suspect - one of   *)
(* them a reconcile that could not read, which reconcileLocked gives up    *)
(* without an error left behind.                                           *)
THEOREM AlwaysServesDatabase == Spec => []ServesDatabase
<1>1. ASSUME IInv PROVE ServesDatabase
  <2> SUFFICES ASSUME Quiet, Running(xray), suspect = {}
               PROVE  Serves(Current(xray).shape, Current(xray).keys, Current(xray).quic)
    BY DEF ServesDatabase
  <2>1. /\ \A u \in Accounts : ~Pending(u)
        /\ ~Reshaping /\ ~HasKeys /\ ~Renewing /\ ~At("quic")
    BY <1>1, QuietFits
  <2>2. xray.file.shape = shape /\ KeysOf(xray.file) = Working
    BY <1>1, QuietFile DEF Clean
  <2>3. /\ Current(xray).shape = xray.file.shape \/ Reshaping
        /\ Current(xray).quic = KeysOf(xray.file) /\ AsFile(Current(xray).keys)
    BY <1>1, <2>1 DEF IInv, ProcessFits
  <2>4. Current(xray).keys \in [Accounts -> 0..MaxKey]
    BY <1>1, CurrentType DEF IInv, Proc
  <2>5. Current(xray).keys = Working
    BY <2>1, <2>2, <2>3, <2>4 DEF AsFile, Working
  <2> QED
    BY <2>1, <2>2, <2>3, <2>5 DEF Serves
<1> QED
  BY <1>1, InitInv, StepInv, PTL DEF Spec

(* ... and so does the file a crash restart loads, with the same           *)
(* exceptions but the start in the middle of a sync.                       *)
THEOREM DiskAlwaysFollows == Spec => []DiskFollows
<1>1. ASSUME IInv PROVE DiskFollows
  BY <1>1, QuietFile DEF DiskFollows, Serves, Clean
<1> QED
  BY <1>1, InitInv, StepInv, PTL DEF Spec
=============================================================================
