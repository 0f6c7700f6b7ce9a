------------------------- MODULE RegistrationProofs -------------------------
(***************************************************************************)
(* Proofs about Registration: one trial per Telegram, one decision per     *)
(* request, nobody displaced and nobody forgotten, for any applicants,     *)
(* workers, ways and settings. The inductive invariant says who holds a    *)
(* claimed request, who is in between a chat's look-up and its trial's     *)
(* record, and which locks keep them apart.                                *)
(***************************************************************************)
EXTENDS Registration, TLAPS

WorkerFits(v) ==
  /\ v.at # "idle" =>
       /\ v.way \in {"bot", "app", "api"} => v.who \in Chats
       /\ v.way = "site" => v.who \in Sites
       /\ v.way = "approve" => v.who \in Applicants /\ v.req \in 1..filed
  /\ v.at \in {"restore", "mark"} => v.who \in Chats
  /\ v.at \in {"restore", "plan", "link", "mark", "drop"} => v.user \in Accounts
  /\ v.at \in {"known", "putback"} => v.way = "approve"
  /\ v.at \in {"restore", "gate", "file"} => v.way # "approve"

(* Types, and what a row of worker means at each step. *)
Shape == TypeOK /\ \A w \in Workers : WorkerFits(worker[w])

(* The locks. *)
Exclusive ==
  \A w, v \in Workers :
    Inside(w) /\ Inside(v) /\ LockOf(worker[w]) # "none" /\ LockOf(worker[v]) = LockOf(worker[w]) => w = v

(* An approval that claimed its request and has not decided it yet. *)
Approving(w) == worker[w].way = "approve" /\ worker[w].at # "idle"
Holding(w) == Approving(w) /\ worker[w].at \in {"known", "create", "plan", "link", "drop", "putback"}

Decisions ==
  /\ \A r \in Requests : decisions[r] <= 1
  /\ \A r \in Requests : r > filed => requests[r] = NoOne /\ decisions[r] = 0
  /\ \A r \in Requests : requests[r] # NoOne => decisions[r] = 0
  /\ \A w \in Workers : Holding(w) => decisions[worker[w].req] = 0 /\ requests[worker[w].req] = NoOne
  /\ \A w, v \in Workers : Holding(w) /\ Holding(v) /\ worker[w].req = worker[v].req => w = v
  /\ \A w \in Workers : Approving(w) => requests[worker[w].req] \in {NoOne, worker[w].who}
  /\ \A w, v \in Workers :
       Approving(w) /\ Approving(v) /\ worker[w].req = worker[v].req => worker[w].who = worker[v].who

(* Whoever waits is pending, or held by an approval. *)
Waits == \A a \in waiting : Pending(a) \/ \E w \in Workers : Holding(w) /\ worker[w].who = a

(* An account being made is the applicant's. *)
Owned ==
  \A w \in Workers : worker[w].at \in {"plan", "link", "mark", "drop"} => users[worker[w].user].by = worker[w].who

(* One registration of a chat at a time, of which the chat has no account; *)
(* a trial recorded or about to be.                                        *)
TrialOf(u, c) == users[u].plan = "trial" /\ users[u].by = c
Alone == \A c \in Chats \ mixed : \A w, v \in Workers : Registers(w, c) /\ Registers(v, c) => w = v
Unlinked ==
  \A c \in Chats \ mixed : \A w \in Workers :
    Registers(w, c) /\ worker[w].at \notin {"mark", "drop"} => \A u \in Accounts : Live(u) => users[u].chat # c
Recorded ==
  \A c \in Chats \ mixed : \A u \in Accounts :
    TrialOf(u, c) =>
      \/ c \in trialChats
      \/ \E w \in Workers : worker[w].who = c /\ worker[w].at \in {"link", "mark", "drop"} /\ worker[w].user = u
Single == \A c \in Chats \ mixed : \A u, v \in Accounts : TrialOf(u, c) /\ TrialOf(v, c) => u = v
Promised ==
  \A c \in Chats \ mixed : \A w \in Workers :
    worker[w].who = c /\ worker[w].at \in {"create", "plan"} /\ worker[w].trial =>
      c \notin trialChats /\ \A u \in Accounts : ~TrialOf(u, c)

Inv == Shape /\ Exclusive /\ Decisions /\ Waits /\ Owned /\ Alone /\ Unlinked /\ Recorded /\ Single /\ Promised

----------------------------------------------------------------------------
(* The type invariant in pieces. *)
UserRow == [state: {"free", "live", "gone"}, plan: {"none", "trial", "spent"},
            chat: Chats \union {NoOne}, prev: Chats \union {NoOne},
            site: Sites \union {NoOne}, by: Applicants \union {NoOne}]
WorkerRow == [at: {"idle", "enter", "restore", "gate", "file", "known", "create",
                   "plan", "link", "mark", "drop", "putback"},
              way: {"bot", "app", "api", "site", "approve"},
              who: Applicants \union {NoOne}, mode: Modes \union {"off"},
              req: 0..MaxRequests, user: 0..MaxUsers, trial: BOOLEAN]
UsersTyped == users \in [Accounts -> UserRow]
WorkersTyped == worker \in [Workers -> WorkerRow]
RestTyped ==
  /\ requests \in [Requests -> Applicants \union {NoOne}] /\ filed \in 0..MaxRequests
  /\ trialChats \subseteq Chats /\ regMode \in Modes \union {"off"} /\ events \in 0..MaxEvents
  /\ decisions \in [Requests -> Nat] /\ waiting \subseteq Applicants /\ mixed \subseteq Chats
Typed == UsersTyped /\ WorkersTyped /\ RestTyped

(* The type invariant, taken apart.                                         *)
LEMMA Pieces == TypeOK <=> Typed
  BY DEF TypeOK, UserRow, WorkerRow, UsersTyped, WorkersTyped, RestTyped, Typed

----------------------------------------------------------------------------
(* How a worker's row may change: it goes on with the same applicant, or   *)
(* it is done.                                                             *)
Others(w) == \A v \in Workers \ {w} : worker'[v] = worker[v]
Goes(w, at) ==
  /\ Others(w) /\ worker'[w].at = at
  /\ worker'[w].way = worker[w].way /\ worker'[w].who = worker[w].who /\ worker'[w].req = worker[w].req
Done(w) == Others(w) /\ worker'[w] = Idle
SameUser(w) == worker'[w].user = worker[w].user /\ worker'[w].trial = worker[w].trial

(* Who does nothing is a worker.                                            *)
LEMMA IdleTyped == Idle \in WorkerRow
  BY CapsAreNumbers DEF Idle, Handling, WorkerRow

(* A worker that leaves is idle.                                            *)
LEMMA Leaves ==
  ASSUME WorkersTyped, NEW w \in Workers, Leave(w) PROVE WorkersTyped' /\ Done(w)
  BY IdleTyped DEF WorkersTyped, Leave, Done, Others

(* A worker that steps keeps whom it works for.                             *)
LEMMA Steps ==
  ASSUME WorkersTyped, NEW w \in Workers,
         NEW at \in {"file", "known", "link", "mark", "drop", "putback"}, Step(w, at)
  PROVE WorkersTyped' /\ Goes(w, at) /\ SameUser(w)
<1>1. worker[w] \in WorkerRow
  BY DEF WorkersTyped
<1>2. [worker[w] EXCEPT !.at = at] \in WorkerRow
  BY <1>1 DEF WorkerRow
<1>3. worker' = [worker EXCEPT ![w] = [worker[w] EXCEPT !.at = at]]
  BY DEF Step
<1>4. worker'[w] = [worker[w] EXCEPT !.at = at] /\ Others(w)
  BY <1>3 DEF WorkersTyped, Others
<1>5. Goes(w, at) /\ SameUser(w)
  BY <1>1, <1>4 DEF Goes, SameUser, WorkerRow
<1> QED
  BY <1>2, <1>3, <1>5 DEF WorkersTyped

Taking(r, at, u) == [r EXCEPT !.at = at, !.user = u]

(* Taking an account changes nothing else of a worker ...                   *)
LEMMA RowTakes ==
  ASSUME NEW r \in WorkerRow, NEW at \in {"restore", "plan"}, NEW u \in 0..MaxUsers
  PROVE LET n == Taking(r, at, u) IN
        n \in WorkerRow /\ n.at = at /\ n.user = u /\ n.way = r.way /\ n.who = r.who /\ n.req = r.req /\ n.trial = r.trial
  BY DEF WorkerRow, Taking

Reading(r, m) == [r EXCEPT !.at = "gate", !.mode = m]

(* ... nor does reading the mode ...                                        *)
LEMMA RowReads ==
  ASSUME NEW r \in WorkerRow, NEW m \in Modes \union {"off"}
  PROVE LET n == Reading(r, m) IN
        n \in WorkerRow /\ n.at = "gate" /\ n.way = r.way /\ n.who = r.who /\ n.req = r.req
  BY DEF WorkerRow, Reading

Creating(r, t) == [r EXCEPT !.at = "create", !.trial = t]

(* ... nor going on to create one.                                          *)
LEMMA RowCreates ==
  ASSUME NEW r \in WorkerRow, NEW t \in BOOLEAN
  PROVE LET n == Creating(r, t) IN
        n \in WorkerRow /\ n.at = "create" /\ n.trial = t /\ n.way = r.way /\ n.who = r.who /\ n.req = r.req
  BY DEF WorkerRow, Creating

(* With the account it works on, *)
LEMMA Takes ==
  ASSUME WorkersTyped, NEW w \in Workers, NEW at \in {"restore", "plan"}, NEW u \in Accounts,
         worker' = [worker EXCEPT ![w].at = at, ![w].user = u]
  PROVE WorkersTyped' /\ Goes(w, at) /\ worker'[w].user = u /\ worker'[w].trial = worker[w].trial
<1>1. worker[w] \in WorkerRow /\ u \in 0..MaxUsers
  BY CapsAreNumbers DEF WorkersTyped, Accounts
<1>2. Taking(worker[w], at, u) \in WorkerRow
  BY <1>1, RowTakes
<1>3. worker' = [worker EXCEPT ![w] = Taking(worker[w], at, u)]
  BY DEF Taking
<1>4. worker'[w] = Taking(worker[w], at, u) /\ Others(w)
  BY <1>3 DEF WorkersTyped, Others
<1>5. Goes(w, at) /\ worker'[w].user = u /\ worker'[w].trial = worker[w].trial
  BY <1>1, <1>4, RowTakes DEF Goes
<1> QED
  BY <1>2, <1>3, <1>5 DEF WorkersTyped

(* with what it read of the settings, *)
LEMMA Reads ==
  ASSUME WorkersTyped, NEW w \in Workers, NEW m \in Modes \union {"off"},
         worker' = [worker EXCEPT ![w].at = "gate", ![w].mode = m]
  PROVE WorkersTyped' /\ Goes(w, "gate")
<1>1. worker[w] \in WorkerRow
  BY DEF WorkersTyped
<1>2. Reading(worker[w], m) \in WorkerRow
  BY <1>1, RowReads
<1>3. worker' = [worker EXCEPT ![w] = Reading(worker[w], m)]
  BY DEF Reading
<1>4. worker'[w] = Reading(worker[w], m) /\ Others(w)
  BY <1>3 DEF WorkersTyped, Others
<1>5. Goes(w, "gate")
  BY <1>1, <1>4, RowReads DEF Goes
<1> QED
  BY <1>2, <1>3, <1>5 DEF WorkersTyped

(* and with what it read of the trials. *)
LEMMA Creates ==
  ASSUME WorkersTyped, NEW w \in Workers, NEW t \in BOOLEAN,
         worker' = [worker EXCEPT ![w].at = "create", ![w].trial = t]
  PROVE WorkersTyped' /\ Goes(w, "create") /\ worker'[w].trial = t
<1>1. worker[w] \in WorkerRow
  BY DEF WorkersTyped
<1>2. Creating(worker[w], t) \in WorkerRow
  BY <1>1, RowCreates
<1>3. worker' = [worker EXCEPT ![w] = Creating(worker[w], t)]
  BY DEF Creating
<1>4. worker'[w] = Creating(worker[w], t) /\ Others(w)
  BY <1>3 DEF WorkersTyped, Others
<1>5. Goes(w, "create") /\ worker'[w].trial = t
  BY <1>1, <1>4, RowCreates DEF Goes
<1> QED
  BY <1>2, <1>3, <1>5 DEF WorkersTyped

(* A request that comes in. *)
LEMMA Begins ==
  ASSUME WorkersTyped, NEW w \in Workers, NEW r \in WorkerRow, worker' = [worker EXCEPT ![w] = r]
  PROVE WorkersTyped' /\ Others(w) /\ worker'[w] = r
  BY DEF WorkersTyped, Others

----------------------------------------------------------------------------
(* How an account may change. *)
SameTrials == \A u \in Accounts : users'[u].by = users[u].by /\ users'[u].plan = users[u].plan

Chatting(r, c, p) == [r EXCEPT !.chat = c, !.prev = p]

(* Linking a Telegram changes nothing else of an account ...                *)
LEMMA RowChats ==
  ASSUME NEW r \in UserRow, NEW c \in Chats \union {NoOne}, NEW p \in Chats \union {NoOne}
  PROVE LET n == Chatting(r, c, p) IN
        n \in UserRow /\ n.chat = c /\ n.by = r.by /\ n.plan = r.plan /\ n.state = r.state
  BY DEF UserRow, Chatting

(* After linking a chat nobody else has it; other chats gain no account. *)
LEMMA LinkDoes ==
  ASSUME UsersTyped, NEW u \in Accounts, NEW c \in Chats, users' = SetUserTelegramChat(u, c)
  PROVE /\ UsersTyped' /\ SameTrials
        /\ \A v \in Accounts : users'[v].state = users[v].state
        /\ \A v \in Accounts : users'[v].chat \in {users[v].chat, c, NoOne}
<1> DEFINE Row(v) == /\ users'[v] \in UserRow /\ users'[v].by = users[v].by /\ users'[v].plan = users[v].plan
                     /\ users'[v].state = users[v].state /\ users'[v].chat \in {users[v].chat, c, NoOne}
<1>1. ASSUME NEW v \in Accounts PROVE Row(v)
  <2>0. users[v] \in UserRow
    BY DEF UsersTyped
  <2>1. /\ users[v] \in UserRow /\ users[v].chat \in Chats \union {NoOne}
        /\ users[v].prev \in Chats \union {NoOne}
    BY DEF UsersTyped, UserRow
  <2>2. CASE ~Live(v)
    BY <2>1, <2>2 DEF SetUserTelegramChat
  <2>3. CASE Live(v) /\ v = u
    <3>1. users'[v] = Chatting(users[v], c, NoOne)
      BY <2>3 DEF SetUserTelegramChat, Chatting
    <3>2. c \in Chats \union {NoOne} /\ NoOne \in Chats \union {NoOne}
      OBVIOUS
    <3> DEFINE n == Chatting(users[v], c, NoOne)
    <3>3. n \in UserRow /\ n.chat = c /\ n.by = users[v].by /\ n.plan = users[v].plan /\ n.state = users[v].state
      BY <2>0, <3>2, RowChats
    <3> QED
      BY <3>1, <3>3
  <2>4. CASE Live(v) /\ v # u
    <3> DEFINE chat == IF users[v].chat = c THEN NoOne ELSE users[v].chat
               prev == IF users[v].prev = c THEN NoOne ELSE users[v].prev
    <3>1. users'[v] = Chatting(users[v], chat, prev)
      BY <2>4 DEF SetUserTelegramChat, Chatting
    <3>2. chat \in Chats \union {NoOne} /\ prev \in Chats \union {NoOne}
      BY <2>1
    <3> HIDE DEF chat, prev
    <3> DEFINE n == Chatting(users[v], chat, prev)
    <3>3. n \in UserRow /\ n.chat = chat /\ n.by = users[v].by /\ n.plan = users[v].plan /\ n.state = users[v].state
      BY <2>0, <3>2, RowChats
    <3> QED
      BY <3>1, <3>3 DEF chat
  <2> QED
    BY <2>2, <2>3, <2>4
<1>2. users' = [v \in Accounts |-> users'[v]]
  BY DEF SetUserTelegramChat
<1> QED
  BY <1>1, <1>2 DEF UsersTyped, SameTrials

Siting(r, a) == [r EXCEPT !.site = a]

(* ... nor does tying it to a site client ...                               *)
LEMMA RowSited ==
  ASSUME NEW r \in UserRow, NEW a \in Sites
  PROVE LET n == Siting(r, a) IN
        n \in UserRow /\ n.chat = r.chat /\ n.by = r.by /\ n.plan = r.plan /\ n.state = r.state
  BY DEF UserRow, Siting

(* ... in the table as in the row.                                          *)
LEMMA RowSites ==
  ASSUME UsersTyped, NEW u \in Accounts, NEW a \in Sites, users' = [users EXCEPT ![u].site = a]
  PROVE UsersTyped' /\ SameTrials
        /\ \A v \in Accounts : users'[v].chat = users[v].chat /\ users'[v].state = users[v].state
<1>1. users' = [users EXCEPT ![u] = Siting(users[u], a)] /\ users[u] \in UserRow
  BY DEF Siting, UsersTyped
<1>2. LET n == Siting(users[u], a) IN
      n \in UserRow /\ n.chat = users[u].chat /\ n.by = users[u].by /\ n.plan = users[u].plan
      /\ n.state = users[u].state
  BY <1>1, RowSited
<1>3. UsersTyped' /\ users'[u] = Siting(users[u], a) /\ \A v \in Accounts \ {u} : users'[v] = users[v]
  BY <1>1, <1>2 DEF UsersTyped
<1> QED
  BY <1>2, <1>3 DEF SameTrials

(* Deleting and unlinking only take chats away. *)
Deleting(r) == [r EXCEPT !.state = "gone", !.chat = NoOne, !.prev = NoOne, !.site = NoOne]
Unlinking(r) == [r EXCEPT !.prev = r.chat, !.chat = NoOne]

(* Deleting and unlinking take the Telegram off it, and keep its plan.      *)
LEMMA RowTakenAway ==
  ASSUME NEW r \in UserRow
  PROVE /\ LET n == Deleting(r) IN n \in UserRow /\ n.by = r.by /\ n.plan = r.plan /\ n.chat = NoOne
                                  /\ n.state = "gone"
        /\ LET n == Unlinking(r) IN n \in UserRow /\ n.by = r.by /\ n.plan = r.plan /\ n.chat = NoOne
                                   /\ n.state = r.state
  BY DEF UserRow, Deleting, Unlinking

(* Accounts taken away give and take no trial.                              *)
LEMMA TakenAway ==
  ASSUME UsersTyped, NEW u \in Accounts, NEW n \in {Deleting(users[u]), Unlinking(users[u])},
         users' = [users EXCEPT ![u] = n]
  PROVE UsersTyped' /\ SameTrials
        /\ \A v \in Accounts : users'[v].chat \in {users[v].chat, NoOne}
                               /\ users'[v].state \in {users[v].state, "gone"}
<1>1. users[u] \in UserRow
  BY DEF UsersTyped
<1>2. n \in UserRow /\ n.by = users[u].by /\ n.plan = users[u].plan /\ n.chat = NoOne
      /\ n.state \in {users[u].state, "gone"}
  BY <1>1, RowTakenAway
<1>3. UsersTyped' /\ users'[u] = n /\ \A v \in Accounts \ {u} : users'[v] = users[v]
  BY <1>2 DEF UsersTyped
<1> QED
  BY <1>2, <1>3 DEF SameTrials

----------------------------------------------------------------------------
(* Types, and what a row means, step by step. *)
LEMMA ShapeIs ==
  ASSUME Shape
  PROVE /\ Typed /\ UsersTyped /\ WorkersTyped /\ RestTyped
        /\ \A w \in Workers : worker[w] \in WorkerRow /\ WorkerFits(worker[w])
        /\ \A w \in Workers : worker[w].who \in Applicants \union {NoOne}
        /\ \A w \in Workers : worker[w].way \in {"bot", "app", "api", "site", "approve"}
        /\ \A w \in Workers : worker[w].at # "idle" => worker[w].who \in Applicants
<1>1. Typed /\ \A w \in Workers : worker[w] \in WorkerRow /\ WorkerFits(worker[w])
  BY Pieces DEF Shape, Typed, WorkersTyped
<1>2. \A w \in Workers : worker[w].who \in Applicants \union {NoOne}
                         /\ worker[w].way \in {"bot", "app", "api", "site", "approve"}
  BY <1>1 DEF WorkerRow
<1>3. \A w \in Workers : worker[w].at # "idle" => worker[w].who \in Applicants
  BY <1>1, <1>2 DEF WorkerFits, Applicants
<1> QED
  BY <1>1, <1>2, <1>3 DEF Typed

(* Types, and what fits a worker, put together.                             *)
LEMMA ShapeFrom ==
  ASSUME Shape, UsersTyped', WorkersTyped', RestTyped', NEW w \in Workers, Others(w),
         filed' = filed \/ filed' = filed + 1, WorkerFits(worker[w])'
  PROVE Shape'
<1>1. TypeOK'
  BY DEF TypeOK, UserRow, WorkerRow, UsersTyped, WorkersTyped, RestTyped
<1>2. filed \in Nat
  BY ShapeIs DEF RestTyped
<1>3. ASSUME NEW v \in Workers PROVE WorkerFits(worker[v])'
  BY <1>2, ShapeIs DEF WorkerFits, Others
<1> QED
  BY <1>1, <1>3 DEF Shape

(* Nothing is asked of who does nothing.                                    *)
LEMMA IdleFits == Idle.at = "idle" /\ Idle.way = "bot" /\ Idle.who = NoOne /\ WorkerFits(Idle)
  BY DEF Idle, Handling, WorkerFits

(* So a worker that is done fits.                                           *)
LEMMA FitsIdle ==
  ASSUME NEW w \in Workers, Done(w) PROVE WorkerFits(worker[w])' /\ worker'[w].at = "idle"
  BY DEF Done, Idle, Handling, WorkerFits

(* A worker that goes on fits where it goes.                                *)
LEMMA FitsOn ==
  ASSUME Shape, NEW w \in Workers, NEW at, worker[w].at # "idle", Goes(w, at), filed' = filed,
         at \in {"restore", "mark"} => worker[w].who \in Chats,
         at \in {"restore", "plan", "link", "mark", "drop"} => worker'[w].user \in Accounts,
         at \in {"known", "putback"} => worker[w].way = "approve",
         at \in {"restore", "gate", "file"} => worker[w].way # "approve"
  PROVE WorkerFits(worker[w])'
  BY ShapeIs DEF Goes, WorkerFits

(* Tables that are not touched.                                             *)
LEMMA SameRest ==
  ASSUME RestTyped, UNCHANGED <<requests, filed, trialChats, regMode, events, decisions, waiting, mixed>>
  PROVE RestTyped'
  BY DEF RestTyped

(* Events are counted up to their limit.                                    *)
LEMMA MoreEvents ==
  ASSUME RestTyped, NEW what, Happens(what) PROVE events' \in 0..MaxEvents
  BY CapsAreNumbers DEF RestTyped, Happens

(* Signing up. *)
LEMMA AskDoes ==
  ASSUME Shape, NEW w \in Workers, NEW way \in Ways, NEW a \in Applicants, Ask(w, way, a)
  PROVE /\ Shape' /\ Others(w) /\ worker[w].at = "idle" /\ worker'[w].at = "enter" /\ worker'[w].way # "approve"
        /\ UNCHANGED <<users, requests, filed, trialChats, decisions, waiting, mixed>>
<1> DEFINE r == Handling("enter", way, a, regMode, 0)
<1>1. r \in WorkerRow /\ r.at = "enter" /\ r.way = way /\ r.who = a /\ way \in {"bot", "app", "api", "site"}
  <2>1. way \in {"bot", "app", "api", "site"} /\ regMode \in Modes \union {"off"}
    BY ShapeIs, WaysAreKnown DEF RestTyped
  <2>2. 0 \in 0..MaxRequests /\ 0 \in 0..MaxUsers
    BY CapsAreNumbers
  <2> QED
    BY <2>1, <2>2 DEF WorkerRow, Handling
<1>2. WorkersTyped' /\ Others(w) /\ worker'[w] = r
  BY <1>1, ShapeIs, Begins DEF Ask
<1>3. WorkerFits(r)
  BY <1>1 DEF Ask, WorkerFits
<1>4. WorkerFits(worker[w])' /\ UsersTyped' /\ RestTyped' /\ filed' = filed
  BY <1>1, <1>2, <1>3, ShapeIs, SameRest DEF Ask, UsersTyped, history, WorkerFits
<1>5. Shape'
  BY <1>2, <1>4, ShapeFrom
<1> QED
  BY <1>1, <1>2, <1>5, IdleFits DEF Ask, history

(* The look under the lock: an account, one unlinked, or the gate.          *)
LEMMA LookUpDoes ==
  ASSUME Shape, NEW w \in Workers, LookUp(w)
  PROVE /\ Shape' /\ Others(w) /\ worker[w].at = "enter" /\ worker[w].way # "approve" /\ Enters(w)
        /\ UNCHANGED <<users, requests, filed, trialChats, decisions, waiting>>
        /\ \/ Done(w) /\ UNCHANGED mixed
           \/ /\ Goes(w, "restore") \/ Goes(w, "gate")
              /\ AccountsOf(worker[w].who) = {} /\ mixed' = mixed \union Mixes(w)
<1> DEFINE a == worker[w].who
<1>1. worker[w].at = "enter" /\ worker[w].way # "approve" /\ Enters(w)
      /\ UNCHANGED <<users, requests, filed, trialChats, regMode, events, decisions, waiting>>
  BY DEF LookUp, Enters
<1>2. Mixes(w) \subseteq Chats
  BY DEF Mixes
<1>3. UsersTyped' /\ (mixed' = mixed \/ mixed' = mixed \union Mixes(w) => RestTyped')
  BY <1>1, <1>2, ShapeIs DEF UsersTyped, RestTyped
<1>4. CASE Leave(w) /\ UNCHANGED mixed
  BY <1>1, <1>3, <1>4, ShapeIs, Leaves, FitsIdle, ShapeFrom DEF Done
<1>5. ASSUME NEW u \in IF a \in Chats THEN Detached(a) ELSE {}, AccountsOf(a) = {},
             worker' = [worker EXCEPT ![w].at = "restore", ![w].user = u], mixed' = mixed \union Mixes(w)
      PROVE Shape' /\ Others(w) /\ Goes(w, "restore")
  <2>1. u \in Accounts /\ a \in Chats
    BY <1>5 DEF Detached
  <2>2. WorkersTyped' /\ Goes(w, "restore") /\ worker'[w].user = u
    BY <1>5, <2>1, ShapeIs, Takes
  <2>3. WorkerFits(worker[w])'
    BY <1>1, <2>1, <2>2, FitsOn
  <2> QED
    BY <1>1, <1>3, <1>5, <2>2, <2>3, ShapeFrom DEF Goes
<1>6. ASSUME NEW m \in Modes \union {"off"}, worker' = [worker EXCEPT ![w].at = "gate", ![w].mode = m],
             mixed' = mixed \union Mixes(w)
      PROVE Shape' /\ Others(w) /\ Goes(w, "gate")
  <2>1. WorkersTyped' /\ Goes(w, "gate")
    BY <1>6, ShapeIs, Reads
  <2>2. WorkerFits(worker[w])'
    BY <1>1, <2>1, FitsOn
  <2> QED
    BY <1>1, <1>3, <1>6, <2>1, <2>2, ShapeFrom DEF Goes
<1>7. worker[w].mode \in Modes \union {"off"} /\ regMode \in Modes \union {"off"}
  BY ShapeIs DEF WorkerRow, RestTyped
<1>8. \/ Leave(w) /\ UNCHANGED mixed
      \/ /\ AccountsOf(a) = {} /\ mixed' = mixed \union Mixes(w)
         /\ \E u \in IF a \in Chats THEN Detached(a) ELSE {} :
              worker' = [worker EXCEPT ![w].at = "restore", ![w].user = u]
      \/ /\ AccountsOf(a) = {} /\ mixed' = mixed \union Mixes(w)
         /\ \E m \in Modes \union {"off"} : worker' = [worker EXCEPT ![w].at = "gate", ![w].mode = m]
  BY <1>7 DEF LookUp
<1>9. CASE Leave(w) /\ UNCHANGED mixed
  BY <1>1, <1>4, <1>9, ShapeIs, Leaves DEF Done
<1>10. CASE /\ AccountsOf(a) = {} /\ mixed' = mixed \union Mixes(w)
            /\ \E u \in IF a \in Chats THEN Detached(a) ELSE {} :
                 worker' = [worker EXCEPT ![w].at = "restore", ![w].user = u]
  BY <1>1, <1>5, <1>10
<1>11. CASE /\ AccountsOf(a) = {} /\ mixed' = mixed \union Mixes(w)
            /\ \E m \in Modes \union {"off"} : worker' = [worker EXCEPT ![w].at = "gate", ![w].mode = m]
  BY <1>1, <1>6, <1>11
<1> QED
  BY <1>8, <1>9, <1>10, <1>11

(* An unlinked account gets its Telegram back.                              *)
LEMMA RestoreDoes ==
  ASSUME Shape, NEW w \in Workers, RestoreDetachedUser(w)
  PROVE /\ Shape' /\ Done(w) /\ worker[w].at = "restore" /\ worker[w].who \in Chats /\ worker[w].way # "approve"
        /\ SameTrials /\ \A v \in Accounts : users'[v].state = users[v].state
        /\ \A v \in Accounts : users'[v].chat \in {users[v].chat, worker[w].who, NoOne}
        /\ UNCHANGED <<requests, filed, trialChats, decisions, waiting, mixed>>
<1>1. worker[w].at = "restore" /\ worker[w].who \in Chats /\ worker[w].user \in Accounts /\ worker[w].way # "approve"
  BY ShapeIs DEF RestoreDetachedUser, WorkerFits
<1>2. WorkersTyped' /\ Done(w) /\ WorkerFits(worker[w])' /\ RestTyped'
      /\ UNCHANGED <<requests, filed, trialChats, decisions, waiting, mixed>>
  BY ShapeIs, Leaves, FitsIdle, SameRest DEF RestoreDetachedUser, history
<1>3. /\ UsersTyped' /\ SameTrials /\ \A v \in Accounts : users'[v].state = users[v].state
      /\ \A v \in Accounts : users'[v].chat \in {users[v].chat, worker[w].who, NoOne}
  BY <1>1, ShapeIs, LinkDoes DEF RestoreDetachedUser
<1>4. Shape'
  BY <1>2, <1>3, ShapeFrom DEF Done
<1> QED
  BY <1>1, <1>2, <1>3, <1>4

(* Registration is closed.                                                  *)
LEMMA RefuseDoes ==
  ASSUME Shape, NEW w \in Workers, Refuse(w)
  PROVE /\ Shape' /\ Done(w) /\ worker[w].at = "gate" /\ worker[w].way # "approve"
        /\ UNCHANGED <<users, requests, filed, trialChats, decisions, waiting, mixed>>
<1>1. worker[w].at = "gate" /\ worker[w].way # "approve"
      /\ UNCHANGED <<users, requests, filed, trialChats, decisions, waiting, mixed>>
  BY ShapeIs DEF Refuse, WorkerFits, history
<1>2. WorkersTyped' /\ Done(w) /\ WorkerFits(worker[w])' /\ RestTyped' /\ UsersTyped'
  BY ShapeIs, Leaves, FitsIdle, SameRest DEF Refuse, history, UsersTyped
<1> QED
  BY <1>1, <1>2, ShapeFrom DEF Done

(* Registration is moderated or open; the trial is promised now.            *)
LEMMA AdmitDoes ==
  ASSUME Shape, NEW w \in Workers, Admit(w)
  PROVE /\ Shape' /\ worker[w].at = "gate" /\ worker[w].way # "approve"
        /\ \/ Goes(w, "file")
           \/ Goes(w, "create") /\ worker'[w].trial = ~HadTrial(worker[w].who)
        /\ UNCHANGED <<users, requests, filed, trialChats, decisions, waiting, mixed>>
<1>1. worker[w].at = "gate" /\ worker[w].way # "approve"
      /\ UNCHANGED <<users, requests, filed, trialChats, decisions, waiting, mixed>>
  BY ShapeIs DEF Admit, WorkerFits, history
<1>2. RestTyped' /\ UsersTyped'
  BY ShapeIs, SameRest DEF Admit, history, UsersTyped
<1>3. CASE Step(w, "file")
  <2>1. WorkersTyped' /\ Goes(w, "file")
    BY <1>3, ShapeIs, Steps
  <2>2. WorkerFits(worker[w])'
    BY <1>1, <2>1, FitsOn
  <2> QED
    BY <1>1, <1>2, <2>1, <2>2, ShapeFrom DEF Goes
<1>4. CASE worker' = [worker EXCEPT ![w].at = "create", ![w].trial = ~HadTrial(worker[w].who)]
  <2>1. WorkersTyped' /\ Goes(w, "create") /\ worker'[w].trial = ~HadTrial(worker[w].who)
    BY <1>4, ShapeIs, Creates DEF HadTrial
  <2>2. WorkerFits(worker[w])'
    BY <1>1, <2>1, FitsOn
  <2> QED
    BY <1>1, <1>2, <2>1, <2>2, ShapeFrom DEF Goes
<1> QED
  BY <1>3, <1>4 DEF Admit

(* A request is filed, one to an applicant.                                 *)
LEMMA RequestDoes ==
  ASSUME Shape, NEW w \in Workers, RequestRegistration(w)
  PROVE /\ Shape' /\ Done(w) /\ worker[w].at = "file" /\ worker[w].who \in Applicants /\ worker[w].way # "approve"
        /\ UNCHANGED <<users, trialChats, decisions, mixed>>
        /\ \/ /\ filed < MaxRequests /\ filed' = filed + 1
              /\ requests' = [requests EXCEPT ![filed + 1] = worker[w].who]
              /\ waiting' = waiting \union {worker[w].who}
           \/ /\ UNCHANGED <<requests, filed>>
              /\ waiting' = waiting \/ (Pending(worker[w].who) /\ waiting' = waiting \union {worker[w].who})
<1>1. worker[w].at = "file" /\ worker[w].who \in Applicants /\ worker[w].way # "approve"
  BY ShapeIs DEF RequestRegistration, WorkerFits
<1>2. WorkersTyped' /\ Done(w) /\ WorkerFits(worker[w])' /\ UsersTyped'
      /\ UNCHANGED <<users, trialChats, regMode, events, decisions, mixed>>
  BY ShapeIs, Leaves, FitsIdle DEF RequestRegistration, UsersTyped
<1>3. \/ /\ filed < MaxRequests /\ filed' = filed + 1
         /\ requests' = [requests EXCEPT ![filed + 1] = worker[w].who]
         /\ waiting' = waiting \union {worker[w].who}
      \/ /\ UNCHANGED <<requests, filed>>
         /\ waiting' = waiting \/ (Pending(worker[w].who) /\ waiting' = waiting \union {worker[w].who})
  BY DEF RequestRegistration
<1>4. RestTyped'
  <2>1. requests' \in [Requests -> Applicants \union {NoOne}] /\ filed' \in 0..MaxRequests
    <3>1. CASE UNCHANGED <<requests, filed>>
      BY <3>1, ShapeIs DEF RestTyped
    <3>2. CASE /\ filed < MaxRequests /\ filed' = filed + 1
               /\ requests' = [requests EXCEPT ![filed + 1] = worker[w].who]
      <4>1. filed + 1 \in 0..MaxRequests
        BY <3>2, ShapeIs, CapsAreNumbers DEF RestTyped
      <4>2. requests \in [Requests -> Applicants \union {NoOne}]
        BY ShapeIs DEF RestTyped
      <4> QED
        BY <1>1, <3>2, <4>1, <4>2
    <3> QED
      BY <1>3, <3>1, <3>2
  <2>2. waiting' \subseteq Applicants
    BY <1>1, <1>3, ShapeIs DEF RestTyped
  <2> QED
    BY <1>2, <2>1, <2>2, ShapeIs DEF RestTyped
<1>5. Shape'
  BY <1>2, <1>3, <1>4, ShapeFrom DEF Done
<1> QED
  BY <1>1, <1>2, <1>3, <1>5

(* Making the account. *)
LEMMA CreateDoes ==
  ASSUME Shape, NEW w \in Workers, CreateUser(w)
  PROVE /\ Shape' /\ worker[w].at = "create" /\ Goes(w, "plan") /\ worker'[w].trial = worker[w].trial
        /\ \E u \in Accounts :
             /\ users[u] = Unused /\ worker'[w].user = u
             /\ users'[u].by = worker[w].who /\ users'[u].plan = "none" /\ users'[u].chat = NoOne
             /\ \A v \in Accounts \ {u} : users'[v] = users[v]
        /\ UNCHANGED <<requests, filed, trialChats, decisions, waiting, mixed>>
<1>1. worker[w].at = "create" /\ worker[w].who \in Applicants
      /\ UNCHANGED <<requests, filed, trialChats, regMode, events, decisions, waiting, mixed>>
  BY ShapeIs DEF CreateUser, history
<1>2. PICK u \in Accounts : /\ users[u] = Unused
                            /\ users' = [users EXCEPT ![u].state = "live", ![u].by = worker[w].who]
                            /\ worker' = [worker EXCEPT ![w].at = "plan", ![w].user = u]
  BY DEF CreateUser
<1>3. WorkersTyped' /\ Goes(w, "plan") /\ worker'[w].user = u /\ worker'[w].trial = worker[w].trial
  BY <1>2, ShapeIs, Takes
<1>4. WorkerFits(worker[w])' /\ RestTyped'
  BY <1>1, <1>3, FitsOn, SameRest, ShapeIs
<1> DEFINE n == [Unused EXCEPT !.state = "live", !.by = worker[w].who]
<1>5. n \in UserRow /\ n.by = worker[w].who /\ n.plan = "none" /\ n.chat = NoOne
  BY <1>1 DEF Unused, UserRow
<1>6. users' = [users EXCEPT ![u] = n]
  BY <1>2
<1>7. UsersTyped' /\ users'[u] = n /\ \A v \in Accounts \ {u} : users'[v] = users[v]
  BY <1>5, <1>6, ShapeIs DEF UsersTyped
<1>8. Shape'
  BY <1>1, <1>3, <1>4, <1>7, ShapeFrom DEF Goes
<1> QED
  BY <1>1, <1>2, <1>3, <1>5, <1>7, <1>8

Planning(r, p) == [r EXCEPT !.plan = p]

(* A plan changes nothing else of an account.                               *)
LEMMA RowPlans ==
  ASSUME NEW r \in UserRow, NEW p \in {"none", "trial", "spent"}
  PROVE LET n == Planning(r, p) IN
        n \in UserRow /\ n.chat = r.chat /\ n.by = r.by /\ n.plan = p /\ n.state = r.state
  BY DEF UserRow, Planning

(* The account gets its plan, the promised trial or none.                   *)
LEMMA PlanDoes ==
  ASSUME Shape, NEW w \in Workers, ApplyUserPlan(w)
  PROVE /\ Shape' /\ worker[w].at = "plan" /\ Goes(w, "link") /\ SameUser(w) /\ worker[w].user \in Accounts
        /\ \A v \in Accounts : users'[v].by = users[v].by /\ users'[v].chat = users[v].chat
                               /\ users'[v].state = users[v].state
        /\ \A v \in Accounts \ {worker[w].user} : users'[v].plan = users[v].plan
        /\ users'[worker[w].user].plan = IF worker[w].trial THEN "trial" ELSE "spent"
        /\ UNCHANGED <<requests, filed, trialChats, decisions, waiting, mixed>>
<1> DEFINE u == worker[w].user
           p == IF worker[w].trial THEN "trial" ELSE "spent"
<1>1. worker[w].at = "plan" /\ u \in Accounts
      /\ UNCHANGED <<requests, filed, trialChats, regMode, events, decisions, waiting, mixed>>
  BY ShapeIs DEF ApplyUserPlan, history, WorkerFits
<1>2. WorkersTyped' /\ Goes(w, "link") /\ SameUser(w)
  BY ShapeIs, Steps DEF ApplyUserPlan
<1>3. WorkerFits(worker[w])' /\ RestTyped'
  BY <1>1, <1>2, FitsOn, SameRest, ShapeIs DEF SameUser
<1>4. users' = [users EXCEPT ![u] = Planning(users[u], p)] /\ users[u] \in UserRow
  BY <1>1, ShapeIs DEF ApplyUserPlan, Planning, UsersTyped
<1>5. LET n == Planning(users[u], p) IN
      n \in UserRow /\ n.chat = users[u].chat /\ n.by = users[u].by /\ n.plan = p /\ n.state = users[u].state
  BY <1>4, RowPlans
<1>6. UsersTyped' /\ users'[u] = Planning(users[u], p) /\ \A v \in Accounts \ {u} : users'[v] = users[v]
  BY <1>1, <1>4, <1>5, ShapeIs DEF UsersTyped
<1>7. Shape'
  BY <1>1, <1>2, <1>3, <1>6, ShapeFrom DEF Goes
<1> QED
  BY <1>1, <1>2, <1>5, <1>6, <1>7

(* No account is made; an approval puts its request back.                   *)
LEMMA CreateFailsDoes ==
  ASSUME Shape, NEW w \in Workers, CreateFails(w)
  PROVE /\ Shape' /\ worker[w].at \in {"create", "plan"}
        /\ IF worker[w].way = "approve" THEN Goes(w, "putback") ELSE Done(w)
        /\ UNCHANGED <<users, requests, filed, trialChats, decisions, waiting, mixed>>
<1>1. worker[w].at \in {"create", "plan"}
      /\ UNCHANGED <<users, requests, filed, trialChats, regMode, decisions, waiting, mixed>>
  BY DEF CreateFails, history
<1>2. UsersTyped' /\ RestTyped'
  <2>1. events' \in 0..MaxEvents
    BY ShapeIs, MoreEvents DEF CreateFails, RestTyped
  <2> QED
    BY <1>1, <2>1, ShapeIs DEF UsersTyped, RestTyped
<1>3. CASE worker[w].way = "approve"
  <2>1. WorkersTyped' /\ Goes(w, "putback")
    BY <1>3, ShapeIs, Steps DEF CreateFails
  <2>2. WorkerFits(worker[w])'
    BY <1>1, <1>3, <2>1, FitsOn
  <2> QED
    BY <1>1, <1>2, <1>3, <2>1, <2>2, ShapeFrom DEF Goes
<1>4. CASE worker[w].way # "approve"
  <2>1. WorkersTyped' /\ Done(w) /\ WorkerFits(worker[w])'
    BY <1>4, ShapeIs, Leaves, FitsIdle DEF CreateFails
  <2> QED
    BY <1>1, <1>2, <1>4, <2>1, ShapeFrom DEF Done
<1> QED
  BY <1>3, <1>4

Decided(w) ==
  IF worker[w].way = "approve"
  THEN /\ decisions' = [decisions EXCEPT ![worker[w].req] = @ + 1]
       /\ waiting' = waiting \ {worker[w].who}
  ELSE decisions' = decisions /\ waiting' = waiting

(* An approval that ends has decided its request.                           *)
LEMMA DecideDoes ==
  ASSUME Shape, NEW w \in Workers, worker[w].at # "idle", Decide(w),
         UNCHANGED <<requests, filed, trialChats, regMode, events>>, mixed' \subseteq Chats
  PROVE RestTyped' /\ Decided(w)
<1>1. Decided(w)
  BY DEF Decide, Decided
<1>2. worker[w].way = "approve" => worker[w].req \in Requests
  BY ShapeIs, CapsAreNumbers DEF WorkerFits, RestTyped, Requests
<1>3. decisions' \in [Requests -> Nat] /\ waiting' \subseteq Applicants
  BY <1>1, <1>2, ShapeIs DEF RestTyped, Decided
<1> QED
  BY <1>1, <1>3, ShapeIs DEF RestTyped

(* The account gets the Telegram, and whoever had it loses it.              *)
LEMMA LinkChatDoes ==
  ASSUME Shape, NEW w \in Workers, LinkChat(w)
  PROVE /\ Shape' /\ worker[w].at = "link" /\ Goes(w, "mark") /\ SameUser(w) /\ worker[w].who \in Chats
        /\ SameTrials /\ \A v \in Accounts : users'[v].state = users[v].state
        /\ \A v \in Accounts : users'[v].chat \in {users[v].chat, worker[w].who, NoOne}
        /\ Decided(w) /\ UNCHANGED <<requests, filed, trialChats, mixed>>
<1>1. worker[w].at = "link" /\ worker[w].who \in Chats /\ worker[w].user \in Accounts
      /\ UNCHANGED <<requests, filed, trialChats, regMode, events, mixed>>
  BY ShapeIs DEF LinkChat, WorkerFits
<1>2. WorkersTyped' /\ Goes(w, "mark") /\ SameUser(w)
  BY ShapeIs, Steps DEF LinkChat
<1>3. WorkerFits(worker[w])'
  BY <1>1, <1>2, FitsOn DEF SameUser
<1>4. RestTyped' /\ Decided(w)
  <2>1. mixed' \subseteq Chats
    BY <1>1, ShapeIs DEF RestTyped
  <2> QED
    BY <1>1, <2>1, DecideDoes DEF LinkChat
<1>5. /\ UsersTyped' /\ SameTrials /\ \A v \in Accounts : users'[v].state = users[v].state
      /\ \A v \in Accounts : users'[v].chat \in {users[v].chat, worker[w].who, NoOne}
  BY <1>1, ShapeIs, LinkDoes DEF LinkChat
<1>6. Shape'
  BY <1>1, <1>2, <1>3, <1>4, <1>5, ShapeFrom DEF Goes
<1> QED
  BY <1>1, <1>2, <1>4, <1>5, <1>6

(* The account gets the site client.                                        *)
LEMMA SiteDoes ==
  ASSUME Shape, NEW w \in Workers, SetUserExternalID(w)
  PROVE /\ Shape' /\ worker[w].at = "link" /\ worker[w].who \in Sites
        /\ SameTrials /\ \A v \in Accounts : users'[v].chat = users[v].chat /\ users'[v].state = users[v].state
        /\ \/ Done(w) /\ Decided(w)
           \/ Goes(w, "drop") /\ SameUser(w) /\ UNCHANGED <<decisions, waiting>>
        /\ UNCHANGED <<requests, filed, trialChats, mixed>>
<1> DEFINE a == worker[w].who
           u == worker[w].user
<1>1. worker[w].at = "link" /\ a \in Sites /\ u \in Accounts
      /\ UNCHANGED <<requests, filed, trialChats, regMode, events, mixed>>
  BY ShapeIs DEF SetUserExternalID, WorkerFits
<1>2. CASE users' = [users EXCEPT ![u].site = a] /\ Decide(w) /\ Leave(w)
  <2>1. WorkersTyped' /\ Done(w) /\ WorkerFits(worker[w])'
    BY <1>2, ShapeIs, Leaves, FitsIdle
  <2>2. RestTyped' /\ Decided(w)
    <3>1. mixed' \subseteq Chats
      BY <1>1, ShapeIs DEF RestTyped
    <3> QED
      BY <1>1, <1>2, <3>1, DecideDoes
  <2>3. UsersTyped' /\ SameTrials
        /\ \A v \in Accounts : users'[v].chat = users[v].chat /\ users'[v].state = users[v].state
    BY <1>1, <1>2, ShapeIs, RowSites
  <2> QED
    BY <1>1, <2>1, <2>2, <2>3, ShapeFrom DEF Done
<1>3. CASE Step(w, "drop") /\ UNCHANGED <<users, decisions, waiting>>
  <2>1. WorkersTyped' /\ Goes(w, "drop") /\ SameUser(w)
    BY <1>3, ShapeIs, Steps
  <2>2. WorkerFits(worker[w])'
    BY <1>1, <2>1, FitsOn DEF SameUser
  <2>3. UsersTyped' /\ SameTrials /\ RestTyped'
        /\ \A v \in Accounts : users'[v].chat = users[v].chat /\ users'[v].state = users[v].state
    BY <1>1, <1>3, ShapeIs, SameRest DEF UsersTyped, SameTrials
  <2> QED
    BY <1>1, <1>3, <2>1, <2>2, <2>3, ShapeFrom DEF Goes
<1> QED
  BY <1>2, <1>3 DEF SetUserExternalID

(* It does not: bot and Mini App leave it, the others delete it.            *)
LEMMA LinkFailsDoes ==
  ASSUME Shape, NEW w \in Workers, LinkFails(w)
  PROVE /\ Shape' /\ worker[w].at = "link"
        /\ IF worker[w].way \in {"bot", "app"}
           THEN Done(w) /\ mixed' = mixed \union {worker[w].who}
           ELSE Goes(w, "drop") /\ SameUser(w) /\ UNCHANGED mixed
        /\ UNCHANGED <<users, requests, filed, trialChats, decisions, waiting>>
<1>1. worker[w].at = "link" /\ worker[w].user \in Accounts
      /\ UNCHANGED <<users, requests, filed, trialChats, regMode, decisions, waiting>>
  BY ShapeIs DEF LinkFails, WorkerFits
<1>2. UsersTyped' /\ events' \in 0..MaxEvents
  BY <1>1, ShapeIs, MoreEvents DEF LinkFails, UsersTyped
<1>3. CASE worker[w].way \in {"bot", "app"}
  <2>1. WorkersTyped' /\ Done(w) /\ WorkerFits(worker[w])' /\ mixed' = mixed \union {worker[w].who}
    BY <1>3, ShapeIs, Leaves, FitsIdle DEF LinkFails
  <2>2. worker[w].who \in Chats
    BY <1>1, <1>3, ShapeIs DEF WorkerFits
  <2>3. RestTyped'
    BY <1>1, <1>2, <2>1, <2>2, ShapeIs DEF RestTyped
  <2> QED
    BY <1>1, <1>2, <1>3, <2>1, <2>3, ShapeFrom DEF Done
<1>4. CASE worker[w].way \notin {"bot", "app"}
  <2>1. WorkersTyped' /\ Goes(w, "drop") /\ SameUser(w) /\ UNCHANGED mixed
    BY <1>4, ShapeIs, Steps DEF LinkFails
  <2>2. WorkerFits(worker[w])'
    BY <1>1, <2>1, FitsOn DEF SameUser
  <2>3. RestTyped'
    BY <1>1, <1>2, <2>1, ShapeIs DEF RestTyped
  <2> QED
    BY <1>1, <1>2, <1>4, <2>1, <2>2, <2>3, ShapeFrom DEF Goes
<1> QED
  BY <1>3, <1>4

(* The account is deleted again.                                            *)
LEMMA DropDoes ==
  ASSUME Shape, NEW w \in Workers, DropUser(w)
  PROVE /\ Shape' /\ worker[w].at = "drop" /\ worker[w].user \in Accounts
        /\ IF worker[w].way = "approve" THEN Goes(w, "putback") ELSE Done(w)
        /\ users'[worker[w].user].plan = "none" /\ users'[worker[w].user].by = users[worker[w].user].by
        /\ users'[worker[w].user].chat = NoOne
        /\ \A v \in Accounts \ {worker[w].user} : users'[v] = users[v]
        /\ UNCHANGED <<requests, filed, trialChats, decisions, waiting, mixed>>
<1> DEFINE u == worker[w].user
           n == Planning(Deleting(users[u]), "none")
<1>1. worker[w].at = "drop" /\ u \in Accounts
      /\ UNCHANGED <<requests, filed, trialChats, regMode, events, decisions, waiting, mixed>>
  BY ShapeIs DEF DropUser, WorkerFits, history
<1>2. users[u] \in UserRow /\ users' = [users EXCEPT ![u] = n]
  BY <1>1, ShapeIs DEF UsersTyped, DropUser, DeletedUser, Deleting, Planning
<1>3. LET d == Deleting(users[u]) IN d \in UserRow /\ d.by = users[u].by /\ d.chat = NoOne
  BY <1>2, RowTakenAway
<1>4. n \in UserRow /\ n.by = users[u].by /\ n.chat = NoOne /\ n.plan = "none"
  BY <1>3, RowPlans
<1>5. UsersTyped' /\ users'[u] = n /\ \A v \in Accounts \ {u} : users'[v] = users[v]
  BY <1>1, <1>2, <1>4, ShapeIs DEF UsersTyped
<1>6. RestTyped'
  BY <1>1, SameRest, ShapeIs
<1>7. CASE worker[w].way = "approve"
  <2>1. WorkersTyped' /\ Goes(w, "putback")
    BY <1>7, ShapeIs, Steps DEF DropUser
  <2>2. WorkerFits(worker[w])'
    BY <1>1, <1>7, <2>1, FitsOn
  <2> QED
    BY <1>1, <1>4, <1>5, <1>6, <1>7, <2>1, <2>2, ShapeFrom DEF Goes
<1>8. CASE worker[w].way # "approve"
  <2>1. WorkersTyped' /\ Done(w) /\ WorkerFits(worker[w])'
    BY <1>8, ShapeIs, Leaves, FitsIdle DEF DropUser
  <2> QED
    BY <1>1, <1>4, <1>5, <1>6, <1>8, <2>1, ShapeFrom DEF Done
<1> QED
  BY <1>7, <1>8

(* The trial is recorded, or its loss is marked.                            *)
LEMMA MarkDoes ==
  ASSUME Shape, NEW w \in Workers, MarkChatTrial(w)
  PROVE /\ Shape' /\ Done(w) /\ worker[w].at = "mark" /\ worker[w].who \in Chats
        /\ \/ trialChats' = trialChats \union {worker[w].who} /\ UNCHANGED mixed
           \/ trialChats' = trialChats /\ mixed' = mixed \union {worker[w].who}
        /\ UNCHANGED <<users, requests, filed, decisions, waiting>>
<1>1. worker[w].at = "mark" /\ worker[w].who \in Chats
      /\ UNCHANGED <<users, requests, filed, regMode, decisions, waiting>>
  BY ShapeIs DEF MarkChatTrial, WorkerFits
<1>2. WorkersTyped' /\ Done(w) /\ WorkerFits(worker[w])'
  BY ShapeIs, Leaves, FitsIdle DEF MarkChatTrial
<1>3. \/ trialChats' = trialChats \union {worker[w].who} /\ UNCHANGED <<events, mixed>>
      \/ trialChats' = trialChats /\ mixed' = mixed \union {worker[w].who} /\ events' \in 0..MaxEvents
  BY ShapeIs, MoreEvents DEF MarkChatTrial, Marked
<1>4. UsersTyped' /\ RestTyped'
  BY <1>1, <1>3, ShapeIs DEF UsersTyped, RestTyped
<1> QED
  BY <1>1, <1>2, <1>3, <1>4, ShapeFrom DEF Done

(* Deciding. *)
LEMMA ApproveDoes ==
  ASSUME Shape, Decisions, NEW w \in Workers, NEW r \in Requests, Approve(w, r)
  PROVE /\ Shape' /\ Others(w) /\ worker[w].at = "idle" /\ worker'[w].at = "enter" /\ worker'[w].way = "approve"
        /\ worker'[w].req = r /\ worker'[w].who = requests[r] /\ requests[r] # NoOne
        /\ UNCHANGED <<users, requests, filed, trialChats, decisions, waiting, mixed>>
<1> DEFINE n == Handling("enter", "approve", requests[r], "off", r)
<1>1. requests[r] # NoOne /\ requests[r] \in Applicants /\ r \in 1..filed /\ r \in 0..MaxRequests /\ worker[w] = Idle
  BY ShapeIs, CapsAreNumbers DEF Approve, RestTyped, Requests, Decisions
<1>2. n \in WorkerRow /\ n.at = "enter" /\ n.way = "approve" /\ n.who = requests[r] /\ n.req = r
  <2>1. 0 \in 0..MaxUsers
    BY CapsAreNumbers
  <2> QED
    BY <1>1, <2>1 DEF WorkerRow, Handling
<1>3. WorkersTyped' /\ Others(w) /\ worker'[w] = n
  BY <1>2, ShapeIs, Begins DEF Approve
<1>4. WorkerFits(worker[w])' /\ UsersTyped' /\ RestTyped' /\ filed' = filed
  BY <1>1, <1>2, <1>3, ShapeIs, SameRest DEF Approve, UsersTyped, history, WorkerFits
<1>5. Shape'
  BY <1>3, <1>4, ShapeFrom
<1> QED
  BY <1>1, <1>2, <1>3, <1>5, IdleFits DEF Approve, history

(* An approval takes the row of its request.                                *)
LEMMA ClaimDoes ==
  ASSUME Shape, NEW w \in Workers, Claim(w)
  PROVE /\ Shape' /\ worker[w].at = "enter" /\ worker[w].way = "approve" /\ Enters(w) /\ worker[w].req \in Requests
        /\ \/ /\ requests[worker[w].req] # NoOne /\ requests' = [requests EXCEPT ![worker[w].req] = NoOne]
              /\ Goes(w, "known")
           \/ UNCHANGED requests /\ Done(w)
        /\ UNCHANGED <<users, filed, trialChats, decisions, waiting, mixed>>
<1>1. worker[w].at = "enter" /\ worker[w].way = "approve" /\ Enters(w)
      /\ UNCHANGED <<users, filed, trialChats, regMode, events, decisions, waiting, mixed>>
  BY DEF Claim, Enters, history
<1>2. worker[w].req \in Requests
  BY <1>1, ShapeIs, CapsAreNumbers DEF WorkerFits, RestTyped, Requests
<1>3. CASE requests' = [requests EXCEPT ![worker[w].req] = NoOne] /\ Step(w, "known") /\ requests[worker[w].req] # NoOne
  <2>1. WorkersTyped' /\ Goes(w, "known")
    BY <1>3, ShapeIs, Steps
  <2>2. WorkerFits(worker[w])'
    BY <1>1, <2>1, FitsOn
  <2>3. UsersTyped' /\ RestTyped'
    BY <1>1, <1>3, ShapeIs DEF UsersTyped, RestTyped
  <2> QED
    BY <1>1, <1>2, <1>3, <2>1, <2>2, <2>3, ShapeFrom DEF Goes
<1>4. CASE UNCHANGED requests /\ Leave(w)
  <2>1. WorkersTyped' /\ Done(w) /\ WorkerFits(worker[w])' /\ UsersTyped' /\ RestTyped'
    BY <1>1, <1>4, ShapeIs, Leaves, FitsIdle, SameRest DEF UsersTyped
  <2> QED
    BY <1>1, <1>2, <1>4, <2>1, ShapeFrom DEF Done
<1> QED
  BY <1>3, <1>4 DEF Claim, Claimed

(* It finds an account there already, or makes one.                         *)
LEMMA ApproveRequestDoes ==
  ASSUME Shape, NEW w \in Workers, ApproveRegistrationRequest(w)
  PROVE /\ Shape' /\ worker[w].at = "known" /\ worker[w].way = "approve"
        /\ \/ Done(w) /\ Decided(w) /\ UNCHANGED mixed
           \/ /\ Goes(w, "create") /\ worker'[w].trial = ~HadTrial(worker[w].who)
              /\ AccountsOf(worker[w].who) = {} /\ mixed' = mixed \union Mixes(w)
              /\ UNCHANGED <<decisions, waiting>>
        /\ UNCHANGED <<users, requests, filed, trialChats>>
<1>1. worker[w].at = "known" /\ worker[w].way = "approve"
      /\ UNCHANGED <<users, requests, filed, trialChats, regMode, events>>
  BY ShapeIs DEF ApproveRegistrationRequest, WorkerFits
<1>2. UsersTyped'
  BY <1>1, ShapeIs DEF UsersTyped
<1>3. CASE Decide(w) /\ Leave(w) /\ UNCHANGED mixed
  <2>1. WorkersTyped' /\ Done(w) /\ WorkerFits(worker[w])'
    BY <1>3, ShapeIs, Leaves, FitsIdle
  <2>2. mixed' \subseteq Chats
    BY <1>3, ShapeIs DEF RestTyped
  <2>3. RestTyped' /\ Decided(w)
    BY <1>1, <1>3, <2>2, DecideDoes
  <2> QED
    BY <1>1, <1>2, <1>3, <2>1, <2>3, ShapeFrom DEF Done
<1>4. CASE /\ worker' = [worker EXCEPT ![w].at = "create", ![w].trial = ~HadTrial(worker[w].who)]
           /\ AccountsOf(worker[w].who) = {} /\ mixed' = mixed \union Mixes(w) /\ UNCHANGED <<decisions, waiting>>
  <2>1. WorkersTyped' /\ Goes(w, "create") /\ worker'[w].trial = ~HadTrial(worker[w].who)
    BY <1>4, ShapeIs, Creates DEF HadTrial
  <2>2. WorkerFits(worker[w])'
    BY <1>1, <2>1, FitsOn
  <2>3. Mixes(w) \subseteq Chats
    BY DEF Mixes
  <2>4. RestTyped'
    BY <1>1, <1>4, <2>3, ShapeIs DEF RestTyped
  <2> QED
    BY <1>1, <1>2, <1>4, <2>1, <2>2, <2>4, ShapeFrom DEF Goes
<1> QED
  BY <1>3, <1>4 DEF ApproveRegistrationRequest

(* It puts its request back, or somebody has asked again.                   *)
LEMMA PutBackDoes ==
  ASSUME Shape, NEW w \in Workers, PutBack(w)
  PROVE /\ Shape' /\ Done(w) /\ worker[w].at = "putback" /\ worker[w].way = "approve"
        /\ worker[w].who \in Applicants /\ worker[w].req \in 1..filed /\ worker[w].req \in Requests
        /\ IF Pending(worker[w].who) THEN UNCHANGED requests
           ELSE requests' = [requests EXCEPT ![worker[w].req] = worker[w].who]
        /\ UNCHANGED <<users, filed, trialChats, decisions, waiting, mixed>>
<1>1. worker[w].at = "putback" /\ worker[w].way = "approve" /\ worker[w].who \in Applicants
      /\ worker[w].req \in 1..filed
      /\ UNCHANGED <<users, filed, trialChats, regMode, events, decisions, waiting, mixed>>
  BY ShapeIs DEF PutBack, WorkerFits, history
<1>2. worker[w].req \in Requests
  BY <1>1, ShapeIs, CapsAreNumbers DEF RestTyped, Requests
<1>3. WorkersTyped' /\ Done(w) /\ WorkerFits(worker[w])' /\ UsersTyped'
  BY <1>1, ShapeIs, Leaves, FitsIdle DEF PutBack, UsersTyped
<1>4. IF Pending(worker[w].who) THEN UNCHANGED requests
      ELSE requests' = [requests EXCEPT ![worker[w].req] = worker[w].who]
  BY DEF PutBack, RestoreRegistrationRequest
<1>5. requests' \in [Requests -> Applicants \union {NoOne}]
  BY <1>1, <1>2, <1>4, ShapeIs DEF RestTyped
<1>6. RestTyped'
  BY <1>1, <1>5, ShapeIs DEF RestTyped
<1> QED
  BY <1>1, <1>2, <1>3, <1>4, <1>6, ShapeFrom DEF Done

(* What happens beside them. *)
LEMMA ShapeStays ==
  ASSUME Shape, UsersTyped', RestTyped', UNCHANGED <<worker, filed>> PROVE Shape'
<1>1. TypeOK'
  BY ShapeIs DEF TypeOK, UserRow, WorkerRow, UsersTyped, WorkersTyped, RestTyped
<1>2. ASSUME NEW w \in Workers PROVE WorkerFits(worker[w])'
  BY ShapeIs DEF WorkerFits
<1> QED
  BY <1>1, <1>2 DEF Shape

(* A rejection decides a request that is there.                             *)
LEMMA RejectDoes ==
  ASSUME Shape, NEW r \in Requests, RejectRegistrationRequest(r)
  PROVE /\ Shape' /\ requests[r] # NoOne /\ requests' = [requests EXCEPT ![r] = NoOne]
        /\ decisions' = [decisions EXCEPT ![r] = @ + 1] /\ waiting' = waiting \ {requests[r]}
        /\ UNCHANGED <<users, filed, trialChats, worker, mixed>>
<1>1. RestTyped' /\ UsersTyped'
  BY ShapeIs DEF RejectRegistrationRequest, RestTyped, UsersTyped
<1> QED
  BY <1>1, ShapeStays DEF RejectRegistrationRequest

(* The mode of registration changes.                                        *)
LEMMA ModeDoes ==
  ASSUME Shape, NEW m \in Modes, SetMode(m)
  PROVE Shape' /\ UNCHANGED <<users, requests, filed, trialChats, worker, decisions, waiting, mixed>>
<1>1. RestTyped' /\ UsersTyped'
  BY ShapeIs, MoreEvents DEF SetMode, RestTyped, UsersTyped, history
<1> QED
  BY <1>1, ShapeStays DEF SetMode, history

(* Accounts are deleted and unlinked.                                       *)
LEMMA TakingAwayDoes ==
  ASSUME Shape, NEW u \in Accounts, DeleteUser(u) \/ UnlinkUserTelegram(u)
  PROVE /\ Shape' /\ SameTrials
        /\ \A v \in Accounts : users'[v].chat \in {users[v].chat, NoOne}
                               /\ users'[v].state \in {users[v].state, "gone"}
        /\ UNCHANGED <<requests, filed, trialChats, worker, decisions, waiting, mixed>>
<1>1. RestTyped' /\ UNCHANGED <<requests, filed, trialChats, worker, decisions, waiting, mixed>>
  BY ShapeIs, MoreEvents DEF DeleteUser, UnlinkUserTelegram, RestTyped, history
<1>2. PICK n \in {Deleting(users[u]), Unlinking(users[u])} : users' = [users EXCEPT ![u] = n]
  BY DEF DeleteUser, DeletedUser, UnlinkUserTelegram, Deleting, Unlinking
<1> QED
  BY <1>1, <1>2, TakenAway, ShapeIs, ShapeStays

(* A code moves a Telegram to another account.                              *)
LEMMA LinkByCodeDoes ==
  ASSUME Shape, NEW u \in Accounts, NEW c \in Chats, LinkByCode(u, c)
  PROVE /\ Shape' /\ SameTrials /\ \A v \in Accounts : users'[v].state = users[v].state
        /\ \A v \in Accounts : users'[v].chat \in {users[v].chat, c, NoOne}
        /\ mixed' = IF \E w \in Workers : Registers(w, c) THEN mixed \union {c} ELSE mixed
        /\ UNCHANGED <<requests, filed, trialChats, worker, decisions, waiting>>
<1>1. /\ UNCHANGED <<requests, filed, trialChats, regMode, worker, decisions, waiting>>
      /\ mixed' = IF \E w \in Workers : Registers(w, c) THEN mixed \union {c} ELSE mixed
  BY DEF LinkByCode
<1>2. events' \in 0..MaxEvents
  BY ShapeIs, MoreEvents DEF LinkByCode
<1>3. RestTyped'
  BY <1>1, <1>2, ShapeIs DEF RestTyped
<1>4. /\ UsersTyped' /\ SameTrials /\ \A v \in Accounts : users'[v].state = users[v].state
      /\ \A v \in Accounts : users'[v].chat \in {users[v].chat, c, NoOne}
  BY ShapeIs, LinkDoes DEF LinkByCode
<1> QED
  BY <1>1, <1>3, <1>4, ShapeStays

(* An account is tied to a site client.                                     *)
LEMMA TieDoes ==
  ASSUME Shape, NEW u \in Accounts, NEW a \in Sites, TieToSite(u, a)
  PROVE /\ Shape' /\ SameTrials
        /\ \A v \in Accounts : users'[v].chat = users[v].chat /\ users'[v].state = users[v].state
        /\ UNCHANGED <<requests, filed, trialChats, worker, decisions, waiting, mixed>>
<1>1. RestTyped' /\ UNCHANGED <<requests, filed, trialChats, worker, decisions, waiting, mixed>>
  BY ShapeIs, MoreEvents DEF TieToSite, RestTyped, history
<1>2. UsersTyped' /\ SameTrials
      /\ \A v \in Accounts : users'[v].chat = users[v].chat /\ users'[v].state = users[v].state
  BY ShapeIs, RowSites DEF TieToSite
<1> QED
  BY <1>1, <1>2, ShapeStays

(* A restart cuts everything off, and marks whose trial it left unrecorded. *)
LEMMA CrashDoes ==
  ASSUME Shape, Crash
  PROVE /\ Shape' /\ worker' = [w \in Workers |-> Idle] /\ mixed \subseteq mixed'
        /\ \A w \in Workers : worker[w].at \in {"link", "mark", "drop"} /\ worker[w].who \in Chats
                              => worker[w].who \in mixed'
        /\ \A a \in waiting' : a \in waiting /\ (Pending(a) \/ \A w \in Workers :
                              ~(worker[w].way = "approve" /\ Inside(w) /\ worker[w].who = a))
        /\ UNCHANGED <<users, requests, filed, trialChats, decisions>>
<1>1. /\ worker' = [w \in Workers |-> Idle] /\ mixed \subseteq mixed' /\ mixed' \subseteq mixed \union Chats
      /\ \A w \in Workers : worker[w].at \in {"link", "mark", "drop"} /\ worker[w].who \in Chats
                            => worker[w].who \in mixed'
      /\ UNCHANGED <<users, requests, filed, trialChats, regMode, decisions>>
  BY DEF Crash
<1>2. \A a \in waiting' : a \in waiting /\ (Pending(a) \/ \A w \in Workers :
                            ~(worker[w].way = "approve" /\ Inside(w) /\ worker[w].who = a))
  BY DEF Crash
<1>3. UsersTyped' /\ WorkersTyped' /\ RestTyped'
  <2>1. events' \in 0..MaxEvents
    BY ShapeIs, MoreEvents DEF Crash
  <2>2. WorkersTyped'
    BY <1>1, IdleTyped DEF WorkersTyped
  <2> QED
    BY <1>1, <1>2, <2>1, <2>2, ShapeIs DEF UsersTyped, RestTyped
<1>4. TypeOK'
  BY <1>3 DEF TypeOK, UserRow, WorkerRow, UsersTyped, WorkersTyped, RestTyped
<1>5. ASSUME NEW w \in Workers PROVE WorkerFits(worker[w])'
  BY <1>1 DEF WorkerFits, Idle, Handling
<1> QED
  BY <1>1, <1>2, <1>4, <1>5 DEF Shape

----------------------------------------------------------------------------
(* What leaves each part of the invariant alone. *)
LEMMA ExclusiveStays ==
  ASSUME Exclusive, NEW w \in Workers, Others(w),
         \/ worker'[w].at \in {"idle", "enter"}
         \/ Inside(w) /\ worker'[w].way = worker[w].way /\ worker'[w].who = worker[w].who
  PROVE Exclusive'
<1> SUFFICES ASSUME NEW x \in Workers, NEW v \in Workers, Inside(x)', Inside(v)', LockOf(worker[x])' # "none",
                    LockOf(worker[v])' = LockOf(worker[x])'
             PROVE x = v
  BY DEF Exclusive
<1>1. \A y \in Workers : Inside(y)' => Inside(y) /\ LockOf(worker[y])' = LockOf(worker[y])
  BY DEF Inside, Others, LockOf
<1> QED
  BY <1>1 DEF Exclusive

(* Who enters a lock found nobody inside.                                   *)
LEMMA ExclusiveEnters ==
  ASSUME Exclusive, NEW w \in Workers, NEW at, Goes(w, at), Enters(w) PROVE Exclusive'
<1> SUFFICES ASSUME NEW x \in Workers, NEW v \in Workers, Inside(x)', Inside(v)', LockOf(worker[x])' # "none",
                    LockOf(worker[v])' = LockOf(worker[x])'
             PROVE x = v
  BY DEF Exclusive
<1>1. \A y \in Workers : LockOf(worker[y])' = LockOf(worker[y])
  BY DEF Goes, Others, LockOf
<1>2. \A y \in Workers \ {w} : Inside(y)' => Inside(y)
  BY DEF Goes, Others, Inside
<1>3. CASE x # w /\ v # w
  BY <1>1, <1>2, <1>3 DEF Exclusive
<1>4. CASE x = w \/ v = w
  BY <1>1, <1>2, <1>4 DEF Enters
<1> QED
  BY <1>3, <1>4

(* Requests nobody touches stay as decided as they were.                    *)
LEMMA DecisionsStay ==
  ASSUME Decisions, NEW w \in Workers, Others(w), UNCHANGED <<requests, filed, decisions>>,
         \/ worker'[w].at = "idle" \/ worker'[w].way # "approve"
         \/ /\ worker[w].at # "idle" /\ worker'[w].way = worker[w].way
            /\ worker'[w].who = worker[w].who /\ worker'[w].req = worker[w].req
            /\ Holding(w) \/ ~Holding(w)'
  PROVE Decisions'
<1>1. \A v \in Workers : Approving(v)' => /\ Approving(v) /\ worker'[v].req = worker[v].req
                                         /\ worker'[v].who = worker[v].who
  BY DEF Others, Approving
<1>2. \A v \in Workers : Holding(v)' => Holding(v) /\ worker'[v].req = worker[v].req
  BY DEF Others, Approving, Holding
<1> QED
  BY <1>1, <1>2 DEF Decisions

(* Whoever waits keeps what he waits for.                                   *)
LEMMA WaitsStay ==
  ASSUME Waits, NEW w \in Workers, Others(w), requests' = requests, waiting' \subseteq waiting,
         Holding(w) /\ worker[w].who \in waiting' => Holding(w)' /\ worker'[w].who = worker[w].who
  PROVE Waits'
<1> SUFFICES ASSUME NEW a \in waiting', ~Pending(a)
             PROVE \E v \in Workers : Holding(v)' /\ worker'[v].who = a
  BY DEF Waits, Pending
<1>1. PICK v \in Workers : Holding(v) /\ worker[v].who = a
  BY DEF Waits
<1>2. Holding(v)' /\ worker'[v].who = a
  BY <1>1 DEF Others, Holding, Approving
<1> QED
  BY <1>2

Making == {"plan", "link", "mark", "drop"}

(* An account under way stays its applicant's.                              *)
LEMMA OwnedStays ==
  ASSUME Shape, Owned, NEW w \in Workers, Others(w),
         \A u \in Accounts : users[u] = Unused \/ users'[u].by = users[u].by,
         worker'[w].at \in Making =>
           worker[w].at \in Making /\ worker'[w].user = worker[w].user /\ worker'[w].who = worker[w].who
  PROVE Owned'
<1> SUFFICES ASSUME NEW v \in Workers, worker'[v].at \in Making
             PROVE users'[worker'[v].user].by = worker'[v].who
  BY DEF Owned, Making
<1>1. worker[v].at \in Making /\ worker'[v].user = worker[v].user /\ worker'[v].who = worker[v].who
  BY DEF Others
<1>2. worker[v].user \in Accounts /\ worker[v].who \in Applicants /\ users[worker[v].user].by = worker[v].who
  BY <1>1, ShapeIs DEF Making, Owned, WorkerFits
<1>3. users[worker[v].user] # Unused
  BY <1>2, ApplicantsAreDistinct DEF Unused, Applicants
<1> QED
  BY <1>1, <1>2, <1>3

Registering == {"restore", "gate", "file", "create", "plan", "link", "mark", "drop"}
Recording == {"link", "mark", "drop"}
Trials == Alone /\ Unlinked /\ Recorded /\ Single /\ Promised
(* No trial is given, no account gains the chat of a registration, and a  *)
(* worker does not begin to register or drop what is to be recorded.       *)
NoNewTrials == \A u \in Accounts, c \in Chats : TrialOf(u, c)' => TrialOf(u, c)
NoNewChats ==
  \A v \in Workers, c \in Chats \ mixed' : Registers(v, c)' /\ worker'[v].at \notin {"mark", "drop"} =>
    \A u \in Accounts : Live(u)' /\ users'[u].chat = c => Live(u) /\ users[u].chat = c
NothingNew(v) ==
  \/ worker'[v].at \notin Registering \/ worker'[v].who \notin Chats
  \/ /\ worker[v].at \in Registering /\ worker'[v].who = worker[v].who
     /\ worker[v].at \in {"mark", "drop"} => worker'[v].at \in {"mark", "drop"}
     /\ worker'[v].at \in {"create", "plan"} =>
          worker[v].at \in {"create", "plan"} /\ worker'[v].trial = worker[v].trial
NothingLost(v) ==
  worker[v].at \in Recording /\ worker[v].who \in Chats \ mixed' =>
    worker'[v].at \in Recording /\ worker'[v].user = worker[v].user /\ worker'[v].who = worker[v].who
Quiet(v) == worker'[v] = worker[v] \/ (NothingNew(v) /\ NothingLost(v))

(* What Trials says of one chat. *)
TrialsFor(c) ==
  /\ \A x, v \in Workers : Registers(x, c) /\ Registers(v, c) => x = v
  /\ \A v \in Workers : Registers(v, c) /\ worker[v].at \notin {"mark", "drop"} =>
       \A u \in Accounts : Live(u) => users[u].chat # c
  /\ \A u \in Accounts : TrialOf(u, c) =>
       \/ c \in trialChats
       \/ \E v \in Workers : worker[v].who = c /\ worker[v].at \in Recording /\ worker[v].user = u
  /\ \A u, v \in Accounts : TrialOf(u, c) /\ TrialOf(v, c) => u = v
  /\ \A v \in Workers : worker[v].who = c /\ worker[v].at \in {"create", "plan"} /\ worker[v].trial =>
       c \notin trialChats /\ \A u \in Accounts : ~TrialOf(u, c)

(* What holds of trials, for one Telegram ...                               *)
LEMMA TrialsOf == ASSUME Trials, NEW c \in Chats \ mixed PROVE TrialsFor(c)
  BY DEF Trials, Alone, Unlinked, Recorded, Single, Promised, Recording, TrialsFor

(* ... and for all.                                                         *)
LEMMA TrialsAre == ASSUME \A c \in Chats \ mixed' : TrialsFor(c)' PROVE Trials'
  BY DEF Trials, Alone, Unlinked, Recorded, Single, Promised, Recording, TrialsFor

(* Steps that give no trial and link no Telegram.                           *)
LEMMA TrialsStay ==
  ASSUME Trials, \A v \in Workers : Quiet(v), NoNewTrials, NoNewChats, trialChats' = trialChats, mixed \subseteq mixed'
  PROVE Trials'
<1> SUFFICES ASSUME NEW c \in Chats \ mixed' PROVE TrialsFor(c)'
  BY TrialsAre
<1>1. c \in Chats \ mixed /\ TrialsFor(c)
  BY TrialsOf
<1>2. \A v \in Workers : Registers(v, c)' => Registers(v, c)
                        /\ (worker'[v].at \notin {"mark", "drop"} => worker[v].at \notin {"mark", "drop"})
  BY DEF Registers, Registering, Quiet, NothingNew
<1>3. \A u \in Accounts : TrialOf(u, c)' => TrialOf(u, c)
  BY DEF NoNewTrials
<1>4. \A x, v \in Workers : Registers(x, c)' /\ Registers(v, c)' => x = v
  BY <1>1, <1>2 DEF TrialsFor
<1>5. \A v \in Workers : Registers(v, c)' /\ worker'[v].at \notin {"mark", "drop"} =>
        \A u \in Accounts : Live(u)' => users'[u].chat # c
  BY <1>1, <1>2 DEF TrialsFor, NoNewChats
<1>6. ASSUME NEW u \in Accounts, TrialOf(u, c)', c \notin trialChats'
      PROVE \E v \in Workers : worker'[v].who = c /\ worker'[v].at \in Recording /\ worker'[v].user = u
  <2>1. PICK v \in Workers : worker[v].who = c /\ worker[v].at \in Recording /\ worker[v].user = u
    BY <1>1, <1>3, <1>6 DEF TrialsFor
  <2>2. worker'[v].who = c /\ worker'[v].at \in Recording /\ worker'[v].user = u
    BY <1>1, <2>1 DEF Quiet, NothingLost
  <2> QED
    BY <2>2
<1>7. \A u, v \in Accounts : TrialOf(u, c)' /\ TrialOf(v, c)' => u = v
  BY <1>1, <1>3 DEF TrialsFor
<1>8. ASSUME NEW v \in Workers, worker'[v].who = c, worker'[v].at \in {"create", "plan"}, worker'[v].trial
      PROVE c \notin trialChats' /\ \A u \in Accounts : ~TrialOf(u, c)'
  <2>1. worker[v].who = c /\ worker[v].at \in {"create", "plan"} /\ worker[v].trial
    BY <1>8 DEF Quiet, NothingNew, Registering
  <2> QED
    BY <1>1, <1>3, <2>1 DEF TrialsFor
<1> QED
  BY <1>4, <1>5, <1>6, <1>7, <1>8 DEF TrialsFor

(* The same trials are no new ones.                                         *)
LEMMA SameTrialsOf == ASSUME SameTrials PROVE NoNewTrials
  BY DEF SameTrials, NoNewTrials, TrialOf

(* The same users have the same trials and Telegrams.                       *)
LEMMA SameUsers == ASSUME UNCHANGED users PROVE SameTrials /\ NoNewTrials /\ NoNewChats
  BY DEF SameTrials, NoNewTrials, NoNewChats, TrialOf, Live

(* Who is taken away has no new Telegram.                                   *)
LEMMA TakenAwayIs ==
  ASSUME \A u \in Accounts : users'[u].chat \in {users[u].chat, NoOne} /\ users'[u].state \in {users[u].state, "gone"}
  PROVE NoNewChats
  BY ApplicantsAreDistinct DEF NoNewChats, Live

----------------------------------------------------------------------------
(* What each part of the invariant is about. *)

(* A registration that begins finds the chat free, and is the only one.    *)
LEMMA TrialsBegin ==
  ASSUME Shape, Trials, NEW w \in Workers, NEW at \in {"restore", "gate", "create"}, Goes(w, at),
         worker[w].at \in {"enter", "known"}, AccountsOf(worker[w].who) = {}, mixed' = mixed \union Mixes(w),
         worker[w].way \in {"app", "api"} =>
           \A v \in Workers \ {w} : Inside(v) => worker[v].way \notin {"app", "api"},
         at = "create" => worker'[w].trial = ~HadTrial(worker[w].who) /\ worker[w].way = "approve",
         UNCHANGED <<users, trialChats>>
  PROVE Trials'
<1> SUFFICES ASSUME NEW c \in Chats \ mixed' PROVE TrialsFor(c)'
  BY TrialsAre
<1>1. c \in Chats \ mixed /\ TrialsFor(c)
  BY TrialsOf
<1>2. \A v \in Workers \ {w} : worker'[v] = worker[v] /\ (Registers(v, c)' <=> Registers(v, c))
  BY DEF Goes, Others, Registers
<1>3. ~Registers(w, c) /\ worker'[w].at = at /\ worker'[w].who = worker[w].who
  BY DEF Registers, Goes
<1>4. worker[w].who = c => \A v \in Workers \ {w} : ~Registers(v, c)
  <2> SUFFICES ASSUME worker[w].who = c, NEW v \in Workers \ {w}, Registers(v, c) PROVE FALSE
    OBVIOUS
  <2>1. Inside(v)
    BY DEF Inside, Registers
  <2>2. {worker[v].way, worker[w].way} \notin SUBSET {"app", "api"}
    BY <2>1
  <2>3. c \in Mixes(w)
    BY <2>2 DEF Mixes
  <2> QED
    BY <2>3
<1>5. \A u \in Accounts : TrialOf(u, c)' <=> TrialOf(u, c)
  BY DEF TrialOf
<1>6. \A x, v \in Workers : Registers(x, c)' /\ Registers(v, c)' => x = v
  BY <1>1, <1>2, <1>3, <1>4 DEF TrialsFor, Registers
<1>7. ASSUME NEW v \in Workers, Registers(v, c)', worker'[v].at \notin {"mark", "drop"}, NEW u \in Accounts, Live(u)'
      PROVE users'[u].chat # c
  <2>1. CASE v = w
    BY <1>3, <1>7, <2>1 DEF AccountsOf, Live, Registers
  <2>2. CASE v # w
    BY <1>1, <1>2, <1>7, <2>2 DEF TrialsFor, Live
  <2> QED
    BY <2>1, <2>2
<1>8. ASSUME NEW u \in Accounts, TrialOf(u, c)', c \notin trialChats'
      PROVE \E v \in Workers : worker'[v].who = c /\ worker'[v].at \in Recording /\ worker'[v].user = u
  <2>1. PICK v \in Workers : worker[v].who = c /\ worker[v].at \in Recording /\ worker[v].user = u
    BY <1>1, <1>5, <1>8 DEF TrialsFor
  <2>2. v # w
    BY <2>1 DEF Recording
  <2> QED
    BY <1>2, <2>1, <2>2
<1>9. \A u, v \in Accounts : TrialOf(u, c)' /\ TrialOf(v, c)' => u = v
  BY <1>1, <1>5 DEF TrialsFor
<1>10. ASSUME NEW v \in Workers, worker'[v].who = c, worker'[v].at \in {"create", "plan"}, worker'[v].trial
       PROVE c \notin trialChats' /\ \A u \in Accounts : ~TrialOf(u, c)'
  <2>1. CASE v # w
    BY <1>1, <1>2, <1>5, <1>10, <2>1 DEF TrialsFor
  <2>2. CASE v = w
    <3>1. worker[w].who = c /\ c \notin trialChats
      BY <1>3, <1>10, <2>2 DEF HadTrial
    <3>2. \A u \in Accounts : ~TrialOf(u, c)
      BY <1>1, <1>4, <3>1 DEF TrialsFor, Registers, Recording
    <3> QED
      BY <1>5, <3>1, <3>2
  <2> QED
    BY <2>1, <2>2
<1> QED
  BY <1>6, <1>7, <1>8, <1>9, <1>10 DEF TrialsFor

(* Whether to give a trial is read when none can have been given.          *)
LEMMA TrialsAdmitted ==
  ASSUME Trials, NEW w \in Workers, Goes(w, "create"), worker[w].at = "gate",
         worker'[w].trial = ~HadTrial(worker[w].who), UNCHANGED <<users, trialChats, mixed>>
  PROVE Trials'
<1> SUFFICES ASSUME NEW c \in Chats \ mixed' PROVE TrialsFor(c)'
  BY TrialsAre
<1>1. c \in Chats \ mixed /\ TrialsFor(c)
  BY TrialsOf
<1>2. \A v \in Workers \ {w} : worker'[v] = worker[v]
  BY DEF Goes, Others
<1>3. worker'[w].at = "create" /\ worker'[w].who = worker[w].who
  BY DEF Goes
<1>4. \A v \in Workers : Registers(v, c)' <=> Registers(v, c)
  BY <1>2, <1>3 DEF Registers
<1>5. \A u \in Accounts : (TrialOf(u, c)' <=> TrialOf(u, c)) /\ (Live(u)' <=> Live(u)) /\ users'[u].chat = users[u].chat
  BY DEF TrialOf, Live
<1>6. \A v \in Workers : Registers(v, c)' /\ worker'[v].at \notin {"mark", "drop"} =>
        \A u \in Accounts : Live(u)' => users'[u].chat # c
  BY <1>1, <1>2, <1>4, <1>5 DEF TrialsFor
<1>7. ASSUME NEW u \in Accounts, TrialOf(u, c)', c \notin trialChats'
      PROVE \E v \in Workers : worker'[v].who = c /\ worker'[v].at \in Recording /\ worker'[v].user = u
  <2>1. PICK v \in Workers : worker[v].who = c /\ worker[v].at \in Recording /\ worker[v].user = u
    BY <1>1, <1>5, <1>7 DEF TrialsFor
  <2>2. v # w
    BY <2>1 DEF Recording
  <2> QED
    BY <1>2, <2>1, <2>2
<1>8. ASSUME NEW v \in Workers, worker'[v].who = c, worker'[v].at \in {"create", "plan"}, worker'[v].trial
      PROVE c \notin trialChats' /\ \A u \in Accounts : ~TrialOf(u, c)'
  <2>1. CASE v # w
    BY <1>1, <1>2, <1>5, <1>8, <2>1 DEF TrialsFor
  <2>2. CASE v = w
    <3>1. worker[w].who = c /\ c \notin trialChats /\ Registers(w, c)
      BY <1>3, <1>8, <2>2 DEF HadTrial, Registers
    <3>2. ASSUME NEW u \in Accounts, TrialOf(u, c) PROVE FALSE
      <4>1. PICK x \in Workers : worker[x].who = c /\ worker[x].at \in Recording
        BY <1>1, <3>1, <3>2 DEF TrialsFor
      <4>2. Registers(x, c)
        BY <4>1 DEF Registers, Recording
      <4>3. x = w
        BY <1>1, <3>1, <4>2 DEF TrialsFor
      <4> QED
        BY <4>1, <4>3 DEF Recording
    <3> QED
      BY <1>5, <3>1, <3>2
  <2> QED
    BY <2>1, <2>2
<1>9. \A u, v \in Accounts : TrialOf(u, c)' /\ TrialOf(v, c)' => u = v
  BY <1>1, <1>5 DEF TrialsFor
<1>10. \A x, v \in Workers : Registers(x, c)' /\ Registers(v, c)' => x = v
  BY <1>1, <1>4 DEF TrialsFor
<1> QED
  BY <1>6, <1>7, <1>8, <1>9, <1>10 DEF TrialsFor

(* The trial that was decided on is given: there was none before.          *)
LEMMA TrialsPlanned ==
  ASSUME Shape, Trials, Owned, NEW w \in Workers, ApplyUserPlan(w) PROVE Trials'
<1> SUFFICES ASSUME NEW c \in Chats \ mixed' PROVE TrialsFor(c)'
  BY TrialsAre
<1>0. PICK o \in Accounts :
      /\ o = worker[w].user /\ worker[w].at = "plan" /\ Goes(w, "link") /\ SameUser(w)
      /\ \A v \in Accounts : users'[v].by = users[v].by /\ users'[v].chat = users[v].chat /\ users'[v].state = users[v].state
      /\ \A v \in Accounts \ {o} : users'[v].plan = users[v].plan
      /\ users'[o].plan = IF worker[w].trial THEN "trial" ELSE "spent"
      /\ UNCHANGED <<trialChats, mixed>>
  BY PlanDoes
<1>1. c \in Chats \ mixed /\ TrialsFor(c) /\ users[o].by = worker[w].who
  BY <1>0, TrialsOf DEF Owned
<1>2. \A v \in Workers \ {w} : worker'[v] = worker[v]
  BY <1>0 DEF Goes, Others
<1>3. worker'[w].at = "link" /\ worker'[w].who = worker[w].who /\ worker'[w].user = o
  BY <1>0 DEF Goes, SameUser
<1>4. \A v \in Workers : Registers(v, c)' <=> Registers(v, c)
  BY <1>0, <1>2, <1>3 DEF Registers
<1>5. \A u \in Accounts : (Live(u)' <=> Live(u)) /\ users'[u].chat = users[u].chat
  BY <1>0 DEF Live
<1>6. \A u \in Accounts \ {o} : TrialOf(u, c)' <=> TrialOf(u, c)
  BY <1>0 DEF TrialOf
<1>7. TrialOf(o, c)' => worker[w].who = c /\ worker[w].trial /\ Registers(w, c)
  BY <1>0, <1>1 DEF TrialOf, Registers
<1>8. TrialOf(o, c)' => c \notin trialChats /\ \A u \in Accounts : ~TrialOf(u, c)
  BY <1>0, <1>1, <1>7 DEF TrialsFor
<1>9. \A x, v \in Workers : Registers(x, c)' /\ Registers(v, c)' => x = v
  BY <1>1, <1>4 DEF TrialsFor
<1>10. \A v \in Workers : Registers(v, c)' /\ worker'[v].at \notin {"mark", "drop"} =>
         \A u \in Accounts : Live(u)' => users'[u].chat # c
  BY <1>0, <1>1, <1>2, <1>4, <1>5 DEF TrialsFor
<1>11. ASSUME NEW u \in Accounts, TrialOf(u, c)', c \notin trialChats'
       PROVE \E v \in Workers : worker'[v].who = c /\ worker'[v].at \in Recording /\ worker'[v].user = u
  <2>1. CASE u = o
    BY <1>3, <1>7, <1>11, <2>1 DEF Recording
  <2>2. CASE u # o
    <3>1. PICK v \in Workers : worker[v].who = c /\ worker[v].at \in Recording /\ worker[v].user = u
      BY <1>0, <1>1, <1>6, <1>11, <2>2 DEF TrialsFor
    <3> QED
      BY <1>0, <1>2, <2>2, <3>1
  <2> QED
    BY <2>1, <2>2
<1>12. \A u, v \in Accounts : TrialOf(u, c)' /\ TrialOf(v, c)' => u = v
  BY <1>1, <1>6, <1>8 DEF TrialsFor
<1>13. ASSUME NEW v \in Workers, worker'[v].who = c, worker'[v].at \in {"create", "plan"}, worker'[v].trial
       PROVE c \notin trialChats' /\ \A u \in Accounts : ~TrialOf(u, c)'
  <2>1. v # w /\ worker[v] = worker'[v]
    BY <1>2, <1>3, <1>13
  <2>2. Registers(v, c) /\ ~TrialOf(o, c)'
    <3>1. Registers(v, c)
      BY <1>13, <2>1 DEF Registers
    <3>2. TrialOf(o, c)' => v = w
      BY <1>1, <1>7, <3>1 DEF TrialsFor
    <3> QED
      BY <2>1, <3>1, <3>2
  <2> QED
    BY <1>0, <1>1, <1>6, <1>13, <2>1, <2>2 DEF TrialsFor
<1> QED
  BY <1>9, <1>10, <1>11, <1>12, <1>13 DEF TrialsFor

(* Recording the trial: nobody else is about to give it.                   *)
LEMMA TrialsMarked ==
  ASSUME Trials, NEW w \in Workers, Done(w), worker[w].at = "mark",
         trialChats' = trialChats \union {worker[w].who}, UNCHANGED <<users, mixed>>
  PROVE Trials'
<1> SUFFICES ASSUME NEW c \in Chats \ mixed' PROVE TrialsFor(c)'
  BY TrialsAre
<1>1. c \in Chats \ mixed /\ TrialsFor(c)
  BY TrialsOf
<1>2. \A v \in Workers \ {w} : worker'[v] = worker[v] /\ (Registers(v, c)' <=> Registers(v, c))
  BY DEF Done, Others, Registers
<1>3. worker'[w].at = "idle"
  BY FitsIdle
<1>4. \A u \in Accounts : (TrialOf(u, c)' <=> TrialOf(u, c)) /\ (Live(u)' <=> Live(u)) /\ users'[u].chat = users[u].chat
  BY DEF TrialOf, Live
<1>5. \A x, v \in Workers : Registers(x, c)' /\ Registers(v, c)' => x = v
  BY <1>1, <1>2, <1>3 DEF TrialsFor, Registers
<1>6. ASSUME NEW v \in Workers, Registers(v, c)', worker'[v].at \notin {"mark", "drop"}
      PROVE \A u \in Accounts : Live(u)' => users'[u].chat # c
  <2>1. v # w
    BY <1>3, <1>6 DEF Registers
  <2> QED
    BY <1>1, <1>2, <1>4, <1>6, <2>1 DEF TrialsFor
<1>7. ASSUME NEW u \in Accounts, TrialOf(u, c)', c \notin trialChats'
      PROVE \E v \in Workers : worker'[v].who = c /\ worker'[v].at \in Recording /\ worker'[v].user = u
  <2>1. PICK v \in Workers : worker[v].who = c /\ worker[v].at \in Recording /\ worker[v].user = u
    BY <1>1, <1>4, <1>7 DEF TrialsFor
  <2>2. v # w
    BY <1>7, <2>1
  <2> QED
    BY <1>2, <2>1, <2>2
<1>8. \A u, v \in Accounts : TrialOf(u, c)' /\ TrialOf(v, c)' => u = v
  BY <1>1, <1>4 DEF TrialsFor
<1>9. ASSUME NEW v \in Workers, worker'[v].who = c, worker'[v].at \in {"create", "plan"}, worker'[v].trial
      PROVE c \notin trialChats' /\ \A u \in Accounts : ~TrialOf(u, c)'
  <2>1. v # w /\ Registers(v, c)
    BY <1>2, <1>3, <1>9 DEF Registers
  <2>2. worker[w].who # c
    BY <1>1, <2>1 DEF TrialsFor, Registers
  <2> QED
    BY <1>1, <1>2, <1>4, <1>9, <2>1, <2>2 DEF TrialsFor
<1> QED
  BY <1>5, <1>6, <1>7, <1>8, <1>9 DEF TrialsFor

(* Dropping the account takes its trial with it.                           *)
LEMMA TrialsDropped ==
  ASSUME Shape, Trials, NEW w \in Workers, DropUser(w) PROVE Trials'
<1> SUFFICES ASSUME NEW c \in Chats \ mixed' PROVE TrialsFor(c)'
  BY TrialsAre
<1>0. PICK o \in Accounts :
      /\ o = worker[w].user /\ worker[w].at = "drop" /\ Others(w) /\ worker'[w].at \in {"putback", "idle"}
      /\ users'[o].plan = "none" /\ users'[o].chat = NoOne
      /\ \A v \in Accounts \ {o} : users'[v] = users[v]
      /\ UNCHANGED <<trialChats, mixed>>
  BY DropDoes, FitsIdle DEF Goes, Done
<1>1. c \in Chats \ mixed /\ TrialsFor(c) /\ c # NoOne
  BY <1>0, TrialsOf, ApplicantsAreDistinct
<1>2. \A v \in Workers \ {w} : worker'[v] = worker[v] /\ (Registers(v, c)' <=> Registers(v, c))
  BY <1>0 DEF Others, Registers
<1>3. \A u \in Accounts \ {o} : (TrialOf(u, c)' <=> TrialOf(u, c)) /\ (Live(u)' <=> Live(u)) /\ users'[u].chat = users[u].chat
  BY <1>0 DEF TrialOf, Live
<1>4. ~TrialOf(o, c)' /\ ~Registers(w, c)'
  BY <1>0 DEF TrialOf, Registers
<1>5. \A x, v \in Workers : Registers(x, c)' /\ Registers(v, c)' => x = v
  BY <1>1, <1>2, <1>4 DEF TrialsFor
<1>6. ASSUME NEW v \in Workers, Registers(v, c)', worker'[v].at \notin {"mark", "drop"}, NEW u \in Accounts, Live(u)'
      PROVE users'[u].chat # c
  BY <1>0, <1>1, <1>2, <1>3, <1>4, <1>6 DEF TrialsFor
<1>7. ASSUME NEW u \in Accounts, TrialOf(u, c)', c \notin trialChats'
      PROVE \E v \in Workers : worker'[v].who = c /\ worker'[v].at \in Recording /\ worker'[v].user = u
  <2>1. u # o
    BY <1>4, <1>7
  <2>2. PICK v \in Workers : worker[v].who = c /\ worker[v].at \in Recording /\ worker[v].user = u
    BY <1>0, <1>1, <1>3, <1>7, <2>1 DEF TrialsFor
  <2> QED
    BY <1>0, <1>2, <2>1, <2>2
<1>8. \A u, v \in Accounts : TrialOf(u, c)' /\ TrialOf(v, c)' => u = v
  BY <1>1, <1>3, <1>4 DEF TrialsFor
<1>9. ASSUME NEW v \in Workers, worker'[v].who = c, worker'[v].at \in {"create", "plan"}, worker'[v].trial
      PROVE c \notin trialChats' /\ \A u \in Accounts : ~TrialOf(u, c)'
  <2>1. v # w
    BY <1>0, <1>9
  <2> QED
    BY <1>0, <1>1, <1>2, <1>3, <1>4, <1>9, <2>1 DEF TrialsFor
<1> QED
  BY <1>5, <1>6, <1>7, <1>8, <1>9 DEF TrialsFor

----------------------------------------------------------------------------
(* A decision is made by whoever holds the request, once. *)
LEMMA DecisionsDecided ==
  ASSUME Shape, Decisions, NEW w \in Workers, Others(w), Decided(w), UNCHANGED <<requests, filed>>,
         worker[w].way = "approve" => Holding(w),
         worker'[w].at \in {"idle", "mark"}, worker'[w].at = "mark" => Goes(w, "mark")
  PROVE Decisions'
<1>1. CASE worker[w].way # "approve"
  <2>1. UNCHANGED decisions /\ ~Holding(w)'
    BY <1>1 DEF Decided, Holding
  <2>2. worker'[w].at = "mark" => worker'[w].way # "approve"
    BY <1>1 DEF Goes
  <2> QED
    BY <2>1, <2>2, DecisionsStay
<1>2. CASE worker[w].way = "approve"
  <2>1. PICK r \in Requests : r = worker[w].req
    BY <1>2, ShapeIs, CapsAreNumbers DEF Holding, Approving, WorkerFits, RestTyped, Requests
  <2>2. decisions[r] = 0 /\ requests[r] = NoOne /\ r <= filed
    BY <1>2, <2>1, ShapeIs DEF Decisions, Holding, Approving, WorkerFits, RestTyped
  <2>3. decisions' = [decisions EXCEPT ![r] = @ + 1] /\ decisions \in [Requests -> Nat]
    BY <1>2, <2>1, ShapeIs DEF Decided, RestTyped
  <2>4. \A v \in Workers : Holding(v)' => v # w /\ Holding(v) /\ worker'[v] = worker[v] /\ worker[v].req # r
    BY <1>2, <2>1 DEF Decisions, Holding, Approving, Others
  <2>5. \A v \in Workers : Approving(v)' => /\ Approving(v) /\ worker'[v].req = worker[v].req
                                           /\ worker'[v].who = worker[v].who
    <3>1. worker'[w].at = "idle" \/ (worker'[w].req = worker[w].req /\ worker'[w].who = worker[w].who)
      BY DEF Goes
    <3>2. Approving(w)
      BY <1>2 DEF Holding
    <3> QED
      BY <3>1, <3>2 DEF Others, Approving
  <2>6. decisions'[r] = 1 /\ \A x \in Requests \ {r} : decisions'[x] = decisions[x]
    BY <2>2, <2>3
  <2>7. \A v \in Workers : Holding(v)' => worker[v].req \in Requests
    BY <2>4, ShapeIs, CapsAreNumbers DEF Holding, Approving, WorkerFits, RestTyped, Requests
  <2>8. filed \in Nat /\ Requests \subseteq Nat
    BY ShapeIs DEF RestTyped, Requests
  <2>9. \A x \in Requests : /\ decisions'[x] <= 1
                            /\ x > filed' => requests'[x] = NoOne /\ decisions'[x] = 0
                            /\ requests'[x] # NoOne => decisions'[x] = 0
    BY <2>2, <2>6, <2>8 DEF Decisions
  <2> QED
    BY <2>4, <2>5, <2>6, <2>7, <2>9 DEF Decisions
<1> QED
  BY <1>1, <1>2

(* A request is filed under an id nobody has handled.                      *)
LEMMA DecisionsFiled ==
  ASSUME Shape, Decisions, NEW w \in Workers, RequestRegistration(w) PROVE Decisions'
<1>0. Done(w) /\ Others(w) /\ worker'[w].at = "idle" /\ UNCHANGED decisions
  BY RequestDoes, FitsIdle DEF Done
<1>1. CASE UNCHANGED <<requests, filed>>
  BY <1>0, <1>1, DecisionsStay
<1>2. CASE /\ filed < MaxRequests /\ filed' = filed + 1
           /\ requests' = [requests EXCEPT ![filed + 1] = worker[w].who]
  <2>1. filed \in Nat /\ filed + 1 \in Requests /\ Requests \subseteq Nat /\ requests \in [Requests -> Applicants \union {NoOne}]
    BY <1>2, ShapeIs, CapsAreNumbers DEF RestTyped, Requests
  <2>2. decisions[filed + 1] = 0 /\ \A x \in Requests \ {filed + 1} : requests'[x] = requests[x]
    BY <1>2, <2>1 DEF Decisions
  <2>3. \A v \in Workers : Approving(v)' => Approving(v) /\ worker'[v] = worker[v] /\ (Holding(v)' <=> Holding(v))
    BY <1>0 DEF Others, Approving, Holding
  <2>4. \A v \in Workers : Approving(v) => worker[v].req \in Requests \ {filed + 1}
    BY <2>1, ShapeIs, CapsAreNumbers DEF Approving, WorkerFits, RestTyped, Requests
  <2>5. \A x \in Requests : /\ decisions'[x] <= 1
                            /\ x > filed' => requests'[x] = NoOne /\ decisions'[x] = 0
                            /\ requests'[x] # NoOne => decisions'[x] = 0
    BY <1>0, <1>2, <2>1, <2>2 DEF Decisions
  <2>6. \A v \in Workers : Holding(v)' => Holding(v) /\ Approving(v)'
    BY <2>3 DEF Holding
  <2>7. \A v \in Workers : Approving(v)' => requests'[worker'[v].req] \in {NoOne, worker'[v].who}
    BY <2>2, <2>3, <2>4 DEF Decisions
  <2>8. \A v \in Workers : Holding(v)' => decisions'[worker'[v].req] = 0 /\ requests'[worker'[v].req] = NoOne
    BY <1>0, <2>2, <2>3, <2>4, <2>6 DEF Decisions
  <2>9. \A x, v \in Workers : Holding(x)' /\ Holding(v)' /\ worker'[x].req = worker'[v].req => x = v
    BY <2>3, <2>6 DEF Decisions
  <2>10. \A x, v \in Workers : Approving(x)' /\ Approving(v)' /\ worker'[x].req = worker'[v].req =>
                                 worker'[x].who = worker'[v].who
    BY <2>3 DEF Decisions
  <2> QED
    BY <2>5, <2>7, <2>8, <2>9, <2>10 DEF Decisions
<1> QED
  BY <1>1, <1>2, RequestDoes

(* An approval begins without a decision.                                   *)
LEMMA DecisionsApproving ==
  ASSUME Shape, Decisions, NEW w \in Workers, NEW r \in Requests, Approve(w, r) PROVE Decisions'
<1>0. /\ Others(w) /\ worker'[w].at = "enter" /\ worker'[w].way = "approve" /\ worker'[w].req = r
      /\ worker'[w].who = requests[r] /\ requests[r] # NoOne /\ UNCHANGED <<requests, filed, decisions>>
  BY ApproveDoes
<1>1. \A v \in Workers : Holding(v)' => v # w /\ Holding(v) /\ worker'[v] = worker[v]
  BY <1>0 DEF Holding, Approving, Others
<1>2. \A v \in Workers \ {w} : worker'[v] = worker[v] /\ (Approving(v)' <=> Approving(v))
  BY <1>0 DEF Others, Approving
<1>3. \A v \in Workers : Approving(v)' => requests'[worker'[v].req] \in {NoOne, worker'[v].who}
  BY <1>0, <1>2 DEF Decisions
<1>4. \A x, v \in Workers : Approving(x)' /\ Approving(v)' /\ worker'[x].req = worker'[v].req =>
                              worker'[x].who = worker'[v].who
  BY <1>0, <1>2 DEF Decisions
<1> QED
  BY <1>0, <1>1, <1>3, <1>4 DEF Decisions

(* A claim empties the row it holds.                                        *)
LEMMA DecisionsClaimed ==
  ASSUME Shape, Decisions, NEW w \in Workers, Claim(w) PROVE Decisions'
<1>1. CASE UNCHANGED requests /\ Done(w)
  BY <1>1, ClaimDoes, FitsIdle, DecisionsStay DEF Done
<1>2. CASE /\ requests[worker[w].req] # NoOne /\ requests' = [requests EXCEPT ![worker[w].req] = NoOne]
           /\ Goes(w, "known")
  <2>1. PICK r \in Requests : r = worker[w].req
    BY ClaimDoes
  <2>2. worker[w].at = "enter" /\ worker[w].way = "approve" /\ UNCHANGED <<filed, decisions>> /\ decisions[r] = 0
    BY <1>2, <2>1, ClaimDoes DEF Decisions
  <2>3. requests'[r] = NoOne /\ \A x \in Requests \ {r} : requests'[x] = requests[x]
    BY <1>2, <2>1, ShapeIs DEF RestTyped
  <2>4. \A v \in Workers : Approving(v)' => /\ Approving(v) /\ worker'[v].req = worker[v].req
                                           /\ worker'[v].who = worker[v].who /\ worker[v].req \in Requests
    <3>1. \A v \in Workers : Approving(v)' => /\ Approving(v) /\ worker'[v].req = worker[v].req
                                             /\ worker'[v].who = worker[v].who
      BY <1>2, <2>2 DEF Others, Approving, Goes
    <3>2. \A v \in Workers : Approving(v) => worker[v].req \in Requests
      BY ShapeIs, CapsAreNumbers DEF Approving, WorkerFits, RestTyped, Requests
    <3> QED
      BY <3>1, <3>2
  <2>5. \A v \in Workers : Holding(v)' => (Holding(v) /\ v # w /\ worker[v].req # r) \/ v = w
    BY <1>2, <2>1 DEF Holding, Approving, Others, Goes, Decisions
  <2>6. \A v \in Workers : Holding(v)' => Approving(v)'
    BY DEF Holding
  <2>7. \A v \in Workers : Holding(v)' => decisions'[worker'[v].req] = 0 /\ requests'[worker'[v].req] = NoOne
    BY <2>1, <2>2, <2>3, <2>4, <2>5, <2>6 DEF Decisions
  <2>8. \A x, v \in Workers : Holding(x)' /\ Holding(v)' /\ worker'[x].req = worker'[v].req => x = v
    BY <2>1, <2>4, <2>5, <2>6 DEF Decisions
  <2>9. \A x \in Requests : /\ decisions'[x] <= 1
                            /\ x > filed' => requests'[x] = NoOne /\ decisions'[x] = 0
                            /\ requests'[x] # NoOne => decisions'[x] = 0
    BY <2>2, <2>3 DEF Decisions
  <2> QED
    BY <2>3, <2>4, <2>7, <2>8, <2>9 DEF Decisions
<1> QED
  BY <1>1, <1>2, ClaimDoes

(* A request put back is undecided.                                         *)
LEMMA DecisionsPutBack ==
  ASSUME Shape, Decisions, NEW w \in Workers, PutBack(w) PROVE Decisions'
<1>0. Others(w) /\ worker'[w].at = "idle" /\ UNCHANGED <<filed, decisions>> /\ Holding(w)
  BY PutBackDoes, FitsIdle DEF Done, Holding, Approving
<1>1. CASE UNCHANGED requests
  BY <1>0, <1>1, DecisionsStay
<1>2. CASE requests' = [requests EXCEPT ![worker[w].req] = worker[w].who]
  <2>1. PICK r \in Requests : r = worker[w].req
    BY PutBackDoes
  <2>2. decisions[r] = 0 /\ r <= filed /\ filed \in Nat /\ Requests \subseteq Nat
    BY <1>0, <2>1, PutBackDoes, ShapeIs DEF Decisions, RestTyped, Requests
  <2>3. requests'[r] = worker[w].who /\ \A x \in Requests \ {r} : requests'[x] = requests[x]
    BY <1>2, <2>1, ShapeIs DEF RestTyped
  <2>4. \A v \in Workers : Approving(v)' => Approving(v) /\ worker'[v] = worker[v] /\ v # w
    BY <1>0 DEF Others, Approving
  <2>5. \A v \in Workers : Holding(v)' => Holding(v) /\ Approving(v)' /\ worker[v].req # r
    BY <1>0, <2>1, <2>4 DEF Holding, Approving, Decisions
  <2>6. \A v \in Workers : Approving(v) => worker[v].req \in Requests /\ (worker[v].req = r => worker[v].who = worker[w].who)
    BY <1>0, <2>1, ShapeIs, CapsAreNumbers DEF Approving, WorkerFits, RestTyped, Requests, Decisions, Holding
  <2>7. \A x \in Requests : /\ decisions'[x] <= 1
                            /\ x > filed' => requests'[x] = NoOne /\ decisions'[x] = 0
                            /\ requests'[x] # NoOne => decisions'[x] = 0
    BY <1>0, <2>2, <2>3 DEF Decisions
  <2>8. \A v \in Workers : Approving(v)' => requests'[worker'[v].req] \in {NoOne, worker'[v].who}
    BY <2>3, <2>4, <2>6 DEF Decisions
  <2>9. \A v \in Workers : Holding(v)' => decisions'[worker'[v].req] = 0 /\ requests'[worker'[v].req] = NoOne
    BY <1>0, <2>3, <2>4, <2>5, <2>6 DEF Decisions
  <2>10. \A x, v \in Workers : Holding(x)' /\ Holding(v)' /\ worker'[x].req = worker'[v].req => x = v
    BY <2>4, <2>5 DEF Decisions
  <2>11. \A x, v \in Workers : Approving(x)' /\ Approving(v)' /\ worker'[x].req = worker'[v].req =>
                                 worker'[x].who = worker'[v].who
    BY <2>4 DEF Decisions
  <2> QED
    BY <2>7, <2>8, <2>9, <2>10, <2>11 DEF Decisions
<1> QED
  BY <1>1, <1>2, PutBackDoes

(* A rejection finds the row filled, so nobody holds it.                    *)
LEMMA DecisionsRejected ==
  ASSUME Shape, Decisions, NEW r \in Requests, RejectRegistrationRequest(r) PROVE Decisions'
<1>1. /\ requests[r] # NoOne /\ requests' = [requests EXCEPT ![r] = NoOne]
      /\ decisions' = [decisions EXCEPT ![r] = @ + 1] /\ UNCHANGED <<filed, worker>>
  BY RejectDoes
<1>2. /\ requests'[r] = NoOne /\ \A x \in Requests \ {r} : requests'[x] = requests[x]
      /\ decisions'[r] = 1 /\ \A x \in Requests \ {r} : decisions'[x] = decisions[x]
  BY <1>1, ShapeIs DEF RestTyped, Decisions
<1>3. \A v \in Workers : (Holding(v)' <=> Holding(v)) /\ (Approving(v)' <=> Approving(v))
  BY <1>1 DEF Holding, Approving
<1>4. \A v \in Workers : Approving(v) => worker[v].req \in Requests
  BY ShapeIs, CapsAreNumbers DEF Approving, WorkerFits, RestTyped, Requests
<1>5. \A v \in Workers : Holding(v) => worker[v].req # r /\ Approving(v)
  BY <1>1 DEF Decisions, Holding
<1> QED
  BY <1>1, <1>2, <1>3, <1>4, <1>5 DEF Decisions

----------------------------------------------------------------------------
(* Claimed, put back, rejected or filed, a request that someone waits for  *)
(* is somewhere.                                                           *)
LEMMA WaitsClaimed ==
  ASSUME Shape, Decisions, Waits, NEW w \in Workers, Claim(w) PROVE Waits'
<1>1. CASE UNCHANGED requests /\ Done(w)
  BY <1>1, ClaimDoes, WaitsStay DEF Done, Holding
<1>2. CASE /\ requests[worker[w].req] # NoOne /\ requests' = [requests EXCEPT ![worker[w].req] = NoOne]
           /\ Goes(w, "known")
  <2> SUFFICES ASSUME NEW a \in waiting, ~Pending(a)' PROVE \E v \in Workers : Holding(v)' /\ worker'[v].who = a
    BY ClaimDoes DEF Waits
  <2>1. worker[w].at = "enter" /\ worker[w].way = "approve" /\ worker[w].req \in Requests
    BY ClaimDoes
  <2>2. requests[worker[w].req] = worker[w].who
    BY <1>2, <2>1 DEF Decisions, Approving
  <2>3. Holding(w)' /\ worker'[w].who = worker[w].who
    BY <1>2, <2>1 DEF Goes, Holding, Approving
  <2>4. CASE Pending(a)
    <3>1. PICK r \in Requests : requests[r] = a
      BY <2>4 DEF Pending
    <3>2. r = worker[w].req
      BY <1>2, <3>1, ShapeIs DEF Pending, RestTyped
    <3> QED
      BY <2>2, <2>3, <3>1, <3>2
  <2>5. CASE ~Pending(a)
    <3>1. PICK v \in Workers : Holding(v) /\ worker[v].who = a
      BY <2>5 DEF Waits
    <3>2. v # w
      BY <2>1, <3>1 DEF Holding
    <3> QED
      BY <1>2, <3>1, <3>2 DEF Goes, Others, Holding, Approving
  <2> QED
    BY <2>4, <2>5
<1> QED
  BY <1>1, <1>2, ClaimDoes

(* Who waits has his request again, or the one he filed since.              *)
LEMMA WaitsPutBack ==
  ASSUME Shape, Decisions, Waits, NEW w \in Workers, PutBack(w) PROVE Waits'
<1>0. Others(w) /\ waiting' = waiting /\ worker[w].req \in Requests /\ Holding(w)
  BY PutBackDoes DEF Done, Holding, Approving
<1>1. requests[worker[w].req] = NoOne /\ requests \in [Requests -> Applicants \union {NoOne}]
  BY <1>0, ShapeIs DEF Decisions, RestTyped
<1>2. \A a \in Applicants : Pending(a) => Pending(a)'
  <2> SUFFICES ASSUME NEW a \in Applicants, NEW r \in Requests, requests[r] = a PROVE requests'[r] = a
    BY DEF Pending
  <2>1. r # worker[w].req
    BY <1>1, ApplicantsAreDistinct DEF Applicants
  <2> QED
    BY <1>1, <2>1, PutBackDoes
<1> PICK b \in Applicants : b = worker[w].who
  BY PutBackDoes
<1>3. Pending(b)'
  <2>1. CASE Pending(b)
    BY <1>2, <2>1
  <2>2. CASE ~Pending(b)
    <3>1. requests' = [requests EXCEPT ![worker[w].req] = b]
      BY <2>2, PutBackDoes
    <3> QED
      BY <1>0, <1>1, <3>1 DEF Pending
  <2> QED
    BY <2>1, <2>2
<1> SUFFICES ASSUME NEW a \in waiting, ~Pending(a)' PROVE \E v \in Workers : Holding(v)' /\ worker'[v].who = a
  BY <1>0 DEF Waits
<1>4. ~Pending(a) /\ a # b
  <2>1. a \in Applicants
    BY ShapeIs DEF RestTyped
  <2> QED
    BY <1>2, <1>3, <2>1
<1>5. PICK v \in Workers : Holding(v) /\ worker[v].who = a
  BY <1>4 DEF Waits
<1> QED
  BY <1>0, <1>4, <1>5 DEF Others, Holding, Approving

(* Who files a request waits for it.                                        *)
LEMMA WaitsFiled ==
  ASSUME Shape, Decisions, Waits, NEW w \in Workers, RequestRegistration(w) PROVE Waits'
<1>0. Others(w) /\ worker[w].way # "approve"
  BY RequestDoes DEF Done
<1>1. \A v \in Workers : Holding(v) => Holding(v)' /\ worker'[v].who = worker[v].who
  BY <1>0 DEF Others, Holding, Approving
<1>2. \A a \in Applicants : Pending(a) => Pending(a)'
  <2>1. CASE UNCHANGED requests
    BY <2>1 DEF Pending
  <2>2. CASE filed < MaxRequests /\ requests' = [requests EXCEPT ![filed + 1] = worker[w].who]
    <3>1. filed + 1 \in Requests /\ filed \in Nat /\ requests \in [Requests -> Applicants \union {NoOne}]
      BY <2>2, ShapeIs, CapsAreNumbers DEF RestTyped, Requests
    <3>2. requests[filed + 1] = NoOne
      BY <3>1 DEF Decisions
    <3> QED
      BY <2>2, <3>1, <3>2, ApplicantsAreDistinct DEF Pending, Applicants
  <2> QED
    BY <2>1, <2>2, RequestDoes
<1> PICK b \in Applicants : b = worker[w].who
  BY RequestDoes
<1>3. waiting' \subseteq waiting \union {b} /\ (waiting' = waiting \/ Pending(b)')
  <2>1. CASE UNCHANGED requests /\ (waiting' = waiting \/ (Pending(b) /\ waiting' = waiting \union {b}))
    BY <2>1 DEF Pending
  <2>2. CASE filed < MaxRequests /\ requests' = [requests EXCEPT ![filed + 1] = worker[w].who]
    <3>1. filed + 1 \in Requests /\ requests \in [Requests -> Applicants \union {NoOne}]
      BY <2>2, ShapeIs, CapsAreNumbers DEF RestTyped, Requests
    <3>2. Pending(b)'
      BY <2>2, <3>1 DEF Pending
    <3> QED
      BY <3>2, RequestDoes
  <2> QED
    BY <2>1, <2>2, RequestDoes
<1> SUFFICES ASSUME NEW a \in waiting', ~Pending(a)' PROVE \E v \in Workers : Holding(v)' /\ worker'[v].who = a
  BY DEF Waits
<1>4. a \in waiting /\ ~Pending(a)
  <2>1. a \in waiting
    BY <1>3
  <2>2. a \in Applicants
    BY <2>1, ShapeIs DEF RestTyped
  <2> QED
    BY <1>2, <2>1, <2>2
<1> QED
  BY <1>1, <1>4 DEF Waits

(* Who is rejected waits no more.                                           *)
LEMMA WaitsRejected ==
  ASSUME Shape, Waits, NEW r \in Requests, RejectRegistrationRequest(r) PROVE Waits'
<1>1. /\ requests' = [requests EXCEPT ![r] = NoOne] /\ waiting' = waiting \ {requests[r]} /\ UNCHANGED worker
      /\ requests \in [Requests -> Applicants \union {NoOne}]
  BY RejectDoes, ShapeIs DEF RestTyped
<1>2. \A a \in waiting' : Pending(a) => Pending(a)'
  BY <1>1 DEF Pending
<1>3. \A v \in Workers : Holding(v)' <=> Holding(v)
  BY <1>1 DEF Holding, Approving
<1> QED
  BY <1>1, <1>2, <1>3 DEF Waits

----------------------------------------------------------------------------
(* Every step keeps the invariant. *)
Parts == Exclusive /\ Decisions /\ Waits /\ Owned /\ Trials

(* The invariant, taken apart ...                                           *)
LEMMA InvParts == Inv <=> Shape /\ Parts
  BY DEF Inv, Parts, Trials

(* ... and put together.                                                    *)
LEMMA InvPrimed == Shape' /\ Parts' => Inv'
  BY DEF Inv, Parts, Trials

(* The first half of a sign-up.                                             *)
LEMMA SignUpKeeps ==
  ASSUME Inv, NEW w \in Workers, SignUp(w) PROVE Inv'
<1>0. Shape /\ Exclusive /\ Decisions /\ Waits /\ Owned /\ Trials
  BY InvParts DEF Parts
<1>1. ASSUME NEW way \in Ways, NEW a \in Applicants, Ask(w, way, a) PROVE Inv'
  <2>0. /\ Shape' /\ Others(w) /\ worker[w].at = "idle" /\ worker'[w].at = "enter" /\ worker'[w].way # "approve"
        /\ UNCHANGED <<users, requests, filed, trialChats, decisions, waiting, mixed>>
    BY <1>0, <1>1, AskDoes
  <2>1. Exclusive' /\ Decisions'
    BY <1>0, <2>0, ExclusiveStays, DecisionsStay
  <2>2. Waits' /\ Owned'
    BY <1>0, <2>0, WaitsStay, OwnedStays DEF Holding, Approving, Making
  <2>3. Trials'
    BY <1>0, <2>0, TrialsStay, SameUsers DEF Others, Quiet, NothingNew, NothingLost, Registering, Recording
  <2> QED
    BY <2>0, <2>1, <2>2, <2>3, InvPrimed DEF Parts
<1>2. CASE LookUp(w)
  <2>0. /\ Shape' /\ Others(w) /\ worker[w].at = "enter" /\ worker[w].way # "approve" /\ Enters(w)
        /\ UNCHANGED <<users, requests, filed, trialChats, decisions, waiting>>
    BY <1>0, <1>2, LookUpDoes
  <2>1. CASE Done(w) /\ UNCHANGED mixed
    <3>1. Exclusive' /\ Decisions'
      BY <1>0, <2>0, <2>1, FitsIdle, ExclusiveStays, DecisionsStay
    <3>2. Waits' /\ Owned'
      BY <1>0, <2>0, <2>1, FitsIdle, WaitsStay, OwnedStays DEF Holding, Approving, Making
    <3>3. Trials'
      BY <1>0, <2>0, <2>1, FitsIdle, TrialsStay, SameUsers
         DEF Others, Quiet, NothingNew, NothingLost, Registering, Recording
    <3> QED
      BY <2>0, <3>1, <3>2, <3>3, InvPrimed DEF Parts
  <2>2. ASSUME NEW at \in {"restore", "gate"}, Goes(w, at), AccountsOf(worker[w].who) = {},
               mixed' = mixed \union Mixes(w)
        PROVE Inv'
    <3>1. Exclusive' /\ Decisions'
      BY <1>0, <2>0, <2>2, ExclusiveEnters, DecisionsStay DEF Goes
    <3>2. Waits' /\ Owned'
      BY <1>0, <2>0, <2>2, WaitsStay, OwnedStays DEF Goes, Holding, Approving, Making
    <3>3. worker[w].way \in {"app", "api"} =>
            \A v \in Workers \ {w} : Inside(v) => worker[v].way \notin {"app", "api"}
      BY <2>0 DEF Enters, LockOf
    <3>4. Trials'
      BY <1>0, <2>0, <2>2, <3>3, TrialsBegin
    <3> QED
      BY <2>0, <3>1, <3>2, <3>4, InvPrimed DEF Parts
  <2> QED
    BY <1>0, <1>2, <2>1, <2>2, LookUpDoes
<1>3. CASE RestoreDetachedUser(w)
  <2>0. /\ Shape' /\ Done(w) /\ Others(w) /\ worker'[w].at = "idle"
        /\ worker[w].at = "restore" /\ worker[w].who \in Chats /\ worker[w].way # "approve"
        /\ SameTrials /\ UNCHANGED <<requests, filed, trialChats, decisions, waiting, mixed>>
    BY <1>0, <1>3, RestoreDoes, FitsIdle DEF Done
  <2>1. Exclusive' /\ Decisions'
    BY <1>0, <2>0, ExclusiveStays, DecisionsStay
  <2>2. Waits' /\ Owned'
    BY <1>0, <2>0, WaitsStay, OwnedStays DEF Holding, Approving, Making, SameTrials
  <2>3. NoNewChats
    <3> SUFFICES ASSUME NEW v \in Workers, NEW c \in Chats \ mixed, Registers(v, c)', NEW u \in Accounts,
                        Live(u)', users'[u].chat = c
                 PROVE Live(u) /\ users[u].chat = c
      BY <2>0 DEF NoNewChats
    <3>1. v # w /\ Registers(v, c)
      BY <2>0 DEF Registers, Others
    <3>2. worker[w].who # c
      BY <1>0, <2>0, <3>1 DEF Trials, Alone, Registers
    <3>3. users'[u].chat \in {users[u].chat, worker[w].who, NoOne} /\ users'[u].state = users[u].state
      BY <1>0, <1>3, RestoreDoes
    <3> QED
      BY <3>2, <3>3, ApplicantsAreDistinct DEF Live
  <2>4. Trials'
    BY <1>0, <2>0, <2>3, TrialsStay, SameTrialsOf DEF Others, Quiet, NothingNew, NothingLost, Registering, Recording
  <2> QED
    BY <2>0, <2>1, <2>2, <2>4, InvPrimed DEF Parts
<1>4. CASE Refuse(w)
  <2>0. /\ Shape' /\ Others(w) /\ worker'[w].at = "idle" /\ worker[w].at = "gate" /\ worker[w].way # "approve"
        /\ UNCHANGED <<users, requests, filed, trialChats, decisions, waiting, mixed>>
    BY <1>0, <1>4, RefuseDoes, FitsIdle DEF Done
  <2>1. Exclusive' /\ Decisions'
    BY <1>0, <2>0, ExclusiveStays, DecisionsStay
  <2>2. Waits' /\ Owned'
    BY <1>0, <2>0, WaitsStay, OwnedStays DEF Holding, Approving, Making
  <2>3. Trials'
    BY <1>0, <2>0, TrialsStay, SameUsers DEF Others, Quiet, NothingNew, NothingLost, Registering, Recording
  <2> QED
    BY <2>0, <2>1, <2>2, <2>3, InvPrimed DEF Parts
<1>5. CASE Admit(w)
  <2>0. /\ Shape' /\ worker[w].at = "gate" /\ worker[w].way # "approve"
        /\ UNCHANGED <<users, requests, filed, trialChats, decisions, waiting, mixed>>
    BY <1>0, <1>5, AdmitDoes
  <2>1. ASSUME NEW at \in {"file", "create"}, Goes(w, at) PROVE Exclusive' /\ Decisions' /\ Waits' /\ Owned'
    <3>1. Others(w) /\ worker'[w].at = at /\ worker'[w].way = worker[w].way /\ worker'[w].who = worker[w].who
      BY <2>1 DEF Goes
    <3>2. Exclusive' /\ Decisions'
      BY <1>0, <2>0, <3>1, ExclusiveStays, DecisionsStay DEF Inside
    <3>3. Waits' /\ Owned'
      BY <1>0, <2>0, <3>1, WaitsStay, OwnedStays DEF Holding, Approving, Making
    <3> QED
      BY <3>2, <3>3
  <2>2. CASE Goes(w, "file")
    <3>1. Trials'
      BY <1>0, <2>0, <2>2, TrialsStay, SameUsers DEF Goes, Others, Quiet, NothingNew, NothingLost, Registering, Recording
    <3> QED
      BY <2>0, <2>1, <2>2, <3>1, InvPrimed DEF Parts
  <2>3. CASE Goes(w, "create") /\ worker'[w].trial = ~HadTrial(worker[w].who)
    <3>1. Trials'
      BY <1>0, <2>0, <2>3, TrialsAdmitted
    <3> QED
      BY <2>0, <2>1, <2>3, <3>1, InvPrimed DEF Parts
  <2> QED
    BY <1>0, <1>5, <2>2, <2>3, AdmitDoes
<1>6. CASE RequestRegistration(w)
  <2>0. /\ Shape' /\ Others(w) /\ worker'[w].at = "idle" /\ worker[w].at = "file" /\ worker[w].way # "approve"
        /\ UNCHANGED <<users, trialChats, mixed>>
    BY <1>0, <1>6, RequestDoes, FitsIdle DEF Done
  <2>1. Exclusive' /\ Owned'
    BY <1>0, <2>0, ExclusiveStays, OwnedStays DEF Making
  <2>2. Decisions' /\ Waits'
    BY <1>0, <1>6, DecisionsFiled, WaitsFiled
  <2>3. Trials'
    BY <1>0, <2>0, TrialsStay, SameUsers DEF Others, Quiet, NothingNew, NothingLost, Registering, Recording
  <2> QED
    BY <2>0, <2>1, <2>2, <2>3, InvPrimed DEF Parts
<1> QED
  BY <1>1, <1>2, <1>3, <1>4, <1>5, <1>6 DEF SignUp

(* Making an account.                                                       *)
LEMMA MakeKeeps ==
  ASSUME Inv, NEW w \in Workers, Make(w) PROVE Inv'
<1>0. Shape /\ Exclusive /\ Decisions /\ Waits /\ Owned /\ Trials
  BY InvParts DEF Parts
<1>1. CASE CreateUser(w)
  <2>0. /\ Shape' /\ worker[w].at = "create" /\ Others(w) /\ worker'[w].at = "plan" /\ worker'[w].way = worker[w].way
        /\ worker'[w].who = worker[w].who /\ worker'[w].req = worker[w].req /\ worker'[w].trial = worker[w].trial
        /\ UNCHANGED <<requests, filed, trialChats, decisions, waiting, mixed>>
    BY <1>0, <1>1, CreateDoes DEF Goes
  <2>1. PICK u \in Accounts :
             /\ users[u] = Unused /\ worker'[w].user = u
             /\ users'[u].by = worker[w].who /\ users'[u].plan = "none" /\ users'[u].chat = NoOne
             /\ \A v \in Accounts \ {u} : users'[v] = users[v]
    BY <1>0, <1>1, CreateDoes
  <2>2. Exclusive' /\ Decisions' /\ Waits'
    BY <1>0, <2>0, ExclusiveStays, DecisionsStay, WaitsStay DEF Inside, Holding, Approving
  <2>3. Owned'
    <3> SUFFICES ASSUME NEW v \in Workers, worker'[v].at \in Making PROVE users'[worker'[v].user].by = worker'[v].who
      BY DEF Owned, Making
    <3>1. CASE v = w
      BY <2>0, <2>1, <3>1
    <3>2. CASE v # w
      <4>1. worker'[v] = worker[v] /\ worker[v].user \in Accounts /\ worker[v].who \in Applicants
            /\ users[worker[v].user].by = worker[v].who
        BY <1>0, <2>0, <3>2, ShapeIs DEF Others, Making, Owned, WorkerFits
      <4>2. worker[v].user # u
        BY <2>1, <4>1, ApplicantsAreDistinct DEF Unused, Applicants
      <4> QED
        BY <2>1, <4>1, <4>2
    <3> QED
      BY <3>1, <3>2
  <2>4. NoNewTrials /\ NoNewChats
    BY <2>1, ApplicantsAreDistinct DEF NoNewTrials, NoNewChats, TrialOf, Live
  <2>5. Trials'
    BY <1>0, <2>0, <2>4, TrialsStay DEF Others, Quiet, NothingNew, NothingLost, Registering, Recording
  <2> QED
    BY <2>0, <2>2, <2>3, <2>5, InvPrimed DEF Parts
<1>2. CASE ApplyUserPlan(w)
  <2>0. /\ Shape' /\ worker[w].at = "plan" /\ Others(w) /\ worker'[w].at = "link" /\ worker'[w].way = worker[w].way
        /\ worker'[w].who = worker[w].who /\ worker'[w].req = worker[w].req /\ worker'[w].user = worker[w].user
        /\ \A v \in Accounts : users'[v].by = users[v].by
        /\ UNCHANGED <<requests, filed, decisions, waiting>>
    BY <1>0, <1>2, PlanDoes DEF Goes, SameUser
  <2>1. Exclusive' /\ Decisions' /\ Waits'
    BY <1>0, <2>0, ExclusiveStays, DecisionsStay, WaitsStay DEF Inside, Holding, Approving
  <2>2. Owned' /\ Trials'
    BY <1>0, <1>2, <2>0, OwnedStays, TrialsPlanned DEF Making
  <2> QED
    BY <2>0, <2>1, <2>2, InvPrimed DEF Parts
<1>3. CASE CreateFails(w)
  <2>0. /\ Shape' /\ worker[w].at \in {"create", "plan"} /\ Others(w)
        /\ \/ worker[w].way # "approve" /\ worker'[w].at = "idle"
           \/ worker[w].way = "approve" /\ Goes(w, "putback")
        /\ UNCHANGED <<users, requests, filed, trialChats, decisions, waiting, mixed>>
    BY <1>0, <1>3, CreateFailsDoes, FitsIdle DEF Goes, Done
  <2>1. Exclusive' /\ Decisions'
    BY <1>0, <2>0, ExclusiveStays, DecisionsStay DEF Goes, Inside, Holding, Approving
  <2>2. Waits' /\ Owned'
    BY <1>0, <2>0, WaitsStay, OwnedStays DEF Goes, Holding, Approving, Making
  <2>3. Trials'
    BY <1>0, <2>0, TrialsStay, SameUsers DEF Goes, Others, Quiet, NothingNew, NothingLost, Registering, Recording
  <2> QED
    BY <2>0, <2>1, <2>2, <2>3, InvPrimed DEF Parts
<1>4. CASE LinkChat(w)
  <2>0. /\ Shape' /\ worker[w].at = "link" /\ Goes(w, "mark") /\ Others(w) /\ worker'[w].at = "mark"
        /\ worker'[w].way = worker[w].way /\ worker'[w].who = worker[w].who /\ worker'[w].user = worker[w].user
        /\ worker[w].who \in Chats /\ SameTrials /\ Decided(w) /\ UNCHANGED <<requests, filed, trialChats, mixed>>
    BY <1>0, <1>4, LinkChatDoes DEF Goes, SameUser
  <2>1. Exclusive' /\ Owned'
    BY <1>0, <2>0, ExclusiveStays, OwnedStays DEF Inside, Making, SameTrials
  <2>2. Decisions' /\ Waits'
    BY <1>0, <2>0, DecisionsDecided, WaitsStay DEF Holding, Approving, Decided
  <2>3. NoNewChats
    <3> SUFFICES ASSUME NEW v \in Workers, NEW c \in Chats \ mixed, Registers(v, c)', worker'[v].at \notin {"mark", "drop"},
                        NEW u \in Accounts, Live(u)', users'[u].chat = c
                 PROVE Live(u) /\ users[u].chat = c
      BY <2>0 DEF NoNewChats
    <3>1. v # w /\ Registers(v, c)
      BY <2>0 DEF Registers, Others
    <3>2. worker[w].who # c
      BY <1>0, <2>0, <3>1 DEF Trials, Alone, Registers
    <3>3. users'[u].chat \in {users[u].chat, worker[w].who, NoOne} /\ users'[u].state = users[u].state
      BY <1>0, <1>4, LinkChatDoes
    <3> QED
      BY <3>2, <3>3, ApplicantsAreDistinct DEF Live
  <2>4. Trials'
    BY <1>0, <2>0, <2>3, TrialsStay, SameTrialsOf DEF Others, Quiet, NothingNew, NothingLost, Registering, Recording
  <2> QED
    BY <2>0, <2>1, <2>2, <2>4, InvPrimed DEF Parts
<1>5. CASE SetUserExternalID(w)
  <2>0. /\ Shape' /\ worker[w].at = "link" /\ worker[w].who \in Sites /\ SameTrials
        /\ \A v \in Accounts : users'[v].chat = users[v].chat /\ users'[v].state = users[v].state
        /\ Others(w) /\ UNCHANGED <<requests, filed, trialChats, mixed>>
        /\ \/ worker'[w].at = "idle" /\ Decided(w)
           \/ Goes(w, "drop") /\ SameUser(w) /\ UNCHANGED <<decisions, waiting>>
    BY <1>0, <1>5, SiteDoes, FitsIdle DEF Done, Goes
  <2>1. Exclusive' /\ Owned'
    BY <1>0, <2>0, ExclusiveStays, OwnedStays DEF Goes, SameUser, Inside, Making, SameTrials
  <2>2. ASSUME worker'[w].at = "idle", Decided(w) PROVE Decisions' /\ Waits'
    BY <1>0, <2>0, <2>2, DecisionsDecided, WaitsStay DEF Holding, Approving, Decided
  <2>3. ASSUME Goes(w, "drop"), UNCHANGED <<decisions, waiting>> PROVE Decisions' /\ Waits'
    BY <1>0, <2>0, <2>3, DecisionsStay, WaitsStay DEF Goes, Holding, Approving
  <2>4. NoNewChats /\ worker[w].who \notin Chats
    BY <2>0, ApplicantsAreDistinct DEF NoNewChats, Live
  <2>5. Trials'
    BY <1>0, <2>0, <2>4, TrialsStay, SameTrialsOf DEF Goes, Others, Quiet, NothingNew, NothingLost, Registering, Recording
  <2> QED
    BY <2>0, <2>1, <2>2, <2>3, <2>5, InvPrimed DEF Parts
<1>6. CASE LinkFails(w)
  <2>0. /\ Shape' /\ worker[w].at = "link" /\ Others(w) /\ mixed \subseteq mixed'
        /\ \/ worker'[w].at = "idle" /\ worker[w].way \in {"bot", "app"} /\ worker[w].who \in mixed'
           \/ Goes(w, "drop") /\ SameUser(w)
        /\ UNCHANGED <<users, requests, filed, trialChats, decisions, waiting>>
    BY <1>0, <1>6, LinkFailsDoes, FitsIdle DEF Done, Goes
  <2>1. Exclusive' /\ Decisions'
    BY <1>0, <2>0, ExclusiveStays, DecisionsStay DEF Goes, Inside, Holding, Approving
  <2>2. Waits' /\ Owned'
    BY <1>0, <2>0, WaitsStay, OwnedStays DEF Goes, SameUser, Holding, Approving, Making
  <2>3. Trials'
    BY <1>0, <2>0, TrialsStay, SameUsers
       DEF Goes, SameUser, Others, Quiet, NothingNew, NothingLost, Registering, Recording
  <2> QED
    BY <2>0, <2>1, <2>2, <2>3, InvPrimed DEF Parts
<1>7. CASE DropUser(w)
  <2>0. /\ Shape' /\ worker[w].at = "drop" /\ Others(w) /\ worker[w].user \in Accounts
        /\ \/ worker[w].way # "approve" /\ worker'[w].at = "idle"
           \/ worker[w].way = "approve" /\ Goes(w, "putback")
        /\ \A v \in Accounts : users'[v].by = users[v].by
        /\ UNCHANGED <<requests, filed, decisions, waiting>>
    BY <1>0, <1>7, DropDoes, FitsIdle DEF Done, Goes
  <2>1. Exclusive' /\ Decisions'
    BY <1>0, <2>0, ExclusiveStays, DecisionsStay DEF Goes, Inside, Holding, Approving
  <2>2. Waits' /\ Owned'
    BY <1>0, <2>0, WaitsStay, OwnedStays DEF Goes, Holding, Approving, Making
  <2>3. Trials'
    BY <1>0, <1>7, TrialsDropped
  <2> QED
    BY <2>0, <2>1, <2>2, <2>3, InvPrimed DEF Parts
<1>8. CASE MarkChatTrial(w)
  <2>0. /\ Shape' /\ Done(w) /\ Others(w) /\ worker'[w].at = "idle" /\ worker[w].at = "mark"
        /\ UNCHANGED <<users, requests, filed, decisions, waiting>>
    BY <1>0, <1>8, MarkDoes, FitsIdle DEF Done
  <2>1. Exclusive' /\ Decisions' /\ Waits' /\ Owned'
    BY <1>0, <2>0, ExclusiveStays, DecisionsStay, WaitsStay, OwnedStays DEF Holding, Making
  <2>2. ASSUME trialChats' = trialChats \union {worker[w].who}, UNCHANGED mixed PROVE Trials'
    BY <1>0, <2>0, <2>2, TrialsMarked
  <2>3. ASSUME trialChats' = trialChats, mixed' = mixed \union {worker[w].who} PROVE Trials'
    BY <1>0, <2>0, <2>3, TrialsStay, SameUsers DEF Others, Quiet, NothingNew, NothingLost, Registering, Recording
  <2> QED
    BY <1>0, <1>8, <2>0, <2>1, <2>2, <2>3, MarkDoes, InvPrimed DEF Parts
<1> QED
  BY <1>1, <1>2, <1>3, <1>4, <1>5, <1>6, <1>7, <1>8 DEF Make

(* Approvals.                                                               *)
LEMMA ModerateKeeps ==
  ASSUME Inv, NEW w \in Workers, Moderate(w) PROVE Inv'
<1>0. Shape /\ Exclusive /\ Decisions /\ Waits /\ Owned /\ Trials
  BY InvParts DEF Parts
<1>1. ASSUME NEW r \in Requests, Approve(w, r) PROVE Inv'
  <2>0. /\ Shape' /\ Others(w) /\ worker[w].at = "idle" /\ worker'[w].at = "enter"
        /\ UNCHANGED <<users, requests, filed, trialChats, decisions, waiting, mixed>>
    BY <1>0, <1>1, ApproveDoes
  <2>1. Exclusive' /\ Decisions'
    BY <1>0, <1>1, <2>0, ExclusiveStays, DecisionsApproving
  <2>2. Waits' /\ Owned'
    BY <1>0, <2>0, WaitsStay, OwnedStays DEF Holding, Approving, Making
  <2>3. Trials'
    BY <1>0, <2>0, TrialsStay, SameUsers DEF Others, Quiet, NothingNew, NothingLost, Registering, Recording
  <2> QED
    BY <2>0, <2>1, <2>2, <2>3, InvPrimed DEF Parts
<1>2. CASE Claim(w)
  <2>0. /\ Shape' /\ worker[w].at = "enter" /\ Enters(w) /\ Others(w)
        /\ worker'[w].at = "idle" \/ Goes(w, "known")
        /\ UNCHANGED <<users, filed, trialChats, decisions, waiting, mixed>>
    BY <1>0, <1>2, ClaimDoes, FitsIdle DEF Done, Goes
  <2>1. Exclusive' /\ Decisions'
    BY <1>0, <1>2, <2>0, ExclusiveStays, ExclusiveEnters, DecisionsClaimed
  <2>2. Waits' /\ Owned'
    BY <1>0, <1>2, <2>0, WaitsClaimed, OwnedStays DEF Goes, Making
  <2>3. Trials'
    BY <1>0, <2>0, TrialsStay, SameUsers DEF Goes, Others, Quiet, NothingNew, NothingLost, Registering, Recording
  <2> QED
    BY <2>0, <2>1, <2>2, <2>3, InvPrimed DEF Parts
<1>3. CASE ApproveRegistrationRequest(w)
  <2>0. /\ Shape' /\ worker[w].at = "known" /\ worker[w].way = "approve" /\ Holding(w)
        /\ UNCHANGED <<users, requests, filed, trialChats>>
    BY <1>0, <1>3, ApproveRequestDoes DEF Holding, Approving
  <2>1. CASE Done(w) /\ Decided(w) /\ UNCHANGED mixed
    <3>0. Others(w) /\ worker'[w].at = "idle"
      BY <2>1, FitsIdle DEF Done
    <3>1. Exclusive' /\ Owned'
      BY <1>0, <2>0, <3>0, ExclusiveStays, OwnedStays DEF Making
    <3>2. Decisions' /\ Waits'
      BY <1>0, <2>0, <2>1, <3>0, DecisionsDecided, WaitsStay DEF Decided
    <3>3. Trials'
      BY <1>0, <2>0, <2>1, <3>0, TrialsStay, SameUsers DEF Others, Quiet, NothingNew, NothingLost, Registering, Recording
    <3> QED
      BY <2>0, <3>1, <3>2, <3>3, InvPrimed DEF Parts
  <2>2. CASE /\ Goes(w, "create") /\ worker'[w].trial = ~HadTrial(worker[w].who)
             /\ AccountsOf(worker[w].who) = {} /\ mixed' = mixed \union Mixes(w)
             /\ UNCHANGED <<decisions, waiting>>
    <3>1. Exclusive' /\ Decisions'
      BY <1>0, <2>0, <2>2, ExclusiveStays, DecisionsStay DEF Goes, Inside
    <3>2. Waits' /\ Owned'
      BY <1>0, <2>0, <2>2, WaitsStay, OwnedStays DEF Goes, Holding, Approving, Making
    <3>3. Trials'
      BY <1>0, <2>0, <2>2, TrialsBegin
    <3> QED
      BY <2>0, <3>1, <3>2, <3>3, InvPrimed DEF Parts
  <2> QED
    BY <1>0, <1>3, <2>1, <2>2, ApproveRequestDoes
<1>4. CASE PutBack(w)
  <2>0. /\ Shape' /\ worker[w].at = "putback" /\ Others(w) /\ worker'[w].at = "idle"
        /\ UNCHANGED <<users, trialChats, mixed>>
    BY <1>0, <1>4, PutBackDoes, FitsIdle DEF Done
  <2>1. Exclusive' /\ Owned'
    BY <1>0, <2>0, ExclusiveStays, OwnedStays DEF Making
  <2>2. Decisions' /\ Waits'
    BY <1>0, <1>4, DecisionsPutBack, WaitsPutBack
  <2>3. Trials'
    BY <1>0, <2>0, TrialsStay, SameUsers DEF Others, Quiet, NothingNew, NothingLost, Registering, Recording
  <2> QED
    BY <2>0, <2>1, <2>2, <2>3, InvPrimed DEF Parts
<1> QED
  BY <1>1, <1>2, <1>3, <1>4 DEF Moderate

(* With the workers as they were. *)
LEMMA WorkersStay ==
  ASSUME Exclusive, Owned, UNCHANGED worker, SameTrials, Shape PROVE Exclusive' /\ Owned'
<1>1. Exclusive'
  BY DEF Exclusive, Inside, LockOf
<1>2. Owned'
  BY ShapeIs DEF Owned, SameTrials, WorkerFits
<1> QED
  BY <1>1, <1>2

(* Steps that touch no request.                                             *)
LEMMA RequestsStay ==
  ASSUME Decisions, Waits, UNCHANGED <<worker, requests, filed, decisions, waiting>> PROVE Decisions' /\ Waits'
<1>1. \A v \in Workers : (Holding(v)' <=> Holding(v)) /\ (Approving(v)' <=> Approving(v))
  BY DEF Holding, Approving
<1>2. Decisions'
  BY <1>1 DEF Decisions
<1>3. Waits'
  BY <1>1 DEF Waits, Pending
<1> QED
  BY <1>2, <1>3

(* What operators, users and restarts do in between.                        *)
LEMMA OperateKeeps ==
  ASSUME Inv, Operate PROVE Inv'
<1>0. Shape /\ Exclusive /\ Decisions /\ Waits /\ Owned /\ Trials
  BY InvParts DEF Parts
<1>1. ASSUME NEW r \in Requests, RejectRegistrationRequest(r) PROVE Inv'
  <2>0. Shape' /\ UNCHANGED <<users, filed, trialChats, worker, mixed>>
    BY <1>0, <1>1, RejectDoes
  <2>1. Exclusive' /\ Owned'
    BY <1>0, <2>0, WorkersStay, SameUsers
  <2>2. Decisions' /\ Waits'
    BY <1>0, <1>1, DecisionsRejected, WaitsRejected
  <2>3. Trials'
    BY <1>0, <2>0, TrialsStay, SameUsers DEF Quiet
  <2> QED
    BY <2>0, <2>1, <2>2, <2>3, InvPrimed DEF Parts
<1>2. ASSUME NEW m \in Modes, SetMode(m) PROVE Inv'
  <2>0. Shape' /\ UNCHANGED <<users, requests, filed, trialChats, worker, decisions, waiting, mixed>>
    BY <1>0, <1>2, ModeDoes
  <2>1. Exclusive' /\ Owned' /\ Decisions' /\ Waits'
    BY <1>0, <2>0, WorkersStay, RequestsStay, SameUsers
  <2>2. Trials'
    BY <1>0, <2>0, TrialsStay, SameUsers DEF Quiet
  <2> QED
    BY <2>0, <2>1, <2>2, InvPrimed DEF Parts
<1>3. ASSUME NEW u \in Accounts, DeleteUser(u) \/ UnlinkUserTelegram(u) PROVE Inv'
  <2>0. /\ Shape' /\ SameTrials /\ NoNewChats
        /\ UNCHANGED <<requests, filed, trialChats, worker, decisions, waiting, mixed>>
    BY <1>0, <1>3, TakingAwayDoes, TakenAwayIs
  <2>1. Exclusive' /\ Owned' /\ Decisions' /\ Waits'
    BY <1>0, <2>0, WorkersStay, RequestsStay
  <2>2. Trials'
    BY <1>0, <2>0, TrialsStay, SameTrialsOf DEF Quiet
  <2> QED
    BY <2>0, <2>1, <2>2, InvPrimed DEF Parts
<1>4. ASSUME NEW u \in Accounts, NEW c \in Chats, LinkByCode(u, c) PROVE Inv'
  <2>0. /\ Shape' /\ SameTrials /\ \A v \in Accounts : users'[v].state = users[v].state
        /\ \A v \in Accounts : users'[v].chat \in {users[v].chat, c, NoOne}
        /\ mixed \subseteq mixed' /\ (c \notin mixed' => \A w \in Workers : ~Registers(w, c))
        /\ UNCHANGED <<requests, filed, trialChats, worker, decisions, waiting>>
    BY <1>0, <1>4, LinkByCodeDoes
  <2>1. Exclusive' /\ Owned' /\ Decisions' /\ Waits'
    BY <1>0, <2>0, WorkersStay, RequestsStay
  <2>2. NoNewChats
    BY <2>0, ApplicantsAreDistinct DEF NoNewChats, Live, Registers
  <2>3. Trials'
    BY <1>0, <2>0, <2>2, TrialsStay, SameTrialsOf DEF Quiet
  <2> QED
    BY <2>0, <2>1, <2>3, InvPrimed DEF Parts
<1>5. ASSUME NEW u \in Accounts, NEW a \in Sites, TieToSite(u, a) PROVE Inv'
  <2>0. /\ Shape' /\ SameTrials /\ NoNewChats
        /\ UNCHANGED <<requests, filed, trialChats, worker, decisions, waiting, mixed>>
    BY <1>0, <1>5, TieDoes DEF NoNewChats, Live
  <2>1. Exclusive' /\ Owned' /\ Decisions' /\ Waits'
    BY <1>0, <2>0, WorkersStay, RequestsStay
  <2>2. Trials'
    BY <1>0, <2>0, TrialsStay, SameTrialsOf DEF Quiet
  <2> QED
    BY <2>0, <2>1, <2>2, InvPrimed DEF Parts
<1>6. CASE Crash
  <2>0. /\ Shape' /\ (\A w \in Workers : worker'[w].at = "idle") /\ mixed \subseteq mixed'
        /\ \A w \in Workers : worker[w].at \in Recording /\ worker[w].who \in Chats => worker[w].who \in mixed'
        /\ UNCHANGED <<users, requests, filed, trialChats, decisions>>
    BY <1>0, <1>6, CrashDoes, IdleFits DEF Recording
  <2>1. Exclusive' /\ Owned'
    BY <2>0 DEF Exclusive, Inside, Owned
  <2>2. Decisions'
    <3>1. \A w \in Workers : ~Holding(w)' /\ ~Approving(w)'
      BY <2>0 DEF Holding, Approving
    <3> QED
      BY <1>0, <2>0, <3>1 DEF Decisions
  <2>3. Waits'
    <3> SUFFICES ASSUME NEW a \in waiting' PROVE Pending(a)
      BY <2>0 DEF Waits, Pending
    <3>1. a \in waiting /\ (Pending(a) \/ \A w \in Workers : ~(worker[w].way = "approve" /\ Inside(w) /\ worker[w].who = a))
      BY <1>0, <1>6, CrashDoes
    <3>2. \A w \in Workers : Holding(w) => worker[w].way = "approve" /\ Inside(w)
      BY DEF Holding, Approving, Inside
    <3> QED
      BY <1>0, <3>1, <3>2 DEF Waits
  <2>4. \A v \in Workers : Quiet(v)
    BY <2>0 DEF Quiet, NothingNew, NothingLost, Registering
  <2>5. Trials'
    BY <1>0, <2>0, <2>4, TrialsStay, SameUsers
  <2> QED
    BY <2>0, <2>1, <2>2, <2>3, <2>5, InvPrimed DEF Parts
<1> QED
  BY <1>1, <1>2, <1>3, <1>4, <1>5, <1>6 DEF Operate

----------------------------------------------------------------------------
(* The invariant at the start.                                              *)
LEMMA InitInv == Init => Inv
<1> SUFFICES ASSUME Init PROVE Inv
  OBVIOUS
<1> DEFINE First == [Unused EXCEPT !.state = "live", !.plan = "spent"]
<1>1. /\ Unused \in UserRow /\ Unused.plan # "trial"
      /\ First \in UserRow /\ First.plan # "trial"
  BY DEF Unused, UserRow
<1>2. \A u \in Accounts : users[u] \in UserRow /\ users[u].plan # "trial"
  <2>1. users \in [Accounts -> {Unused, First}]
    BY DEF Init
  <2> HIDE DEF First
  <2> QED
    BY <1>1, <2>1
<1>3. UsersTyped /\ WorkersTyped /\ RestTyped
  BY <1>1, IdleTyped, CapsAreNumbers DEF Init, UsersTyped, WorkersTyped, RestTyped
<1>4. \A w \in Workers : worker[w] = Idle /\ worker[w].at = "idle" /\ WorkerFits(worker[w])
  BY IdleFits DEF Init
<1>5. Shape
  BY <1>3, <1>4, Pieces DEF Shape, Typed
<1>6. Exclusive /\ Owned
  BY <1>4 DEF Exclusive, Inside, Owned
<1>7. Decisions /\ Waits
  <2>1. \A w \in Workers : ~Holding(w) /\ ~Approving(w)
    BY <1>4 DEF Holding, Approving
  <2> QED
    BY <2>1 DEF Init, Decisions, Waits
<1>8. Trials
  BY <1>2, <1>4 DEF Trials, Alone, Unlinked, Recorded, Single, Promised, Registers, TrialOf
<1> QED
  BY <1>5, <1>6, <1>7, <1>8, InvParts DEF Parts

(* Every step keeps it.                                                     *)
LEMMA Keeps == Inv /\ [Next]_vars => Inv'
<1> SUFFICES ASSUME Inv, [Next]_vars PROVE Inv'
  OBVIOUS
<1>1. CASE UNCHANGED vars
  <2>0. Shape /\ Exclusive /\ Decisions /\ Waits /\ Owned /\ Trials
    BY InvParts DEF Parts
  <2>1. UNCHANGED <<users, requests, filed, trialChats, worker, decisions, waiting, mixed>>
    BY <1>1 DEF vars, history
  <2>2. Shape'
    BY <1>1, <2>0 DEF vars, history, Shape, TypeOK, WorkerFits
  <2>3. Exclusive' /\ Owned' /\ Decisions' /\ Waits' /\ Trials'
    BY <2>0, <2>1, WorkersStay, RequestsStay, TrialsStay, SameUsers DEF Quiet
  <2> QED
    BY <2>2, <2>3, InvPrimed DEF Parts
<1> QED
  BY <1>1, SignUpKeeps, MakeKeeps, ModerateKeeps, OperateKeeps DEF Next

(* It holds in all behaviours.                                              *)
LEMMA Invariant == Spec => []Inv
  BY InitInv, Keeps, PTL DEF Spec

----------------------------------------------------------------------------
(* It gives the types ...                                                   *)
LEMMA InvTypes == Inv => TypeOK
  BY DEF Inv, Shape

(* ... one trial to a Telegram ...                                          *)
LEMMA InvOneTrial == Inv => OneTrialPerChat
  BY DEF Inv, Single, TrialOf, OneTrialPerChat

(* ... one decision to a request ...                                        *)
LEMMA InvDecided == Inv => DecidedOnce
<1> SUFFICES ASSUME Inv, NEW r \in Requests PROVE decisions[r] <= IF requests[r] = NoOne THEN 1 ELSE 0
  BY DEF DecidedOnce
<1> QED
  BY DEF Inv, Decisions

(* ... nobody displaced ...                                                 *)
LEMMA InvDisplaces == Inv => NeverDisplaces
<1> SUFFICES ASSUME Inv, NEW w \in Workers, worker[w].at \in {"restore", "link"}, worker[w].who \in Chats \ mixed,
                    NEW u \in Accounts, Live(u)
             PROVE users[u].chat # worker[w].who /\ users[u].site # worker[w].who
  BY DEF NeverDisplaces, AccountsOf
<1>1. users[u].chat # worker[w].who
  BY DEF Inv, Unlinked, Registers
<1>2. users[u].site \in Sites \union {NoOne}
  BY ShapeIs DEF Inv, UsersTyped, UserRow
<1> QED
  BY <1>1, <1>2, ApplicantsAreDistinct

(* ... and nobody forgotten.                                                *)
LEMMA InvRemembers == Inv => NobodyForgotten
<1> SUFFICES ASSUME Inv, NEW a \in waiting, ~Pending(a)
             PROVE /\ \E w \in Workers : worker[w].way = "approve" /\ worker[w].who = a /\ Inside(w)
                   /\ ~\E w \in Workers : worker[w].way = "site" /\ worker[w].who = a /\ Inside(w)
  BY DEF NobodyForgotten
<1>1. PICK w \in Workers : Holding(w) /\ worker[w].who = a
  BY DEF Inv, Waits
<1>2. worker[w].way = "approve" /\ Inside(w)
  BY <1>1 DEF Holding, Approving, Inside
<1>3. ASSUME NEW v \in Workers, worker[v].way = "site", worker[v].who = a, Inside(v) PROVE FALSE
  <2>1. a \in Sites
    BY <1>3, ShapeIs DEF Inv, WorkerFits, Inside
  <2>2. LockOf(worker[v]) = "signupMu" /\ LockOf(worker[w]) = "signupMu"
    BY <1>1, <1>2, <1>3, <2>1 DEF LockOf
  <2>3. v = w
    BY <1>2, <1>3, <2>2 DEF Inv, Exclusive
  <2> QED
    BY <1>2, <1>3, <2>3
<1> QED
  BY <1>1, <1>2, <1>3

(* The registration's tables and workers keep their types. *)
THEOREM RegistrationTypes == Spec => []TypeOK
  BY Invariant, InvTypes, PTL

(* No Telegram has two accounts with a trial, for any sign-ups, approvals, *)
(* moves, unlinkings, deletions, failures and restarts, in any order, but  *)
(* for the registrations that no lock keeps apart or that were cut off.    *)
THEOREM AlwaysOneTrial == Spec => []OneTrialPerChat
  BY Invariant, InvOneTrial, PTL

(* A registration takes a chat from no account, with the same exceptions.  *)
THEOREM AlwaysDisplacesNobody == Spec => []NeverDisplaces
  BY Invariant, InvDisplaces, PTL

(* A request is decided at most once, and never while it is pending.       *)
THEOREM AlwaysDecidedOnce == Spec => []DecidedOnce
  BY Invariant, InvDecided, PTL

(* Whoever was told to wait has a request pending or in an approval's      *)
(* hands, and a website's sign-up finds it.                                *)
THEOREM AlwaysRemembered == Spec => []NobodyForgotten
  BY Invariant, InvRemembers, PTL
=============================================================================
