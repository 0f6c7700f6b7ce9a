---------------------------- MODULE Registration ----------------------------
(***************************************************************************)
(* Self-registration (internal/core/manager_signup.go, manager_signup_tg.go, *)
(* manager_miniapp.go, manager_billing.go, internal/telegram/user_bot.go,  *)
(* internal/store/registration_requests.go, users.go). A Telegram signs up *)
(* in the user bot, in the Mini App or over the API, a website client over *)
(* the API. Whoever has an account gets it back, whoever unlinked theirs   *)
(* has it restored; anyone else gets a new one with a trial or, moderated, *)
(* a request that an operator approves or rejects. The Mini App and the    *)
(* API hold miniRegMu for a Telegram, the website's sign-ups and approvals *)
(* hold signupMu; the bot and the approval of a Telegram hold neither.     *)
(*                                                                         *)
(* Billing is on and a trial plan is set. The blacklist, the rate limits,  *)
(* the invite code and a plugin's veto are a sign-up refused at any time.  *)
(* Referrers, sources, languages, notices and webhooks are left out. Reads *)
(* of the database succeed, and so does undoing what was begun.            *)
(***************************************************************************)
EXTENDS Naturals, FiniteSets

CONSTANTS
  Chats,       \* Telegram chats
  Sites,       \* external ids: clients of the operator's website
  NoOne,
  Workers,     \* requests handled in parallel
  Ways,        \* subset of {"bot", "app", "api", "site"}
  Modes,       \* subset of {"off", "open", "invite", "moderation"}
  MayHappen,   \* subset of {"mode", "delete", "unlink", "relink", "tie", "approve",
               \*            "create", "plan", "link", "mark", "crash"}
  MaxUsers,    \* cap on the accounts ever made
  MaxRequests, \* cap on the requests ever filed
  MaxEvents    \* cap on what happens of MayHappen beside approvals

ASSUME ApplicantsAreDistinct == Chats \cap Sites = {} /\ NoOne \notin Chats \union Sites
ASSUME WaysAreKnown == Ways \subseteq {"bot", "app", "api", "site"}
ASSUME CapsAreNumbers == MaxUsers \in Nat /\ MaxRequests \in Nat /\ MaxEvents \in Nat

VARIABLES
  users,       \* [Accounts -> ...] the accounts
  requests,    \* [Requests -> ...] registration_requests: the applicant, while it is pending
  filed,       \* the last request id given out
  trialChats,  \* tg_trial_chats: the Telegrams that had their trial
  regMode,     \* Settings.RegMode
  worker,      \* [Workers -> ...] the sign-ups and approvals under way
  events,
  decisions,   \* history: how often a request was decided
  waiting,     \* history: applicants told that their request is pending
  mixed        \* history: chats with two registrations at once that no lock keeps
               \* apart, or with one that was cut off half way

Accounts == 1..MaxUsers
Requests == 1..MaxRequests
Applicants == Chats \union Sites
history == <<decisions, waiting, mixed>>
vars == <<users, requests, filed, trialChats, regMode, worker, events, history>>

Unused == [state |-> "free", plan |-> "none", chat |-> NoOne, prev |-> NoOne,
           site |-> NoOne, by |-> NoOne]
Handling(at, way, who, mode, req) ==
  [at |-> at, way |-> way, who |-> who, mode |-> mode, req |-> req, user |-> 0, trial |-> FALSE]
Idle == Handling("idle", "bot", NoOne, "off", 0)

TypeOK ==
  /\ users \in [Accounts -> [state: {"free", "live", "gone"}, plan: {"none", "trial", "spent"},
                             chat: Chats \union {NoOne}, prev: Chats \union {NoOne},
                             site: Sites \union {NoOne}, by: Applicants \union {NoOne}]]
  /\ requests \in [Requests -> Applicants \union {NoOne}] /\ filed \in 0..MaxRequests
  /\ trialChats \subseteq Chats /\ regMode \in Modes \union {"off"} /\ events \in 0..MaxEvents
  /\ worker \in [Workers -> [at: {"idle", "enter", "restore", "gate", "file", "known", "create",
                                  "plan", "link", "mark", "drop", "putback"},
                             way: {"bot", "app", "api", "site", "approve"},
                             who: Applicants \union {NoOne}, mode: Modes \union {"off"},
                             req: 0..MaxRequests, user: 0..MaxUsers, trial: BOOLEAN]]
  /\ decisions \in [Requests -> Nat] /\ waiting \subseteq Applicants /\ mixed \subseteq Chats

(* One account may be there already, made by the operator. *)
Init ==
  /\ users \in [Accounts -> {Unused, [Unused EXCEPT !.state = "live", !.plan = "spent"]}]
  /\ \A u \in Accounts : u > 1 => users[u] = Unused
  /\ requests = [r \in Requests |-> NoOne] /\ filed = 0 /\ trialChats = {}
  /\ regMode \in Modes /\ worker = [w \in Workers |-> Idle] /\ events = 0
  /\ decisions = [r \in Requests |-> 0] /\ waiting = {} /\ mixed = {}

----------------------------------------------------------------------------
(* The tables. *)
Live(u) == users[u].state = "live"
AccountsOf(a) == {u \in Accounts : Live(u) /\ a \in {users[u].chat, users[u].site}}
Detached(c) == {u \in Accounts : Live(u) /\ users[u].prev = c /\ users[u].chat = NoOne}
Pending(a) == \E r \in Requests : requests[r] = a

(* Linking takes the chat from any other account, forgets who had it       *)
(* before, and leaves the account no chat of its own to go back to.        *)
SetUserTelegramChat(u, c) ==
  [v \in Accounts |->
    IF ~Live(v) THEN users[v]
    ELSE IF v = u THEN [users[v] EXCEPT !.chat = c, !.prev = NoOne]
    ELSE [users[v] EXCEPT !.chat = IF @ = c THEN NoOne ELSE @,
                          !.prev = IF @ = c THEN NoOne ELSE @]]

DeletedUser(u) ==
  [users EXCEPT ![u].state = "gone", ![u].chat = NoOne, ![u].prev = NoOne, ![u].site = NoOne]

(* A row goes back under its id unless the applicant has another by now.   *)
(* A plausible slip: an approval that fails keeps what it claimed.         *)
KeepClaimed(r, a) == requests
RestoreRegistrationRequest(r, a) ==
  IF Pending(a) THEN requests ELSE [requests EXCEPT ![r] = a]

----------------------------------------------------------------------------
(* Who excludes whom. *)
LockOf(v) ==
  IF v.way \in {"app", "api"} THEN "miniRegMu"
  ELSE IF v.way \in {"site", "approve"} /\ v.who \in Sites THEN "signupMu"
  ELSE "none"

(* A plausible slip: a sign-up that takes no lock. *)
Inside(w) == worker[w].at \notin {"idle", "enter"}
EntersAnyway(w) == worker[w].at = "enter"
Enters(w) ==
  /\ worker[w].at = "enter"
  /\ LockOf(worker[w]) # "none"
       => \A v \in Workers : Inside(v) => LockOf(worker[v]) # LockOf(worker[w])

(* A chat's registration is open from when it looked for the chat's        *)
(* account until the trial is recorded, or the account is dropped again.   *)
Registers(w, c) ==
  worker[w].who = c /\ worker[w].at \in {"restore", "gate", "file", "create", "plan", "link", "mark", "drop"}

Mixes(w) ==
  LET c == worker[w].who
      other == {v \in Workers \ {w} : Registers(v, c) /\ {worker[v].way, worker[w].way} \notin SUBSET {"app", "api"}}
  IN IF c \in Chats /\ other # {} THEN {c} ELSE {}

Step(w, at) == worker' = [worker EXCEPT ![w].at = at]
Leave(w) == worker' = [worker EXCEPT ![w] = Idle]
Happens(what) == what \in MayHappen /\ events < MaxEvents /\ events' = events + 1

----------------------------------------------------------------------------
(* Signing up: doRegister in the bot, MiniAppEnter, signupTelegram, Signup. *)
Ask(w, way, a) ==
  /\ worker[w] = Idle /\ AccountsOf(a) = {}
  /\ a \in IF way = "site" THEN Sites ELSE Chats
  /\ way = "bot" => \A v \in Workers : worker[v].at = "idle" \/ worker[v].way # "bot"
  /\ worker' = [worker EXCEPT ![w] = Handling("enter", way, a, regMode, 0)]
  /\ UNCHANGED <<users, requests, filed, trialChats, regMode, events, history>>

(* Looked up again under the lock. The API reads the settings there, the   *)
(* bot and the Mini App go by what they read when the request came in.     *)
LookUp(w) ==
  LET a == worker[w].who
      back == IF a \in Chats THEN Detached(a) ELSE {}
  IN
  /\ Enters(w) /\ worker[w].way # "approve"
  /\ \/ AccountsOf(a) # {} /\ Leave(w) /\ UNCHANGED mixed
     \/ /\ AccountsOf(a) = {}
        /\ \E u \in back :
             /\ \A v \in back : v <= u
             /\ worker' = [worker EXCEPT ![w].at = "restore", ![w].user = u]
        /\ mixed' = mixed \union Mixes(w)
     \/ /\ AccountsOf(a) = {} /\ back = {}
        /\ worker' = [worker EXCEPT ![w].at = "gate",
                                    ![w].mode = IF worker[w].way \in {"api", "site"} THEN regMode ELSE @]
        /\ mixed' = mixed \union Mixes(w)
  /\ UNCHANGED <<users, requests, filed, trialChats, regMode, events, decisions, waiting>>

(* Unlinked before: the same account comes back, open or closed. *)
RestoreDetachedUser(w) ==
  /\ worker[w].at = "restore"
  /\ users' = SetUserTelegramChat(worker[w].user, worker[w].who)
  /\ Leave(w)
  /\ UNCHANGED <<requests, filed, trialChats, regMode, events, history>>

(* Closed, waiting already, or refused: nothing was changed. *)
Refuse(w) ==
  /\ worker[w].at = "gate" /\ Leave(w)
  /\ UNCHANGED <<users, requests, filed, trialChats, regMode, events, history>>

(* One trial per Telegram; a website client's is kept to one by the id. *)
HadTrial(a) == a \in trialChats

Admit(w) ==
  /\ worker[w].at = "gate"
  /\ \/ /\ worker[w].mode = "moderation" /\ ~Pending(worker[w].who)
        /\ Step(w, "file")
     \/ /\ worker[w].mode \in IF worker[w].way = "app" THEN {"open"} ELSE {"open", "invite"}
        /\ worker' = [worker EXCEPT ![w].at = "create", ![w].trial = ~HadTrial(worker[w].who)]
  /\ UNCHANGED <<users, requests, filed, trialChats, regMode, events, history>>

(* One request per applicant: filed again, it keeps the first. *)
RequestRegistration(w) ==
  LET a == worker[w].who IN
  /\ worker[w].at = "file"
  /\ \/ /\ ~Pending(a) /\ filed < MaxRequests
        /\ filed' = filed + 1 /\ requests' = [requests EXCEPT ![filed + 1] = a]
        /\ waiting' = waiting \union {a}
     \/ /\ Pending(a) \/ filed = MaxRequests
        /\ waiting' = IF Pending(a) THEN waiting \union {a} ELSE waiting
        /\ UNCHANGED <<requests, filed>>
  /\ Leave(w)
  /\ UNCHANGED <<users, trialChats, regMode, events, decisions, mixed>>

----------------------------------------------------------------------------
(* Making the account: its row, its plan, and who it is found by. *)
CreateUser(w) ==
  /\ worker[w].at = "create"
  /\ \E u \in Accounts :
       /\ users[u] = Unused /\ \A v \in Accounts : users[v] = Unused => u <= v
       /\ users' = [users EXCEPT ![u].state = "live", ![u].by = worker[w].who]
       /\ worker' = [worker EXCEPT ![w].at = "plan", ![w].user = u]
  /\ UNCHANGED <<requests, filed, trialChats, regMode, events, history>>

ApplyUserPlan(w) ==
  /\ worker[w].at = "plan"
  /\ users' = [users EXCEPT ![worker[w].user].plan = IF worker[w].trial THEN "trial" ELSE "spent"]
  /\ Step(w, "link")
  /\ UNCHANGED <<requests, filed, trialChats, regMode, events, history>>

(* The account is not made, or is left without a plan: an approval puts    *)
(* its request back, a sign-up ends.                                       *)
CreateFails(w) ==
  /\ \/ worker[w].at = "create" /\ Happens("create")
     \/ worker[w].at = "plan" /\ Happens("plan")
     \/ /\ worker[w].at = "create" /\ Unused \notin {users[u] : u \in Accounts}
        /\ UNCHANGED events
  /\ IF worker[w].way = "approve" THEN Step(w, "putback") ELSE Leave(w)
  /\ UNCHANGED <<users, requests, filed, trialChats, regMode, history>>

(* The applicant can reach the account: an approval is decided by it. *)
Decide(w) ==
  IF worker[w].way = "approve"
  THEN /\ decisions' = [decisions EXCEPT ![worker[w].req] = @ + 1]
       /\ waiting' = waiting \ {worker[w].who}
  ELSE UNCHANGED <<decisions, waiting>>

LinkChat(w) ==
  /\ worker[w].at = "link" /\ worker[w].who \in Chats
  /\ users' = SetUserTelegramChat(worker[w].user, worker[w].who)
  /\ Decide(w) /\ Step(w, "mark")
  /\ UNCHANGED <<requests, filed, trialChats, regMode, events, mixed>>

(* The id is unique, and the operator may have deleted the account. *)
SetUserExternalID(w) ==
  LET a == worker[w].who
      u == worker[w].user
  IN
  /\ worker[w].at = "link" /\ a \in Sites
  /\ \/ /\ AccountsOf(a) = {} /\ Live(u)
        /\ users' = [users EXCEPT ![u].site = a]
        /\ Decide(w) /\ Leave(w)
     \/ /\ AccountsOf(a) # {} \/ ~Live(u)
        /\ Step(w, "drop") /\ UNCHANGED <<users, decisions, waiting>>
  /\ UNCHANGED <<requests, filed, trialChats, regMode, events, mixed>>

(* The bot and the Mini App leave the account behind, the others delete it. *)
LinkFails(w) ==
  /\ worker[w].at = "link" /\ Happens("link")
  /\ IF worker[w].way \in {"bot", "app"}
     THEN Leave(w) /\ mixed' = mixed \union {worker[w].who}
     ELSE Step(w, "drop") /\ UNCHANGED mixed
  /\ UNCHANGED <<users, requests, filed, trialChats, regMode, decisions, waiting>>

DropUser(w) ==
  /\ worker[w].at = "drop"
  /\ users' = [DeletedUser(worker[w].user) EXCEPT ![worker[w].user].plan = "none"]
  /\ IF worker[w].way = "approve" THEN Step(w, "putback") ELSE Leave(w)
  /\ UNCHANGED <<requests, filed, trialChats, regMode, events, history>>

(* A plausible slip: only sign-ups record the trial. *)
MarkSignUp(w) == IF worker[w].way = "approve" THEN trialChats ELSE trialChats \union {worker[w].who}
Marked(w) == trialChats \union {worker[w].who}

MarkChatTrial(w) ==
  /\ worker[w].at = "mark" /\ Leave(w)
  /\ \/ trialChats' = Marked(w) /\ UNCHANGED <<events, mixed>>
     \/ /\ Happens("mark") /\ mixed' = mixed \union {worker[w].who}
        /\ UNCHANGED trialChats
  /\ UNCHANGED <<users, requests, filed, regMode, decisions, waiting>>

----------------------------------------------------------------------------
(* The operators' decisions. *)
Approve(w, r) ==
  /\ "approve" \in MayHappen /\ worker[w] = Idle /\ requests[r] # NoOne
  /\ worker' = [worker EXCEPT ![w] = Handling("enter", "approve", requests[r], "off", r)]
  /\ UNCHANGED <<users, requests, filed, trialChats, regMode, events, history>>

(* The row is deleted; whoever finds it gone was too late. A plausible     *)
(* slip: not to look whether it was there.                                 *)
ClaimedAnyway(r) == TRUE
Claimed(r) == requests[r] # NoOne

Claim(w) ==
  LET r == worker[w].req IN
  /\ Enters(w) /\ worker[w].way = "approve"
  /\ IF Claimed(r)
     THEN requests' = [requests EXCEPT ![r] = NoOne] /\ Step(w, "known")
     ELSE UNCHANGED requests /\ Leave(w)
  /\ UNCHANGED <<users, filed, trialChats, regMode, events, history>>

(* Someone who got an account meanwhile is told so. *)
ApproveRegistrationRequest(w) ==
  /\ worker[w].at = "known"
  /\ IF AccountsOf(worker[w].who) # {}
     THEN Decide(w) /\ Leave(w) /\ UNCHANGED mixed
     ELSE /\ worker' = [worker EXCEPT ![w].at = "create", ![w].trial = ~HadTrial(worker[w].who)]
          /\ mixed' = mixed \union Mixes(w)
          /\ UNCHANGED <<decisions, waiting>>
  /\ UNCHANGED <<users, requests, filed, trialChats, regMode, events>>

PutBack(w) ==
  /\ worker[w].at = "putback"
  /\ requests' = RestoreRegistrationRequest(worker[w].req, worker[w].who)
  /\ Leave(w)
  /\ UNCHANGED <<users, filed, trialChats, regMode, events, history>>

RejectRegistrationRequest(r) ==
  /\ "approve" \in MayHappen /\ requests[r] # NoOne
  /\ requests' = [requests EXCEPT ![r] = NoOne]
  /\ decisions' = [decisions EXCEPT ![r] = @ + 1]
  /\ waiting' = waiting \ {requests[r]}
  /\ UNCHANGED <<users, filed, trialChats, regMode, worker, events, mixed>>

----------------------------------------------------------------------------
(* What else happens to accounts, and to the panel. *)
SetMode(m) ==
  /\ Happens("mode") /\ m # regMode /\ regMode' = m
  /\ UNCHANGED <<users, requests, filed, trialChats, worker, history>>

DeleteUser(u) ==
  /\ Happens("delete") /\ Live(u)
  /\ users' = DeletedUser(u)
  /\ UNCHANGED <<requests, filed, trialChats, regMode, worker, history>>

(* The chat is remembered, to have this account back. *)
UnlinkUserTelegram(u) ==
  /\ Happens("unlink") /\ Live(u) /\ users[u].chat # NoOne
  /\ users' = [users EXCEPT ![u].prev = users[u].chat, ![u].chat = NoOne]
  /\ UNCHANGED <<requests, filed, trialChats, regMode, worker, history>>

(* By a link code in the bot or over the API, from another chat too. *)
LinkByCode(u, c) ==
  /\ Happens("relink") /\ Live(u) /\ users[u].chat # c
  /\ users' = SetUserTelegramChat(u, c)
  /\ mixed' = IF \E w \in Workers : Registers(w, c) THEN mixed \union {c} ELSE mixed
  /\ UNCHANGED <<requests, filed, trialChats, regMode, worker, decisions, waiting>>

(* A website ties an account of its client's to their id, without the lock. *)
TieToSite(u, a) ==
  /\ Happens("tie") /\ Live(u) /\ AccountsOf(a) = {}
  /\ users' = [users EXCEPT ![u].site = a]
  /\ UNCHANGED <<requests, filed, trialChats, regMode, worker, history>>

(* A claimed request is lost, an account may be left without its chat. *)
Crash ==
  LET cut == {worker[w].who : w \in {v \in Workers : worker[v].at \in {"link", "mark", "drop"}}}
      claimed == {worker[w].who : w \in {v \in Workers : worker[v].way = "approve" /\ Inside(v)}}
  IN
  /\ Happens("crash")
  /\ worker' = [w \in Workers |-> Idle]
  /\ mixed' = mixed \union (cut \cap Chats)
  /\ waiting' = {a \in waiting : a \in claimed => Pending(a)}
  /\ UNCHANGED <<users, requests, filed, trialChats, regMode, decisions>>

----------------------------------------------------------------------------
SignUp(w) ==
  \/ \E way \in Ways, a \in Applicants : Ask(w, way, a)
  \/ LookUp(w) \/ RestoreDetachedUser(w) \/ Refuse(w) \/ Admit(w) \/ RequestRegistration(w)

Make(w) ==
  \/ CreateUser(w) \/ ApplyUserPlan(w) \/ CreateFails(w) \/ LinkChat(w) \/ SetUserExternalID(w)
  \/ LinkFails(w) \/ DropUser(w) \/ MarkChatTrial(w)

Moderate(w) ==
  (\E r \in Requests : Approve(w, r)) \/ Claim(w) \/ ApproveRegistrationRequest(w) \/ PutBack(w)

Operate ==
  \/ \E r \in Requests : RejectRegistrationRequest(r)
  \/ \E m \in Modes : SetMode(m)
  \/ \E u \in Accounts :
       \/ DeleteUser(u) \/ UnlinkUserTelegram(u)
       \/ (\E c \in Chats : LinkByCode(u, c)) \/ (\E a \in Sites : TieToSite(u, a))
  \/ Crash

Next == (\E w \in Workers : SignUp(w) \/ Make(w) \/ Moderate(w)) \/ Operate

Spec == Init /\ [][Next]_vars

----------------------------------------------------------------------------
(* A Telegram has one trial for good, whatever becomes of the account:     *)
(* unlinked, moved, deleted, approved, asked for again. Only registrations *)
(* that no lock keeps apart, or one cut off before the trial is recorded,  *)
(* can give it two.                                                        *)
OneTrialPerChat ==
  \A u, v \in Accounts :
    /\ u # v /\ users[u].plan = "trial" /\ users[v].plan = "trial"
    /\ users[u].by = users[v].by /\ users[u].by \in Chats
    => users[u].by \in mixed

(* A registration takes a chat from no account that holds it: when it      *)
(* links, the chat is free, with the same exceptions.                      *)
NeverDisplaces ==
  \A w \in Workers :
    /\ worker[w].at \in {"restore", "link"} /\ worker[w].who \in Chats \ mixed
    => AccountsOf(worker[w].who) = {}

(* However many operators decide, fail and try again, a request is decided *)
(* once, and one that is pending has not been.                             *)
DecidedOnce ==
  \A r \in Requests : decisions[r] <= IF requests[r] = NoOne THEN 1 ELSE 0

(* Whoever waits has a request pending, or in the hands of an approval; a  *)
(* website's sign-up under way always finds it: "never neither, which      *)
(* would file a second request".                                           *)
NobodyForgotten ==
  \A a \in waiting :
    \/ Pending(a)
    \/ /\ \E w \in Workers : worker[w].way = "approve" /\ worker[w].who = a /\ Inside(w)
       /\ ~\E w \in Workers : worker[w].way = "site" /\ worker[w].who = a /\ Inside(w)
=============================================================================
