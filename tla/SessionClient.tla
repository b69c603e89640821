--------------------------- MODULE SessionClient ---------------------------
(***************************************************************************)
(* The session of the dashboard (api.js, AuthContext.jsx): pages that share   *)
(* local storage but keep their tokens in module variables of their own, the  *)
(* interceptors that put the access token on a request and answer a 401 with  *)
(* one refresh for all the requests of the page, and forced logout.  A call is *)
(* a request of apiClient from its start to its end; the callbacks one answer  *)
(* triggers run to the end before anything else happens in that page.  The    *)
(* time tracker is left out: no session of it ever ends (see logout below).   *)
(***************************************************************************)
EXTENDS TokenService, FiniteSets

CONSTANTS
    Tab,      \* browser tabs
    Call,     \* bound: requests in flight
    TabOf,    \* the tab whose requests they are
    MaxLoads, \* bound: times a tab is reloaded or opened again
    MaxLost,  \* bound: requests without an answer
    MaxExpired \* bound: access tokens that expire while they are in use

ASSUME SessionAssumption ==
    /\ TabOf \in [Call -> Tab]
    /\ MaxLoads \in Nat
    /\ MaxLost \in Nat
    /\ MaxExpired \in Nat

VARIABLES
    storage,     \* localStorage: pos_access_token and pos_refresh_token
    memory,      \* accessToken and refreshToken of each page
    refreshing,  \* isRefreshing of each page
    user,        \* a page has a user; otherwise it shows the login form
    open,        \* the tab shows a page
    calls,       \* what became of each request
    loads,       \* how often each tab was loaded
    lost,        \* requests that got no answer
    excused,     \* history: a page has a reason to lose its user
    holders      \* history: the page loads that got the tokens of each sign-in

pageVars == <<memory, refreshing, user, open>>
boundVars == <<loads, lost>>
historyVars == <<excused, holders>>
vars == <<tokenVars, storage, pageVars, calls, boundVars, historyVars>>

Pair == [access : 0..MaxPairs, refresh : 0..MaxPairs]
NoPair == [access |-> 0, refresh |-> 0]
NewTokens == [access |-> NewPair, refresh |-> NewPair]

(* sent: waits for its answer, with access token token, 0 if it had none or   *)
(* one that was no good already; queued: in failedQueue; posted, selected,    *)
(* rotated: it refreshes with refresh token token, nothing done yet, row read, *)
(* new pair token on its way back; orphan: the row is read and its page gone.  *)
Request ==
    [ kind  : {"api", "login", "logout"},
      pc    : {"free", "sent", "queued", "posted", "selected", "rotated", "orphan"},
      token : 0..MaxPairs,
      retry : BOOLEAN ]

Free == [kind |-> "api", pc |-> "free", token |-> 0, retry |-> FALSE]

Refresh == {"posted", "selected", "rotated"}

TypeOK ==
    /\ TokenTypeOK
    /\ storage \in Pair
    /\ memory \in [Tab -> Pair]
    /\ refreshing \in [Tab -> BOOLEAN]
    /\ user \in [Tab -> BOOLEAN]
    /\ open \in [Tab -> BOOLEAN]
    /\ calls \in [Call -> Request]
    /\ loads \in [Tab -> Nat]
    /\ lost \in Nat
    /\ excused \in [Tab -> BOOLEAN]
    /\ holders \in [1..MaxPairs -> SUBSET (Tab \X Nat)]

Init ==
    /\ TokenInit
    /\ storage = NoPair
    /\ memory = [t \in Tab |-> NoPair]
    /\ refreshing = [t \in Tab |-> FALSE]
    /\ user = [t \in Tab |-> FALSE]
    /\ open = [t \in Tab |-> TRUE]
    /\ calls = [c \in Call |-> Free]
    /\ loads = [t \in Tab |-> 0]
    /\ lost = 0
    /\ excused = [t \in Tab |-> FALSE]
    /\ holders = [k \in 1..MaxPairs |-> {}]

-----------------------------------------------------------------------------
(* getAccessToken, and the token a refresh is tried with.                    *)

Access(t) == IF memory[t].access # 0 THEN memory[t].access ELSE storage.access

StoredRefresh(t) == IF memory[t].refresh # 0 THEN memory[t].refresh ELSE storage.refresh

SetAuthTokens(t, pair) ==
    /\ memory' = [memory EXCEPT ![t] = pair]
    /\ storage' = pair

ClearAuthTokens(t) == SetAuthTokens(t, NoPair)

IfAccepted(token) == IF Accepted(token) THEN token ELSE 0

Sent(kind, token) == [kind |-> kind, pc |-> "sent", token |-> IfAccepted(token), retry |-> FALSE]

SentAgain(c, token) == [calls[c] EXCEPT !.pc = "sent", !.token = IfAccepted(token)]

CallsOf(t) == {c \in Call : TabOf[c] = t}

(* A logout that will end in its page: one whose page has gone does not.       *)
LoggingOut(c) == calls[c].kind = "logout" /\ calls[c].pc \notin {"free", "orphan"}

LogoutUnderWay(t) == \E c \in CallsOf(t) : LoggingOut(c)

Hold(t, k) == holders' = [holders EXCEPT ![rows[k].login] = @ \cup {<<t, loads[t]>>}]

Queue(t) == {c \in CallsOf(t) : calls[c].pc = "queued"}

-----------------------------------------------------------------------------
(* Requests: the dashboard's polls and saves, the login form, Sign Out or the *)
(* automatic logout.                                                         *)

Send(c, kind) ==
    /\ calls[c].pc = "free"
    /\ open[TabOf[c]]
    /\ calls' = [calls EXCEPT ![c] = Sent(kind, IF kind = "login" THEN 0 ELSE Access(TabOf[c]))]
    /\ UNCHANGED <<tokenVars, storage, pageVars, boundVars>>

SendApi(c) ==
    /\ user[TabOf[c]]
    /\ Send(c, "api")
    /\ UNCHANGED historyVars

(* The form's button is disabled while a sign-in is under way.  A page that      *)
(* was opened at /login shows the form although the restore effect has found  *)
(* it a user (App.jsx:123), and nothing of the dashboard beside it.           *)
HandleSubmit(c) ==
    LET t == TabOf[c]
        UnderWay == {calls[d].kind : d \in {e \in CallsOf(t) : calls[e].pc # "free"}} IN
    /\ "login" \notin UnderWay
    /\ user[t] => loads[t] > 0 /\ "api" \notin UnderWay
    /\ Send(c, "login")
    /\ UNCHANGED historyVars

Logout(c) ==
    /\ user[TabOf[c]]
    /\ Send(c, "logout")
    /\ excused' = [excused EXCEPT ![TabOf[c]] = TRUE]
    /\ UNCHANGED holders

-----------------------------------------------------------------------------
(* What the end of calls does to their page.  The finally block of logout     *)
(* tests the user of the page's first render, null, and so never calls        *)
(* endSession; its other statements clear the tokens and the user.           *)

Ending(C) == {c \in C : calls[c].kind = "logout"}

UserAfter(t, C) == [user EXCEPT ![t] = @ /\ Ending(C) = {}]

(* An answer with the body of a poll or a save.                              *)
ApiOk(c) ==
    /\ calls[c].kind = "api" /\ calls[c].pc = "sent"
    /\ calls[c].token # 0
    /\ calls' = [calls EXCEPT ![c] = Free]
    /\ UNCHANGED <<tokenVars, storage, pageVars, boundVars, historyVars>>

LogoutOk(c) ==
    LET t == TabOf[c] IN
    /\ calls[c].kind = "logout" /\ calls[c].pc = "sent"
    /\ calls[c].token # 0
    /\ calls' = [calls EXCEPT ![c] = Free]
    /\ ClearAuthTokens(t)
    /\ user' = UserAfter(t, {c})
    /\ UNCHANGED <<tokenVars, refreshing, open, boundVars, historyVars>>

(* Variant: the refresh token is not kept.                                   *)
LoginOkAccessOnly(c) ==
    LET t == TabOf[c] IN
    /\ calls[c].kind = "login" /\ calls[c].pc = "sent"
    /\ IssueForLogin
    /\ SetAuthTokens(t, [access |-> NewPair, refresh |-> 0])
    /\ user' = [user EXCEPT ![t] = TRUE]
    /\ calls' = [calls EXCEPT ![c] = Free]
    /\ excused' = [excused EXCEPT ![t] = LogoutUnderWay(t)]
    /\ holders' = [holders EXCEPT ![NewPair] = {<<t, loads[t]>>}]
    /\ UNCHANGED <<refreshing, open, boundVars>>

LoginOk(c) ==
    LET t == TabOf[c] IN
    /\ calls[c].kind = "login" /\ calls[c].pc = "sent"
    /\ IssueForLogin
    /\ SetAuthTokens(t, NewTokens)
    /\ user' = [user EXCEPT ![t] = TRUE]
    /\ calls' = [calls EXCEPT ![c] = Free]
    /\ excused' = [excused EXCEPT ![t] = LogoutUnderWay(t)]
    /\ holders' = [holders EXCEPT ![NewPair] = {<<t, loads[t]>>}]
    /\ UNCHANGED <<refreshing, open, boundVars>>

(* No response at all: the error is passed on, whatever the call was.        *)
NoAnswer(c) ==
    LET t == TabOf[c] IN
    /\ calls[c].pc = "sent"
    /\ lost < MaxLost
    /\ lost' = lost + 1
    /\ calls' = [calls EXCEPT ![c] = Free]
    /\ IF calls[c].kind = "logout" THEN ClearAuthTokens(t) ELSE UNCHANGED <<storage, memory>>
    /\ user' = UserAfter(t, {c})
    /\ UNCHANGED <<tokenVars, refreshing, open, loads, historyVars>>

-----------------------------------------------------------------------------
(* The response interceptor.  The API looks at the token at some moment between *)
(* sending and answer, so one that expires meanwhile may be taken or not.  A   *)
(* wrong password is a 401 as well.                                          *)

Unauthorized(c) ==
    /\ calls[c].pc = "sent"
    /\ calls[c].kind # "login" => ~Accepted(calls[c].token)

(* It was repeated already: the error is passed on.                          *)
GiveUp(c) ==
    LET t == TabOf[c] IN
    /\ Unauthorized(c) /\ calls[c].retry
    /\ calls' = [calls EXCEPT ![c] = Free]
    /\ IF calls[c].kind = "logout" THEN ClearAuthTokens(t) ELSE UNCHANGED <<storage, memory>>
    /\ user' = UserAfter(t, {c})
    /\ UNCHANGED <<tokenVars, refreshing, open, boundVars, historyVars>>

Wait(c) ==
    /\ Unauthorized(c) /\ ~calls[c].retry
    /\ refreshing[TabOf[c]]
    /\ calls' = [calls EXCEPT ![c].pc = "queued", ![c].token = 0]
    /\ UNCHANGED <<tokenVars, storage, pageVars, boundVars, historyVars>>

(* Without a refresh token, and when the refresh fails, the tokens go and      *)
(* pos-force-logout posts /auth/logout, without a token; the call c has ended  *)
(* and its slot is that of the new request.                                  *)
ForceLogout(t, c, C) ==
    /\ ClearAuthTokens(t)
    /\ calls' = [ d \in Call |-> IF d = c THEN Sent("logout", 0)
                                 ELSE IF d \in C THEN Free ELSE calls[d] ]
    /\ user' = UserAfter(t, C)

NoRefreshToken(c) ==
    LET t == TabOf[c] IN
    /\ Unauthorized(c) /\ ~calls[c].retry
    /\ ~refreshing[t]
    /\ StoredRefresh(t) = 0
    /\ ForceLogout(t, c, {c})
    /\ UNCHANGED <<tokenVars, refreshing, open, boundVars, historyVars>>

(* Variant: nobody looks whether a refresh is under way.                     *)
LeadAlways(c) ==
    LET t == TabOf[c] IN
    /\ Unauthorized(c) /\ ~calls[c].retry
    /\ StoredRefresh(t) # 0
    /\ refreshing' = [refreshing EXCEPT ![t] = TRUE]
    /\ calls' = [calls EXCEPT ![c].pc = "posted", ![c].token = StoredRefresh(t), ![c].retry = TRUE]
    /\ Hold(t, StoredRefresh(t))
    /\ UNCHANGED <<tokenVars, storage, memory, user, open, boundVars, excused>>

Lead(c) ==
    LET t == TabOf[c] IN
    /\ Unauthorized(c) /\ ~calls[c].retry
    /\ ~refreshing[t]
    /\ StoredRefresh(t) # 0
    /\ refreshing' = [refreshing EXCEPT ![t] = TRUE]
    /\ calls' = [calls EXCEPT ![c].pc = "posted", ![c].token = StoredRefresh(t), ![c].retry = TRUE]
    /\ Hold(t, StoredRefresh(t))
    /\ UNCHANGED <<tokenVars, storage, memory, user, open, boundVars, excused>>

-----------------------------------------------------------------------------
(* The refresh, in the API and back in the page.                             *)

SelectRow(c) ==
    /\ calls[c].pc = "posted"
    /\ RowIsGood(calls[c].token)
    /\ calls' = [calls EXCEPT ![c].pc = "selected"]
    /\ UNCHANGED <<tokenVars, storage, pageVars, boundVars, historyVars>>

RotateRow(c) ==
    /\ calls[c].pc \in {"selected", "orphan"}
    /\ Rotate(calls[c].token)
    /\ calls' = [calls EXCEPT ![c] = IF @.pc = "orphan" THEN Free
                                     ELSE [@ EXCEPT !.pc = "rotated", !.token = NewPair]]
    /\ UNCHANGED <<storage, pageVars, boundVars, historyVars>>

(* Variant: the old refresh token stays in the module variable.              *)
RefreshedKeepsOld(c) ==
    LET t == TabOf[c]  k == calls[c].token  pair == [access |-> k, refresh |-> k] IN
    /\ calls[c].pc = "rotated"
    /\ memory' = [memory EXCEPT ![t].access = k]
    /\ storage' = pair
    /\ refreshing' = [refreshing EXCEPT ![t] = FALSE]
    /\ calls' = [ d \in Call |-> IF d \in Queue(t) \cup {c}
                                 THEN SentAgain(d, k)
                                 ELSE calls[d] ]
    /\ UNCHANGED <<tokenVars, user, open, boundVars, historyVars>>

(* setAuthTokens, processQueue(null, token), and the request once more.       *)
Refreshed(c) ==
    LET t == TabOf[c]  k == calls[c].token IN
    /\ calls[c].pc = "rotated"
    /\ SetAuthTokens(t, [access |-> k, refresh |-> k])
    /\ refreshing' = [refreshing EXCEPT ![t] = FALSE]
    /\ calls' = [ d \in Call |-> IF d \in Queue(t) \cup {c}
                                 THEN SentAgain(d, k)
                                 ELSE calls[d] ]
    /\ UNCHANGED <<tokenVars, user, open, boundVars, historyVars>>

(* The row is revoked, or too old: so is every row once MaxPairs is reached.  *)
Refused(c) ==
    \/ calls[c].pc = "posted" /\ ~RowIsGood(calls[c].token)
    \/ calls[c].pc \in {"posted", "selected"} /\ Len(rows) = MaxPairs

NoReply(c) == calls[c].pc \in Refresh /\ lost < MaxLost

(* Variant: the queue is forgotten.                                          *)
RefreshFailedAlone(c) ==
    LET t == TabOf[c] IN
    /\ Refused(c) \/ NoReply(c)
    /\ ForceLogout(t, c, {c})
    /\ refreshing' = [refreshing EXCEPT ![t] = FALSE]
    /\ excused' = [excused EXCEPT ![t] = TRUE]
    /\ lost' = IF Refused(c) THEN lost ELSE lost + 1
    /\ UNCHANGED <<tokenVars, open, loads, holders>>

(* A refusal or no reply: every waiting request is rejected, and so is this   *)
(* one.  A reply that is lost after the row was read is the API failing in the *)
(* middle; one that is lost after the rotation leaves the row revoked.        *)
RefreshFailed(c) ==
    LET t == TabOf[c] IN
    /\ Refused(c) \/ NoReply(c)
    /\ ForceLogout(t, c, Queue(t) \cup {c})
    /\ refreshing' = [refreshing EXCEPT ![t] = FALSE]
    /\ excused' = [excused EXCEPT ![t] = TRUE]
    /\ lost' = IF Refused(c) THEN lost ELSE lost + 1
    /\ UNCHANGED <<tokenVars, open, loads, holders>>

-----------------------------------------------------------------------------
(* A tab is closed or reloaded, one at a time; the API finishes what it has     *)
(* begun.                                                                    *)

Close(t) ==
    /\ \A d \in Tab : open[d] /\ loads[d] < MaxLoads
    /\ open' = [open EXCEPT ![t] = FALSE]
    /\ memory' = [memory EXCEPT ![t] = NoPair]
    /\ refreshing' = [refreshing EXCEPT ![t] = FALSE]
    /\ user' = [user EXCEPT ![t] = FALSE]
    /\ calls' = [ c \in Call |-> IF TabOf[c] # t THEN calls[c]
                                 ELSE IF calls[c].pc = "selected"
                                 THEN [calls[c] EXCEPT !.pc = "orphan"]
                                 ELSE IF calls[c].pc = "orphan" THEN calls[c] ELSE Free ]
    /\ UNCHANGED <<tokenVars, storage, boundVars, historyVars>>

(* The restore effect: tokens in storage whose access token is still good     *)
(* sign the page in, others are removed.                                     *)
Restored == Accepted(storage.access)

(* Variant: the restore effect does not pass the refresh token on.            *)
OpenAccessOnly(t) ==
    /\ ~open[t]
    /\ loads' = [loads EXCEPT ![t] = @ + 1]
    /\ open' = [open EXCEPT ![t] = TRUE]
    /\ user' = [user EXCEPT ![t] = Restored]
    /\ SetAuthTokens(t, IF Restored THEN [access |-> storage.access] ELSE NoPair)
    /\ excused' = [excused EXCEPT ![t] = FALSE]
    /\ UNCHANGED <<tokenVars, refreshing, calls, lost, holders>>

Open(t) ==
    /\ ~open[t]
    /\ loads' = [loads EXCEPT ![t] = @ + 1]
    /\ open' = [open EXCEPT ![t] = TRUE]
    /\ user' = [user EXCEPT ![t] = Restored]
    /\ SetAuthTokens(t, IF Restored THEN storage ELSE NoPair)
    /\ excused' = [excused EXCEPT ![t] = FALSE]
    /\ holders' = [k \in 1..MaxPairs |->
                      IF Restored /\ k = rows[storage.access].login
                      THEN holders[k] \cup {<<t, loads[t] + 1>>} ELSE holders[k]]
    /\ UNCHANGED <<tokenVars, refreshing, calls, lost>>

-----------------------------------------------------------------------------
(* The access tokens whose age still matters.                                *)
InUse == DOMAIN rows \cap
         ({storage.access} \cup {memory[t].access : t \in Tab} \cup {calls[c].token : c \in Call})

TokenExpires(k) ==
    /\ Cardinality(expired) < MaxExpired
    /\ AccessExpires(k)
    /\ UNCHANGED <<storage, pageVars, calls, boundVars, historyVars>>

Answer(c) ==
    \/ ApiOk(c) \/ LogoutOk(c) \/ LoginOk(c)
    \/ GiveUp(c) \/ Wait(c) \/ NoRefreshToken(c) \/ Lead(c)
    \/ Refreshed(c) \/ RefreshFailed(c)

Next ==
    \/ \E c \in Call : \/ SendApi(c) \/ HandleSubmit(c) \/ Logout(c)
                       \/ Answer(c) \/ NoAnswer(c)
                       \/ SelectRow(c) \/ RotateRow(c)
    \/ \E t \in Tab : Close(t) \/ Open(t)
    \/ \E k \in InUse \ expired : TokenExpires(k)

Spec == Init /\ [][Next]_vars

-----------------------------------------------------------------------------
(* Properties                                                                *)

Leaders(t) == {c \in CallsOf(t) : calls[c].pc \in Refresh}

(* A request waits in a page's queue only while exactly one other request of   *)
(* that page refreshes for it: whichever way the refresh ends, closes or is    *)
(* overtaken by a logout or a sign-in, nobody is left behind.                 *)
WaitersHaveALeader ==
    \A t \in Tab :
        /\ refreshing[t] => Cardinality(Leaders(t)) = 1
        /\ ~refreshing[t] => Leaders(t) = {} /\ Queue(t) = {}

Live(login) == {k \in DOMAIN rows : rows[k].login = login /\ ~rows[k].revoked}

(* POST /auth/refresh reads and revokes in two steps without a lock; what      *)
(* keeps a sign-in from ending up with two good refresh tokens is that a page  *)
(* never refreshes twice at a time.  Two of them exist only where two page     *)
(* loads got tokens of the same sign-in.                                     *)
ForksNeedTwoPages ==
    \A login \in DOMAIN rows :
        Cardinality(Live(login)) > 1 => Cardinality(holders[login]) > 1

(* A page is not left with a refresh token that is worth nothing: the one it   *)
(* would use next is good, unless it is being exchanged or another page load   *)
(* has got tokens of the same sign-in.                                       *)
OwnTokenIsGood ==
    \A t \in Tab :
        memory[t].refresh # 0 /\ ~refreshing[t] =>
            \/ RowIsGood(memory[t].refresh)
            \/ Cardinality(holders[rows[memory[t].refresh].login]) > 1

(* A page keeps its user until he or the timer asks for the logout, a refresh  *)
(* fails, or the page is closed (docs/diagrams/sequence-login.puml: "Store     *)
(* tokens, set user in AuthContext").  The exception it takes is a logout that *)
(* was under way when the sign-in was answered: it takes the new session with  *)
(* it when it ends.                                                          *)
SignInLasts == [][ \A t \in Tab : user[t] /\ open'[t] /\ ~user'[t] => excused[t] \/ excused'[t] ]_vars
=============================================================================
