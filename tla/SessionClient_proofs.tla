------------------------ MODULE SessionClient_proofs ------------------------
(***************************************************************************)
(* Why nobody waits for a refresh that is not under way, why a page keeps its *)
(* user, and why it has a good refresh token, for any number of tabs,         *)
(* requests, reloads, expired tokens and lost answers.                        *)
(***************************************************************************)
EXTENDS SessionClient, SequenceTheorems, FiniteSetTheorems, TLAPS

OneLeader ==
    \A t \in Tab :
        /\ refreshing[t] => \E c \in CallsOf(t) : Leaders(t) = {c}
        /\ ~refreshing[t] => Leaders(t) = {} /\ Queue(t) = {}

(* Tokens come in pairs, and a refresh that has read its row has one.         *)
Paired ==
    /\ storage.access = storage.refresh
    /\ \A t \in Tab : memory[t].access = memory[t].refresh
    /\ \A c \in Call :
          calls[c].pc \in {"selected", "rotated", "orphan"} => calls[c].token \in DOMAIN rows

(* A page with a user has a refresh token, or has asked for its logout.       *)
Excusable ==
    /\ \A t \in Tab : user[t] => memory[t].refresh # 0 \/ excused[t]
    /\ \A c \in Call : LoggingOut(c) /\ user[TabOf[c]] => excused[TabOf[c]]

(* A closed tab has no user, and no request that would come back to it.       *)
Shut ==
    /\ \A t \in Tab : user[t] => open[t]
    /\ \A c \in Call : calls[c].pc \notin {"free", "orphan"} => open[TabOf[c]]

IInv == TypeOK /\ OneLeader /\ Paired /\ Excusable /\ Shut

-----------------------------------------------------------------------------
LEMMA Constants ==
    /\ MaxPairs \in Nat
    /\ TabOf \in [Call -> Tab]
    /\ \A t \in Tab : CallsOf(t) \subseteq Call
    /\ \A c \in Call : c \in CallsOf(TabOf[c])
BY TokenServiceAssumption, SessionAssumption DEF CallsOf

LEMMA AcceptedType ==
    ASSUME TokenTypeOK, NEW token
    PROVE  /\ IfAccepted(token) \in 0..MaxPairs
           /\ Accepted(token) => token \in 1..MaxPairs /\ token # 0 /\ rows # <<>>
<1>1. rows \in Seq(Row) /\ Len(rows) \in Nat /\ Len(rows) <= MaxPairs /\ DOMAIN rows = 1..Len(rows)
  BY DEF TokenTypeOK
<1>2. Accepted(token) => token \in 1..Len(rows)
  BY <1>1 DEF Accepted
<1>3. QED BY <1>1, <1>2, Constants DEF IfAccepted

LEMMA InitOK == Init => IInv
<1> SUFFICES ASSUME Init PROVE IInv
  OBVIOUS
<1>1. rows = <<>> /\ expired = {}
  BY DEF Init, TokenInit
<1>2. TypeOK
  <2>1. TokenTypeOK
    BY <1>1, Constants DEF TokenTypeOK
  <2>2. NoPair \in Pair /\ Free \in Request
    BY Constants DEF NoPair, Pair, Free, Request
  <2>3. QED BY <2>1, <2>2 DEF Init, TypeOK
<1>3. OneLeader
  BY Constants DEF Init, OneLeader, Leaders, Queue, Free, Refresh
<1>4. Paired /\ Excusable /\ Shut
  BY <1>1, Constants DEF Init, Paired, Excusable, Shut, LoggingOut, Free,
     NoPair
<1>5. QED BY <1>2, <1>3, <1>4 DEF IInv

(* A step that begins or ends no refresh, and lets wait only for one.         *)
LEMMA SameLeaders ==
    ASSUME OneLeader, UNCHANGED refreshing,
           \A c \in Call :
              /\ calls'[c].pc \in Refresh <=> calls[c].pc \in Refresh
              /\ calls'[c].pc = "queued" => calls[c].pc = "queued" \/ refreshing[TabOf[c]]
    PROVE  OneLeader'
<1> SUFFICES ASSUME NEW t \in Tab
             PROVE  /\ refreshing[t] => \E c \in CallsOf(t) : Leaders(t)' = {c}
                    /\ ~refreshing[t] => Leaders(t)' = {} /\ Queue(t)' = {}
  BY DEF OneLeader, CallsOf
<1>1. Leaders(t)' = Leaders(t)
  BY Constants DEF Leaders, CallsOf
<1>2. ~refreshing[t] => Queue(t)' \subseteq Queue(t)
  BY Constants DEF Queue, CallsOf
<1>3. QED BY <1>1, <1>2 DEF OneLeader

LEMMA Requests ==
    ASSUME TypeOK
    PROVE  /\ Free \in Request /\ NoPair \in Pair
           /\ \A kind \in {"api", "login", "logout"} : \A token :
                 /\ Sent(kind, token) \in Request
                 /\ Sent(kind, token).kind = kind /\ Sent(kind, token).pc = "sent"
           /\ \A c \in Call : \A token :
                 /\ SentAgain(c, token) \in Request
                 /\ SentAgain(c, token).kind = calls[c].kind /\ SentAgain(c, token).pc = "sent"
<1>1. \A token : IfAccepted(token) \in 0..MaxPairs
  BY AcceptedType DEF TypeOK
<1>2. Free \in Request /\ NoPair \in Pair
  BY Constants DEF Free, Request, NoPair, Pair
<1>3. ASSUME NEW kind \in {"api", "login", "logout"}, NEW token
      PROVE  /\ Sent(kind, token) \in Request
             /\ Sent(kind, token).kind = kind /\ Sent(kind, token).pc = "sent"
  BY <1>1 DEF Sent, Request
<1>4. ASSUME NEW c \in Call, NEW token
      PROVE  /\ SentAgain(c, token) \in Request
             /\ SentAgain(c, token).kind = calls[c].kind /\ SentAgain(c, token).pc = "sent"
  <2>1. calls[c] \in Request
    BY DEF TypeOK
  <2>2. QED BY <1>1, <2>1 DEF SentAgain, Request
<1>5. QED BY <1>2, <1>3, <1>4

LEMMA Retouched ==
    ASSUME NEW x \in Request, NEW k \in 0..MaxPairs
    PROVE  /\ [x EXCEPT !.pc = "queued", !.token = k] \in Request
           /\ [x EXCEPT !.pc = "posted", !.token = k, !.retry = TRUE] \in Request
           /\ [x EXCEPT !.pc = "rotated", !.token = k] \in Request
           /\ [x EXCEPT !.pc = "selected"] \in Request
           /\ [x EXCEPT !.pc = "orphan"] \in Request
BY DEF Request

(* What becomes of the user when calls end.                                   *)
LEMMA UserStays ==
    ASSUME TypeOK, NEW t \in Tab, NEW C
    PROVE  /\ UserAfter(t, C) \in [Tab -> BOOLEAN]
           /\ Ending(C) = {} => UserAfter(t, C) = user
           /\ Ending(C) # {} => UserAfter(t, C) = [user EXCEPT ![t] = FALSE]
           /\ \A s \in Tab : UserAfter(t, C)[s] => user[s]
<1>1. user \in [Tab -> BOOLEAN]
  BY DEF TypeOK
<1>2. Ending(C) = {} => UserAfter(t, C) = user
  BY <1>1, Zenon DEF UserAfter
<1>3. Ending(C) # {} => UserAfter(t, C) = [user EXCEPT ![t] = FALSE]
  BY <1>1, Zenon DEF UserAfter
<1>4. QED BY <1>1, <1>2, <1>3

(* A call that refreshes neither before nor after, and may take the user along. *)
LEMMA SimpleStep ==
    ASSUME IInv, NEW c \in Call, NEW r \in Request,
           calls[c].pc \in {"free", "sent"}, r.pc \in {"free", "sent", "queued"},
           r.pc = "queued" => refreshing[TabOf[c]],
           r.pc # "free" => open[TabOf[c]],
           calls' = [calls EXCEPT ![c] = r],
           UNCHANGED <<tokenVars, refreshing, open, loads, holders>>,
           lost' \in Nat,
           \/ UNCHANGED <<storage, memory, user>>
           \/ ClearAuthTokens(TabOf[c]) /\ user' = [user EXCEPT ![TabOf[c]] = FALSE],
           excused' \in [Tab -> BOOLEAN],
           \A t \in Tab : excused[t] => excused'[t],
           r.pc # "free" /\ r.kind = "logout" /\ user'[TabOf[c]] => excused'[TabOf[c]]
    PROVE  IInv'
<1>1. TabOf[c] \in Tab
  BY Constants
<1>2. calls \in [Call -> Request] /\ calls'[c] = r /\ \A d \in Call : d # c => calls'[d] = calls[d]
  BY DEF IInv, TypeOK
<1>3. /\ storage' \in Pair /\ storage'.access = storage'.refresh
      /\ memory' \in [Tab -> Pair] /\ \A t \in Tab : memory'[t].access = memory'[t].refresh
  <2>1. NoPair \in Pair /\ NoPair.access = NoPair.refresh
    BY Requests DEF IInv, NoPair
  <2>2. storage \in Pair /\ memory \in [Tab -> Pair]
    BY DEF IInv, TypeOK
  <2>3. QED BY <1>1, <2>1, <2>2 DEF IInv, Paired, ClearAuthTokens, SetAuthTokens
<1>4. user' \in [Tab -> BOOLEAN] /\ \A t \in Tab : user'[t] => user[t] /\ memory'[t] = memory[t]
  BY <1>1 DEF IInv, TypeOK, ClearAuthTokens, SetAuthTokens
<1>5. TypeOK'
  BY <1>2, <1>3, <1>4 DEF IInv, TypeOK, TokenTypeOK, tokenVars
<1>6. OneLeader'
  <2>1. \A d \in Call :
           /\ calls'[d].pc \in Refresh <=> calls[d].pc \in Refresh
           /\ calls'[d].pc = "queued" => calls[d].pc = "queued" \/ refreshing[TabOf[d]]
    BY <1>2 DEF Refresh
  <2>2. QED BY <2>1, SameLeaders DEF IInv
<1>7. Paired'
  BY <1>2, <1>3 DEF IInv, Paired, tokenVars
<1>8. Excusable'
  BY <1>2, <1>4, Constants DEF IInv, Excusable, LoggingOut
<1>9. Shut'
  BY <1>2, <1>4 DEF IInv, Shut
<1>10. QED BY <1>5, <1>6, <1>7, <1>8, <1>9 DEF IInv

-----------------------------------------------------------------------------
LEMMA SendOK ==
    ASSUME IInv, NEW c \in Call, NEW kind \in {"api", "login", "logout"}, Send(c, kind),
           UNCHANGED holders, excused' \in [Tab -> BOOLEAN],
           \A t \in Tab : excused[t] => excused'[t],
           kind = "logout" /\ user[TabOf[c]] => excused'[TabOf[c]]
    PROVE  IInv'
<1> DEFINE r == Sent(kind, IF kind = "login" THEN 0 ELSE Access(TabOf[c]))
<1>1. r \in Request /\ r.kind = kind /\ r.pc = "sent"
  BY Requests DEF IInv
<1> HIDE DEF r
<1>2. /\ calls[c].pc = "free" /\ open[TabOf[c]] /\ calls' = [calls EXCEPT ![c] = r]
      /\ UNCHANGED <<tokenVars, storage, memory, refreshing, user, open, loads, lost>>
  BY DEF Send, r, pageVars, boundVars
<1>3. lost' \in Nat
  BY <1>2 DEF IInv, TypeOK
<1>4. QED BY <1>1, <1>2, <1>3, SimpleStep

LEMMA RequestsOK ==
    ASSUME IInv, NEW c \in Call, SendApi(c) \/ HandleSubmit(c) \/ Logout(c)
    PROVE  IInv'
<1>1. TabOf[c] \in Tab /\ excused \in [Tab -> BOOLEAN]
  BY Constants DEF IInv, TypeOK
<1>2. CASE SendApi(c)
  <2>1. Send(c, "api") /\ UNCHANGED <<excused, holders>>
    BY <1>2 DEF SendApi, historyVars
  <2>2. QED BY <1>1, <2>1, SendOK
<1>3. CASE HandleSubmit(c)
  <2>1. Send(c, "login") /\ UNCHANGED <<excused, holders>>
    BY <1>3 DEF HandleSubmit, historyVars
  <2>2. QED BY <1>1, <2>1, SendOK
<1>4. CASE Logout(c)
  <2>1. Send(c, "logout") /\ UNCHANGED holders /\ excused' = [excused EXCEPT ![TabOf[c]] = TRUE]
    BY <1>4 DEF Logout
  <2>2. excused' \in [Tab -> BOOLEAN] /\ excused'[TabOf[c]] /\ \A t \in Tab : excused[t] => excused'[t]
    BY <1>1, <2>1
  <2>3. QED BY <2>1, <2>2, SendOK
<1>5. QED BY <1>2, <1>3, <1>4

(* A call that has had its answer, and the logouts among them.                *)
LEMMA EndOK ==
    ASSUME IInv, NEW c \in Call, calls[c].pc = "sent", calls' = [calls EXCEPT ![c] = Free],
           UNCHANGED <<tokenVars, refreshing, open, loads, excused, holders>>,
           lost' \in Nat,
           \/ calls[c].kind # "logout" /\ UNCHANGED <<storage, memory, user>>
           \/ /\ calls[c].kind = "logout"
              /\ ClearAuthTokens(TabOf[c])
              /\ user' = [user EXCEPT ![TabOf[c]] = FALSE]
    PROVE  IInv'
<1>1. Free \in Request /\ Free.pc = "free"
  BY Requests DEF IInv, Free
<1>2. excused' \in [Tab -> BOOLEAN] /\ \A t \in Tab : excused[t] => excused'[t]
  BY DEF IInv, TypeOK
<1>3. QED BY <1>1, <1>2, SimpleStep

LEMMA EndedUser ==
    ASSUME IInv, NEW c \in Call
    PROVE  /\ calls[c].kind # "logout" => UserAfter(TabOf[c], {c}) = user
           /\ calls[c].kind = "logout" =>
                UserAfter(TabOf[c], {c}) = [user EXCEPT ![TabOf[c]] = FALSE]
<1>1. TabOf[c] \in Tab /\ (Ending({c}) = {} <=> calls[c].kind # "logout")
  BY Constants DEF Ending
<1>2. QED BY <1>1, UserStays DEF IInv

LEMMA AnswersOK ==
    ASSUME IInv, NEW c \in Call, ApiOk(c) \/ LogoutOk(c) \/ NoAnswer(c) \/ GiveUp(c)
    PROVE  IInv'
<1>1. lost \in Nat
  BY DEF IInv, TypeOK
<1>2. CASE ApiOk(c)
  <2>1. /\ calls[c].kind # "logout" /\ calls[c].pc = "sent" /\ calls' = [calls EXCEPT ![c] = Free]
        /\ UNCHANGED <<tokenVars, storage, memory, refreshing, user, open, loads, lost, excused,
                       holders>>
    BY <1>2 DEF ApiOk, pageVars, boundVars, historyVars
  <2>2. QED BY <1>1, <2>1, EndOK
<1>3. CASE LogoutOk(c)
  <2>1. /\ calls[c].kind = "logout" /\ calls[c].pc = "sent" /\ calls' = [calls EXCEPT ![c] = Free]
        /\ ClearAuthTokens(TabOf[c]) /\ user' = UserAfter(TabOf[c], {c})
        /\ UNCHANGED <<tokenVars, refreshing, open, loads, lost, excused, holders>>
    BY <1>3 DEF LogoutOk, boundVars, historyVars
  <2>2. user' = [user EXCEPT ![TabOf[c]] = FALSE]
    BY <2>1, EndedUser
  <2>3. QED BY <1>1, <2>1, <2>2, EndOK
<1>4. ASSUME NoAnswer(c) \/ GiveUp(c)
      PROVE  IInv'
  <2>1. /\ calls[c].pc = "sent" /\ calls' = [calls EXCEPT ![c] = Free]
        /\ lost' \in {lost, lost + 1}
        /\ UNCHANGED <<tokenVars, refreshing, open, loads, excused, holders>>
    BY <1>4 DEF NoAnswer, GiveUp, Unauthorized, boundVars, historyVars
  <2>2. /\ calls[c].kind = "logout" => ClearAuthTokens(TabOf[c])
        /\ calls[c].kind # "logout" => UNCHANGED <<storage, memory>>
        /\ user' = UserAfter(TabOf[c], {c})
    BY <1>4 DEF NoAnswer, GiveUp
  <2>3. lost' \in Nat
    BY <1>1, <2>1
  <2>4. CASE calls[c].kind = "logout"
    BY <2>1, <2>2, <2>3, <2>4, EndedUser, EndOK
  <2>5. CASE calls[c].kind # "logout"
    BY <2>1, <2>2, <2>3, <2>5, EndedUser, EndOK
  <2>6. QED BY <2>4, <2>5
<1>5. QED BY <1>2, <1>3, <1>4

LEMMA WaitOK ==
    ASSUME IInv, NEW c \in Call, Wait(c)
    PROVE  IInv'
<1> DEFINE r == [calls[c] EXCEPT !.pc = "queued", !.token = 0]
<1>1. calls[c] \in Request /\ calls \in [Call -> Request] /\ calls[c].pc = "sent"
  BY DEF IInv, TypeOK, Wait, Unauthorized
<1>2. r \in Request /\ r.pc = "queued" /\ r.kind = calls[c].kind
  <2>1. 0 \in 0..MaxPairs
    BY Constants
  <2>2. r \in Request
    BY <1>1, <2>1, Retouched
  <2>3. QED BY <1>1, <2>2 DEF Request
<1>3. calls' = [calls EXCEPT ![c] = r]
  BY <1>1 DEF Wait
<1> HIDE DEF r
<1>4. /\ refreshing[TabOf[c]] /\ open[TabOf[c]]
      /\ UNCHANGED <<tokenVars, storage, memory, refreshing, user, open, loads, lost, excused,
                     holders>>
  BY <1>1 DEF Wait, IInv, Shut, pageVars, boundVars, historyVars
<1>5. lost \in Nat /\ excused \in [Tab -> BOOLEAN]
  BY DEF IInv, TypeOK
<1>6. calls[c].kind = "logout" /\ user[TabOf[c]] => excused[TabOf[c]]
  BY <1>1 DEF IInv, Excusable, LoggingOut
<1>7. QED BY <1>1, <1>2, <1>3, <1>4, <1>5, <1>6, SimpleStep

-----------------------------------------------------------------------------
(* A step of one page: nothing changes for who waits in another.              *)
LEMMA OtherLeaders ==
    ASSUME OneLeader, NEW t \in Tab,
           \A d \in Call : TabOf[d] # t => calls'[d] = calls[d],
           \A s \in Tab : s # t => refreshing'[s] = refreshing[s],
           /\ refreshing'[t] => \E c \in CallsOf(t) : Leaders(t)' = {c}
           /\ ~refreshing'[t] => Leaders(t)' = {} /\ Queue(t)' = {}
    PROVE  OneLeader'
<1>1. ASSUME NEW s \in Tab, s # t
      PROVE  /\ refreshing'[s] => \E c \in CallsOf(s) : Leaders(s)' = {c}
             /\ ~refreshing'[s] => Leaders(s)' = {} /\ Queue(s)' = {}
  <2>1. Leaders(s)' = Leaders(s) /\ Queue(s)' = Queue(s)
    BY <1>1 DEF Leaders, Queue, CallsOf
  <2>2. QED BY <1>1, <2>1 DEF OneLeader
<1>2. QED BY <1>1 DEF OneLeader, CallsOf

(* The call that refreshes, and that its page does.                           *)
LEMMA TheLeader ==
    ASSUME OneLeader, NEW c \in Call, calls[c].pc \in Refresh
    PROVE  refreshing[TabOf[c]] /\ Leaders(TabOf[c]) = {c}
<1>1. TabOf[c] \in Tab /\ c \in Leaders(TabOf[c])
  BY Constants DEF Leaders
<1>2. QED BY <1>1 DEF OneLeader

LEMMA Forced ==
    ASSUME IInv, NEW t \in Tab, NEW c \in Call, NEW C \in SUBSET CallsOf(t), c \in C,
           ForceLogout(t, c, C)
    PROVE  /\ calls' \in [Call -> Request]
           /\ calls'[c].pc = "sent"
           /\ \A d \in C : d # c => calls'[d].pc = "free"
           /\ \A d \in Call : d \notin C => calls'[d] = calls[d]
           /\ storage' \in Pair /\ storage'.access = storage'.refresh
           /\ memory' \in [Tab -> Pair] /\ \A s \in Tab : memory'[s].access = memory'[s].refresh
           /\ \A s \in Tab : s # t => memory'[s] = memory[s]
           /\ user' \in [Tab -> BOOLEAN] /\ \A s \in Tab : user'[s] => user[s]
<1>1. C \subseteq Call
  BY Constants
<1>2. Sent("logout", 0) \in Request /\ Sent("logout", 0).pc = "sent"
  BY Requests DEF IInv
<1>3. Free \in Request /\ Free.pc = "free" /\ NoPair \in Pair /\ NoPair.access = NoPair.refresh
  BY Requests DEF IInv, Free, NoPair
<1>4. calls' = [ d \in Call |-> IF d = c THEN Sent("logout", 0)
                                ELSE IF d \in C THEN Free ELSE calls[d] ]
  BY DEF ForceLogout
<1>5. calls' \in [Call -> Request]
  BY <1>2, <1>3, <1>4 DEF IInv, TypeOK
<1>6. /\ calls'[c].pc = "sent"
      /\ \A d \in C : d # c => calls'[d].pc = "free"
      /\ \A d \in Call : d \notin C => calls'[d] = calls[d]
  BY <1>1, <1>2, <1>3, <1>4
<1>7. storage' = NoPair /\ memory' = [memory EXCEPT ![t] = NoPair]
  BY DEF ForceLogout, ClearAuthTokens, SetAuthTokens
<1>8. memory \in [Tab -> Pair] /\ \A s \in Tab : memory[s].access = memory[s].refresh
  BY DEF IInv, TypeOK, Paired
<1>9. /\ storage' \in Pair /\ storage'.access = storage'.refresh
      /\ memory' \in [Tab -> Pair] /\ \A s \in Tab : memory'[s].access = memory'[s].refresh
      /\ \A s \in Tab : s # t => memory'[s] = memory[s]
  BY <1>3, <1>7, <1>8
<1>10. user' \in [Tab -> BOOLEAN] /\ \A s \in Tab : user'[s] => user[s]
  BY UserStays DEF IInv, ForceLogout
<1>11. QED BY <1>5, <1>6, <1>9, <1>10

(* All but the queue, which the two steps that force a logout leave otherwise. *)
LEMMA ForcedOK ==
    ASSUME IInv, NEW t \in Tab, NEW c \in Call, NEW C \in SUBSET CallsOf(t), c \in C,
           ForceLogout(t, c, C), calls[c].pc \notin {"free", "orphan"},
           UNCHANGED <<tokenVars, open, loads, holders>>,
           lost' \in Nat, refreshing' \in [Tab -> BOOLEAN],
           excused' \in [Tab -> BOOLEAN], \A s \in Tab : excused[s] => excused'[s],
           user'[t] => excused'[t],
           OneLeader'
    PROVE  IInv'
<1>1. TypeOK'
  BY Forced DEF IInv, TypeOK, TokenTypeOK, tokenVars
<1>2. C \subseteq Call /\ TabOf[c] = t
  BY Constants DEF CallsOf
<1>3. Paired'
  <2>1. \A d \in Call : calls'[d].pc \in {"selected", "rotated", "orphan"} => calls'[d] = calls[d]
    BY <1>2, Forced
  <2>2. QED BY <2>1, Forced DEF IInv, Paired, tokenVars
<1>4. Excusable'
  <2>1. \A s \in Tab : user'[s] => memory'[s].refresh # 0 \/ excused'[s]
    BY Forced DEF IInv, Excusable
  <2>2. ASSUME NEW d \in Call, LoggingOut(d)', user'[TabOf[d]]
        PROVE  excused'[TabOf[d]]
    <3>1. CASE TabOf[d] = t
      BY <2>2, <3>1
    <3>2. CASE TabOf[d] # t
      <4>1. TabOf[d] \in Tab /\ calls'[d] = calls[d] /\ user[TabOf[d]]
        BY <2>2, <3>2, Forced, Constants DEF CallsOf
      <4>2. LoggingOut(d)
        BY <2>2, <4>1 DEF LoggingOut
      <4>3. QED BY <4>1, <4>2 DEF IInv, Excusable
    <3>3. QED BY <3>1, <3>2
  <2>3. QED BY <2>1, <2>2 DEF Excusable
<1>5. Shut'
  <2>1. \A d \in Call : calls'[d].pc \notin {"free", "orphan"} => calls[d].pc \notin {"free", "orphan"}
    BY <1>2, Forced
  <2>2. QED BY <2>1, Forced DEF IInv, Shut
<1>6. QED BY <1>1, <1>3, <1>4, <1>5 DEF IInv

LEMMA NoRefreshTokenOK ==
    ASSUME IInv, NEW c \in Call, NoRefreshToken(c)
    PROVE  IInv'
<1> DEFINE t == TabOf[c]
<1>1. t \in Tab /\ {c} \in SUBSET CallsOf(t)
  BY Constants
<1>2. /\ calls[c].pc = "sent" /\ ForceLogout(t, c, {c})
      /\ StoredRefresh(t) = 0
      /\ UNCHANGED <<tokenVars, refreshing, open, loads, lost, excused, holders>>
  BY DEF NoRefreshToken, Unauthorized, boundVars, historyVars
<1>3. memory[t].refresh = 0
  BY <1>2 DEF StoredRefresh
<1>4. user'[t] => excused'[t]
  BY <1>1, <1>2, <1>3, Forced DEF IInv, Excusable
<1>5. OneLeader'
  <2>1. \A d \in Call :
           /\ calls'[d].pc \in Refresh <=> calls[d].pc \in Refresh
           /\ calls'[d].pc = "queued" => calls[d].pc = "queued" \/ refreshing[TabOf[d]]
    BY <1>1, <1>2, Forced DEF Refresh
  <2>2. QED BY <1>2, <2>1, SameLeaders DEF IInv
<1>6. lost' \in Nat /\ refreshing' \in [Tab -> BOOLEAN] /\ excused' \in [Tab -> BOOLEAN]
  BY <1>2 DEF IInv, TypeOK
<1>7. QED BY <1>1, <1>2, <1>4, <1>5, <1>6, ForcedOK

LEMMA RefreshFailedOK ==
    ASSUME IInv, NEW c \in Call, RefreshFailed(c)
    PROVE  IInv'
<1> DEFINE t == TabOf[c]
           C == Queue(t) \cup {c}
<1>1. t \in Tab /\ C \in SUBSET CallsOf(t) /\ c \in C
  BY Constants DEF Queue
<1>2. /\ calls[c].pc \in Refresh /\ ForceLogout(t, c, C)
      /\ refreshing' = [refreshing EXCEPT ![t] = FALSE]
      /\ excused' = [excused EXCEPT ![t] = TRUE]
      /\ lost' \in {lost, lost + 1}
      /\ UNCHANGED <<tokenVars, open, loads, holders>>
  BY DEF RefreshFailed, Refused, NoReply, Refresh
<1>3. /\ lost' \in Nat /\ refreshing' \in [Tab -> BOOLEAN] /\ excused' \in [Tab -> BOOLEAN]
      /\ \A s \in Tab : excused[s] => excused'[s]
      /\ excused'[t] /\ ~refreshing'[t]
      /\ \A s \in Tab : s # t => refreshing'[s] = refreshing[s]
  BY <1>1, <1>2 DEF IInv, TypeOK
<1>4. OneLeader'
  <2>1. Leaders(t) = {c}
    BY <1>2, TheLeader DEF IInv
  <2>2. /\ calls'[c].pc = "sent"
        /\ \A d \in Queue(t) : d # c => calls'[d].pc = "free"
        /\ \A d \in Call : d \notin Queue(t) /\ d # c => calls'[d] = calls[d]
    BY <1>1, <1>2, Forced
  <2>3. Leaders(t)' = {}
    BY <2>1, <2>2 DEF Leaders, Refresh, CallsOf
  <2>4. Queue(t)' = {}
    BY <2>2 DEF Queue, CallsOf
  <2>5. \A d \in Call : TabOf[d] # t => calls'[d] = calls[d]
    BY <2>2 DEF Queue, CallsOf
  <2>6. QED BY <1>1, <1>3, <2>3, <2>4, <2>5, OtherLeaders DEF IInv
<1>5. calls[c].pc \notin {"free", "orphan"}
  BY <1>2 DEF Refresh
<1>6. QED BY <1>1, <1>2, <1>3, <1>4, <1>5, ForcedOK

-----------------------------------------------------------------------------
LEMMA LeadOK ==
    ASSUME IInv, NEW c \in Call, Lead(c)
    PROVE  IInv'
<1> DEFINE t == TabOf[c]
           r == [calls[c] EXCEPT !.pc = "posted", !.token = StoredRefresh(t), !.retry = TRUE]
<1>1. /\ t \in Tab /\ calls \in [Call -> Request] /\ calls[c] \in Request
      /\ StoredRefresh(t) \in 0..MaxPairs
  <2>1. t \in Tab
    BY Constants
  <2>2. storage \in Pair /\ memory[t] \in Pair
    BY <2>1 DEF IInv, TypeOK
  <2>3. QED BY <2>1, <2>2 DEF IInv, TypeOK, StoredRefresh, Pair
<1>2. r \in Request /\ r.pc = "posted" /\ r.kind = calls[c].kind
  <2>1. r \in Request
    BY <1>1, Retouched
  <2>2. QED BY <1>1, <2>1 DEF Request
<1>3. /\ calls[c].pc = "sent" /\ ~refreshing[t]
      /\ refreshing' = [refreshing EXCEPT ![t] = TRUE]
      /\ Hold(t, StoredRefresh(t))
      /\ UNCHANGED <<tokenVars, storage, memory, user, open, loads, lost, excused>>
  BY DEF Lead, Unauthorized, boundVars
<1>4. calls' = [calls EXCEPT ![c] = r]
  BY <1>1 DEF Lead
<1> HIDE DEF r
<1>5. calls' \in [Call -> Request] /\ calls'[c] = r /\ \A d \in Call : d # c => calls'[d] = calls[d]
  BY <1>1, <1>2, <1>4
<1>6. TypeOK'
  <2>1. holders' \in [1..MaxPairs -> SUBSET (Tab \X Nat)]
    <3>1. loads[t] \in Nat /\ holders \in [1..MaxPairs -> SUBSET (Tab \X Nat)]
      BY <1>1 DEF IInv, TypeOK
    <3> DEFINE i == rows[StoredRefresh(t)].login
               S == {<<t, loads[t]>>}
    <3>2. S \subseteq Tab \X Nat /\ holders' = [holders EXCEPT ![i] = @ \cup S]
      BY <1>1, <1>3, <3>1 DEF Hold
    <3> HIDE DEF i, S
    <3>3. \A k \in 1..MaxPairs : holders'[k] = IF k = i THEN holders[k] \cup S ELSE holders[k]
      BY <3>1, <3>2
    <3>4. \A k \in 1..MaxPairs : holders[k] \subseteq Tab \X Nat
      BY <3>1
    <3>5. \A k \in 1..MaxPairs : holders'[k] \in SUBSET (Tab \X Nat)
      BY <3>2, <3>3, <3>4
    <3>6. holders' = [k \in 1..MaxPairs |-> holders'[k]]
      BY <3>1, <3>2
    <3>7. QED BY <3>5, <3>6
  <2>2. refreshing' \in [Tab -> BOOLEAN]
    BY <1>1, <1>3 DEF IInv, TypeOK
  <2>3. QED BY <1>3, <1>5, <2>1, <2>2 DEF IInv, TypeOK, TokenTypeOK, tokenVars
<1>7. OneLeader'
  <2>1. refreshing'[t] /\ \A s \in Tab : s # t => refreshing'[s] = refreshing[s]
    BY <1>1, <1>3 DEF IInv, TypeOK
  <2>2. Leaders(t) = {}
    BY <1>1, <1>3 DEF IInv, OneLeader
  <2>3. Leaders(t)' = {c}
    BY <1>2, <1>5, <2>2, Constants DEF Leaders, Refresh, CallsOf
  <2>4. c \in CallsOf(t)
    BY Constants
  <2>5. QED BY <1>1, <1>5, <2>1, <2>3, <2>4, OtherLeaders DEF IInv
<1>8. Paired'
  BY <1>2, <1>3, <1>5 DEF IInv, Paired, tokenVars
<1>9. Excusable' /\ Shut'
  BY <1>2, <1>3, <1>5 DEF IInv, Excusable, Shut, LoggingOut
<1>10. QED BY <1>6, <1>7, <1>8, <1>9 DEF IInv

LEMMA SelectRowOK ==
    ASSUME IInv, NEW c \in Call, SelectRow(c)
    PROVE  IInv'
<1> DEFINE r == [calls[c] EXCEPT !.pc = "selected"]
<1>1. calls \in [Call -> Request] /\ calls[c] \in Request
  BY DEF IInv, TypeOK
<1>2. r \in Request /\ r.pc = "selected" /\ r.kind = calls[c].kind /\ r.token = calls[c].token
  <2>1. r \in Request
    <3>1. 0 \in 0..MaxPairs
      BY Constants
    <3>2. QED BY <1>1, <3>1, Retouched
  <2>2. \A x \in Request : /\ [x EXCEPT !.pc = "selected"].pc = "selected"
                          /\ [x EXCEPT !.pc = "selected"].kind = x.kind
                          /\ [x EXCEPT !.pc = "selected"].token = x.token
    BY DEF Request
  <2>3. /\ r.pc = "selected" /\ r.kind = calls[c].kind /\ r.token = calls[c].token
    BY <1>1, <2>2, Zenon
  <2>4. QED BY <2>1, <2>3
<1>3. /\ calls[c].pc = "posted" /\ calls[c].token \in DOMAIN rows
      /\ UNCHANGED <<tokenVars, storage, memory, refreshing, user, open, loads, lost, excused,
                     holders>>
  BY DEF SelectRow, RowIsGood, pageVars, boundVars, historyVars
<1>4. calls' = [calls EXCEPT ![c] = r]
  BY <1>1 DEF SelectRow
<1> HIDE DEF r
<1>5. calls' \in [Call -> Request] /\ calls'[c] = r /\ \A d \in Call : d # c => calls'[d] = calls[d]
  BY <1>1, <1>2, <1>4
<1>6. TypeOK'
  BY <1>3, <1>5 DEF IInv, TypeOK, TokenTypeOK, tokenVars
<1>7. OneLeader'
  <2>1. \A d \in Call :
           /\ calls'[d].pc \in Refresh <=> calls[d].pc \in Refresh
           /\ calls'[d].pc = "queued" => calls[d].pc = "queued" \/ refreshing[TabOf[d]]
    BY <1>2, <1>3, <1>5 DEF Refresh
  <2>2. QED BY <1>3, <2>1, SameLeaders DEF IInv
<1>8. Paired'
  BY <1>2, <1>3, <1>5 DEF IInv, Paired, tokenVars
<1>9. Excusable' /\ Shut'
  BY <1>2, <1>3, <1>5 DEF IInv, Excusable, Shut, LoggingOut
<1>10. QED BY <1>6, <1>7, <1>8, <1>9 DEF IInv

(* A pair is added, and every row keeps its number.                           *)
LEMMA Issued ==
    ASSUME TokenTypeOK, NEW k, IssueForLogin \/ (k \in DOMAIN rows /\ Rotate(k))
    PROVE  /\ TokenTypeOK'
           /\ NewPair \in 1..MaxPairs /\ NewPair \in DOMAIN rows'
           /\ DOMAIN rows \subseteq DOMAIN rows'
           /\ UNCHANGED expired
<1>1. /\ rows \in Seq(Row) /\ Len(rows) \in Nat /\ DOMAIN rows = 1..Len(rows)
      /\ Len(rows) < MaxPairs /\ expired \subseteq DOMAIN rows
  BY DEF TokenTypeOK, IssueForLogin, Rotate
<1>2. PICK old \in Seq(Row), row \in Row : rows' = Append(old, row) /\ Len(old) = Len(rows)
  <2>1. CASE IssueForLogin
    <3>1. [login |-> NewPair, revoked |-> FALSE] \in Row
      BY <1>1 DEF Row, NewPair
    <3>2. QED BY <1>1, <2>1, <3>1 DEF IssueForLogin
  <2>2. CASE k \in DOMAIN rows /\ Rotate(k)
    <3>1. rows[k] \in Row
      BY <1>1, <2>2
    <3>2. [rows[k] EXCEPT !.revoked = TRUE] \in Row /\ [login |-> rows[k].login, revoked |-> FALSE] \in Row
      BY <3>1 DEF Row
    <3>3. rows' = Append([rows EXCEPT ![k] = [rows[k] EXCEPT !.revoked = TRUE]],
                         [login |-> rows[k].login, revoked |-> FALSE])
      BY <1>1, <2>2 DEF Rotate
    <3>4. [rows EXCEPT ![k] = [rows[k] EXCEPT !.revoked = TRUE]] \in Seq(Row)
          /\ Len([rows EXCEPT ![k] = [rows[k] EXCEPT !.revoked = TRUE]]) = Len(rows)
      BY <1>1, <2>2, <3>2, ExceptSeq
    <3>5. QED BY <3>2, <3>3, <3>4
  <2>3. QED BY <2>1, <2>2
<1>3. rows' \in Seq(Row) /\ Len(rows') = Len(rows) + 1 /\ DOMAIN rows' = 1..(Len(rows) + 1)
  BY <1>1, <1>2, AppendProperties
<1>4. UNCHANGED expired
  BY DEF IssueForLogin, Rotate
<1>5. QED BY <1>1, <1>3, <1>4, Constants DEF TokenTypeOK, NewPair

LEMMA RotateRowOK ==
    ASSUME IInv, NEW c \in Call, RotateRow(c)
    PROVE  IInv'
<1> DEFINE r == IF calls[c].pc = "orphan" THEN Free
                ELSE [calls[c] EXCEPT !.pc = "rotated", !.token = NewPair]
<1>1. calls \in [Call -> Request] /\ calls[c] \in Request /\ calls[c].pc \in {"selected", "orphan"}
  BY DEF IInv, TypeOK, RotateRow
<1>2. /\ calls[c].token \in DOMAIN rows /\ Rotate(calls[c].token)
      /\ UNCHANGED <<storage, memory, refreshing, user, open, loads, lost, excused, holders>>
  BY <1>1 DEF IInv, Paired, RotateRow, pageVars, boundVars, historyVars
<1>3. /\ TokenTypeOK' /\ NewPair \in 0..MaxPairs /\ NewPair \in DOMAIN rows'
      /\ DOMAIN rows \subseteq DOMAIN rows'
  BY <1>2, Issued DEF IInv, TypeOK
<1>4. /\ r \in Request
      /\ calls[c].pc = "orphan" => r.pc = "free"
      /\ calls[c].pc = "selected" => r.pc = "rotated" /\ r.kind = calls[c].kind /\ r.token = NewPair
  <2>1. CASE calls[c].pc = "orphan"
    BY <2>1, Requests DEF IInv, Free
  <2>2. CASE calls[c].pc = "selected"
    <3>1. r = [calls[c] EXCEPT !.pc = "rotated", !.token = NewPair] /\ r \in Request
      BY <1>1, <1>3, <2>2, Retouched
    <3>2. QED BY <1>1, <2>2, <3>1 DEF Request
  <2>3. QED BY <1>1, <2>1, <2>2
<1>5. calls' = [calls EXCEPT ![c] = r]
  BY <1>1 DEF RotateRow
<1> HIDE DEF r
<1>6. calls' \in [Call -> Request] /\ calls'[c] = r /\ \A d \in Call : d # c => calls'[d] = calls[d]
  BY <1>1, <1>4, <1>5
<1>7. TypeOK'
  BY <1>2, <1>3, <1>6 DEF IInv, TypeOK
<1>8. OneLeader'
  <2>1. \A d \in Call :
           /\ calls'[d].pc \in Refresh <=> calls[d].pc \in Refresh
           /\ calls'[d].pc = "queued" => calls[d].pc = "queued" \/ refreshing[TabOf[d]]
    BY <1>1, <1>4, <1>6 DEF Refresh
  <2>2. QED BY <1>2, <2>1, SameLeaders DEF IInv
<1>9. Paired'
  BY <1>1, <1>2, <1>3, <1>4, <1>6 DEF IInv, Paired
<1>10. Excusable' /\ Shut'
  BY <1>1, <1>2, <1>4, <1>6 DEF IInv, Excusable, Shut, LoggingOut
<1>11. QED BY <1>7, <1>8, <1>9, <1>10 DEF IInv

LEMMA RefreshedOK ==
    ASSUME IInv, NEW c \in Call, Refreshed(c)
    PROVE  IInv'
<1> DEFINE t == TabOf[c]
           k == calls[c].token
           pair == [access |-> k, refresh |-> k]
           C == Queue(t) \cup {c}
<1>1. t \in Tab /\ C \subseteq CallsOf(t) /\ C \subseteq Call /\ calls \in [Call -> Request]
  BY Constants DEF Queue, IInv, TypeOK
<1>2. /\ calls[c].pc = "rotated"
      /\ memory' = [memory EXCEPT ![t] = pair] /\ storage' = pair
      /\ refreshing' = [refreshing EXCEPT ![t] = FALSE]
      /\ calls' = [ d \in Call |-> IF d \in C THEN SentAgain(d, k) ELSE calls[d] ]
      /\ UNCHANGED <<tokenVars, user, open, loads, lost, excused, holders>>
  BY DEF Refreshed, SetAuthTokens, boundVars, historyVars
<1>3. pair \in Pair /\ k # 0
  <2>1. k \in DOMAIN rows /\ rows \in Seq(Row) /\ Len(rows) \in Nat /\ Len(rows) <= MaxPairs
    BY <1>2 DEF IInv, Paired, TypeOK, TokenTypeOK
  <2>2. k \in 1..MaxPairs
    BY <2>1, Constants
  <2>3. QED BY <2>2, Constants DEF Pair
<1>4. /\ calls' \in [Call -> Request]
      /\ \A d \in C : calls'[d].pc = "sent" /\ calls'[d].kind = calls[d].kind
      /\ \A d \in Call : d \notin C => calls'[d] = calls[d]
  BY <1>1, <1>2, Requests DEF IInv
<1>5. \A d \in C : calls[d].pc \in {"queued", "rotated"}
  BY <1>2 DEF Queue
<1>6. pair.access = k /\ pair.refresh = k
  OBVIOUS
<1> HIDE DEF pair, k
<1>7. TypeOK'
  <2>1. memory' \in [Tab -> Pair] /\ refreshing' \in [Tab -> BOOLEAN]
    BY <1>1, <1>2, <1>3 DEF IInv, TypeOK
  <2>2. QED BY <1>2, <1>3, <1>4, <2>1 DEF IInv, TypeOK, TokenTypeOK, tokenVars
<1>8. OneLeader'
  <2>1. Leaders(t) = {c}
    BY <1>2, TheLeader DEF IInv, Refresh
  <2>2. Leaders(t)' = {}
    BY <1>1, <1>4, <2>1 DEF Leaders, Refresh, CallsOf
  <2>3. Queue(t)' = {}
    BY <1>1, <1>4 DEF Queue, CallsOf
  <2>4. \A d \in Call : TabOf[d] # t => calls'[d] = calls[d]
    BY <1>1, <1>4 DEF CallsOf
  <2>5. ~refreshing'[t] /\ \A s \in Tab : s # t => refreshing'[s] = refreshing[s]
    BY <1>1, <1>2 DEF IInv, TypeOK
  <2>6. QED BY <1>1, <2>2, <2>3, <2>4, <2>5, OtherLeaders DEF IInv
<1>9. Paired'
  <2>1. \A s \in Tab : memory'[s].access = memory'[s].refresh
    BY <1>1, <1>2, <1>6 DEF IInv, TypeOK, Paired
  <2>2. QED BY <1>2, <1>4, <1>6, <2>1 DEF IInv, Paired, tokenVars
<1>10. Excusable'
  <2>1. \A s \in Tab : memory[s].refresh # 0 => memory'[s].refresh # 0
    BY <1>1, <1>2, <1>3, <1>6 DEF IInv, TypeOK
  <2>2. \A d \in Call : LoggingOut(d)' => LoggingOut(d)
    BY <1>4, <1>5 DEF LoggingOut
  <2>3. QED BY <1>2, <2>1, <2>2 DEF IInv, Excusable
<1>11. Shut'
  BY <1>2, <1>4, <1>5 DEF IInv, Shut
<1>12. QED BY <1>7, <1>8, <1>9, <1>10, <1>11 DEF IInv

LEMMA LoginOkOK ==
    ASSUME IInv, NEW c \in Call, LoginOk(c)
    PROVE  IInv'
<1> DEFINE t == TabOf[c]
<1>1. t \in Tab /\ calls \in [Call -> Request]
  BY Constants DEF IInv, TypeOK
<1>2. /\ calls[c].kind = "login" /\ calls[c].pc = "sent" /\ IssueForLogin
      /\ memory' = [memory EXCEPT ![t] = NewTokens] /\ storage' = NewTokens
      /\ user' = [user EXCEPT ![t] = TRUE]
      /\ calls' = [calls EXCEPT ![c] = Free]
      /\ excused' = [excused EXCEPT ![t] = LogoutUnderWay(t)]
      /\ holders' = [holders EXCEPT ![NewPair] = {<<t, loads[t]>>}]
      /\ UNCHANGED <<refreshing, open, loads, lost>>
  BY DEF LoginOk, SetAuthTokens, boundVars
<1>3. TokenTypeOK' /\ NewPair \in 1..MaxPairs /\ DOMAIN rows \subseteq DOMAIN rows'
  BY <1>2, Issued DEF IInv, TypeOK
<1>4. NewTokens \in Pair /\ NewTokens.access = NewTokens.refresh /\ NewTokens.refresh # 0
  BY <1>3, Constants DEF NewTokens, Pair
<1>5. /\ calls' \in [Call -> Request] /\ calls'[c].pc = "free"
      /\ \A d \in Call : d # c => calls'[d] = calls[d]
  <2>1. Free \in Request /\ Free.pc = "free"
    BY Requests DEF IInv, Free
  <2>2. QED BY <1>1, <1>2, <2>1
<1>6. TypeOK'
  <2>1. memory' \in [Tab -> Pair] /\ user' \in [Tab -> BOOLEAN]
    BY <1>1, <1>2, <1>4 DEF IInv, TypeOK
  <2>2. excused' \in [Tab -> BOOLEAN]
    <3>1. LogoutUnderWay(t) \in BOOLEAN
      BY DEF LogoutUnderWay
    <3>2. QED BY <1>1, <1>2, <3>1, Zenon DEF IInv, TypeOK
  <2>3. holders' \in [1..MaxPairs -> SUBSET (Tab \X Nat)]
    <3>1. {<<t, loads[t]>>} \in SUBSET (Tab \X Nat)
      BY <1>1 DEF IInv, TypeOK
    <3>2. QED BY <1>2, <1>3, <3>1 DEF IInv, TypeOK
  <2>4. QED BY <1>2, <1>3, <1>4, <1>5, <2>1, <2>2, <2>3 DEF IInv, TypeOK
<1>7. OneLeader'
  <2>1. \A d \in Call :
           /\ calls'[d].pc \in Refresh <=> calls[d].pc \in Refresh
           /\ calls'[d].pc = "queued" => calls[d].pc = "queued" \/ refreshing[TabOf[d]]
    BY <1>2, <1>5 DEF Refresh
  <2>2. QED BY <1>2, <2>1, SameLeaders DEF IInv
<1>8. Paired'
  <2>1. \A s \in Tab : memory'[s].access = memory'[s].refresh
    BY <1>1, <1>2, <1>4 DEF IInv, TypeOK, Paired
  <2>2. QED BY <1>2, <1>3, <1>4, <1>5, <2>1 DEF IInv, Paired
<1>9. Excusable'
  <2>1. ASSUME NEW s \in Tab, user'[s]
        PROVE  memory'[s].refresh # 0 \/ excused'[s]
    <3>1. CASE s = t
      BY <1>1, <1>2, <1>4, <3>1 DEF IInv, TypeOK
    <3>2. CASE s # t
      BY <1>1, <1>2, <2>1, <3>2 DEF IInv, TypeOK, Excusable
    <3>3. QED BY <3>1, <3>2
  <2>2. ASSUME NEW d \in Call, LoggingOut(d)', user'[TabOf[d]]
        PROVE  excused'[TabOf[d]]
    <3>1. TabOf[d] \in Tab /\ LoggingOut(d)
      BY <1>5, <2>2, Constants DEF LoggingOut
    <3>2. CASE TabOf[d] = t
      <4>1. LogoutUnderWay(t)
        BY <3>1, <3>2 DEF LogoutUnderWay, CallsOf
      <4>2. QED BY <1>1, <1>2, <3>2, <4>1 DEF IInv, TypeOK
    <3>3. CASE TabOf[d] # t
      BY <1>1, <1>2, <2>2, <3>1, <3>3 DEF IInv, TypeOK, Excusable
    <3>4. QED BY <3>2, <3>3
  <2>3. QED BY <2>1, <2>2 DEF Excusable
<1>10. Shut'
  <2>1. open[t]
    BY <1>2 DEF IInv, Shut
  <2>2. QED BY <1>1, <1>2, <1>5, <2>1 DEF IInv, TypeOK, Shut
<1>11. QED BY <1>6, <1>7, <1>8, <1>9, <1>10 DEF IInv

-----------------------------------------------------------------------------
LEMMA CloseOK ==
    ASSUME IInv, NEW t \in Tab, Close(t)
    PROVE  IInv'
<1>1. calls \in [Call -> Request] /\ NoPair \in Pair /\ NoPair.access = NoPair.refresh
  BY Requests DEF IInv, TypeOK, NoPair
<1>2. /\ memory' = [memory EXCEPT ![t] = NoPair]
      /\ open' = [open EXCEPT ![t] = FALSE]
      /\ refreshing' = [refreshing EXCEPT ![t] = FALSE]
      /\ user' = [user EXCEPT ![t] = FALSE]
      /\ UNCHANGED <<tokenVars, storage, loads, lost, excused, holders>>
  BY DEF Close, boundVars, historyVars
<1>3. /\ calls' \in [Call -> Request]
      /\ \A d \in Call : TabOf[d] # t => calls'[d] = calls[d]
      /\ \A d \in Call : TabOf[d] = t => calls'[d].pc \in {"free", "orphan"}
      /\ \A d \in Call : calls'[d].pc = "orphan" =>
            calls[d].pc \in {"selected", "orphan"} /\ calls'[d].token = calls[d].token
  <2>1. calls' = [ d \in Call |-> IF TabOf[d] # t THEN calls[d]
                                  ELSE IF calls[d].pc = "selected"
                                  THEN [calls[d] EXCEPT !.pc = "orphan"]
                                  ELSE IF calls[d].pc = "orphan" THEN calls[d] ELSE Free ]
    BY DEF Close
  <2>2. Free \in Request /\ Free.pc = "free"
    BY Requests DEF IInv, Free
  <2>3. \A x \in Request : /\ [x EXCEPT !.pc = "orphan"].pc = "orphan"
                          /\ [x EXCEPT !.pc = "orphan"].token = x.token
                          /\ [x EXCEPT !.pc = "orphan"] \in Request
    BY DEF Request
  <2>4. QED BY <1>1, <2>1, <2>2, <2>3
<1>4. /\ memory' \in [Tab -> Pair] /\ \A s \in Tab : memory'[s].access = memory'[s].refresh
      /\ \A s \in Tab : s # t => memory'[s] = memory[s] /\ refreshing'[s] = refreshing[s]
                                 /\ user'[s] = user[s] /\ open'[s] = open[s]
      /\ ~refreshing'[t] /\ ~user'[t]
  BY <1>1, <1>2 DEF IInv, TypeOK, Paired
<1>5. TypeOK'
  <2>1. /\ open' \in [Tab -> BOOLEAN] /\ refreshing' \in [Tab -> BOOLEAN]
        /\ user' \in [Tab -> BOOLEAN]
    BY <1>2 DEF IInv, TypeOK
  <2>2. QED BY <1>2, <1>3, <1>4, <2>1 DEF IInv, TypeOK, TokenTypeOK, tokenVars
<1>6. OneLeader'
  <2>1. Leaders(t)' = {} /\ Queue(t)' = {}
    BY <1>3 DEF Leaders, Queue, CallsOf, Refresh
  <2>2. QED BY <1>3, <1>4, <2>1, OtherLeaders DEF IInv
<1>7. Paired'
  <2>1. ASSUME NEW d \in Call, calls'[d].pc \in {"selected", "rotated", "orphan"}
        PROVE  calls'[d].token \in DOMAIN rows
    BY <1>3, <2>1 DEF IInv, Paired
  <2>2. QED BY <1>2, <1>4, <2>1 DEF IInv, Paired, tokenVars
<1>8. Excusable'
  <2>1. ASSUME NEW d \in Call, LoggingOut(d)'
        PROVE  LoggingOut(d) /\ TabOf[d] # t
    BY <1>3, <2>1 DEF LoggingOut
  <2>2. QED BY <1>2, <1>4, <2>1, Constants DEF IInv, Excusable
<1>9. Shut'
  BY <1>3, <1>4, Constants DEF IInv, Shut
<1>10. QED BY <1>5, <1>6, <1>7, <1>8, <1>9 DEF IInv

LEMMA OpenOK ==
    ASSUME IInv, NEW t \in Tab, Open(t)
    PROVE  IInv'
<1> DEFINE pair == IF Restored THEN storage ELSE NoPair
<1>1. NoPair \in Pair /\ NoPair.access = NoPair.refresh
  BY Requests DEF IInv, NoPair
<1>2. /\ ~open[t]
      /\ memory' = [memory EXCEPT ![t] = pair] /\ storage' = pair
      /\ loads' = [loads EXCEPT ![t] = @ + 1]
      /\ open' = [open EXCEPT ![t] = TRUE]
      /\ user' = [user EXCEPT ![t] = Restored]
      /\ excused' = [excused EXCEPT ![t] = FALSE]
      /\ UNCHANGED <<tokenVars, refreshing, calls, lost>>
  BY DEF Open, SetAuthTokens
<1>3. pair \in Pair /\ pair.access = pair.refresh
  BY <1>1 DEF IInv, TypeOK, Paired
<1>4. Restored \in BOOLEAN /\ (Restored => rows # <<>> /\ pair.refresh # 0)
  <2>1. Restored => rows # <<>> /\ storage.access # 0
    BY AcceptedType DEF Restored, IInv, TypeOK
  <2>2. Restored \in BOOLEAN
    BY DEF Restored, Accepted
  <2>3. QED BY <2>1, <2>2 DEF IInv, Paired
<1> HIDE DEF pair
<1>5. /\ memory' \in [Tab -> Pair] /\ memory'[t] = pair
      /\ \A s \in Tab : s # t => memory'[s] = memory[s] /\ excused'[s] = excused[s]
                                 /\ open'[s] = open[s]
      /\ open'[t]
  BY <1>2, <1>3 DEF IInv, TypeOK
<1>6. user' \in [Tab -> BOOLEAN] /\ user'[t] = Restored /\ \A s \in Tab : s # t => user'[s] = user[s]
  <2>1. user \in [Tab -> BOOLEAN]
    BY DEF IInv, TypeOK
  <2>2. user' \in [Tab -> BOOLEAN]
    BY <1>2, <1>4, <2>1, Zenon
  <2>3. QED BY <1>2, <2>1, <2>2, Zenon
<1>7. TypeOK'
  <2>1. loads' \in [Tab -> Nat] /\ open' \in [Tab -> BOOLEAN] /\ excused' \in [Tab -> BOOLEAN]
    BY <1>2 DEF IInv, TypeOK
  <2>2. holders' \in [1..MaxPairs -> SUBSET (Tab \X Nat)]
    <3>1. /\ holders \in [1..MaxPairs -> SUBSET (Tab \X Nat)]
          /\ {<<t, loads[t] + 1>>} \subseteq Tab \X Nat
      BY DEF IInv, TypeOK
    <3>2. \A k \in 1..MaxPairs : holders[k] \subseteq Tab \X Nat
      BY <3>1
    <3>3. holders' = [k \in 1..MaxPairs |->
                          IF Restored /\ k = rows[storage.access].login
                          THEN holders[k] \cup {<<t, loads[t] + 1>>} ELSE holders[k]]
      BY DEF Open
    <3>4. \A k \in 1..MaxPairs : holders'[k] \in SUBSET (Tab \X Nat)
      BY <3>1, <3>2, <3>3
    <3>5. holders' = [k \in 1..MaxPairs |-> holders'[k]]
      BY <3>3
    <3>6. QED BY <3>4, <3>5
  <2>3. QED BY <1>2, <1>3, <1>5, <1>6, <2>1, <2>2 DEF IInv, TypeOK, TokenTypeOK, tokenVars
<1>8. OneLeader'
  BY <1>2, SameLeaders DEF IInv
<1>9. Paired'
  BY <1>2, <1>3, <1>5 DEF IInv, Paired, tokenVars
<1>10. Excusable'
  <2>1. \A s \in Tab : user'[s] => memory'[s].refresh # 0 \/ excused'[s]
    BY <1>4, <1>5, <1>6 DEF IInv, Excusable
  <2>2. \A d \in Call : LoggingOut(d)' => LoggingOut(d) /\ TabOf[d] # t
    BY <1>2 DEF LoggingOut, IInv, Shut
  <2>3. QED BY <1>5, <1>6, <2>1, <2>2, Constants DEF IInv, Excusable
<1>11. Shut'
  BY <1>2, <1>5, <1>6, Constants DEF IInv, Shut
<1>12. QED BY <1>7, <1>8, <1>9, <1>10, <1>11 DEF IInv

LEMMA TokenExpiresOK ==
    ASSUME IInv, NEW k \in InUse \ expired, TokenExpires(k)
    PROVE  IInv'
<1>1. /\ rows' = rows /\ expired' = expired \cup {k} /\ k \in DOMAIN rows
      /\ UNCHANGED <<storage, memory, refreshing, user, open, calls, loads, lost, excused, holders>>
  BY DEF TokenExpires, AccessExpires, InUse, pageVars, boundVars, historyVars
<1>2. TypeOK'
  BY <1>1 DEF IInv, TypeOK, TokenTypeOK
<1>3. OneLeader'
  BY <1>1, SameLeaders DEF IInv
<1>4. Paired'
  BY <1>1 DEF IInv, Paired
<1>5. Excusable' /\ Shut'
  BY <1>1 DEF IInv, Excusable, Shut, LoggingOut
<1>6. QED BY <1>2, <1>3, <1>4, <1>5 DEF IInv

LEMMA NextOK ==
    ASSUME IInv, [Next]_vars
    PROVE  IInv'
<1>1. CASE UNCHANGED vars
  <2>1. UNCHANGED <<rows, expired, storage, memory, refreshing, user, open, calls, loads, lost,
                    excused, holders>>
    BY <1>1 DEF vars, tokenVars, pageVars, boundVars, historyVars
  <2>2. TypeOK'
    BY <2>1 DEF IInv, TypeOK, TokenTypeOK
  <2>3. OneLeader'
    BY <2>1, SameLeaders DEF IInv
  <2>4. Paired'
    BY <2>1 DEF IInv, Paired
  <2>5. Excusable' /\ Shut'
    BY <2>1 DEF IInv, Excusable, Shut, LoggingOut
  <2>6. QED BY <2>2, <2>3, <2>4, <2>5 DEF IInv
<1>2. ASSUME NEW c \in Call,
             \/ SendApi(c) \/ HandleSubmit(c) \/ Logout(c) \/ Answer(c) \/ NoAnswer(c)
             \/ SelectRow(c) \/ RotateRow(c)
      PROVE  IInv'
  BY <1>2, RequestsOK, AnswersOK, WaitOK, NoRefreshTokenOK, RefreshFailedOK, LeadOK, SelectRowOK,
     RotateRowOK, RefreshedOK, LoginOkOK DEF Answer
<1>3. ASSUME NEW t \in Tab, Close(t) \/ Open(t)
      PROVE  IInv'
  BY <1>3, CloseOK, OpenOK
<1>4. ASSUME NEW k \in InUse \ expired, TokenExpires(k)
      PROVE  IInv'
  BY <1>4, TokenExpiresOK
<1>5. QED BY <1>1, <1>2, <1>3, <1>4 DEF Next

-----------------------------------------------------------------------------
(* Every reachable state of the pages and the token service satisfies the      *)
(* inductive invariant: types, one refresh per page that waits, tokens in      *)
(* pairs, a running time tracker, a user who has a token or an excuse, and     *)
(* nothing that would come back to a closed tab.                              *)
THEOREM SessionInvariant == Spec => []IInv
<1>1. IInv /\ [Next]_vars => IInv'
  BY NextOK
<1>2. QED BY InitOK, <1>1, PTL DEF Spec

(* Types, for any number of tabs, requests and pairs.                         *)
THEOREM SessionTypes == Spec => []TypeOK
<1>1. IInv => TypeOK
  BY DEF IInv
<1>2. QED BY <1>1, SessionInvariant, PTL

(* Whoever waits in failedQueue (api.js) has exactly one request that refreshes *)
(* for its page, whatever the other tabs, the answers and the clock do.       *)
THEOREM NobodyIsForgotten == Spec => []WaitersHaveALeader
<1>1. IInv => WaitersHaveALeader
  <2>1. ASSUME OneLeader, NEW t \in Tab, refreshing[t]
        PROVE  Cardinality(Leaders(t)) = 1
    <3>1. PICK c : Leaders(t) = {c}
      BY <2>1 DEF OneLeader
    <3>2. Cardinality({c}) = 1
      BY FS_Singleton
    <3>3. QED BY <3>1, <3>2
  <2>2. QED BY <2>1 DEF IInv, OneLeader, WaitersHaveALeader
<1>2. QED BY <1>1, SessionInvariant, PTL

(* Only the calls of its own page take a page's user away.                    *)
LEMMA OwnUserGoes ==
    ASSUME IInv, NEW c \in Call, NEW C, user' = UserAfter(TabOf[c], C),
           NEW t \in Tab, user[t], ~user'[t]
    PROVE  t = TabOf[c] /\ Ending(C) # {}
<1>1. TabOf[c] \in Tab
  BY Constants
<1>2. UserAfter(TabOf[c], C) = user \/ UserAfter(TabOf[c], C) = [user EXCEPT ![TabOf[c]] = FALSE]
  BY <1>1, UserStays DEF IInv
<1>3. QED BY <1>1, <1>2, UserStays DEF IInv, TypeOK

LEMMA UserGoes ==
    ASSUME IInv, [Next]_vars, NEW t \in Tab, user[t], open'[t], ~user'[t]
    PROVE  excused[t] \/ excused'[t]
<1>1. user' # user
  OBVIOUS
<1>2. ASSUME NEW c \in Call, LogoutOk(c) \/ NoAnswer(c) \/ GiveUp(c)
      PROVE  excused[t]
  <2>1. user' = UserAfter(TabOf[c], {c}) /\ calls[c].pc = "sent"
    BY <1>2 DEF LogoutOk, NoAnswer, GiveUp, Unauthorized
  <2>2. t = TabOf[c] /\ Ending({c}) # {}
    BY <2>1, OwnUserGoes
  <2>3. LoggingOut(c)
    BY <2>1, <2>2 DEF Ending, LoggingOut
  <2>4. QED BY <2>2, <2>3 DEF IInv, Excusable
<1>3. ASSUME NEW c \in Call, NoRefreshToken(c)
      PROVE  excused[t]
  <2>1. user' = UserAfter(TabOf[c], {c}) /\ memory[TabOf[c]].refresh = 0
    BY <1>3 DEF NoRefreshToken, ForceLogout, StoredRefresh
  <2>2. t = TabOf[c]
    BY <2>1, OwnUserGoes
  <2>3. QED BY <2>1, <2>2 DEF IInv, Excusable
<1>4. ASSUME NEW c \in Call, RefreshFailed(c)
      PROVE  excused'[t]
  <2>1. /\ user' = UserAfter(TabOf[c], Queue(TabOf[c]) \cup {c})
        /\ excused' = [excused EXCEPT ![TabOf[c]] = TRUE]
    BY <1>4 DEF RefreshFailed, ForceLogout
  <2>2. t = TabOf[c]
    BY <2>1, OwnUserGoes
  <2>3. QED BY <2>1, <2>2 DEF IInv, TypeOK
<1>5. ASSUME NEW c \in Call
      PROVE  ~LoginOk(c)
  <2>1. SUFFICES ASSUME LoginOk(c) PROVE FALSE
    OBVIOUS
  <2>2. user' = [user EXCEPT ![TabOf[c]] = TRUE] /\ TabOf[c] \in Tab
    BY <2>1, Constants DEF LoginOk
  <2>3. QED BY <2>2 DEF IInv, TypeOK
<1>6. ASSUME NEW c \in Call
      PROVE  ~(\/ SendApi(c) \/ HandleSubmit(c) \/ Logout(c) \/ ApiOk(c) \/ Wait(c) \/ Lead(c)
               \/ SelectRow(c) \/ RotateRow(c) \/ Refreshed(c))
  BY <1>1 DEF SendApi, HandleSubmit, Logout, Send, ApiOk, Wait, Lead, SelectRow, RotateRow, Refreshed,
     pageVars
<1>7. ASSUME NEW s \in Tab
      PROVE  ~Close(s) /\ ~Open(s)
  <2>1. ASSUME Close(s) PROVE FALSE
    <3>1. user' = [user EXCEPT ![s] = FALSE] /\ open' = [open EXCEPT ![s] = FALSE]
      BY <2>1 DEF Close
    <3>2. QED BY <3>1 DEF IInv, TypeOK
  <2>2. ASSUME Open(s) PROVE FALSE
    <3>1. ~open[s] /\ user' = [user EXCEPT ![s] = Restored]
      BY <2>2 DEF Open
    <3>2. s # t
      BY <3>1 DEF IInv, Shut
    <3>3. QED BY <3>1, <3>2 DEF IInv, TypeOK
  <2>3. QED BY <2>1, <2>2
<1>8. \A k : ~TokenExpires(k)
  BY <1>1 DEF TokenExpires, pageVars
<1>9. Next
  BY <1>1 DEF vars, pageVars
<1>10. QED
  BY <1>2, <1>3, <1>4, <1>5, <1>6, <1>7, <1>8, <1>9 DEF Next, Answer

(* A page that stays open keeps its user (AuthContext.jsx) unless a logout was *)
(* asked for or under way when it signed in, or a refresh failed.             *)
THEOREM UsersStay == Spec => SignInLasts
<1>1. IInv /\ [Next]_vars =>
        [ \A t \in Tab : user[t] /\ open'[t] /\ ~user'[t] => excused[t] \/ excused'[t] ]_vars
  BY UserGoes
<1>2. QED BY <1>1, SessionInvariant, PTL DEF Spec, SignInLasts

-----------------------------------------------------------------------------
(* Where a good refresh token can be.  The page loads that got tokens of the   *)
(* sign-in of row k:                                                         *)
Holders(k) == holders[rows[k].login]

Sole(k) == \A g, h \in Holders(k) : g = h

Related(j, k) == rows[j].login = rows[k].login

(* Rows descend from sign-ins, and only page loads there have been hold them.  *)
Descent ==
    /\ \A k \in DOMAIN rows : rows[k].login \in DOMAIN rows /\ Holders(k) # {}
    /\ \A login \in 1..MaxPairs :
          IsFiniteSet(holders[login]) /\ \A h \in holders[login] : h[2] <= loads[h[1]]

(* Whoever has a refresh token, or exchanges one, is among its holders; a tab  *)
(* that was reloaded since is so under the number it had then.               *)
Known ==
    /\ storage.refresh # 0 => storage.refresh \in DOMAIN rows
    /\ \A t \in Tab : memory[t].refresh # 0 =>
          /\ open[t]
          /\ memory[t].refresh \in DOMAIN rows
          /\ <<t, loads[t]>> \in Holders(memory[t].refresh)
    /\ \A c \in Call : calls[c].pc \in Refresh =>
          /\ calls[c].token \in DOMAIN rows
          /\ <<TabOf[c], loads[TabOf[c]]>> \in Holders(calls[c].token)
    /\ \A c \in Call : calls[c].pc = "orphan" =>
          \E n \in Nat : /\ <<TabOf[c], n>> \in Holders(calls[c].token)
                         /\ open[TabOf[c]] => n # loads[TabOf[c]]

Exchanging == {c \in Call : calls[c].pc \in {"selected", "rotated", "orphan"}}

(* While one page load holds a sign-in, it is exchanged once at a time and has *)
(* one good row: the one in hand.                                            *)
UnforkedAt(k) ==
    /\ \A c, d \in Exchanging : Related(calls[c].token, k) /\ Related(calls[d].token, k) => c = d
    /\ ~rows[k].revoked =>
         /\ \A j \in DOMAIN rows : Related(j, k) /\ ~rows[j].revoked => j = k
         /\ \A c \in Exchanging : Related(calls[c].token, k) => calls[c].token = k
    /\ \A c \in Call : calls[c].pc = "rotated" /\ calls[c].token = k => ~rows[k].revoked
    /\ \A t \in Tab : memory[t].refresh = k /\ ~refreshing[t] => ~rows[k].revoked

Unforked == \A k \in DOMAIN rows : Sole(k) => UnforkedAt(k)

Held == Descent /\ Known /\ Unforked

LEMMA RowNumbers ==
    ASSUME TokenTypeOK
    PROVE  /\ rows \in Seq(Row) /\ Len(rows) \in Nat /\ DOMAIN rows = 1..Len(rows)
           /\ DOMAIN rows \subseteq 1..MaxPairs /\ 0 \notin DOMAIN rows
           /\ \A k \in DOMAIN rows : rows[k] \in Row
<1>1. rows \in Seq(Row) /\ Len(rows) \in Nat /\ DOMAIN rows = 1..Len(rows) /\ Len(rows) <= MaxPairs
  BY DEF TokenTypeOK
<1>2. QED BY <1>1, Constants

LEMMA HeldAtFirst == Init => Held
<1> SUFFICES ASSUME Init PROVE Held
  OBVIOUS
<1>1. rows = <<>> /\ DOMAIN rows = {}
  BY DEF Init, TokenInit
<1>2. Descent
  <2>1. \A login \in 1..MaxPairs : holders[login] = {}
    BY DEF Init
  <2>2. QED BY <1>1, <2>1, FS_EmptySet DEF Descent
<1>3. Known
  BY Constants DEF Init, Known, NoPair, Free, Refresh
<1>4. Unforked
  BY <1>1 DEF Unforked
<1>5. QED BY <1>2, <1>3, <1>4 DEF Held

(* A step that gives nobody a token and begins no exchange.                   *)
LEMMA NothingGained ==
    ASSUME IInv, Held, UNCHANGED <<rows, loads, holders>>,
           storage'.refresh \in {0, storage.refresh},
           \A t \in Tab : memory'[t].refresh # 0 =>
              memory'[t] = memory[t] /\ open'[t] = open[t] /\ refreshing'[t] = refreshing[t],
           \A t \in Tab : open'[t] => open[t],
           \A c \in Call : calls'[c].pc \in Refresh => calls'[c] = calls[c],
           \A c \in Call : calls'[c].pc = "orphan" =>
              /\ calls'[c].token = calls[c].token
              /\ calls[c].pc = "orphan" \/ (calls[c].pc = "selected" /\ ~open'[TabOf[c]])
    PROVE  Held'
<1>1. Descent'
  BY DEF Held, Descent, Holders
<1>2. Known'
  <2>1. /\ storage'.refresh # 0 => storage'.refresh \in DOMAIN rows
        /\ \A t \in Tab : memory'[t].refresh # 0 =>
              /\ open'[t]
              /\ memory'[t].refresh \in DOMAIN rows
              /\ <<t, loads[t]>> \in holders[rows[memory'[t].refresh].login]
    BY DEF Held, Known, Holders
  <2>2. \A c \in Call : calls'[c].pc \in Refresh =>
              /\ calls'[c].token \in DOMAIN rows
              /\ <<TabOf[c], loads[TabOf[c]]>> \in holders[rows[calls'[c].token].login]
    BY DEF Held, Known, Holders
  <2>3. ASSUME NEW c \in Call, calls'[c].pc = "orphan"
        PROVE  \E n \in Nat : /\ <<TabOf[c], n>> \in holders[rows[calls'[c].token].login]
                              /\ open'[TabOf[c]] => n # loads[TabOf[c]]
    <3>1. CASE calls[c].pc = "orphan"
      BY <2>3, <3>1, Constants DEF Held, Known, Holders
    <3>2. CASE calls[c].pc = "selected" /\ ~open'[TabOf[c]]
      <4>1. loads[TabOf[c]] \in Nat
        BY Constants DEF IInv, TypeOK
      <4>2. QED BY <2>3, <3>2, <4>1 DEF Held, Known, Holders, Refresh
    <3>3. QED BY <2>3, <3>1, <3>2
  <2>4. QED BY <2>1, <2>2, <2>3 DEF Known, Holders
<1>3. Unforked'
  <2>1. ASSUME NEW k \in DOMAIN rows, Sole(k)
        PROVE  UnforkedAt(k)'
    <3>1. UnforkedAt(k) /\ k # 0
      BY <2>1, RowNumbers DEF Held, Unforked, IInv, TypeOK
    <3>2. /\ Exchanging' \subseteq Exchanging
          /\ \A c \in Exchanging' : calls'[c].token = calls[c].token
          /\ \A c \in Call : calls'[c].pc = "rotated" => calls'[c] = calls[c]
      BY DEF Exchanging, Refresh
    <3>3. \A t \in Tab : memory'[t].refresh = k /\ ~refreshing'[t] => ~rows[k].revoked
      BY <3>1 DEF UnforkedAt
    <3>4. QED BY <3>1, <3>2, <3>3 DEF UnforkedAt, Related
  <2>2. QED BY <2>1 DEF Unforked, Sole, Holders
<1>4. QED BY <1>1, <1>2, <1>3 DEF Held

LEMMA RequestsHeld ==
    ASSUME IInv, Held, NEW c \in Call, SendApi(c) \/ HandleSubmit(c) \/ Logout(c) \/ Wait(c)
    PROVE  Held'
<1>1. /\ UNCHANGED <<rows, storage, memory, refreshing, open, loads, holders>>
      /\ \A d \in Call : d # c => calls'[d] = calls[d]
  BY DEF SendApi, HandleSubmit, Logout, Send, Wait, IInv, TypeOK, tokenVars, pageVars, boundVars, historyVars
<1>2. calls'[c].pc \in {"sent", "queued"}
  <2>1. calls \in [Call -> Request] /\ calls[c] \in Request
    BY DEF IInv, TypeOK
  <2>2. CASE Wait(c)
    <3>1. calls' = [calls EXCEPT ![c] = [calls[c] EXCEPT !.pc = "queued", !.token = 0]]
      BY <2>1, <2>2 DEF Wait
    <3>2. [calls[c] EXCEPT !.pc = "queued", !.token = 0].pc = "queued"
      <4>1. \A x \in Request : [x EXCEPT !.pc = "queued", !.token = 0].pc = "queued"
        BY DEF Request
      <4>2. QED BY <2>1, <4>1, Zenon
    <3>3. QED BY <2>1, <3>1, <3>2
  <2>3. ASSUME NEW kind \in {"api", "login", "logout"}, Send(c, kind)
        PROVE  calls'[c].pc = "sent"
    BY <2>1, <2>3, Requests DEF Send, IInv
  <2>4. QED BY <2>2, <2>3 DEF SendApi, HandleSubmit, Logout
<1>3. QED BY <1>1, <1>2, NothingGained DEF Refresh

LEMMA AnswersHeld ==
    ASSUME IInv, Held, NEW c \in Call, ApiOk(c) \/ LogoutOk(c) \/ NoAnswer(c) \/ GiveUp(c)
    PROVE  Held'
<1>1. /\ UNCHANGED <<rows, refreshing, open, loads, holders>>
      /\ calls' = [calls EXCEPT ![c] = Free]
      /\ UNCHANGED <<storage, memory>> \/ ClearAuthTokens(TabOf[c])
  BY DEF ApiOk, LogoutOk, NoAnswer, GiveUp, tokenVars, pageVars, boundVars, historyVars
<1>2. /\ calls'[c].pc = "free"
      /\ \A d \in Call : d # c => calls'[d] = calls[d]
  BY <1>1 DEF IInv, TypeOK, Free
<1>3. /\ storage'.refresh \in {0, storage.refresh}
      /\ \A t \in Tab : memory'[t].refresh # 0 => memory'[t] = memory[t]
  BY <1>1, Constants DEF IInv, TypeOK, ClearAuthTokens, SetAuthTokens, NoPair
<1>4. QED BY <1>1, <1>2, <1>3, NothingGained DEF Refresh

LEMMA ForcedHeld ==
    ASSUME IInv, Held, NEW c \in Call, NoRefreshToken(c) \/ RefreshFailed(c)
    PROVE  Held'
<1> DEFINE t == TabOf[c]
<1>1. PICK C \in SUBSET CallsOf(t) : c \in C /\ ForceLogout(t, c, C)
  <2>1. {c} \in SUBSET CallsOf(t) /\ Queue(t) \cup {c} \in SUBSET CallsOf(t)
    BY Constants DEF Queue
  <2>2. QED BY <2>1 DEF NoRefreshToken, RefreshFailed
<1>2. /\ UNCHANGED <<rows, open, loads, holders>>
      /\ refreshing' = refreshing \/ refreshing' = [refreshing EXCEPT ![t] = FALSE]
  BY DEF NoRefreshToken, RefreshFailed, tokenVars, pageVars, boundVars, historyVars
<1>3. t \in Tab /\ storage' = NoPair /\ memory' = [memory EXCEPT ![t] = NoPair]
  BY <1>1, Constants DEF ForceLogout, ClearAuthTokens, SetAuthTokens
<1>4. /\ storage'.refresh = 0
      /\ \A s \in Tab : memory'[s].refresh # 0 => memory'[s] = memory[s] /\ refreshing'[s] = refreshing[s]
  BY <1>2, <1>3 DEF IInv, TypeOK, NoPair
<1>5. \A d \in Call : calls'[d].pc \in {"sent", "free"} \/ calls'[d] = calls[d]
  BY <1>1, <1>3, Forced
<1>6. QED BY <1>2, <1>4, <1>5, NothingGained DEF Refresh

LEMMA CloseHeld ==
    ASSUME IInv, Held, NEW t \in Tab, Close(t)
    PROVE  Held'
<1>1. /\ memory' = [memory EXCEPT ![t] = NoPair]
      /\ open' = [open EXCEPT ![t] = FALSE]
      /\ refreshing' = [refreshing EXCEPT ![t] = FALSE]
      /\ calls' = [ d \in Call |-> IF TabOf[d] # t THEN calls[d]
                                   ELSE IF calls[d].pc = "selected"
                                   THEN [calls[d] EXCEPT !.pc = "orphan"]
                                   ELSE IF calls[d].pc = "orphan" THEN calls[d] ELSE Free ]
      /\ UNCHANGED <<rows, storage, loads, holders>>
  BY DEF Close, tokenVars, boundVars, historyVars
<1>2. /\ \A s \in Tab : memory'[s].refresh # 0 =>
            memory'[s] = memory[s] /\ open'[s] = open[s] /\ refreshing'[s] = refreshing[s]
      /\ \A s \in Tab : open'[s] => open[s]
      /\ ~open'[t]
  BY <1>1 DEF IInv, TypeOK, NoPair
<1>3. ASSUME NEW d \in Call
      PROVE  /\ calls'[d].pc \in Refresh => calls'[d] = calls[d]
             /\ calls'[d].pc = "orphan" =>
                  /\ calls'[d].token = calls[d].token
                  /\ calls[d].pc = "orphan" \/ (calls[d].pc = "selected" /\ ~open'[TabOf[d]])
  <2>1. \A x \in Request : /\ [x EXCEPT !.pc = "orphan"].pc = "orphan"
                          /\ [x EXCEPT !.pc = "orphan"].token = x.token
    BY DEF Request
  <2>2. calls[d] \in Request
    BY DEF IInv, TypeOK
  <2>3. CASE TabOf[d] # t
    <3>1. calls'[d] = calls[d]
      BY <1>1, <2>3
    <3>2. calls[d].pc = "orphan" \/ calls[d].pc # "orphan"
      OBVIOUS
    <3>3. QED BY <3>1, <3>2
  <2>4. CASE TabOf[d] = t /\ calls[d].pc = "selected"
    <3>1. calls'[d] = [calls[d] EXCEPT !.pc = "orphan"]
      BY <1>1, <2>4
    <3>2. calls'[d].pc = "orphan" /\ calls'[d].token = calls[d].token
      BY <2>1, <2>2, <3>1
    <3>3. QED BY <1>2, <2>4, <3>2 DEF Refresh
  <2>5. CASE TabOf[d] = t /\ calls[d].pc = "orphan"
    <3>1. calls'[d] = calls[d]
      BY <1>1, <2>5
    <3>2. QED BY <2>5, <3>1
  <2>6. CASE TabOf[d] = t /\ calls[d].pc \notin {"selected", "orphan"}
    <3>1. calls'[d] = Free
      BY <1>1, <2>6
    <3>2. QED BY <3>1 DEF Free, Refresh
  <2>7. QED BY <2>3, <2>4, <2>5, <2>6
<1>4. QED BY <1>1, <1>2, <1>3, NothingGained

LEMMA TokenExpiresHeld ==
    ASSUME IInv, Held, NEW k \in InUse \ expired, TokenExpires(k)
    PROVE  Held'
<1>1. UNCHANGED <<rows, storage, memory, refreshing, open, calls, loads, holders>>
  BY DEF TokenExpires, AccessExpires, pageVars, boundVars, historyVars
<1>2. QED BY <1>1, NothingGained

LEMMA LeadHeld ==
    ASSUME IInv, Held, NEW c \in Call, Lead(c)
    PROVE  Held'
<1> DEFINE t == TabOf[c]
           k == StoredRefresh(t)
           login == rows[k].login
           load == <<t, loads[t]>>
<1>1. /\ t \in Tab /\ calls \in [Call -> Request] /\ calls[c] \in Request
      /\ k # 0 /\ calls[c].pc = "sent" /\ ~refreshing[t]
      /\ refreshing' = [refreshing EXCEPT ![t] = TRUE]
      /\ holders' = [holders EXCEPT ![login] = @ \cup {load}]
      /\ UNCHANGED <<rows, storage, memory, open, loads>>
  BY Constants DEF Lead, Hold, Unauthorized, IInv, TypeOK, tokenVars, boundVars
<1>2. k \in DOMAIN rows /\ login \in DOMAIN rows /\ login \in 1..MaxPairs
  <2>1. k \in DOMAIN rows
    BY <1>1 DEF Held, Known, StoredRefresh
  <2>2. QED BY <2>1, RowNumbers DEF Held, Descent, IInv, TypeOK
<1>3. /\ calls'[c].pc = "posted" /\ calls'[c].token = k
      /\ \A d \in Call : d # c => calls'[d] = calls[d]
  <2>1. \A x \in Request : \A n : /\ [x EXCEPT !.pc = "posted", !.token = n, !.retry = TRUE].pc = "posted"
                                 /\ [x EXCEPT !.pc = "posted", !.token = n, !.retry = TRUE].token = n
    BY DEF Request
  <2>2. calls' = [calls EXCEPT ![c] = [calls[c] EXCEPT !.pc = "posted", !.token = k, !.retry = TRUE]]
    BY <1>1 DEF Lead
  <2>3. QED BY <1>1, <2>1, <2>2
<1> HIDE DEF k
<1>4. /\ \A l \in 1..MaxPairs : holders[l] \subseteq holders'[l]
      /\ \A l \in 1..MaxPairs : holders'[l] = holders[l] \/ holders'[l] = holders[l] \cup {load}
      /\ load \in holders'[login]
  BY <1>1, <1>2 DEF IInv, TypeOK
<1>5. \A j \in DOMAIN rows : rows[j].login \in 1..MaxPairs /\ Holders(j) \subseteq Holders(j)'
  BY <1>1, <1>4, RowNumbers DEF Held, Descent, Holders, IInv, TypeOK
<1>6. Descent'
  <2>1. \A l \in 1..MaxPairs : IsFiniteSet(holders'[l])
    BY <1>4, FS_AddElement DEF Held, Descent
  <2>2. load[2] = loads[load[1]] /\ loads[t] \in Nat
    BY <1>1 DEF IInv, TypeOK
  <2>3. \A l \in 1..MaxPairs : \A h \in holders'[l] : h[2] <= loads[h[1]]
    BY <1>4, <2>2 DEF Held, Descent
  <2>4. QED BY <1>1, <1>5, <2>1, <2>3 DEF Held, Descent
<1>7. Known'
  <2>1. \A s \in Tab : memory[s].refresh # 0 =>
          /\ open[s] /\ memory[s].refresh \in DOMAIN rows
          /\ <<s, loads[s]>> \in holders'[rows[memory[s].refresh].login]
    BY <1>1, <1>5 DEF Held, Known, Holders
  <2>2. \A d \in Call : calls'[d].pc \in Refresh =>
          /\ calls'[d].token \in DOMAIN rows
          /\ <<TabOf[d], loads[TabOf[d]]>> \in holders'[rows[calls'[d].token].login]
    <3>1. \A d \in Call : d # c /\ calls'[d].pc \in Refresh =>
            /\ calls'[d].token \in DOMAIN rows
            /\ <<TabOf[d], loads[TabOf[d]]>> \in holders'[rows[calls'[d].token].login]
      BY <1>1, <1>3, <1>5 DEF Held, Known, Holders
    <3>2. QED BY <1>2, <1>3, <1>4, <3>1
  <2>3. \A d \in Call : calls'[d].pc = "orphan" =>
          \E n \in Nat : /\ <<TabOf[d], n>> \in holders'[rows[calls'[d].token].login]
                         /\ open[TabOf[d]] => n # loads[TabOf[d]]
    <3>1. ASSUME NEW d \in Call, calls'[d].pc = "orphan"
          PROVE  calls'[d] = calls[d] /\ calls[d].token \in DOMAIN rows
      BY <1>3, <3>1 DEF IInv, Paired
    <3>2. QED BY <1>1, <1>5, <3>1 DEF Held, Known, Holders
  <2>4. QED BY <1>1, <2>1, <2>2, <2>3 DEF Held, Known, Holders
<1>8. Unforked'
  <2>1. ASSUME NEW j \in DOMAIN rows, Sole(j)'
        PROVE  UnforkedAt(j)'
    <3>1. UnforkedAt(j)
      BY <1>5, <2>1 DEF Held, Unforked, Sole
    <3>2. /\ Exchanging' = Exchanging
          /\ \A d \in Exchanging : calls'[d] = calls[d]
          /\ \A d \in Call : calls'[d].pc = "rotated" => calls'[d] = calls[d]
      BY <1>1, <1>3 DEF Exchanging
    <3>3. \A s \in Tab : ~refreshing'[s] => ~refreshing[s]
      BY <1>1 DEF IInv, TypeOK
    <3>4. QED BY <1>1, <3>1, <3>2, <3>3 DEF UnforkedAt, Related
  <2>2. QED BY <1>1, <2>1 DEF Unforked
<1>9. QED BY <1>6, <1>7, <1>8 DEF Held

(* Two requests of one sign-in that are under way are of two page loads.       *)
LEMMA TwoAreTwoLoads ==
    ASSUME IInv, Held, NEW c \in Call, NEW d \in Call, c # d,
           calls[c].pc \in Refresh, calls[d].pc \in Refresh \cup {"orphan"},
           Related(calls[d].token, calls[c].token)
    PROVE  ~Sole(calls[c].token)
<1>1. TabOf[c] \in Tab /\ refreshing[TabOf[c]] /\ Leaders(TabOf[c]) = {c} /\ open[TabOf[c]]
  BY TheLeader, Constants DEF IInv, Shut, Refresh
<1>2. <<TabOf[c], loads[TabOf[c]]>> \in Holders(calls[c].token)
  BY DEF Held, Known
<1>3. CASE calls[d].pc \in Refresh
  <2>1. TabOf[d] # TabOf[c]
    BY <1>1, <1>3, TheLeader DEF IInv
  <2>2. <<TabOf[d], loads[TabOf[d]]>> \in Holders(calls[c].token)
    BY <1>3 DEF Held, Known, Holders, Related
  <2>3. QED BY <1>2, <2>1, <2>2 DEF Sole
<1>4. CASE calls[d].pc = "orphan"
  <2>1. PICK n \in Nat : /\ <<TabOf[d], n>> \in Holders(calls[c].token)
                         /\ open[TabOf[d]] => n # loads[TabOf[d]]
    BY <1>4 DEF Held, Known, Holders, Related
  <2>2. <<TabOf[d], n>> # <<TabOf[c], loads[TabOf[c]]>>
    BY <1>1, <2>1
  <2>3. QED BY <1>2, <2>1, <2>2 DEF Sole
<1>5. QED BY <1>3, <1>4

LEMMA SelectRowHeld ==
    ASSUME IInv, Held, NEW c \in Call, SelectRow(c)
    PROVE  Held'
<1> DEFINE k == calls[c].token
<1>1. /\ calls[c].pc = "posted" /\ k \in DOMAIN rows /\ ~rows[k].revoked
      /\ calls' = [calls EXCEPT ![c].pc = "selected"]
      /\ UNCHANGED <<rows, storage, memory, refreshing, open, loads, holders>>
  BY DEF SelectRow, RowIsGood, tokenVars, pageVars, boundVars, historyVars
<1>2. /\ calls'[c].pc = "selected" /\ calls'[c].token = k
      /\ \A d \in Call : d # c => calls'[d] = calls[d]
  <2>1. \A x \in Request : /\ [x EXCEPT !.pc = "selected"].pc = "selected"
                          /\ [x EXCEPT !.pc = "selected"].token = x.token
    BY DEF Request
  <2>2. calls \in [Call -> Request] /\ calls[c] \in Request
    BY DEF IInv, TypeOK
  <2>3. QED BY <1>1, <2>1, <2>2
<1> HIDE DEF k
<1>3. \A d \in Call : /\ calls'[d].token = calls[d].token
                      /\ calls'[d].pc \in Refresh <=> calls[d].pc \in Refresh
                      /\ calls'[d].pc = "orphan" <=> calls[d].pc = "orphan"
                      /\ calls'[d].pc = "rotated" => calls[d].pc = "rotated"
  BY <1>1, <1>2 DEF Refresh, k
<1>4. Descent'
  BY <1>1 DEF Held, Descent, Holders
<1>5. Known'
  BY <1>1, <1>3 DEF Held, Known, Holders
<1>6. Unforked'
  <2>1. ASSUME NEW j \in DOMAIN rows, Sole(j)
        PROVE  UnforkedAt(j)'
    <3>1. UnforkedAt(j)
      BY <2>1 DEF Held, Unforked
    <3>2. Exchanging' = Exchanging \cup {c}
      BY <1>2 DEF Exchanging
    <3>3. ASSUME Related(k, j), NEW d \in Exchanging, Related(calls[d].token, j)
          PROVE  d = c
      <4>1. Related(calls[d].token, k) /\ Sole(k)
        BY <2>1, <3>3 DEF Related, Sole, Holders
      <4>2. d \in Call /\ calls[d].pc \in Refresh \cup {"orphan"}
        BY <3>3 DEF Exchanging, Refresh
      <4>3. calls[c].pc \in Refresh
        BY <1>1 DEF Refresh
      <4>4. QED BY <4>1, <4>2, <4>3, TwoAreTwoLoads DEF k
    <3>4. \A d, e \in Exchanging' :
            Related(calls[d].token, j) /\ Related(calls[e].token, j) => d = e
      <4>1. ASSUME NEW d \in Exchanging, NEW e \in Exchanging,
                   Related(calls[d].token, j), Related(calls[e].token, j)
            PROVE  d = e
        BY <3>1, <4>1 DEF UnforkedAt
      <4>2. QED BY <3>2, <3>3, <4>1 DEF k
    <3>5. ~rows[j].revoked => \A d \in Exchanging' : Related(calls[d].token, j) => calls[d].token = j
      <4>1. Related(k, j) /\ ~rows[j].revoked => k = j
        BY <1>1, <3>1 DEF UnforkedAt
      <4>2. QED BY <3>1, <3>2, <4>1 DEF UnforkedAt, k
    <3>6. Exchanging' \subseteq Call
      BY DEF Exchanging
    <3>7. \A d, e \in Exchanging' :
            Related(calls'[d].token, j) /\ Related(calls'[e].token, j) => d = e
      BY <1>3, <3>4, <3>6
    <3>8. ~rows[j].revoked => \A d \in Exchanging' : Related(calls'[d].token, j) => calls'[d].token = j
      BY <1>3, <3>5, <3>6
    <3>9. \A d \in Call : calls'[d].pc = "rotated" /\ calls'[d].token = j => ~rows[j].revoked
      BY <1>3, <3>1 DEF UnforkedAt
    <3>10. QED BY <1>1, <3>1, <3>7, <3>8, <3>9 DEF UnforkedAt, Related
  <2>2. QED BY <1>1, <2>1 DEF Unforked, Sole, Holders
<1>7. QED BY <1>4, <1>5, <1>6 DEF Held

LEMMA RotatedRows ==
    ASSUME TokenTypeOK, NEW k \in DOMAIN rows, Rotate(k)
    PROVE  /\ NewPair \notin DOMAIN rows /\ DOMAIN rows' = DOMAIN rows \cup {NewPair}
           /\ \A j \in DOMAIN rows : rows'[j].login = rows[j].login
           /\ \A j \in DOMAIN rows : j # k => rows'[j].revoked = rows[j].revoked
           /\ rows'[k].revoked
           /\ rows'[NewPair].login = rows[k].login /\ ~rows'[NewPair].revoked
<1> DEFINE old == [rows[k] EXCEPT !.revoked = TRUE]
           row == [login |-> rows[k].login, revoked |-> FALSE]
           before == [rows EXCEPT ![k] = old]
<1>1. /\ rows \in Seq(Row) /\ Len(rows) \in Nat /\ DOMAIN rows = 1..Len(rows) /\ rows[k] \in Row
      /\ k \in 1..Len(rows)
  BY RowNumbers
<1>2. old \in Row /\ row \in Row /\ old.login = rows[k].login /\ old.revoked
  BY <1>1 DEF Row
<1>3. before \in Seq(Row) /\ Len(before) = Len(rows)
      /\ \A j \in 1..Len(rows) : before[j] = IF j = k THEN old ELSE rows[j]
  BY <1>1, <1>2, ExceptSeq
<1>4. rows' = Append(before, row)
  BY <1>1 DEF Rotate
<1> HIDE DEF old, before
<1>5. /\ Len(rows') = Len(rows) + 1 /\ DOMAIN rows' = 1..(Len(rows) + 1)
      /\ \A j \in 1..Len(rows) : rows'[j] = before[j]
      /\ rows'[Len(rows) + 1] = row
  BY <1>1, <1>2, <1>3, <1>4, AppendProperties
<1>6. NewPair = Len(rows) + 1 /\ NewPair \notin DOMAIN rows /\ DOMAIN rows' = DOMAIN rows \cup {NewPair}
  BY <1>1, <1>5 DEF NewPair
<1>7. /\ \A j \in DOMAIN rows : j # k => rows'[j] = rows[j]
      /\ rows'[k] = old
  BY <1>1, <1>3, <1>5
<1>8. QED BY <1>1, <1>2, <1>5, <1>6, <1>7

LEMMA RotateRowHeld ==
    ASSUME IInv, Held, NEW c \in Call, RotateRow(c)
    PROVE  Held'
<1> DEFINE k == calls[c].token
<1>1. /\ calls[c].pc \in {"selected", "orphan"} /\ k \in DOMAIN rows /\ Rotate(k)
      /\ UNCHANGED <<storage, memory, refreshing, open, loads, holders>>
  BY DEF IInv, Paired, RotateRow, pageVars, boundVars, historyVars
<1>2. PICK n : n = NewPair
  OBVIOUS
<1>3. /\ n # 0 /\ n \notin DOMAIN rows /\ DOMAIN rows' = DOMAIN rows \cup {n}
      /\ \A j \in DOMAIN rows : rows'[j].login = rows[j].login
      /\ \A j \in DOMAIN rows : j # k => rows'[j].revoked = rows[j].revoked
      /\ rows'[k].revoked
      /\ rows'[n].login = rows[k].login /\ ~rows'[n].revoked
  <2>1. TokenTypeOK
    BY DEF IInv, TypeOK
  <2>2. n # 0
    BY <1>2, <2>1, RowNumbers DEF NewPair
  <2>3. QED BY <1>1, <1>2, <2>1, <2>2, RotatedRows
<1>4. /\ \A d \in Call : d # c => calls'[d] = calls[d]
      /\ calls[c].pc = "selected" => calls'[c].pc = "rotated" /\ calls'[c].token = n
      /\ calls[c].pc = "orphan" => calls'[c].pc = "free"
  <2>1. \A x \in Request : \A m : /\ [x EXCEPT !.pc = "rotated", !.token = m].pc = "rotated"
                                 /\ [x EXCEPT !.pc = "rotated", !.token = m].token = m
    BY DEF Request
  <2>2. calls \in [Call -> Request] /\ calls[c] \in Request
    BY DEF IInv, TypeOK
  <2>3. calls' = [calls EXCEPT ![c] = IF calls[c].pc = "orphan" THEN Free
                                      ELSE [calls[c] EXCEPT !.pc = "rotated", !.token = n]]
    BY <1>2, <2>2 DEF RotateRow
  <2>4. CASE calls[c].pc = "selected"
    <3>1. calls' = [calls EXCEPT ![c] = [calls[c] EXCEPT !.pc = "rotated", !.token = n]]
      BY <2>3, <2>4
    <3>2. QED BY <2>1, <2>2, <2>4, <3>1
  <2>5. CASE calls[c].pc = "orphan"
    BY <2>2, <2>3, <2>5 DEF Free
  <2>6. QED BY <1>1, <2>4, <2>5
<1> HIDE DEF k
<1>5. \A j \in DOMAIN rows : Holders(j)' = Holders(j)
  BY <1>1, <1>3 DEF Holders
<1>6. Holders(n)' = Holders(k)
  BY <1>1, <1>3 DEF Holders
<1>7. Descent'
  BY <1>1, <1>3, <1>5, <1>6 DEF Held, Descent
<1>8. Known'
  <2>1. \A s \in Tab : memory[s].refresh # 0 =>
          /\ open[s] /\ memory[s].refresh \in DOMAIN rows
          /\ <<s, loads[s]>> \in holders[rows'[memory[s].refresh].login]
    BY <1>3 DEF Held, Known, Holders
  <2>2. ASSUME NEW d \in Call, calls'[d].pc \in Refresh
        PROVE  /\ calls'[d].token \in DOMAIN rows'
               /\ <<TabOf[d], loads[TabOf[d]]>> \in holders[rows'[calls'[d].token].login]
    <3>1. CASE d = c
      <4>1. calls[c].pc = "selected" /\ calls'[c].token = n
        BY <1>1, <1>4, <2>2, <3>1 DEF Refresh
      <4>2. <<TabOf[c], loads[TabOf[c]]>> \in holders[rows[k].login]
        BY <4>1 DEF Held, Known, Holders, Refresh, k
      <4>3. QED BY <1>3, <3>1, <4>1, <4>2
    <3>2. CASE d # c
      BY <1>3, <1>4, <2>2, <3>2 DEF Held, Known, Holders
    <3>3. QED BY <3>1, <3>2
  <2>3. ASSUME NEW d \in Call, calls'[d].pc = "orphan"
        PROVE  \E m \in Nat : /\ <<TabOf[d], m>> \in holders[rows'[calls'[d].token].login]
                              /\ open[TabOf[d]] => m # loads[TabOf[d]]
    <3>1. calls'[d] = calls[d] /\ calls[d].token \in DOMAIN rows
      BY <1>1, <1>4, <2>3 DEF IInv, Paired
    <3>2. QED BY <1>3, <2>3, <3>1 DEF Held, Known, Holders
  <2>4. storage.refresh # 0 => storage.refresh \in DOMAIN rows
    BY DEF Held, Known
  <2>5. QED BY <1>1, <1>3, <2>1, <2>2, <2>3, <2>4 DEF Known, Holders
<1>9. Unforked'
  <2>1. c \in Exchanging /\ Exchanging' \subseteq Exchanging
        /\ \A d \in Exchanging : d # c => calls'[d] = calls[d] /\ calls[d].token \in DOMAIN rows
    BY <1>1, <1>4 DEF Exchanging, IInv, Paired
  <2>2. \A d \in Exchanging : calls[d].token \in DOMAIN rows
    BY DEF Exchanging, IInv, Paired
  <2>3. c \in Exchanging' => calls'[c].pc = "rotated" /\ calls'[c].token = n
    BY <1>1, <1>4 DEF Exchanging
  <2>4. ASSUME NEW d \in Exchanging'
        PROVE  /\ calls'[d].token \in DOMAIN rows'
               /\ rows'[calls'[d].token].login = rows[calls[d].token].login
    <3>1. CASE d = c
      BY <1>3, <2>3, <2>4, <3>1 DEF k
    <3>2. CASE d # c
      BY <1>3, <2>1, <2>4, <3>2
    <3>3. QED BY <3>1, <3>2
  <2>5. ASSUME NEW j \in DOMAIN rows, Sole(j)
        PROVE  /\ \A d, e \in Exchanging' :
                    rows'[calls'[d].token].login = rows[j].login /\ rows'[calls'[e].token].login = rows[j].login
                        => d = e
               /\ Related(k, j) => \A d \in Exchanging : Related(calls[d].token, j) => d = c
               /\ Related(k, j) /\ ~rows[j].revoked => j = k
               /\ UnforkedAt(j)
    <3>1. UnforkedAt(j)
      BY <2>5 DEF Held, Unforked
    <3>2. Related(k, j) => \A d \in Exchanging : Related(calls[d].token, j) => d = c
      BY <2>1, <3>1 DEF UnforkedAt, k
    <3>3. Related(k, j) /\ ~rows[j].revoked => j = k
      BY <2>1, <3>1 DEF UnforkedAt, k
    <3>4. ASSUME NEW d \in Exchanging', NEW e \in Exchanging',
                 rows'[calls'[d].token].login = rows[j].login,
                 rows'[calls'[e].token].login = rows[j].login
          PROVE  d = e
      <4>1. d \in Exchanging /\ e \in Exchanging
        BY <2>1
      <4>2. Related(calls[d].token, j) /\ Related(calls[e].token, j)
        BY <2>4, <3>4 DEF Related
      <4>3. QED BY <3>1, <4>1, <4>2 DEF UnforkedAt
    <3>5. QED BY <3>1, <3>2, <3>3, <3>4
  (* Nobody who is not refreshing has the row that is exchanged.              *)
  <2>6. ASSUME Sole(k), NEW s \in Tab, memory[s].refresh = k
        PROVE  refreshing[s]
    <3>1. open[s] /\ <<s, loads[s]>> \in Holders(k) /\ k # 0
      BY <1>1, <2>6, RowNumbers DEF Held, Known, IInv, TypeOK
    <3>2. CASE calls[c].pc = "selected"
      <4>1. <<TabOf[c], loads[TabOf[c]]>> \in Holders(k) /\ refreshing[TabOf[c]]
        BY <3>2, TheLeader DEF Held, Known, IInv, Refresh, k
      <4>2. <<TabOf[c], loads[TabOf[c]]>> = <<s, loads[s]>>
        BY <2>6, <3>1, <4>1 DEF Sole
      <4>3. QED BY <4>1, <4>2
    <3>3. CASE calls[c].pc = "orphan"
      <4>1. PICK m \in Nat : /\ <<TabOf[c], m>> \in Holders(k)
                             /\ open[TabOf[c]] => m # loads[TabOf[c]]
        BY <3>3 DEF Held, Known, k
      <4>2. <<TabOf[c], m>> = <<s, loads[s]>>
        BY <2>6, <3>1, <4>1 DEF Sole
      <4>3. QED BY <3>1, <4>1, <4>2
    <3>4. QED BY <1>1, <3>2, <3>3
  <2>7. ASSUME NEW j \in DOMAIN rows, Sole(j)
        PROVE  UnforkedAt(j)'
    <3>1. \A d, e \in Exchanging' : Related(calls[d].token, j)' /\ Related(calls[e].token, j)' => d = e
      BY <1>3, <2>5, <2>7 DEF Related
    <3>2. ASSUME ~rows'[j].revoked
          PROVE  ~rows[j].revoked /\ j # k /\ ~Related(k, j)
      BY <1>3, <2>5, <2>7, <3>2
    <3>3. ASSUME ~rows'[j].revoked, NEW i \in DOMAIN rows', Related(i, j)', ~rows'[i].revoked
          PROVE  i = j
      <4>1. i # n
        BY <1>3, <3>2, <3>3 DEF Related
      <4>2. i \in DOMAIN rows /\ Related(i, j) /\ ~rows[i].revoked
        BY <1>3, <3>3, <4>1 DEF Related
      <4>3. QED BY <2>5, <2>7, <3>2, <3>3, <4>2 DEF UnforkedAt
    <3>4. ASSUME ~rows'[j].revoked, NEW d \in Exchanging', Related(calls[d].token, j)'
          PROVE  calls'[d].token = j
      <4>1. Related(calls[d].token, j) /\ d \in Exchanging
        BY <1>3, <2>1, <2>4, <3>4 DEF Related
      <4>2. d # c
        BY <3>2, <3>4, <4>1 DEF k
      <4>3. QED BY <2>1, <2>5, <2>7, <3>2, <3>4, <4>1, <4>2 DEF UnforkedAt
    <3>5. ASSUME NEW d \in Call, calls'[d].pc = "rotated", calls'[d].token = j
          PROVE  ~rows'[j].revoked
      <4>1. d # c
        BY <1>1, <1>3, <1>4, <3>5
      <4>2. calls[d].pc = "rotated" /\ calls[d].token = j /\ d \in Exchanging
        BY <1>4, <3>5, <4>1 DEF Exchanging
      <4>3. ~rows[j].revoked
        BY <2>5, <2>7, <4>2 DEF UnforkedAt
      <4>4. j # k
        BY <2>5, <2>7, <4>1, <4>2 DEF Related
      <4>5. QED BY <1>3, <4>3, <4>4
    <3>6. ASSUME NEW s \in Tab, memory[s].refresh = j, ~refreshing[s]
          PROVE  ~rows'[j].revoked
      <4>1. ~rows[j].revoked
        BY <2>5, <2>7, <3>6 DEF UnforkedAt
      <4>2. j # k
        BY <2>6, <2>7, <3>6
      <4>3. QED BY <1>3, <4>1, <4>2
    <3>7. QED BY <1>1, <3>1, <3>3, <3>4, <3>5, <3>6 DEF UnforkedAt
  <2>8. ASSUME Sole(k)
        PROVE  UnforkedAt(n)'
    <3>1. \A d \in Exchanging' : rows'[calls'[d].token].login = rows[k].login => d = c
      BY <1>1, <2>1, <2>4, <2>5, <2>8 DEF Related
    <3>2. ASSUME NEW i \in DOMAIN rows', Related(i, n)', ~rows'[i].revoked
          PROVE  i = n
      <4>1. SUFFICES ASSUME i # n PROVE FALSE
        OBVIOUS
      <4>2. i \in DOMAIN rows /\ i # k /\ ~rows[i].revoked /\ Related(k, i)
        BY <1>3, <3>2, <4>1 DEF Related
      <4>3. Sole(i)
        BY <2>8, <4>2 DEF Sole, Holders, Related
      <4>4. QED BY <2>5, <4>2, <4>3
    <3>3. \A s \in Tab : memory[s].refresh # n
      BY <1>3 DEF Held, Known
    <3>4. QED BY <1>1, <1>3, <2>3, <3>1, <3>2, <3>3 DEF UnforkedAt, Related
  <2>9. ASSUME NEW j \in DOMAIN rows', Sole(j)'
        PROVE  UnforkedAt(j)'
    <3>1. CASE j = n
      <4>1. Sole(k)
        BY <1>6, <2>9, <3>1 DEF Sole
      <4>2. QED BY <2>8, <3>1, <4>1
    <3>2. CASE j # n
      <4>1. j \in DOMAIN rows /\ Sole(j)
        BY <1>3, <1>5, <2>9, <3>2 DEF Sole
      <4>2. QED BY <2>7, <4>1
    <3>3. QED BY <3>1, <3>2
  <2>10. QED BY <2>9 DEF Unforked
<1>10. QED BY <1>7, <1>8, <1>9 DEF Held

LEMMA RefreshedHeld ==
    ASSUME IInv, Held, NEW c \in Call, Refreshed(c)
    PROVE  Held'
<1> DEFINE t == TabOf[c]
           k == calls[c].token
           pair == [access |-> k, refresh |-> k]
           C == Queue(t) \cup {c}
<1>1. /\ t \in Tab /\ C \subseteq Call /\ k \in DOMAIN rows /\ k # 0
      /\ open[t] /\ <<t, loads[t]>> \in Holders(k)
  <2>1. calls[c].pc = "rotated"
    BY DEF Refreshed
  <2>2. t \in Tab /\ C \subseteq Call
    BY Constants DEF Queue
  <2>3. k \in DOMAIN rows /\ open[t]
    BY <2>1 DEF IInv, Paired, Shut
  <2>4. <<t, loads[t]>> \in Holders(k)
    BY <2>1 DEF Held, Known, Refresh
  <2>5. QED BY <2>2, <2>3, <2>4, RowNumbers DEF IInv, TypeOK
<1>2. /\ calls[c].pc = "rotated"
      /\ memory' = [memory EXCEPT ![t] = pair] /\ storage' = pair
      /\ refreshing' = [refreshing EXCEPT ![t] = FALSE]
      /\ calls' = [ d \in Call |-> IF d \in C THEN SentAgain(d, k) ELSE calls[d] ]
      /\ UNCHANGED <<rows, open, loads, holders>>
  BY DEF Refreshed, SetAuthTokens, tokenVars, boundVars, historyVars
<1>3. pair.refresh = k
  OBVIOUS
<1> HIDE DEF pair
<1>4. /\ storage'.refresh = k /\ memory'[t].refresh = k
      /\ \A s \in Tab : s # t => memory'[s] = memory[s] /\ refreshing'[s] = refreshing[s]
  BY <1>1, <1>2, <1>3 DEF IInv, TypeOK
<1>5. /\ \A d \in Call : calls'[d].pc = "sent" \/ calls'[d] = calls[d]
      /\ calls'[c].pc = "sent"
  BY <1>1, <1>2, Requests DEF IInv
<1>6. /\ \A d \in Call : calls'[d].pc \in Refresh \cup {"orphan"} => calls'[d] = calls[d]
      /\ Exchanging' \subseteq Exchanging
      /\ \A d \in Exchanging' : calls'[d] = calls[d]
  BY <1>5 DEF Exchanging, Refresh
<1> HIDE DEF k
<1>7. Descent'
  BY <1>2 DEF Held, Descent, Holders
<1>8. Known'
  <2>1. ASSUME NEW s \in Tab, memory'[s].refresh # 0
        PROVE  /\ open[s] /\ memory'[s].refresh \in DOMAIN rows
               /\ <<s, loads[s]>> \in holders[rows[memory'[s].refresh].login]
    <3>1. CASE s = t
      BY <1>1, <1>4, <3>1 DEF Holders
    <3>2. CASE s # t
      BY <1>4, <2>1, <3>2 DEF Held, Known, Holders
    <3>3. QED BY <3>1, <3>2
  <2>2. \A d \in Call : calls'[d].pc \in Refresh =>
          /\ calls'[d].token \in DOMAIN rows
          /\ <<TabOf[d], loads[TabOf[d]]>> \in holders[rows[calls'[d].token].login]
    BY <1>6 DEF Held, Known, Holders
  <2>3. \A d \in Call : calls'[d].pc = "orphan" =>
          \E n \in Nat : /\ <<TabOf[d], n>> \in holders[rows[calls'[d].token].login]
                         /\ open[TabOf[d]] => n # loads[TabOf[d]]
    BY <1>6 DEF Held, Known, Holders
  <2>4. QED BY <1>1, <1>2, <1>4, <2>1, <2>2, <2>3 DEF Known, Holders
<1>9. Unforked'
  <2>1. ASSUME NEW j \in DOMAIN rows, Sole(j)
        PROVE  UnforkedAt(j)'
    <3>1. UnforkedAt(j)
      BY <2>1 DEF Held, Unforked
    <3>2. ASSUME NEW s \in Tab, memory'[s].refresh = j, ~refreshing'[s]
          PROVE  ~rows[j].revoked
      <4>1. CASE s = t
        BY <1>2, <1>4, <3>1, <3>2, <4>1 DEF UnforkedAt, k
      <4>2. CASE s # t
        BY <1>4, <3>1, <3>2, <4>2 DEF UnforkedAt
      <4>3. QED BY <4>1, <4>2
    <3>3. \A d \in Call : calls'[d].pc = "rotated" => calls'[d] = calls[d]
      BY <1>5
    <3>4. /\ \A d, e \in Exchanging' : Related(calls'[d].token, j) /\ Related(calls'[e].token, j) => d = e
          /\ ~rows[j].revoked => \A d \in Exchanging' : Related(calls'[d].token, j) => calls'[d].token = j
      BY <1>6, <3>1 DEF UnforkedAt
    <3>5. QED BY <1>2, <3>1, <3>2, <3>3, <3>4 DEF UnforkedAt, Related
  <2>2. QED BY <1>2, <2>1 DEF Unforked, Sole, Holders
<1>10. QED BY <1>7, <1>8, <1>9 DEF Held

(* A pair of a sign-in of its own.                                            *)
LEMMA SignedInRows ==
    ASSUME TokenTypeOK, IssueForLogin
    PROVE  /\ NewPair \notin DOMAIN rows /\ DOMAIN rows' = DOMAIN rows \cup {NewPair}
           /\ \A j \in DOMAIN rows : rows'[j] = rows[j]
           /\ rows'[NewPair].login = NewPair /\ ~rows'[NewPair].revoked
<1> DEFINE row == [login |-> NewPair, revoked |-> FALSE]
<1>1. rows \in Seq(Row) /\ Len(rows) \in Nat /\ DOMAIN rows = 1..Len(rows)
  BY RowNumbers
<1>2. row \in Row
  BY <1>1 DEF Row, NewPair
<1>3. rows' = Append(rows, row)
  BY DEF IssueForLogin
<1> HIDE DEF row
<1>4. /\ DOMAIN rows' = 1..(Len(rows) + 1)
      /\ \A j \in 1..Len(rows) : rows'[j] = rows[j]
      /\ rows'[Len(rows) + 1] = row
  BY <1>1, <1>2, <1>3, AppendProperties
<1>5. NewPair = Len(rows) + 1
  BY DEF NewPair
<1>6. QED BY <1>1, <1>4, <1>5 DEF row

LEMMA LoginOkHeld ==
    ASSUME IInv, Held, NEW c \in Call, LoginOk(c)
    PROVE  Held'
<1> DEFINE t == TabOf[c]
           load == <<t, loads[t]>>
<1>1. PICK n : n = NewPair
  OBVIOUS
<1>2. /\ n # 0 /\ n \in 1..MaxPairs /\ n \notin DOMAIN rows /\ DOMAIN rows' = DOMAIN rows \cup {n}
      /\ \A j \in DOMAIN rows : rows'[j] = rows[j] /\ rows[j].login \in DOMAIN rows
      /\ rows'[n].login = n /\ ~rows'[n].revoked
  <2>1. TokenTypeOK /\ IssueForLogin
    BY DEF IInv, TypeOK, LoginOk
  <2>2. n # 0 /\ n \in 1..MaxPairs
    BY <1>1, <2>1, Issued
  <2>3. QED BY <1>1, <2>1, <2>2, SignedInRows DEF Held, Descent
<1>3. /\ t \in Tab /\ open[t] /\ loads[t] \in Nat /\ calls[c].pc = "sent"
      /\ calls' = [calls EXCEPT ![c] = Free]
      /\ memory' = [memory EXCEPT ![t] = [access |-> n, refresh |-> n]]
      /\ storage' = [access |-> n, refresh |-> n]
      /\ holders' = [holders EXCEPT ![n] = {load}]
      /\ UNCHANGED <<refreshing, open, loads>>
  BY <1>1, Constants DEF LoginOk, SetAuthTokens, NewTokens, IInv, TypeOK, Shut, boundVars
<1>4. /\ storage'.refresh = n /\ memory'[t].refresh = n
      /\ \A s \in Tab : s # t => memory'[s] = memory[s]
  BY <1>3 DEF IInv, TypeOK
<1>5. calls'[c].pc = "free" /\ \A d \in Call : d # c => calls'[d] = calls[d]
  BY <1>3 DEF IInv, TypeOK, Free
<1>6. holders'[n] = {load} /\ \A l \in 1..MaxPairs : l # n => holders'[l] = holders[l]
  BY <1>2, <1>3 DEF IInv, TypeOK
<1>7. \A j \in DOMAIN rows : Holders(j)' = Holders(j)
  BY <1>2, <1>6, RowNumbers DEF Holders, IInv, TypeOK
<1>8. /\ \A d \in Call : calls'[d].pc \in Refresh \cup {"orphan"} => calls'[d] = calls[d]
      /\ Exchanging' \subseteq Exchanging
      /\ \A d \in Exchanging' : calls'[d] = calls[d] /\ calls[d].token \in DOMAIN rows
      /\ \A d \in Call : calls'[d].pc = "rotated" => calls'[d] = calls[d] /\ calls[d].token \in DOMAIN rows
  BY <1>5 DEF Exchanging, Refresh, IInv, Paired
<1>9. Descent'
  <2>1. IsFiniteSet({load})
    BY FS_Singleton
  <2>2. \A l \in 1..MaxPairs : IsFiniteSet(holders'[l]) /\ \A h \in holders'[l] : h[2] <= loads[h[1]]
    BY <1>3, <1>6, <2>1 DEF Held, Descent
  <2>3. \A j \in DOMAIN rows : rows'[j].login \in DOMAIN rows' /\ Holders(j)' # {}
    BY <1>2, <1>7 DEF Held, Descent
  <2>4. Holders(n)' # {}
    BY <1>2, <1>6 DEF Holders
  <2>5. QED BY <1>2, <1>3, <2>2, <2>3, <2>4 DEF Descent
<1>10. Known'
  <2>1. ASSUME NEW s \in Tab, memory'[s].refresh # 0
        PROVE  /\ open[s] /\ memory'[s].refresh \in DOMAIN rows'
               /\ <<s, loads[s]>> \in holders'[rows'[memory'[s].refresh].login]
    <3>1. CASE s = t
      BY <1>2, <1>3, <1>4, <1>6, <3>1
    <3>2. CASE s # t
      BY <1>2, <1>4, <1>7, <2>1, <3>2 DEF Held, Known, Holders
    <3>3. QED BY <3>1, <3>2
  <2>2. \A d \in Call : calls'[d].pc \in Refresh =>
          /\ calls'[d].token \in DOMAIN rows'
          /\ <<TabOf[d], loads[TabOf[d]]>> \in holders'[rows'[calls'[d].token].login]
    <3>1. ASSUME NEW d \in Call, calls'[d].pc \in Refresh
          PROVE  /\ calls'[d] = calls[d] /\ calls[d].token \in DOMAIN rows
                 /\ <<TabOf[d], loads[TabOf[d]]>> \in Holders(calls[d].token)
      BY <1>8, <3>1 DEF Held, Known
    <3>2. QED BY <1>2, <1>7, <3>1 DEF Holders
  <2>3. ASSUME NEW d \in Call, calls'[d].pc = "orphan"
        PROVE  \E m \in Nat : /\ <<TabOf[d], m>> \in holders'[rows'[calls'[d].token].login]
                              /\ open[TabOf[d]] => m # loads[TabOf[d]]
    <3>1. calls'[d] = calls[d] /\ calls[d].token \in DOMAIN rows
      BY <1>8, <2>3 DEF IInv, Paired
    <3>2. PICK m \in Nat : /\ <<TabOf[d], m>> \in Holders(calls[d].token)
                           /\ open[TabOf[d]] => m # loads[TabOf[d]]
      BY <2>3, <3>1 DEF Held, Known
    <3>3. <<TabOf[d], m>> \in holders'[rows'[calls'[d].token].login]
      BY <1>2, <1>7, <3>1, <3>2 DEF Holders
    <3>4. QED BY <3>2, <3>3
  <2>4. QED BY <1>2, <1>3, <1>4, <2>1, <2>2, <2>3 DEF Known, Holders
<1>11. Unforked'
  <2>1. ASSUME NEW j \in DOMAIN rows, Sole(j)'
        PROVE  UnforkedAt(j)'
    <3>1. UnforkedAt(j) /\ rows'[j] = rows[j] /\ rows[j].login # n /\ j # n
      BY <1>2, <1>7, <2>1 DEF Held, Unforked, Sole
    <3>2. /\ \A d, e \in Exchanging' : Related(calls[d].token, j)' /\ Related(calls[e].token, j)' => d = e
          /\ ~rows'[j].revoked =>
               \A d \in Exchanging' : Related(calls[d].token, j)' => calls'[d].token = j
      BY <1>2, <1>8, <3>1 DEF UnforkedAt, Related
    <3>3. ~rows'[j].revoked => \A i \in DOMAIN rows' : Related(i, j)' /\ ~rows'[i].revoked => i = j
      BY <1>2, <3>1 DEF UnforkedAt, Related
    <3>4. \A d \in Call : calls'[d].pc = "rotated" /\ calls'[d].token = j => ~rows'[j].revoked
      BY <1>8, <3>1 DEF UnforkedAt
    <3>5. \A s \in Tab : memory'[s].refresh = j /\ ~refreshing'[s] => ~rows'[j].revoked
      BY <1>3, <1>4, <3>1 DEF UnforkedAt
    <3>6. QED BY <3>2, <3>3, <3>4, <3>5 DEF UnforkedAt
  <2>2. UnforkedAt(n)'
    <3>1. \A d \in Exchanging' : ~Related(calls[d].token, n)'
      BY <1>2, <1>8 DEF Related
    <3>2. \A i \in DOMAIN rows' : Related(i, n)' => i = n
      BY <1>2 DEF Related
    <3>3. QED BY <1>2, <3>1, <3>2 DEF UnforkedAt
  <2>3. QED BY <1>2, <2>1, <2>2 DEF Unforked
<1>12. QED BY <1>9, <1>10, <1>11 DEF Held

LEMMA OpenHeld ==
    ASSUME IInv, Held, NEW t \in Tab, Open(t)
    PROVE  Held'
<1> DEFINE pair == IF Restored THEN storage ELSE NoPair
           load == <<t, loads[t] + 1>>
           Shared(l) == Restored /\ l = rows[storage.access].login
<1>1. /\ ~open[t] /\ loads \in [Tab -> Nat]
      /\ memory' = [memory EXCEPT ![t] = pair] /\ storage' = pair
      /\ loads' = [loads EXCEPT ![t] = @ + 1]
      /\ open' = [open EXCEPT ![t] = TRUE]
      /\ holders' = [l \in 1..MaxPairs |-> IF Shared(l) THEN holders[l] \cup {load} ELSE holders[l]]
      /\ UNCHANGED <<rows, refreshing, calls>>
  BY DEF Open, SetAuthTokens, IInv, TypeOK, tokenVars
<1>2. /\ ~Restored => pair.refresh = 0
      /\ Restored => /\ pair.refresh \in DOMAIN rows /\ pair.refresh = storage.refresh
                     /\ storage.access = pair.refresh
  BY DEF NoPair, Restored, Accepted, IInv, Paired
<1> HIDE DEF pair
<1>3. /\ memory'[t].refresh = pair.refresh /\ storage'.refresh = pair.refresh
      /\ \A s \in Tab : s # t => memory'[s] = memory[s] /\ open'[s] = open[s] /\ loads'[s] = loads[s]
      /\ open'[t] /\ loads'[t] = loads[t] + 1
  BY <1>1 DEF IInv, TypeOK
<1>4. /\ \A l \in 1..MaxPairs : holders[l] \subseteq holders'[l]
      /\ \A l \in 1..MaxPairs : ~Shared(l) => holders'[l] = holders[l]
      /\ \A l \in 1..MaxPairs : Shared(l) => holders'[l] = holders[l] \cup {load}
  BY <1>1
<1>5. \A l \in 1..MaxPairs : \A h \in holders[l] : h \in Tab \X Nat /\ h[2] <= loads[h[1]]
  BY DEF Held, Descent, IInv, TypeOK
<1>6. \A l \in 1..MaxPairs : load \notin holders[l]
  BY <1>1, <1>5
<1>7. \A j \in DOMAIN rows :
         /\ rows[j].login \in 1..MaxPairs /\ rows[j].login \in DOMAIN rows
         /\ Holders(j) \subseteq Holders(j)' /\ Holders(j) # {}
         /\ ~Shared(rows[j].login) => Holders(j)' = Holders(j)
         /\ Shared(rows[j].login) => load \in Holders(j)'
  BY <1>1, <1>4, RowNumbers DEF Held, Descent, Holders, IInv, TypeOK
<1> HIDE DEF Shared
<1>8. Descent'
  <2>1. \A l \in 1..MaxPairs : IsFiniteSet(holders'[l])
    <3>1. ASSUME NEW l \in 1..MaxPairs
          PROVE  IsFiniteSet(holders'[l])
      <4>1. IsFiniteSet(holders[l])
        BY DEF Held, Descent
      <4>2. IsFiniteSet(holders[l] \cup {load})
        BY <4>1, FS_AddElement
      <4>3. holders'[l] = holders[l] \/ holders'[l] = holders[l] \cup {load}
        BY <1>4
      <4>4. QED BY <4>1, <4>2, <4>3
    <3>2. QED BY <3>1
  <2>2. load[1] = t /\ load[2] = loads[t] + 1
    OBVIOUS
  <2>3. ASSUME NEW l \in 1..MaxPairs, NEW h \in holders'[l]
        PROVE  h[2] <= loads'[h[1]]
    <3>1. CASE h \in holders[l]
      <4>1. h[1] \in Tab /\ h[2] \in Nat /\ h[2] <= loads[h[1]]
        BY <1>5, <3>1
      <4>2. loads'[h[1]] = loads[h[1]] \/ loads'[h[1]] = loads[h[1]] + 1
        BY <1>3, <4>1
      <4>3. QED BY <1>1, <4>1, <4>2
    <3>2. CASE h = load
      BY <1>1, <1>3, <2>2, <3>2
    <3>3. QED BY <1>4, <2>3, <3>1, <3>2
  <2>4. QED BY <1>1, <1>7, <2>1, <2>3 DEF Descent
<1>9. Known'
  <2>1. ASSUME NEW s \in Tab, memory'[s].refresh # 0
        PROVE  /\ open'[s] /\ memory'[s].refresh \in DOMAIN rows
               /\ <<s, loads'[s]>> \in Holders(memory[s].refresh)'
    <3>1. CASE s = t
      <4>1. Restored /\ pair.refresh \in DOMAIN rows /\ storage.access = pair.refresh
        BY <1>2, <1>3, <2>1, <3>1
      <4>2. Shared(rows[pair.refresh].login)
        BY <4>1 DEF Shared
      <4>3. load \in holders'[rows[pair.refresh].login]
        BY <1>4, <1>7, <4>1, <4>2
      <4>4. QED BY <1>1, <1>3, <3>1, <4>1, <4>3 DEF Holders
    <3>2. CASE s # t
      <4>1. memory'[s] = memory[s] /\ open'[s] = open[s] /\ loads'[s] = loads[s]
        BY <1>3, <3>2
      <4>2. /\ open[s] /\ memory[s].refresh \in DOMAIN rows
            /\ <<s, loads[s]>> \in Holders(memory[s].refresh)
        BY <2>1, <4>1 DEF Held, Known
      <4>3. <<s, loads[s]>> \in holders'[rows[memory[s].refresh].login]
        BY <1>1, <1>7, <4>2 DEF Holders
      <4>4. QED BY <1>1, <4>1, <4>2, <4>3 DEF Holders
    <3>3. QED BY <3>1, <3>2
  <2>2. ASSUME NEW d \in Call, calls[d].pc \in Refresh
        PROVE  /\ calls[d].token \in DOMAIN rows
               /\ <<TabOf[d], loads'[TabOf[d]]>> \in Holders(calls[d].token)'
    <3>1. TabOf[d] \in Tab /\ TabOf[d] # t
      BY <1>1, <2>2, Constants DEF IInv, Shut, Refresh
    <3>2. calls[d].token \in DOMAIN rows /\ <<TabOf[d], loads[TabOf[d]]>> \in Holders(calls[d].token)
      BY <2>2 DEF Held, Known
    <3>3. QED BY <1>1, <1>3, <1>7, <3>1, <3>2 DEF Holders
  <2>3. ASSUME NEW d \in Call, calls[d].pc = "orphan"
        PROVE  \E n \in Nat : /\ <<TabOf[d], n>> \in Holders(calls[d].token)'
                              /\ open'[TabOf[d]] => n # loads'[TabOf[d]]
    <3>1. PICK n \in Nat : /\ <<TabOf[d], n>> \in Holders(calls[d].token)
                           /\ open[TabOf[d]] => n # loads[TabOf[d]]
      BY <2>3 DEF Held, Known
    <3>2. calls[d].token \in DOMAIN rows /\ TabOf[d] \in Tab
      BY <2>3, Constants DEF IInv, Paired
    <3>3. <<TabOf[d], n>> \in holders'[rows[calls[d].token].login]
      BY <1>1, <1>7, <3>1, <3>2 DEF Holders
    <3>4. TabOf[d] = t => n <= loads[t]
      <4>1. \A h \in Holders(calls[d].token) : h[2] <= loads[h[1]]
        BY <1>5, <1>7, <3>2 DEF Holders
      <4>2. <<TabOf[d], n>>[1] = TabOf[d] /\ <<TabOf[d], n>>[2] = n
        OBVIOUS
      <4>3. n <= loads[TabOf[d]]
        BY <3>1, <4>1, <4>2
      <4>4. QED BY <4>3
    <3>5. open'[TabOf[d]] => n # loads'[TabOf[d]]
      BY <1>1, <1>3, <3>1, <3>2, <3>4
    <3>6. QED BY <1>1, <3>3, <3>5 DEF Holders
  <2>4. storage'.refresh # 0 => storage'.refresh \in DOMAIN rows
    BY <1>2, <1>3
  <2>5. QED BY <1>1, <2>1, <2>2, <2>3, <2>4 DEF Known
<1>10. Unforked'
  <2>1. ASSUME NEW j \in DOMAIN rows, Sole(j)'
        PROVE  UnforkedAt(j)'
    <3>1. ~Shared(rows[j].login)
      <4>1. SUFFICES ASSUME Shared(rows[j].login) PROVE FALSE
        OBVIOUS
      <4>2. load \in Holders(j)' /\ load \notin Holders(j)
        BY <1>6, <1>7, <4>1 DEF Holders
      <4>3. \E h \in Holders(j) : h \in Holders(j)'
        BY <1>7
      <4>4. QED BY <2>1, <4>2, <4>3 DEF Sole
    <3>2. UnforkedAt(j)
      BY <1>7, <2>1, <3>1 DEF Held, Unforked, Sole
    <3>3. memory'[t].refresh # j
      <4>1. j # 0
        BY RowNumbers DEF IInv, TypeOK
      <4>2. QED BY <1>2, <1>3, <3>1, <4>1 DEF Shared
    <3>4. \A s \in Tab : memory'[s].refresh = j /\ ~refreshing[s] => ~rows[j].revoked
      BY <1>3, <3>2, <3>3 DEF UnforkedAt
    <3>5. Exchanging' = Exchanging
      BY <1>1 DEF Exchanging
    <3>6. QED BY <1>1, <3>2, <3>4, <3>5 DEF UnforkedAt, Related
  <2>2. QED BY <1>1, <2>1 DEF Unforked
<1>11. QED BY <1>8, <1>9, <1>10 DEF Held

LEMMA NextHeld ==
    ASSUME IInv, Held, [Next]_vars
    PROVE  Held'
<1>1. CASE UNCHANGED vars
  <2>1. UNCHANGED <<rows, storage, memory, refreshing, open, calls, loads, holders>>
    BY <1>1 DEF vars, tokenVars, pageVars, boundVars, historyVars
  <2>2. QED BY <2>1, NothingGained
<1>2. ASSUME NEW c \in Call,
             \/ SendApi(c) \/ HandleSubmit(c) \/ Logout(c) \/ Answer(c) \/ NoAnswer(c)
             \/ SelectRow(c) \/ RotateRow(c)
      PROVE  Held'
  BY <1>2, RequestsHeld, AnswersHeld, ForcedHeld, LeadHeld, SelectRowHeld, RotateRowHeld,
     RefreshedHeld, LoginOkHeld DEF Answer
<1>3. ASSUME NEW t \in Tab, Close(t) \/ Open(t)
      PROVE  Held'
  BY <1>3, CloseHeld, OpenHeld
<1>4. ASSUME NEW k \in InUse \ expired, TokenExpires(k)
      PROVE  Held'
  BY <1>4, TokenExpiresHeld
<1>5. QED BY <1>1, <1>2, <1>3, <1>4 DEF Next

LEMMA SessionHeld == Spec => [](IInv /\ Held)
<1>1. Init => IInv /\ Held
  BY InitOK, HeldAtFirst
<1>2. IInv /\ Held /\ [Next]_vars => (IInv /\ Held)'
  BY NextOK, NextHeld
<1>3. QED BY <1>1, <1>2, PTL DEF Spec

(* More than one holder, and more than one page load, are the same.           *)
LEMMA NotSole ==
    ASSUME IInv, Held, NEW k \in DOMAIN rows, ~Sole(k)
    PROVE  Cardinality(Holders(k)) > 1
<1>1. PICK g \in Holders(k), h \in Holders(k) : g # h
  BY DEF Sole
<1>2. IsFiniteSet(Holders(k)) /\ {g, h} \subseteq Holders(k)
  BY RowNumbers DEF Held, Descent, Holders, IInv, TypeOK
<1>3. Cardinality({g, h}) = 2 /\ IsFiniteSet({g, h})
  <2>1. Cardinality({g}) = 1 /\ IsFiniteSet({g})
    BY FS_Singleton
  <2>2. {g, h} = {g} \cup {h} /\ h \notin {g}
    BY <1>1
  <2>3. Cardinality({g} \cup {h}) = 1 + 1 /\ IsFiniteSet({g} \cup {h})
    BY <2>1, <2>2, FS_AddElement
  <2>4. QED BY <2>2, <2>3
<1>4. Cardinality({g, h}) <= Cardinality(Holders(k)) /\ Cardinality(Holders(k)) \in Nat
  BY <1>2, FS_Subset, FS_CardinalityType
<1>5. QED BY <1>3, <1>4

(* Two good refresh tokens of one sign-in exist only where two page loads got  *)
(* tokens of it: POST /auth/refresh does not lock the row (auth_routes.py:117), *)
(* but a page that is alone with a sign-in never exchanges it twice at a time, *)
(* whatever it loses, closes or signs into meanwhile.                        *)
THEOREM ForksAreBetweenPages == Spec => []ForksNeedTwoPages
<1>1. ASSUME IInv, Held PROVE ForksNeedTwoPages
  <2>1. SUFFICES ASSUME NEW login \in DOMAIN rows, Cardinality(Live(login)) > 1
                 PROVE  Cardinality(holders[login]) > 1
    BY DEF ForksNeedTwoPages
  <2>2. PICK k \in Live(login) : TRUE
    <3>1. Cardinality({}) = 0
      BY FS_EmptySet
    <3>2. Live(login) # {}
      BY <2>1, <3>1
    <3>3. QED BY <3>2
  <2>3. k \in DOMAIN rows /\ rows[k].login = login /\ ~rows[k].revoked
    BY <2>2 DEF Live
  <2>4. ~Sole(k)
    <3>1. SUFFICES ASSUME Sole(k) PROVE FALSE
      OBVIOUS
    <3>2. UnforkedAt(k)
      BY <2>3, <3>1, <1>1 DEF Held, Unforked
    <3>3. Live(login) = {k}
      BY <2>2, <2>3, <3>2 DEF UnforkedAt, Live, Related
    <3>4. Cardinality(Live(login)) = 1
      BY <3>3, FS_Singleton
    <3>5. QED BY <2>1, <3>4
  <2>5. QED BY <1>1, <2>3, <2>4, NotSole DEF Holders
<1>2. QED BY <1>1, SessionHeld, PTL

(* The refresh token a page would use next is good, or being exchanged, or one *)
(* other page load has got tokens of the same sign-in: setAuthTokens (api.js)  *)
(* replaces it in the step that makes the page stop refreshing.              *)
THEOREM OwnTokensAreGood == Spec => []OwnTokenIsGood
<1>1. ASSUME IInv, Held PROVE OwnTokenIsGood
  <2>1. SUFFICES ASSUME NEW t \in Tab, memory[t].refresh # 0, ~refreshing[t],
                        ~RowIsGood(memory[t].refresh)
                 PROVE  Cardinality(Holders(memory[t].refresh)) > 1
    BY DEF OwnTokenIsGood, Holders
  <2>2. memory[t].refresh \in DOMAIN rows /\ rows[memory[t].refresh].revoked
    BY <1>1, <2>1 DEF Held, Known, RowIsGood
  <2>3. ~Sole(memory[t].refresh)
    BY <1>1, <2>1, <2>2 DEF Held, Unforked, UnforkedAt
  <2>4. QED BY <1>1, <2>2, <2>3, NotSole
<1>2. QED BY <1>1, SessionHeld, PTL
=============================================================================
