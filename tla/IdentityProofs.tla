---------------------------- MODULE IdentityProofs ----------------------------
(***************************************************************************)
(* Proofs about Identity, for any number of sessions, tokens, links and    *)
(* concurrent requests, and any number of crashes.                         *)
(*                                                                         *)
(* RowsOK is the shape of the rows a request works on.  Each invariant is  *)
(* then proved inductive with the strengthening its own section states.    *)
(***************************************************************************)
EXTENDS IdentityProperties, TLAPS, FiniteSetTheorems

\* A row that exists belongs to a session that does, and a request that is
\* about to write a token has read one that exists.
RowsOK ==
    /\ \A t \in Tokens : token[t].status # "none" =>
          token[t].session \in Sessions /\ session[token[t].session].status # "none"
    /\ \A q \in Requests : request[q].pc \in {"rotate", "reuse"} =>
          request[q].token \in Tokens /\ token[request[q].token].status # "none"

TypeInv == IdentityTypeOK /\ RowsOK

-----------------------------------------------------------------------------
(* New rows and types.                                                     *)

\* An INSERT gets a row that did not exist.
LEMMA NewIsFree ==
    ASSUME NEW table, Free(table) # {}
    PROVE  New(table) \in DOMAIN table /\ table[New(table)].status = "none"
<1>1. New(table) \in Free(table)
  BY DEF New
<1> QED BY <1>1 DEF Free

LEMMA NewSession ==
    ASSUME IdentityTypeOK, Free(session) # {}
    PROVE  New(session) \in Sessions /\ session[New(session)].status = "none"
  BY NewIsFree DEF IdentityTypeOK

LEMMA NewToken ==
    ASSUME IdentityTypeOK, Free(token) # {}
    PROVE  New(token) \in Tokens /\ token[New(token)].status = "none"
  BY NewIsFree DEF IdentityTypeOK

LEMMA NewLink ==
    ASSUME IdentityTypeOK, Free(link) # {}
    PROVE  New(link) \in Links /\ link[New(link)].status = "none"
  BY NewIsFree DEF IdentityTypeOK

LEMMA IdleType == Idle \in Job /\ Idle.pc = "idle"
  BY DEF Idle, Job

\* What Refresh makes of the request.
LEMMA RefreshJob ==
    ASSUME NEW q \in Requests, NEW t \in Tokens, Refresh(q, t)
    PROVE  \E j : request' = [request EXCEPT ![q] = j] /\ j.pc \in {"rotate", "reuse"}
<1> DEFINE reuse == [Idle EXCEPT !.pc = "reuse", !.token = t]
           rotate == [Idle EXCEPT !.pc = "rotate", !.token = t]
<1>1. reuse.pc = "reuse" /\ rotate.pc = "rotate"
  BY DEF Idle
<1>2. request' = [request EXCEPT ![q] = reuse] \/ request' = [request EXCEPT ![q] = rotate]
  BY DEF Refresh
<1> HIDE DEF reuse, rotate
<1> QED BY <1>1, <1>2

LEMMA UserType ==
    ASSUME NEW u \in User
    PROVE  [u EXCEPT !.verified = TRUE] \in User /\ [u EXCEPT !.password = u.password + 1] \in User
<1>1. [u EXCEPT !.verified = TRUE] \in User
  BY DEF User
<1>2. u.password + 1 \in Nat
  BY DEF User
<1>3. ASSUME NEW n \in Nat PROVE [u EXCEPT !.password = n] \in User
  BY DEF User
<1> QED BY <1>1, <1>2, <1>3

LEMMA IssuedType ==
    ASSUME IdentityTypeOK, NEW l \in Links, NEW purpose \in Purposes, NEW q \in Requests,
           NEW seen \in SUBSET Links
    PROVE  Issued(l, purpose, q, seen) \in [Links -> Link]
<1> SUFFICES ASSUME NEW k \in Links
             PROVE  (IF k = l THEN [status |-> "unused", purpose |-> purpose, by |-> q]
                     ELSE IF k \in seen THEN [link[k] EXCEPT !.status = "used"] ELSE link[k]) \in Link
  BY DEF Issued
<1>1. link[k] \in Link
  BY DEF IdentityTypeOK
<1> QED BY <1>1 DEF Link

LEMMA RevokeType ==
    ASSUME IdentityTypeOK, NEW which, NEW reason \in Reasons, Revoke(which, reason)
    PROVE  /\ session' \in [Sessions -> Session]
           /\ \A s \in Sessions : session'[s].status = "none" <=> session[s].status = "none"
<1>1. \A s \in Sessions : session[s] \in Session
  BY DEF IdentityTypeOK
<1>2. \A s \in Sessions :
         /\ [session[s] EXCEPT !.status = "revoked", !.reason = reason] \in Session
         /\ [session[s] EXCEPT !.status = "revoked", !.reason = reason].status = "revoked"
  BY <1>1 DEF Session
<1> QED BY <1>1, <1>2 DEF Revoke, Revocable

\* The types of the tables, and of one request's job.
LEMMA TypeInit == Init => TypeInv
  BY IdentityAssumption DEF Init, TypeInv, IdentityTypeOK, RowsOK, User, Session, Token, Link,
     Job, Idle

LEMMA TypeOfUsers ==
    ASSUME TypeInv, NEW q \in Requests,
           \/ Register(q) \/ CreateUser(q) \/ Login(q) \/ ForgotPassword(q) \/ IssueLink(q)
           \/ \E l \in Links : ResetPassword(q, l) \/ VerifyEmail(l)
    PROVE  TypeInv'
<1> USE DEF TypeInv
<1>1. user \in User /\ link \in [Links -> Link] /\ request \in [Requests -> Job]
      /\ effects \in [Links -> Nat] /\ request[q] \in Job
  BY DEF IdentityTypeOK
<1>2. user' \in User
  <2>1. user' \in {user, [password |-> 1, verified |-> FALSE], [user EXCEPT !.verified = TRUE],
                   [user EXCEPT !.password = user.password + 1]}
    BY DEF Register, CreateUser, Login, ForgotPassword, IssueLink, ResetPassword, VerifyEmail
  <2>2. [password |-> 1, verified |-> FALSE] \in User
    BY DEF User
  <2> QED BY <1>1, <2>1, <2>2, UserType
<1>3. link' \in [Links -> Link]
  <2>1. CASE CreateUser(q)
    BY <1>1, <2>1, NewLink, IssuedType DEF CreateUser, Purposes
  <2>2. CASE IssueLink(q)
    <3>1. request[q].seen \in SUBSET Links
      BY <1>1 DEF Job
    <3> QED BY <2>2, <3>1, NewLink, IssuedType DEF IssueLink, Purposes
  <2>3. ASSUME NEW l \in Links, ResetPassword(q, l) \/ VerifyEmail(l) PROVE link' \in [Links -> Link]
    <3>1. PICK purpose \in Purposes : Redeem(l, purpose)
      BY <2>3 DEF ResetPassword, VerifyEmail, Purposes
    <3>2. \A k \in Links : [link[k] EXCEPT !.status = "used"] \in Link
      BY <1>1 DEF Link
    <3> QED BY <1>1, <3>1, <3>2 DEF Redeem
  <2>4. CASE Register(q) \/ Login(q) \/ ForgotPassword(q)
    BY <1>1, <2>4 DEF Register, Login, ForgotPassword
  <2> QED BY <2>1, <2>2, <2>3, <2>4
<1>4. /\ request' \in [Requests -> Job]
      /\ \A p \in Requests : request'[p].pc \in {"rotate", "reuse"} => request'[p] = request[p]
  <2>1. /\ [Idle EXCEPT !.pc = "register"] \in Job /\ [Idle EXCEPT !.pc = "register"].pc = "register"
        /\ [Idle EXCEPT !.pc = "open"] \in Job /\ [Idle EXCEPT !.pc = "open"].pc = "open"
        /\ [Idle EXCEPT !.pc = "revokeAll"] \in Job /\ [Idle EXCEPT !.pc = "revokeAll"].pc = "revokeAll"
    BY DEF Idle, Job
  <2>2. LET j == [Idle EXCEPT !.pc = "issue", !.seen = Unused("PASSWORD_RESET")]
        IN  j \in Job /\ j.pc = "issue"
    BY DEF Idle, Job, Unused
  <2> QED BY <1>1, <2>1, <2>2, IdleType
          DEF Register, CreateUser, Login, ForgotPassword, IssueLink, ResetPassword, VerifyEmail
<1>5. effects' \in [Links -> Nat]
  BY <1>1 DEF Register, CreateUser, Login, ForgotPassword, IssueLink, ResetPassword, VerifyEmail,
              Redeem, history
<1>6. UNCHANGED <<session, token, told, late, crashes>>
  BY DEF Register, CreateUser, Login, ForgotPassword, IssueLink, ResetPassword, VerifyEmail, history
<1>7. IdentityTypeOK'
  BY <1>2, <1>3, <1>4, <1>5, <1>6 DEF IdentityTypeOK
<1>8. RowsOK'
  BY <1>4, <1>6 DEF RowsOK
<1> QED BY <1>7, <1>8

\* Steps that write sessions and tokens.
LEMMA TypeOfSessions ==
    ASSUME TypeInv, NEW q \in Requests,
           \/ OpenSession(q) \/ RevokeAfterReset(q) \/ SignOut \/ Rotate(q)
           \/ RevokeOnReuse(q) \/ Crash(q) \/ \E t \in Tokens : Refresh(q, t)
    PROVE  TypeInv'
<1> USE DEF TypeInv
<1>1. /\ user \in User /\ user.password \in Nat
      /\ session \in [Sessions -> Session] /\ token \in [Tokens -> Token]
      /\ request \in [Requests -> Job] /\ request[q] \in Job
      /\ told \in [Sessions -> Nat] /\ late \in [Sessions -> Nat] /\ crashes \in 0..MaxCrashes
  BY DEF IdentityTypeOK, User
<1>2. CASE OpenSession(q)
  <2> DEFINE s == New(session)  t == New(token)
             row == [status |-> "live", reason |-> None, opened |-> user.password]
             first == [status |-> "unused", session |-> s]
  <2>1. /\ s \in Sessions /\ session[s].status = "none"
        /\ t \in Tokens /\ token[t].status = "none"
    BY <1>2, NewSession, NewToken DEF OpenSession
  <2>2. row \in Session /\ first \in Token
    BY <1>1, <2>1 DEF Session, Token
  <2>3. /\ session' = [session EXCEPT ![s] = row] /\ token' = [token EXCEPT ![t] = first]
        /\ request' = [request EXCEPT ![q] = Idle]
        /\ UNCHANGED <<user, link, told, effects, late, crashes>>
    BY <1>2 DEF OpenSession, history
  <2>4. IdentityTypeOK'
    BY <1>1, <2>1, <2>2, <2>3, IdleType DEF IdentityTypeOK
  <2>5. \A x \in Tokens : token'[x].status # "none" =>
           token'[x].session \in Sessions /\ session'[token'[x].session].status # "none"
    BY <1>1, <2>1, <2>3 DEF RowsOK
  <2>6. \A p \in Requests : request'[p].pc \in {"rotate", "reuse"} =>
           request'[p].token \in Tokens /\ token'[request'[p].token].status # "none"
    BY <1>1, <2>1, <2>3, IdleType DEF RowsOK
  <2> QED BY <2>4, <2>5, <2>6 DEF RowsOK
<1>3. CASE RevokeAfterReset(q) \/ SignOut \/ RevokeOnReuse(q)
  <2>1. \E which : \E reason \in Reasons : Revoke(which, reason)
    <3>1. /\ RevokeAfterReset(q) => Revoke(Sessions, "PASSWORD_CHANGED")
          /\ RevokeOnReuse(q) => Revoke({token[request[q].token].session}, "REUSE_DETECTED")
          /\ SignOut => \/ \E s \in Revocable : Revoke({s}, "LOGOUT")
                        \/ Revoke(Sessions, "LOGOUT_ALL")
      BY DEF RevokeAfterReset, SignOut, RevokeOnReuse
    <3>2. {"LOGOUT", "LOGOUT_ALL", "REUSE_DETECTED", "PASSWORD_CHANGED"} = Reasons
      BY DEF Reasons
    <3>3. ASSUME NEW which, NEW reason \in Reasons, Revoke(which, reason) PROVE <2>1
      BY <3>3
    <3>4. CASE SignOut
      <4>1. CASE \E s \in Revocable : Revoke({s}, "LOGOUT")
        <5>1. PICK s \in Revocable : Revoke({s}, "LOGOUT")
          BY <4>1
        <5> QED BY <3>2, <3>3, <5>1
      <4> QED BY <3>1, <3>2, <3>3, <3>4, <4>1
    <3> QED BY <1>3, <3>1, <3>2, <3>3, <3>4
  <2>2. /\ session' \in [Sessions -> Session]
        /\ \A s \in Sessions : session'[s].status = "none" <=> session[s].status = "none"
    BY <2>1, RevokeType
  <2>3. request' \in [Requests -> Job] /\ \A p \in Requests : request'[p] \in {request[p], Idle}
    BY <1>1, <1>3, IdleType DEF RevokeAfterReset, SignOut, RevokeOnReuse
  <2>4. told' \in [Sessions -> Nat]
    BY <1>1, <1>3 DEF RevokeAfterReset, SignOut, RevokeOnReuse, history
  <2>5. UNCHANGED <<user, token, link, effects, late, crashes>>
    BY <1>3 DEF RevokeAfterReset, SignOut, RevokeOnReuse, history
  <2>6. IdentityTypeOK'
    BY <2>2, <2>3, <2>4, <2>5 DEF IdentityTypeOK
  <2>7. RowsOK'
    BY <2>2, <2>3, <2>5, IdleType DEF RowsOK
  <2> QED BY <2>6, <2>7
<1>4. CASE Rotate(q)
  <2> DEFINE t == request[q].token  new == New(token)
  <2>1. /\ t \in Tokens /\ token[t].status # "none" /\ token[t] \in Token
        /\ token[t].session \in Sessions /\ session[token[t].session].status # "none"
    BY <1>1, <1>4 DEF Rotate, RowsOK
  <2>2. new \in Tokens /\ token[new].status = "none"
    BY <1>4, NewToken DEF Rotate
  <2>3. /\ token' = [token EXCEPT ![t].status = "used",
                       ![new] = [status |-> "unused", session |-> token[t].session]]
        /\ request' = [request EXCEPT ![q] = Idle]
        /\ late' \in [Sessions -> Nat]
        /\ UNCHANGED <<user, session, link, told, effects, crashes>>
    BY <1>1, <1>4, <2>1 DEF Rotate, Rotated
  <2>4. /\ token' \in [Tokens -> Token]
        /\ \A x \in Tokens : /\ x # new => token'[x].session = token[x].session
                             /\ token'[x].status # "none" => x = new \/ token[x].status # "none"
        /\ token'[new].session = token[t].session
        /\ \A x \in Tokens : token[x].status # "none" => token'[x].status # "none"
    BY <1>1, <2>1, <2>2, <2>3 DEF Token
  <2>5. IdentityTypeOK'
    BY <1>1, <2>3, <2>4, IdleType DEF IdentityTypeOK
  <2>6. \A x \in Tokens : token'[x].status # "none" =>
           token'[x].session \in Sessions /\ session'[token'[x].session].status # "none"
    BY <2>1, <2>3, <2>4 DEF RowsOK
  <2>7. \A p \in Requests : request'[p].pc \in {"rotate", "reuse"} =>
           request'[p].token \in Tokens /\ token'[request'[p].token].status # "none"
    BY <1>1, <2>3, <2>4, IdleType DEF RowsOK
  <2> QED BY <2>5, <2>6, <2>7 DEF RowsOK
<1>5. ASSUME NEW t \in Tokens, Refresh(q, t) PROVE TypeInv'
  <2>1. token[t].status # "none"
    BY <1>5 DEF Refresh, MayRotate
  <2>2. \A pc \in {"reuse", "rotate"} :
           LET j == [Idle EXCEPT !.pc = pc, !.token = t] IN j \in Job /\ j.token = t
    BY DEF Idle, Job
  <2>3. /\ request' \in [Requests -> Job]
        /\ \A p \in Requests \ {q} : request'[p] = request[p]
        /\ request'[q].token = t
    BY <1>1, <1>5, <2>2 DEF Refresh
  <2>4. UNCHANGED <<user, session, token, link, told, effects, late, crashes>>
    BY <1>5 DEF Refresh, history
  <2>5. IdentityTypeOK'
    BY <2>3, <2>4 DEF IdentityTypeOK
  <2> QED BY <2>1, <2>3, <2>4, <2>5 DEF RowsOK
<1>6. CASE Crash(q)
  <2>1. /\ request' = [request EXCEPT ![q] = Idle] /\ crashes' \in 0..MaxCrashes
        /\ UNCHANGED <<user, session, token, link, told, effects, late>>
    BY <1>1, <1>6, IdentityAssumption DEF Crash, history
  <2>2. IdentityTypeOK'
    BY <1>1, <2>1, IdleType DEF IdentityTypeOK
  <2> QED BY <1>1, <2>1, <2>2, IdleType DEF RowsOK
<1> QED BY <1>2, <1>3, <1>4, <1>5, <1>6

LEMMA TypeStep == TypeInv /\ [Next]_vars => TypeInv'
<1> SUFFICES ASSUME TypeInv, [Next]_vars PROVE TypeInv'
  OBVIOUS
<1>1. CASE UNCHANGED vars
  BY <1>1 DEF vars, TypeInv, IdentityTypeOK, RowsOK
<1>2. ASSUME NEW q \in Requests, NEW l \in Links, VerifyEmail(l) PROVE TypeInv'
  BY <1>2, TypeOfUsers
<1> QED BY <1>1, <1>2, TypeOfUsers, TypeOfSessions, IdentityAssumption DEF Next

\* Every table and every request holds values of its columns' types, however
\* many requests are served at once.
THEOREM IdentityTypes == Spec => []IdentityTypeOK
<1>1. Spec => []TypeInv
  BY TypeInit, TypeStep, PTL DEF Spec
<1> QED BY <1>1, PTL DEF TypeInv

-----------------------------------------------------------------------------
(* Sessions: what a reuse tells, and what a revocation leaves behind.      *)

\* A revocation changes live rows and nothing else.
LEMMA RevokeEffect ==
    ASSUME IdentityTypeOK, NEW which, NEW reason, Revoke(which, reason), NEW s \in Sessions
    PROVE  \/ session'[s] = session[s] /\ ~(s \in which /\ session[s].status = "live")
           \/ /\ s \in which /\ session[s].status = "live"
              /\ session'[s].status = "revoked" /\ session'[s].reason = reason
<1>1. session[s] \in Session
  BY DEF IdentityTypeOK
<1> QED BY <1>1 DEF Revoke, Revocable, Session

\* What opening a session does to the rows.
LEMMA OpenEffect ==
    ASSUME IdentityTypeOK, NEW q \in Requests, OpenSession(q)
    PROVE  \E s \in Sessions, t \in Tokens :
              /\ session[s].status = "none" /\ token[t].status = "none"
              /\ session' = [session EXCEPT ![s] =
                    [status |-> "live", reason |-> None, opened |-> user.password]]
              /\ token' = [token EXCEPT ![t] = [status |-> "unused", session |-> s]]
  BY NewSession, NewToken DEF OpenSession

ReuseInv ==
    /\ TypeInv
    /\ ReuseToldOnce
    /\ \A s \in Sessions : session[s].status # "revoked" => session[s].reason = None

LEMMA ReuseStep == ReuseInv /\ [Next]_vars => ReuseInv'
<1> SUFFICES ASSUME ReuseInv, [Next]_vars PROVE ReuseInv'
  OBVIOUS
<1>1. TypeInv /\ IdentityTypeOK /\ TypeInv'
  BY TypeStep DEF ReuseInv, TypeInv
<1>2. /\ session \in [Sessions -> Session] /\ told \in [Sessions -> Nat]
      /\ None # "REUSE_DETECTED"
  BY <1>1, IdentityAssumption DEF IdentityTypeOK, Reasons
<1>3. CASE UNCHANGED <<session, told>>
  BY <1>1, <1>3 DEF ReuseInv, ReuseToldOnce
<1>4. ASSUME NEW q \in Requests, OpenSession(q) PROVE ReuseInv'
  <2>1. UNCHANGED told
    BY <1>4 DEF OpenSession, history
  <2> QED BY <1>1, <1>2, <1>4, <2>1, OpenEffect DEF ReuseInv, ReuseToldOnce
<1>5. ASSUME NEW which, NEW reason \in Reasons \ {"REUSE_DETECTED"}, Revoke(which, reason),
             UNCHANGED told
      PROVE  ReuseInv'
  BY <1>1, <1>2, <1>5, RevokeEffect DEF ReuseInv, ReuseToldOnce
<1>6. ASSUME NEW q \in Requests, RevokeOnReuse(q) PROVE ReuseInv'
  <2> DEFINE s == token[request[q].token].session
  <2>1. /\ Revoke({s}, "REUSE_DETECTED")
        /\ told' = IF s \in Revocable THEN [told EXCEPT ![s] = @ + 1] ELSE told
    BY <1>6 DEF RevokeOnReuse, TookEffect
  <2>2. ASSUME NEW x \in Sessions
        PROVE  /\ told'[x] = IF session'[x].reason = "REUSE_DETECTED" THEN 1 ELSE 0
               /\ session'[x].status # "revoked" => session'[x].reason = None
    <3>1. CASE x = s /\ session[x].status = "live"
      <4>1. told[x] = 0 /\ told'[x] = told[x] + 1
        BY <1>2, <2>1, <3>1 DEF ReuseInv, ReuseToldOnce, Revocable
      <4>2. session'[x].status = "revoked" /\ session'[x].reason = "REUSE_DETECTED"
        BY <1>1, <2>1, <3>1, RevokeEffect
      <4> QED BY <4>1, <4>2
    <3>2. CASE ~(x = s /\ session[x].status = "live")
      <4>1. told'[x] = told[x]
        BY <1>2, <2>1, <3>2 DEF Revocable
      <4>2. session'[x] = session[x]
        BY <1>1, <2>1, <3>2, RevokeEffect
      <4> QED BY <4>1, <4>2 DEF ReuseInv, ReuseToldOnce
    <3> QED BY <3>1, <3>2
  <2> QED BY <1>1, <2>2 DEF ReuseInv, ReuseToldOnce
<1>7. CASE SignOut
  <2>1. UNCHANGED told
    BY <1>7 DEF SignOut, history
  <2>2. "LOGOUT" \in Reasons \ {"REUSE_DETECTED"} /\ "LOGOUT_ALL" \in Reasons \ {"REUSE_DETECTED"}
    BY DEF Reasons
  <2>3. CASE \E s \in Revocable : Revoke({s}, "LOGOUT")
    BY <1>5, <2>1, <2>2, <2>3
  <2>4. CASE Revoke(Sessions, "LOGOUT_ALL")
    BY <1>5, <2>1, <2>2, <2>4
  <2> QED BY <1>7, <2>3, <2>4 DEF SignOut
<1>8. ASSUME NEW q \in Requests, RevokeAfterReset(q) PROVE ReuseInv'
  <2>1. Revoke(Sessions, "PASSWORD_CHANGED") /\ UNCHANGED told
    BY <1>8 DEF RevokeAfterReset, history
  <2>2. "PASSWORD_CHANGED" \in Reasons \ {"REUSE_DETECTED"}
    BY DEF Reasons
  <2> QED BY <1>5, <2>1, <2>2
<1>9. ASSUME NEW q \in Requests,
             \/ Register(q) \/ CreateUser(q) \/ Login(q) \/ ForgotPassword(q) \/ IssueLink(q)
             \/ Rotate(q) \/ Crash(q) \/ (\E l \in Links : ResetPassword(q, l) \/ VerifyEmail(l))
             \/ \E t \in Tokens : Refresh(q, t)
      PROVE  UNCHANGED <<session, told>>
  BY <1>9 DEF Register, CreateUser, Login, ForgotPassword, IssueLink, Rotate, Crash,
     ResetPassword, VerifyEmail, Refresh, history
<1>10. UNCHANGED vars => UNCHANGED <<session, told>>
  BY DEF vars
<1> QED BY <1>3, <1>4, <1>6, <1>7, <1>8, <1>9, <1>10, IdentityAssumption DEF Next

\* The owner is told of a reuse exactly once, and only if it is what ended the
\* session, however many requests present the used token.
THEOREM ReuseIsToldOnce == Spec => []ReuseToldOnce
<1>1. Init => ReuseInv
  BY TypeInit, IdentityAssumption DEF Init, ReuseInv, ReuseToldOnce, Reasons
<1>2. Spec => []ReuseInv
  BY <1>1, ReuseStep, PTL DEF Spec
<1> QED BY <1>2, PTL DEF ReuseInv

StrandedInv == TypeInv /\ NoSessionStranded

LEMMA StrandedStep == StrandedInv /\ [Next]_vars => StrandedInv'
<1> SUFFICES ASSUME StrandedInv, [Next]_vars PROVE StrandedInv'
  OBVIOUS
<1>1. TypeInv /\ IdentityTypeOK /\ TypeInv'
  BY TypeStep DEF StrandedInv, TypeInv
<1>2. /\ session \in [Sessions -> Session] /\ token \in [Tokens -> Token]
      /\ request \in [Requests -> Job]
  BY <1>1 DEF IdentityTypeOK
<1>3. CASE UNCHANGED <<session, token>>
  BY <1>1, <1>3 DEF StrandedInv, NoSessionStranded
<1>4. ASSUME NEW q \in Requests, OpenSession(q) PROVE StrandedInv'
  <2>1. PICK s \in Sessions, t \in Tokens :
           /\ session[s].status = "none" /\ token[t].status = "none"
           /\ session' = [session EXCEPT ![s] =
                 [status |-> "live", reason |-> None, opened |-> user.password]]
           /\ token' = [token EXCEPT ![t] = [status |-> "unused", session |-> s]]
    BY <1>1, <1>4, OpenEffect
  <2>2. ASSUME NEW x \in Sessions, session'[x].status = "live"
        PROVE  \E y \in Tokens : token'[y] = [status |-> "unused", session |-> x]
    <3>1. CASE x = s
      BY <1>2, <2>1, <3>1
    <3>2. CASE x # s
      <4>1. session[x].status = "live"
        BY <1>2, <2>1, <2>2, <3>2
      <4>2. PICK y \in Tokens : token[y] = [status |-> "unused", session |-> x]
        BY <4>1 DEF StrandedInv, NoSessionStranded
      <4>3. y # t /\ token'[y] = token[y]
        BY <1>2, <2>1, <4>2
      <4> QED BY <4>2, <4>3
    <3> QED BY <3>1, <3>2
  <2> QED BY <1>1, <2>2 DEF StrandedInv, NoSessionStranded
<1>5. ASSUME NEW which, NEW reason \in Reasons, Revoke(which, reason), UNCHANGED token
      PROVE  StrandedInv'
  <2>1. \A x \in Sessions : session'[x].status = "live" => session[x].status = "live"
    BY <1>1, <1>5, RevokeEffect
  <2> QED BY <1>1, <1>5, <2>1 DEF StrandedInv, NoSessionStranded
<1>6. ASSUME NEW q \in Requests, Rotate(q) PROVE StrandedInv'
  <2> DEFINE t == request[q].token  new == New(token)  s == token[t].session
             fresh == [status |-> "unused", session |-> s]
  <2>1. /\ new \in Tokens /\ token[new].status = "none"
        /\ t \in Tokens /\ token[t].status # "none"
        /\ token' = [token EXCEPT ![t].status = "used", ![new] = fresh]
        /\ UNCHANGED session
    BY <1>1, <1>2, <1>6, NewToken DEF Rotate, Rotated, TypeInv, RowsOK
  <2>2. token'[new] = fresh /\ \A y \in Tokens : y # t /\ y # new => token'[y] = token[y]
    BY <1>2, <2>1
  <2>3. ASSUME NEW x \in Sessions, session[x].status = "live"
        PROVE  \E y \in Tokens : token'[y] = [status |-> "unused", session |-> x]
    <3>1. PICK y \in Tokens : token[y] = [status |-> "unused", session |-> x]
      BY <2>3 DEF StrandedInv, NoSessionStranded
    <3>2. CASE y = t
      BY <2>1, <2>2, <3>1, <3>2
    <3>3. CASE y # t
      <4>1. y # new
        BY <2>1, <3>1
      <4> QED BY <2>2, <3>1, <3>3, <4>1
    <3> QED BY <3>2, <3>3
  <2> QED BY <1>1, <2>1, <2>3 DEF StrandedInv, NoSessionStranded
<1>7. ASSUME NEW q \in Requests, RevokeAfterReset(q) \/ RevokeOnReuse(q) PROVE StrandedInv'
  BY <1>5, <1>7 DEF RevokeAfterReset, RevokeOnReuse, Reasons
<1>8. CASE SignOut
  <2>1. UNCHANGED token /\ "LOGOUT" \in Reasons /\ "LOGOUT_ALL" \in Reasons
    BY <1>8 DEF SignOut, Reasons
  <2>2. CASE \E s \in Revocable : Revoke({s}, "LOGOUT")
    BY <1>5, <2>1, <2>2
  <2>3. CASE Revoke(Sessions, "LOGOUT_ALL")
    BY <1>5, <2>1, <2>3
  <2> QED BY <1>8, <2>2, <2>3 DEF SignOut
<1>9. ASSUME NEW q \in Requests,
             \/ Register(q) \/ CreateUser(q) \/ Login(q) \/ ForgotPassword(q) \/ IssueLink(q)
             \/ Crash(q) \/ (\E l \in Links : ResetPassword(q, l) \/ VerifyEmail(l))
             \/ \E t \in Tokens : Refresh(q, t)
      PROVE  UNCHANGED <<session, token>>
  BY <1>9 DEF Register, CreateUser, Login, ForgotPassword, IssueLink, Crash, ResetPassword,
     VerifyEmail, Refresh
<1>10. UNCHANGED vars => UNCHANGED <<session, token>>
  BY DEF vars
<1> QED BY <1>3, <1>4, <1>6, <1>7, <1>8, <1>9, <1>10, IdentityAssumption DEF Next

\* A live session always has a token that was not used yet: no crash or race
\* of refreshes strands a device.
THEOREM NoDeviceIsStranded == Spec => []NoSessionStranded
<1>1. Init => StrandedInv
  BY TypeInit DEF Init, StrandedInv, NoSessionStranded
<1>2. Spec => []StrandedInv
  BY <1>1, StrandedStep, PTL DEF Spec
<1> QED BY <1>2, PTL DEF StrandedInv

-----------------------------------------------------------------------------
(* The chain a revocation cuts.                                            *)

ChainInv ==
    /\ TypeInv
    /\ RevocationCutsChain
    /\ \A s \in Sessions : session[s].status # "revoked" => late[s] = 0

LEMMA RotatingFinite ==
    \A s : /\ Rotating(s) \subseteq Requests /\ IsFiniteSet(Rotating(s))
           /\ Cardinality(Rotating(s)) \in Nat
           /\ Cardinality(Rotating(s)) <= Cardinality(Requests)
           /\ Cardinality(Requests) \in Nat
<1> TAKE s
<1>1. Rotating(s) \subseteq Requests /\ IsFiniteSet(Requests)
  BY IdentityAssumption DEF Rotating
<1> QED BY <1>1, FS_Subset, FS_CardinalityType

\* A step that mints no token for a revoked session, and lets no request start
\* to rotate one, keeps the bound.
LEMMA ChainKept ==
    ASSUME ChainInv, TypeInv', UNCHANGED late,
           \A s \in Sessions : session'[s].status = "revoked" =>
              session[s].status # "revoked" \/ Rotating(s)' \subseteq Rotating(s),
           \A s \in Sessions : session[s].status = "revoked" => session'[s].status = "revoked"
    PROVE  ChainInv'
<1>1. ASSUME NEW s \in Sessions, session'[s].status = "revoked"
      PROVE  late'[s] + Cardinality(Rotating(s)') <= Cardinality(Requests)
  <2>1. /\ Rotating(s)' \subseteq Requests /\ IsFiniteSet(Requests)
        /\ Cardinality(Rotating(s)') <= Cardinality(Requests)
        /\ Cardinality(Rotating(s)') \in Nat /\ Cardinality(Requests) \in Nat
    <3>1. Rotating(s)' \subseteq Requests /\ IsFiniteSet(Requests)
      BY IdentityAssumption DEF Rotating
    <3> QED BY <3>1, FS_Subset, FS_CardinalityType
  <2>2. CASE session[s].status # "revoked"
    BY <2>1, <2>2 DEF ChainInv
  <2>3. CASE session[s].status = "revoked"
    <3>1. Rotating(s)' \subseteq Rotating(s)
      BY <1>1, <2>3
    <3>2. Cardinality(Rotating(s)') <= Cardinality(Rotating(s))
      BY <3>1, RotatingFinite, FS_Subset
    <3>3. late[s] + Cardinality(Rotating(s)) <= Cardinality(Requests) /\ late[s] \in Nat
      BY <2>3 DEF ChainInv, RevocationCutsChain, TypeInv, IdentityTypeOK
    <3> QED BY <2>1, <3>2, <3>3, RotatingFinite
  <2> QED BY <2>2, <2>3
<1> QED BY <1>1 DEF ChainInv, RevocationCutsChain

LEMMA ChainStep == ChainInv /\ [Next]_vars => ChainInv'
<1> SUFFICES ASSUME ChainInv, [Next]_vars PROVE ChainInv'
  OBVIOUS
<1>1. TypeInv /\ IdentityTypeOK /\ TypeInv'
  BY TypeStep DEF ChainInv, TypeInv
<1>2. /\ session \in [Sessions -> Session] /\ token \in [Tokens -> Token]
      /\ request \in [Requests -> Job] /\ late \in [Sessions -> Nat]
  BY <1>1 DEF IdentityTypeOK
<1>3. ASSUME NEW q \in Requests,
             \/ Register(q) \/ CreateUser(q) \/ Login(q) \/ ForgotPassword(q) \/ IssueLink(q)
             \/ Crash(q) \/ (\E l \in Links : ResetPassword(q, l) \/ VerifyEmail(l))
      PROVE  ChainInv'
  <2>1. UNCHANGED <<session, token, late>>
    BY <1>3 DEF Register, CreateUser, Login, ForgotPassword, IssueLink, Crash, ResetPassword,
       VerifyEmail, history
  <2>2. \A p \in Requests : request'[p].pc = "rotate" => request'[p] = request[p]
    <3>1. /\ Idle.pc # "rotate" /\ [Idle EXCEPT !.pc = "register"].pc # "rotate"
          /\ [Idle EXCEPT !.pc = "open"].pc # "rotate"
          /\ [Idle EXCEPT !.pc = "revokeAll"].pc # "rotate"
      BY DEF Idle
    <3>2. [Idle EXCEPT !.pc = "issue", !.seen = Unused("PASSWORD_RESET")].pc # "rotate"
      BY DEF Idle
    <3> QED BY <1>2, <1>3, <3>1, <3>2
            DEF Register, CreateUser, Login, ForgotPassword, IssueLink, Crash, ResetPassword, VerifyEmail
  <2>3. \A s \in Sessions : Rotating(s)' \subseteq Rotating(s)
    BY <2>1, <2>2 DEF Rotating
  <2> QED BY <1>1, <2>1, <2>3, ChainKept
<1>4. ASSUME NEW q \in Requests, OpenSession(q) PROVE ChainInv'
  <2>1. PICK s \in Sessions, t \in Tokens :
           /\ session[s].status = "none" /\ token[t].status = "none"
           /\ session' = [session EXCEPT ![s] =
                 [status |-> "live", reason |-> None, opened |-> user.password]]
           /\ token' = [token EXCEPT ![t] = [status |-> "unused", session |-> s]]
    BY <1>1, <1>4, OpenEffect
  <2>2. UNCHANGED late /\ \A p \in Requests : request'[p].pc = "rotate" => request'[p] = request[p]
    BY <1>2, <1>4 DEF OpenSession, Idle, history
  <2>3. \A p \in Requests : request'[p].pc = "rotate" =>
           token'[request'[p].token] = token[request[p].token]
    BY <1>1, <1>2, <2>1, <2>2 DEF TypeInv, RowsOK
  <2>4. \A x \in Sessions : Rotating(x)' \subseteq Rotating(x)
    BY <2>2, <2>3 DEF Rotating
  <2>5. \A x \in Sessions : session[x].status = "revoked" => session'[x].status = "revoked"
    BY <1>2, <2>1
  <2> QED BY <1>1, <2>2, <2>4, <2>5, ChainKept
<1>5. ASSUME NEW which, NEW reason \in Reasons, Revoke(which, reason), UNCHANGED <<token, late>>,
             \A p \in Requests : request'[p].pc = "rotate" => request'[p] = request[p]
      PROVE  ChainInv'
  <2>1. \A x \in Sessions : session[x].status = "revoked" => session'[x].status = "revoked"
    BY <1>1, <1>5, RevokeEffect
  <2>2. \A x \in Sessions : Rotating(x)' \subseteq Rotating(x)
    BY <1>5 DEF Rotating
  <2> QED BY <1>1, <1>5, <2>1, <2>2, ChainKept
<1>6. ASSUME NEW q \in Requests, RevokeAfterReset(q) \/ RevokeOnReuse(q) PROVE ChainInv'
  <2>1. /\ UNCHANGED <<token, late>>
        /\ \A p \in Requests : request'[p].pc = "rotate" => request'[p] = request[p]
    BY <1>2, <1>6 DEF RevokeAfterReset, RevokeOnReuse, Idle, history
  <2>2. CASE RevokeAfterReset(q)
    BY <1>5, <2>1, <2>2 DEF RevokeAfterReset, Reasons
  <2>3. CASE RevokeOnReuse(q)
    BY <1>5, <2>1, <2>3 DEF RevokeOnReuse, Reasons
  <2> QED BY <1>6, <2>2, <2>3
<1>7. CASE SignOut
  <2>1. UNCHANGED <<token, late, request>> /\ "LOGOUT" \in Reasons /\ "LOGOUT_ALL" \in Reasons
    BY <1>7 DEF SignOut, Reasons, history
  <2>2. CASE \E s \in Revocable : Revoke({s}, "LOGOUT")
    BY <1>5, <2>1, <2>2
  <2>3. CASE Revoke(Sessions, "LOGOUT_ALL")
    BY <1>5, <2>1, <2>3
  <2> QED BY <1>7, <2>2, <2>3 DEF SignOut
<1>8. ASSUME NEW q \in Requests, NEW t \in Tokens, Refresh(q, t) PROVE ChainInv'
  <2>1. UNCHANGED <<session, token, late>>
    BY <1>8 DEF Refresh, history
  <2>2. \A p \in Requests : request'[p].pc = "rotate" =>
           \/ request'[p] = request[p]
           \/ request'[p].token = t /\ session[token[t].session].status = "live"
    BY <1>2, <1>8 DEF Refresh, MayRotate, Idle
  <2>3. \A s \in Sessions : session[s].status = "revoked" => Rotating(s)' \subseteq Rotating(s)
    BY <2>1, <2>2 DEF Rotating
  <2> QED BY <1>1, <2>1, <2>3, ChainKept
<1>9. ASSUME NEW q \in Requests, Rotate(q) PROVE ChainInv'
  <2> DEFINE t == request[q].token  new == New(token)  s == token[t].session
  <2>1. /\ new \in Tokens /\ token[new].status = "none"
        /\ t \in Tokens /\ token[t].status # "none" /\ s \in Sessions
        /\ request[q].pc = "rotate"
    BY <1>1, <1>9, NewToken DEF Rotate, TypeInv, RowsOK
  <2>2. /\ token' = [token EXCEPT ![t].status = "used",
                       ![new] = [status |-> "unused", session |-> s]]
        /\ late' = IF session[s].status = "revoked" THEN [late EXCEPT ![s] = @ + 1] ELSE late
        /\ request' = [request EXCEPT ![q] = Idle]
        /\ UNCHANGED session
    BY <1>9 DEF Rotate, Rotated
  <2>3. \A y \in Tokens : y # new => token'[y].session = token[y].session
    <3>1. token[t] \in Token
      BY <1>2, <2>1
    <3> QED BY <1>2, <2>1, <2>2, <3>1 DEF Token
  <2>4. \A p \in Requests : p # q /\ request[p].pc = "rotate" =>
           request[p].token \in Tokens /\ request[p].token # new
    BY <1>1, <2>1 DEF TypeInv, RowsOK
  <2>5. \A x : Rotating(x)' = Rotating(x) \ {q}
    <3>1. Idle.pc # "rotate"
      BY DEF Idle
    <3> QED BY <1>2, <2>2, <2>3, <2>4, <3>1 DEF Rotating
  <2>6. ASSUME NEW x \in Sessions, session[x].status = "revoked"
        PROVE  late'[x] + Cardinality(Rotating(x)') <= Cardinality(Requests)
    <3>1. late[x] + Cardinality(Rotating(x)) <= Cardinality(Requests) /\ late[x] \in Nat
      BY <1>2, <2>6 DEF ChainInv, RevocationCutsChain
    <3>2. CASE x = s
      <4>1. q \in Rotating(x)
        BY <2>1, <3>2 DEF Rotating
      <4>2. Cardinality(Rotating(x)') = Cardinality(Rotating(x)) - 1
        BY <2>5, <4>1, RotatingFinite, FS_RemoveElement
      <4>3. late'[x] = late[x] + 1
        BY <1>2, <2>2, <2>6, <3>2
      <4> QED BY <3>1, <4>2, <4>3, RotatingFinite
    <3>3. CASE x # s
      <4>1. q \notin Rotating(x)
        BY <3>3 DEF Rotating
      <4>2. Rotating(x)' = Rotating(x)
        BY <2>5, <4>1
      <4>3. late'[x] = late[x]
        BY <1>2, <2>2, <3>3
      <4> QED BY <3>1, <4>2, <4>3
    <3> QED BY <3>2, <3>3
  <2>7. \A x \in Sessions : session'[x].status # "revoked" => late'[x] = 0
    BY <1>2, <2>2 DEF ChainInv
  <2> QED BY <1>1, <2>2, <2>6, <2>7 DEF ChainInv, RevocationCutsChain
<1>10. CASE UNCHANGED vars
  <2>1. UNCHANGED <<session, token, request, late>>
    BY <1>10 DEF vars, history
  <2>2. \A s \in Sessions : Rotating(s)' \subseteq Rotating(s)
    BY <2>1 DEF Rotating
  <2> QED BY <1>1, <2>1, <2>2, ChainKept
<1> QED BY <1>3, <1>4, <1>6, <1>7, <1>8, <1>9, <1>10, IdentityAssumption DEF Next

\* A revoked session's chain grows by at most one token for each request that
\* had read it before the revocation, and then ends.
THEOREM RevocationEndsChain == Spec => []RevocationCutsChain
<1>1. Init => ChainInv
  BY TypeInit DEF Init, ChainInv, RevocationCutsChain
<1>2. Spec => []ChainInv
  BY <1>1, ChainStep, PTL DEF Spec
<1> QED BY <1>2, PTL DEF ChainInv

\* A live session may be revoked, a used row stays as it is.
THEOREM SpentIsForGood == Spec => SpentForGood
<1> DEFINE Spent ==
      /\ \A s \in Sessions : session[s].status = "revoked" => session'[s] = session[s]
      /\ \A t \in Tokens : token[t].status = "used" => token'[t] = token[t]
      /\ \A l \in Links : link[l].status = "used" => link'[l] = link[l]
<1>1. ASSUME TypeInv, [Next]_vars PROVE Spent \/ UNCHANGED <<session, token, link>>
  <2>1. /\ session \in [Sessions -> Session] /\ token \in [Tokens -> Token]
        /\ link \in [Links -> Link] /\ IdentityTypeOK
    BY <1>1 DEF TypeInv, IdentityTypeOK
  <2>2. \A s \in Sessions : session[s].status = "revoked" => session'[s] = session[s]
    <3>1. ASSUME NEW q \in Requests, OpenSession(q) PROVE <2>2
      BY <2>1, <3>1, OpenEffect
    <3>2. ASSUME NEW which, NEW reason, Revoke(which, reason) PROVE <2>2
      BY <2>1, <3>2, RevokeEffect
    <3>3. ASSUME NEW q \in Requests, RevokeAfterReset(q) \/ RevokeOnReuse(q) PROVE <2>2
      BY <3>2, <3>3 DEF RevokeAfterReset, RevokeOnReuse
    <3>4. CASE SignOut
      BY <3>2, <3>4 DEF SignOut
    <3>5. ASSUME UNCHANGED session PROVE <2>2
      BY <3>5
    <3> QED BY <1>1, <3>1, <3>3, <3>4, <3>5
         DEF Next, vars, Register, CreateUser, Login, ForgotPassword, IssueLink, Rotate, Crash,
             ResetPassword, VerifyEmail, Refresh
  <2>3. \A t \in Tokens : token[t].status = "used" => token'[t] = token[t]
    <3>1. ASSUME NEW q \in Requests, OpenSession(q) PROVE <2>3
      BY <2>1, <3>1, OpenEffect
    <3>2. ASSUME NEW q \in Requests, Rotate(q), NEW t \in Tokens, token[t].status = "used"
          PROVE  token'[t] = token[t]
      <4> DEFINE u == request[q].token
      <4>1. New(token) \in Tokens /\ token[New(token)].status = "none"
        BY <2>1, <3>2, NewToken DEF Rotate
      <4>2. token' = [token EXCEPT ![u].status = "used",
                        ![New(token)] = [status |-> "unused", session |-> token[u].session]]
        BY <3>2 DEF Rotate, Rotated
      <4>3. CASE t # u
        BY <2>1, <3>2, <4>1, <4>2, <4>3
      <4>4. CASE t = u
        <5>1. token'[t] = [token[t] EXCEPT !.status = "used"] /\ token[t] \in Token
          BY <2>1, <3>2, <4>1, <4>2, <4>4
        <5> QED BY <3>2, <5>1 DEF Token
      <4> QED BY <4>3, <4>4
    <3>3. ASSUME UNCHANGED token PROVE <2>3
      BY <3>3
    <3> QED BY <1>1, <3>1, <3>2, <3>3
         DEF Next, vars, Register, CreateUser, Login, ForgotPassword, IssueLink, Crash, SignOut,
             ResetPassword, VerifyEmail, Refresh, RevokeAfterReset, RevokeOnReuse
  <2>4. \A l \in Links : link[l].status = "used" => link'[l] = link[l]
    <3>1. ASSUME NEW purpose, NEW q, NEW seen, Free(link) # {},
                 link' = Issued(New(link), purpose, q, seen)
          PROVE  <2>4
      <4>1. New(link) \in Links /\ link[New(link)].status = "none"
        BY <2>1, <3>1, NewLink
      <4>2. \A l \in Links : link[l].status = "used" => [link[l] EXCEPT !.status = "used"] = link[l]
        BY <2>1 DEF Link
      <4> QED BY <3>1, <4>1, <4>2 DEF Issued
    <3>2. ASSUME NEW k \in Links, NEW purpose, Redeem(k, purpose) PROVE <2>4
      BY <2>1, <3>2 DEF Redeem, Redeemable, Unused
    <3>3. ASSUME UNCHANGED link PROVE <2>4
      BY <3>3
    <3>4. ASSUME NEW q \in Requests, CreateUser(q) \/ IssueLink(q) PROVE <2>4
      BY <3>1, <3>3, <3>4 DEF CreateUser, IssueLink
    <3>5. ASSUME NEW l \in Links, NEW q, VerifyEmail(l) \/ ResetPassword(q, l) PROVE <2>4
      BY <3>2, <3>5 DEF VerifyEmail, ResetPassword
    <3>6. ASSUME NEW q \in Requests,
                 \/ Register(q) \/ Login(q) \/ OpenSession(q) \/ ForgotPassword(q)
                 \/ RevokeAfterReset(q) \/ Rotate(q) \/ RevokeOnReuse(q) \/ Crash(q)
                 \/ \E t \in Tokens : Refresh(q, t)
          PROVE  UNCHANGED link
      BY <3>6 DEF Register, Login, OpenSession, ForgotPassword, RevokeAfterReset, Rotate,
                  RevokeOnReuse, Crash, Refresh
    <3>7. SignOut => UNCHANGED link
      BY DEF SignOut
    <3>8. UNCHANGED vars => UNCHANGED link
      BY DEF vars
    <3> QED BY <1>1, <3>3, <3>4, <3>5, <3>6, <3>7, <3>8 DEF Next
  <2> QED BY <2>2, <2>3, <2>4
<1>2. Spec => []TypeInv
  BY TypeInit, TypeStep, PTL DEF Spec
<1>3. TypeInv /\ [Next]_vars => [Spent]_<<session, token, link>>
  BY <1>1
<1>4. Spec => [][Spent]_<<session, token, link>>
  BY <1>2, <1>3, PTL DEF Spec
<1> QED BY <1>4 DEF SpentForGood

-----------------------------------------------------------------------------
(* Links and passwords.                                                    *)

\* The rows a step writes in the table of links.
LEMMA LinkSteps ==
    ASSUME TypeInv, [Next]_vars
    PROVE  \/ UNCHANGED <<link, effects>>
           \/ /\ UNCHANGED effects /\ Free(link) # {}
              /\ \E q \in Requests : CreateUser(q) /\ link' = Issued(New(link), "EMAIL_VERIFICATION", q, {})
           \/ UNCHANGED effects /\ \E q \in Requests : IssueLink(q)
           \/ \E l \in Links, purpose \in Purposes : Redeem(l, purpose)
  BY DEF Next, vars, history, Register, CreateUser, Login, ForgotPassword, IssueLink, Crash, SignOut,
     ResetPassword, VerifyEmail, Refresh, RevokeAfterReset, RevokeOnReuse, OpenSession, Rotate, Purposes

LinkInv == TypeInv /\ LinkWorksOnce

LEMMA LinkStep == LinkInv /\ [Next]_vars => LinkInv'
<1> SUFFICES ASSUME LinkInv, [Next]_vars PROVE LinkInv'
  OBVIOUS
<1>1. TypeInv /\ IdentityTypeOK /\ TypeInv'
  BY TypeStep DEF LinkInv, TypeInv
<1>2. link \in [Links -> Link] /\ effects \in [Links -> Nat]
  BY <1>1 DEF IdentityTypeOK
<1>3. CASE UNCHANGED <<link, effects>>
  BY <1>1, <1>3 DEF LinkInv, LinkWorksOnce
<1>4. ASSUME NEW purpose, NEW q, NEW seen, Free(link) # {},
             link' = Issued(New(link), purpose, q, seen), UNCHANGED effects
      PROVE  LinkInv'
  <2>1. New(link) \in Links /\ link[New(link)].status = "none"
    BY <1>1, <1>4, NewLink
  <2>2. \A l \in Links : link[l].status = "used" => link'[l].status = "used"
    BY <1>2, <1>4, <2>1 DEF Issued, Link
  <2> QED BY <1>1, <1>2, <1>4, <2>2 DEF LinkInv, LinkWorksOnce
<1>5. ASSUME NEW l \in Links, NEW purpose \in Purposes, Redeem(l, purpose) PROVE LinkInv'
  <2>1. link[l].status = "unused" /\ effects[l] = 0
    BY <1>2, <1>5 DEF LinkInv, LinkWorksOnce, Redeem, Redeemable, Unused
  <2> QED BY <1>1, <1>2, <1>5, <2>1 DEF LinkInv, LinkWorksOnce, Redeem, Link
<1> QED BY <1>1, <1>3, <1>4, <1>5, LinkSteps DEF IssueLink

\* A link has its effect at most once, also when it is clicked twice at a time.
THEOREM LinkWorksOnlyOnce == Spec => []LinkWorksOnce
<1>1. Init => LinkInv
  BY TypeInit DEF Init, LinkInv, LinkWorksOnce
<1>2. Spec => []LinkInv
  BY <1>1, LinkStep, PTL DEF Spec
<1> QED BY <1>2, PTL DEF LinkInv

\* An issuer has seen every link it issued before: nobody else issues for it.
IssuerInv ==
    /\ TypeInv
    /\ OneLinkPerIssuer
    /\ \A q \in Requests : request[q].pc = "issue" =>
          \A l \in Unused("PASSWORD_RESET") : link[l].by = q => l \in request[q].seen

LEMMA IssuerStep == IssuerInv /\ [Next]_vars => IssuerInv'
<1> SUFFICES ASSUME IssuerInv, [Next]_vars PROVE IssuerInv'
  OBVIOUS
<1>1. TypeInv /\ IdentityTypeOK /\ TypeInv'
  BY TypeStep DEF IssuerInv, TypeInv
<1>2. link \in [Links -> Link] /\ request \in [Requests -> Job]
  BY <1>1 DEF IdentityTypeOK
<1>3. \A p \in Requests : request'[p].pc = "issue" =>
         \/ request'[p] = request[p]
         \/ request'[p].seen = Unused("PASSWORD_RESET") /\ UNCHANGED link
  <2>1. /\ Idle.pc # "issue" /\ [Idle EXCEPT !.pc = "register"].pc # "issue"
        /\ [Idle EXCEPT !.pc = "open"].pc # "issue"
        /\ [Idle EXCEPT !.pc = "revokeAll"].pc # "issue"
    BY DEF Idle
  <2>2. \A seen : [Idle EXCEPT !.pc = "issue", !.seen = seen].seen = seen
    BY DEF Idle
  <2>3. ASSUME NEW q \in Requests, ForgotPassword(q) PROVE <1>3
    BY <1>2, <2>2, <2>3 DEF ForgotPassword
  <2>4. ASSUME NEW q \in Requests, NEW t \in Tokens, Refresh(q, t) PROVE <1>3
    <3>1. PICK j : request' = [request EXCEPT ![q] = j] /\ j.pc \in {"rotate", "reuse"}
      BY <2>4, RefreshJob
    <3> QED BY <1>2, <3>1
  <2>5. ASSUME NEW q \in Requests,
               \/ Register(q) \/ CreateUser(q) \/ Login(q) \/ OpenSession(q) \/ IssueLink(q)
               \/ RevokeAfterReset(q) \/ Rotate(q) \/ RevokeOnReuse(q) \/ Crash(q)
               \/ \E l \in Links : ResetPassword(q, l)
        PROVE  <1>3
    BY <1>2, <2>1, <2>5 DEF Register, CreateUser, Login, OpenSession, IssueLink, RevokeAfterReset,
       Rotate, RevokeOnReuse, Crash, ResetPassword
  <2>6. ASSUME UNCHANGED request PROVE <1>3
    BY <2>6
  <2> QED BY <2>3, <2>4, <2>5, <2>6 DEF Next, vars, SignOut, VerifyEmail
<1>4. ASSUME \A l \in Links : link'[l].status = "unused" /\ link'[l].purpose = "PASSWORD_RESET" =>
                link'[l] = link[l]
      PROVE  IssuerInv'
  <2>1. Unused("PASSWORD_RESET")' \subseteq Unused("PASSWORD_RESET")
        /\ \A l \in Unused("PASSWORD_RESET")' : link'[l] = link[l]
    BY <1>4 DEF Unused
  <2>2. \A p \in Requests : request'[p].pc = "issue" =>
           request'[p] = request[p] \/ request'[p].seen = Unused("PASSWORD_RESET")
    BY <1>3
  <2> QED BY <1>1, <2>1, <2>2 DEF IssuerInv, OneLinkPerIssuer
<1>5. ASSUME NEW q \in Requests, IssueLink(q) PROVE IssuerInv'
  <2> DEFINE new == New(link)  seen == request[q].seen
  <2>1. /\ new \in Links /\ link[new].status = "none" /\ request[q].pc = "issue"
        /\ link' = Issued(new, "PASSWORD_RESET", q, seen)
        /\ request' = [request EXCEPT ![q] = Idle]
    BY <1>1, <1>5, NewLink DEF IssueLink
  <2>2. link'[new].by = q /\ new \notin Unused("PASSWORD_RESET")
    BY <2>1 DEF Issued, Unused
  <2>3. \A l \in Unused("PASSWORD_RESET")' : l # new =>
           l \in Unused("PASSWORD_RESET") /\ l \notin seen /\ link'[l] = link[l]
    <3>1. \A l \in Links : [link[l] EXCEPT !.status = "used"].status = "used"
      BY <1>2 DEF Link
    <3> QED BY <2>1, <3>1 DEF Issued, Unused
  <2>4. \A l \in Unused("PASSWORD_RESET")' : l # new => link'[l].by # q
    BY <2>1, <2>3 DEF IssuerInv
  <2>5. OneLinkPerIssuer'
    BY <2>2, <2>3, <2>4 DEF IssuerInv, OneLinkPerIssuer
  <2>6. \A p \in Requests : request'[p].pc = "issue" => p # q /\ request'[p] = request[p]
    BY <1>2, <2>1 DEF Idle
  <2>7. \A p \in Requests : request'[p].pc = "issue" =>
           \A l \in Unused("PASSWORD_RESET")' : link'[l].by = p => l \in request'[p].seen
    BY <2>2, <2>3, <2>6 DEF IssuerInv
  <2> QED BY <1>1, <2>5, <2>7 DEF IssuerInv
<1>6. ASSUME NEW q \in Requests, Free(link) # {},
             link' = Issued(New(link), "EMAIL_VERIFICATION", q, {})
      PROVE  IssuerInv'
  <2>1. \A l \in Links : link'[l].purpose = "PASSWORD_RESET" => link'[l] = link[l]
    BY <1>1, <1>6, NewLink DEF Issued
  <2> QED BY <1>4, <2>1
<1>7. ASSUME NEW l \in Links, NEW purpose, Redeem(l, purpose) PROVE IssuerInv'
  <2>1. link' = [link EXCEPT ![l].status = "used"]
    BY <1>7 DEF Redeem
  <2>2. \A k \in Links : link'[k].status = "unused" => link'[k] = link[k]
    BY <1>2, <2>1 DEF Link
  <2> QED BY <1>4, <2>2
<1>8. CASE UNCHANGED link
  BY <1>4, <1>8
<1> QED BY <1>1, <1>5, <1>6, <1>7, <1>8, LinkSteps

\* Two reset links that work were issued by requests that overlapped.
THEOREM OneLinkForEachIssuer == Spec => []OneLinkPerIssuer
<1>1. Init => IssuerInv
  BY TypeInit DEF Init, IssuerInv, OneLinkPerIssuer, Unused, Idle
<1>2. Spec => []IssuerInv
  BY <1>1, IssuerStep, PTL DEF Spec
<1> QED BY <1>2, PTL DEF IssuerInv

\* Before there is a user nothing is live and nobody logs in; afterwards there
\* always is one.
ResetInv ==
    /\ TypeInv
    /\ ResetSignsOut
    /\ ~Exists => /\ \A s \in Sessions : session[s].status # "live"
                  /\ \A q \in Requests : request[q].pc # "open"

LEMMA ResetStep == ResetInv /\ [Next]_vars => ResetInv'
<1> SUFFICES ASSUME ResetInv, [Next]_vars PROVE ResetInv'
  OBVIOUS
<1>1. TypeInv /\ IdentityTypeOK /\ TypeInv'
  BY TypeStep DEF ResetInv, TypeInv
<1>2. /\ session \in [Sessions -> Session] /\ request \in [Requests -> Job]
      /\ user \in User /\ user.password \in Nat /\ crashes \in Nat
  BY <1>1, IdentityAssumption DEF IdentityTypeOK, User
<1>3. /\ Idle.pc = "idle" /\ [Idle EXCEPT !.pc = "register"].pc = "register"
      /\ [Idle EXCEPT !.pc = "open"].pc = "open"
      /\ [Idle EXCEPT !.pc = "revokeAll"].pc = "revokeAll"
  BY DEF Idle
\* Steps that leave the password and the rows of sessions alone.
<1>4. ASSUME user'.password = user.password, UNCHANGED crashes,
             \A s \in Sessions : session'[s].status = "live" => session'[s] = session[s],
             \A q \in Requests : request[q].pc = "revokeAll" =>
                request'[q].pc = "revokeAll" \/ \A s \in Sessions : session'[s].status # "live",
             \A q \in Requests : request'[q].pc = "open" => request[q].pc = "open" \/ Exists
      PROVE  ResetInv'
  <2>1. Exists' = Exists
    BY <1>4 DEF Exists
  <2> QED BY <1>1, <1>4, <2>1 DEF ResetInv, ResetSignsOut
<1>5. ASSUME NEW q \in Requests, CreateUser(q), ~Exists PROVE ResetInv'
  <2>1. user'.password = 1 /\ Exists' /\ UNCHANGED session
    BY <1>5 DEF CreateUser, Exists
  <2> QED BY <1>1, <1>5, <2>1 DEF ResetInv, ResetSignsOut
<1>6. ASSUME NEW q \in Requests, Crash(q) PROVE ResetInv'
  <2>1. crashes' # 0 /\ UNCHANGED <<user, session>>
    BY <1>2, <1>6 DEF Crash
  <2>2. \A p \in Requests : request'[p].pc = "open" => request[p].pc = "open"
    BY <1>2, <1>3, <1>6 DEF Crash
  <2> QED BY <1>1, <2>1, <2>2 DEF ResetInv, ResetSignsOut, Exists
<1>7. ASSUME NEW q \in Requests, NEW l \in Links, ResetPassword(q, l) PROVE ResetInv'
  <2>1. request'[q].pc = "revokeAll"
    BY <1>2, <1>3, <1>7 DEF ResetPassword
  <2>2. user'.password = user.password + 1
    BY <1>2, <1>7 DEF ResetPassword, User
  <2> QED BY <1>1, <1>2, <2>1, <2>2 DEF ResetInv, ResetSignsOut, Exists
<1>8. ASSUME NEW q \in Requests, OpenSession(q) PROVE ResetInv'
  <2>1. Exists
    BY <1>8 DEF OpenSession, ResetInv
  <2>2. UNCHANGED <<user, crashes>> /\ request' = [request EXCEPT ![q] = Idle]
    BY <1>8 DEF OpenSession
  <2>3. \A s \in Sessions : session'[s].status = "live" =>
           session'[s] = session[s] \/ session'[s].opened = user.password
    BY <1>1, <1>2, <1>8, OpenEffect
  <2>4. Exists' /\ \A p \in Requests : request[p].pc = "revokeAll" => request'[p].pc = "revokeAll"
    BY <1>2, <1>8, <2>1, <2>2 DEF Exists, OpenSession
  <2> QED BY <1>1, <2>2, <2>3, <2>4 DEF ResetInv, ResetSignsOut
<1>9. ASSUME NEW which, NEW reason \in Reasons, Revoke(which, reason), UNCHANGED <<user, crashes>>,
             UNCHANGED request \/ \E q \in Requests : request' = [request EXCEPT ![q] = Idle],
             \A q \in Requests : request[q].pc = "revokeAll" =>
                request'[q] = request[q] \/ which = Sessions
      PROVE  ResetInv'
  <2>1. \A s \in Sessions : session'[s].status = "live" => session'[s] = session[s] /\ s \notin which
    BY <1>1, <1>9, RevokeEffect
  <2>2. \A p \in Requests : request'[p].pc = "open" => request[p].pc = "open"
    BY <1>2, <1>3, <1>9
  <2>3. \A p \in Requests : request[p].pc = "revokeAll" =>
           request'[p].pc = "revokeAll" \/ \A s \in Sessions : session'[s].status # "live"
    BY <1>9, <2>1
  <2> QED BY <1>4, <1>9, <2>1, <2>2, <2>3
<1>10. ASSUME NEW q \in Requests, RevokeAfterReset(q) \/ RevokeOnReuse(q) PROVE ResetInv'
  <2>1. CASE RevokeAfterReset(q)
    BY <1>9, <2>1 DEF RevokeAfterReset, Reasons
  <2>2. CASE RevokeOnReuse(q)
    <3>1. \A p \in Requests : request[p].pc = "revokeAll" => request'[p] = request[p]
      BY <1>2, <2>2 DEF RevokeOnReuse
    <3> QED BY <1>9, <2>2, <3>1 DEF RevokeOnReuse, Reasons
  <2> QED BY <1>10, <2>1, <2>2
<1>11. CASE SignOut
  <2>1. UNCHANGED <<user, crashes, request>> /\ "LOGOUT" \in Reasons /\ "LOGOUT_ALL" \in Reasons
    BY <1>11 DEF SignOut, Reasons
  <2>2. CASE \E s \in Revocable : Revoke({s}, "LOGOUT")
    BY <1>9, <2>1, <2>2
  <2>3. CASE Revoke(Sessions, "LOGOUT_ALL")
    BY <1>9, <2>1, <2>3
  <2> QED BY <1>11, <2>2, <2>3 DEF SignOut
<1>12. ASSUME NEW q \in Requests,
              \/ Register(q) \/ Login(q) \/ ForgotPassword(q) \/ IssueLink(q) \/ Rotate(q)
              \/ CreateUser(q) /\ Exists
              \/ \E t \in Tokens : Refresh(q, t)
       PROVE  ResetInv'
  <2>1. UNCHANGED <<user, session, crashes>>
    BY <1>12 DEF Register, Login, ForgotPassword, IssueLink, Rotate, CreateUser, Refresh
  <2>2. \A p \in Requests : request[p].pc = "revokeAll" => request'[p] = request[p]
    BY <1>2, <1>12 DEF Register, Login, ForgotPassword, IssueLink, Rotate, CreateUser, Refresh
  <2>3. \A p \in Requests : request'[p].pc = "open" => request[p].pc = "open" \/ Exists
    <3>1. CASE Login(q)
      BY <1>2, <3>1 DEF Login
    <3>2. CASE Register(q) \/ IssueLink(q) \/ Rotate(q) \/ CreateUser(q)
      BY <1>2, <1>3, <3>2 DEF Register, IssueLink, Rotate, CreateUser
    <3>3. CASE ForgotPassword(q)
      <4>1. [Idle EXCEPT !.pc = "issue", !.seen = Unused("PASSWORD_RESET")].pc = "issue"
        BY DEF Idle
      <4> QED BY <1>2, <3>3, <4>1 DEF ForgotPassword
    <3>4. ASSUME NEW t \in Tokens, Refresh(q, t)
          PROVE  \A p \in Requests : request'[p].pc = "open" => request[p].pc = "open"
      <4>1. PICK j : request' = [request EXCEPT ![q] = j] /\ j.pc \in {"rotate", "reuse"}
        BY <3>4, RefreshJob
      <4> QED BY <1>2, <4>1
    <3> QED BY <1>12, <3>1, <3>2, <3>3, <3>4
  <2> QED BY <1>4, <2>1, <2>2, <2>3
<1>13. ASSUME NEW l \in Links, VerifyEmail(l) PROVE ResetInv'
  <2>1. UNCHANGED <<session, request, crashes>> /\ user'.password = user.password
    BY <1>2, <1>13 DEF VerifyEmail, User
  <2> QED BY <1>4, <2>1
<1>14. UNCHANGED vars => ResetInv'
  BY <1>4 DEF vars
<1> QED BY <1>5, <1>6, <1>7, <1>8, <1>10, <1>11, <1>12, <1>13, <1>14 DEF Next

\* Unless a request died half way, no session opened under an older password
\* is live once the resets have finished.
THEOREM ResetSignsEveryoneOut == Spec => []ResetSignsOut
<1>1. Init => ResetInv
  BY TypeInit DEF Init, ResetInv, ResetSignsOut, Idle
<1>2. Spec => []ResetInv
  BY <1>1, ResetStep, PTL DEF Spec
<1> QED BY <1>2, PTL DEF ResetInv
=============================================================================
