------------------------------ MODULE Identity ------------------------------
(***************************************************************************)
(* One user's account, sessions and links (apps/api/src/modules/identity): *)
(* AuthService, SessionService and VerificationService over the tables     *)
(* User, Session, RefreshToken and VerificationToken.  A request is a      *)
(* process; its steps are its transactions and the reads before them, and  *)
(* other requests interleave between them.  A request that is refused      *)
(* changes nothing and has no action; expiry is such a refusal.            *)
(***************************************************************************)
EXTENDS Naturals, FiniteSets

CONSTANTS
    Sessions, Tokens, Links,   \* the rows that may come to exist
    Requests,                  \* requests served at the same time
    MaxCrashes,                \* requests that die half way
    None

VARIABLES
    user,       \* User: whether it exists, which password it has, whether verified
    session,    \* Session rows
    token,      \* RefreshToken rows
    link,       \* VerificationToken rows
    request,    \* what each request is doing
    told,       \* RefreshReuseDetected events in the outbox, by session
    effects,    \* EmailVerified or PasswordChanged events, by the link redeemed
    late,       \* tokens minted for a session after it was revoked
    crashes

history == <<told, effects, late>>
vars == <<user, session, token, link, request, told, effects, late, crashes>>

Reasons == {"LOGOUT", "LOGOUT_ALL", "REUSE_DETECTED", "PASSWORD_CHANGED"}
Purposes == {"EMAIL_VERIFICATION", "PASSWORD_RESET"}

ASSUME IdentityAssumption ==
    /\ IsFiniteSet(Requests) /\ Requests # {}
    /\ MaxCrashes \in Nat
    /\ None \notin Sessions \cup Tokens \cup Links \cup Requests \cup Reasons \cup Purposes

\* password: the number of the user's password, 0 before there is a user.
User == [password : Nat, verified : BOOLEAN]
\* opened: the user's password when the row was inserted; the login may have
\* checked an older one.
Session == [status : {"none", "live", "revoked"}, reason : Reasons \cup {None},
            opened : Nat]
Token == [status : {"none", "unused", "used"}, session : Sessions \cup {None}]
\* by: the request that issued it.
Link == [status : {"none", "unused", "used"}, purpose : Purposes \cup {None},
         by : Requests \cup {None}]

\* The local variables of a request.
Job == [pc : {"idle", "register", "open", "rotate", "reuse", "issue", "revokeAll"},
        token : Tokens \cup {None}, seen : SUBSET Links]
Idle == [pc |-> "idle", token |-> None, seen |-> {}]

Init ==
    /\ user = [password |-> 0, verified |-> FALSE]
    /\ session = [s \in Sessions |-> [status |-> "none", reason |-> None, opened |-> 0]]
    /\ token = [t \in Tokens |-> [status |-> "none", session |-> None]]
    /\ link = [l \in Links |-> [status |-> "none", purpose |-> None, by |-> None]]
    /\ request = [q \in Requests |-> Idle]
    /\ told = [s \in Sessions |-> 0]
    /\ effects = [l \in Links |-> 0]
    /\ late = [s \in Sessions |-> 0]
    /\ crashes = 0

Exists == user.password > 0

\* The row an INSERT makes; which of the free ids it gets does not matter.
Free(table) == {x \in DOMAIN table : table[x].status = "none"}
New(table) == CHOOSE x \in Free(table) : TRUE

-----------------------------------------------------------------------------
(* VerificationService.                                                    *)

Unused(purpose) == {l \in Links : link[l].status = "unused" /\ link[l].purpose = purpose}

\* issue: spends the links of an earlier snapshot and inserts a new one.
BugOtherStatus(new, purpose, q, seen) ==
    [link EXCEPT ![new] = [status |-> "issued", purpose |-> purpose, by |-> q]]
Issued(new, purpose, q, seen) ==
    [l \in Links |->
        IF l = new THEN [status |-> "unused", purpose |-> purpose, by |-> q]
        ELSE IF l \in seen THEN [link[l] EXCEPT !.status = "used"] ELSE link[l]]

\* redeem: one conditional UPDATE.
BugRedeemUsed(l, purpose) == link[l].status # "none" /\ link[l].purpose = purpose
Redeemable(l, purpose) == l \in Unused(purpose)

Redeem(l, purpose) ==
    /\ Redeemable(l, purpose)
    /\ link' = [link EXCEPT ![l].status = "used"]
    /\ effects' = [effects EXCEPT ![l] = @ + 1]

-----------------------------------------------------------------------------
(* AuthService.                                                            *)

\* register: findByEmail finds nobody; later the transaction inserts the user,
\* whose email is unique, and the link.
Register(q) ==
    /\ request[q].pc = "idle" /\ ~Exists
    /\ request' = [request EXCEPT ![q] = [Idle EXCEPT !.pc = "register"]]
    /\ UNCHANGED <<user, session, token, link, history, crashes>>

CreateUser(q) ==
    /\ request[q].pc = "register"
    /\ \/ /\ ~Exists
          /\ user' = [password |-> 1, verified |-> FALSE]
          /\ Free(link) # {}
          /\ link' = Issued(New(link), "EMAIL_VERIFICATION", q, {})
       \/ Exists /\ UNCHANGED <<user, link>>
    /\ request' = [request EXCEPT ![q] = Idle]
    /\ UNCHANGED <<session, token, history, crashes>>

VerifyEmail(l) ==
    /\ Redeem(l, "EMAIL_VERIFICATION")
    /\ user' = [user EXCEPT !.verified = TRUE]
    /\ UNCHANGED <<session, token, request, told, late, crashes>>

\* login: the password is verified against a row read outside any transaction.
Login(q) ==
    /\ request[q].pc = "idle" /\ Exists
    /\ request' = [request EXCEPT ![q] = [Idle EXCEPT !.pc = "open"]]
    /\ UNCHANGED <<user, session, token, link, history, crashes>>

\* SessionService.create: the session and its first token in one insert.
OpenSession(q) ==
    /\ request[q].pc = "open"
    /\ Free(session) # {} /\ Free(token) # {}
    /\ session' = [session EXCEPT ![New(session)] =
            [status |-> "live", reason |-> None, opened |-> user.password]]
    /\ token' = [token EXCEPT ![New(token)] =
            [status |-> "unused", session |-> New(session)]]
    /\ request' = [request EXCEPT ![q] = Idle]
    /\ UNCHANGED <<user, link, history, crashes>>

\* requestPasswordReset: the statement that spends the old links sees those
\* committed when it starts (READ COMMITTED) ...
ForgotPassword(q) ==
    /\ request[q].pc = "idle" /\ Exists
    /\ request' = [request EXCEPT ![q] =
            [Idle EXCEPT !.pc = "issue", !.seen = Unused("PASSWORD_RESET")]]
    /\ UNCHANGED <<user, session, token, link, history, crashes>>

\* ... and the transaction commits with the new link.
IssueLink(q) ==
    /\ request[q].pc = "issue"
    /\ Free(link) # {}
    /\ link' = Issued(New(link), "PASSWORD_RESET", q, request[q].seen)
    /\ request' = [request EXCEPT ![q] = Idle]
    /\ UNCHANGED <<user, session, token, history, crashes>>

\* resetPassword: the transaction, then revokeAllForUser in another one.
ResetPassword(q, l) ==
    /\ request[q].pc = "idle"
    /\ Redeem(l, "PASSWORD_RESET")
    /\ user' = [user EXCEPT !.password = @ + 1]
    /\ request' = [request EXCEPT ![q] = [Idle EXCEPT !.pc = "revokeAll"]]
    /\ UNCHANGED <<session, token, told, late, crashes>>

-----------------------------------------------------------------------------
(* SessionService.                                                         *)

\* Every revocation is one UPDATE conditional on revokedAt being null.
BugRefreshedOnly == {s \in Sessions : /\ session[s].status = "live"
                                      /\ \E t \in Tokens : token[t] = [status |-> "used", session |-> s]}
Revocable == {s \in Sessions : session[s].status = "live"}

Revoke(which, reason) ==
    session' = [s \in Sessions |->
        IF s \in which \cap Revocable
        THEN [session[s] EXCEPT !.status = "revoked", !.reason = reason] ELSE session[s]]

RevokeAfterReset(q) ==
    /\ request[q].pc = "revokeAll"
    /\ Revoke(Sessions, "PASSWORD_CHANGED")
    /\ request' = [request EXCEPT ![q] = Idle]
    /\ UNCHANGED <<user, token, link, history, crashes>>

\* logout, DELETE /sessions/:id and logout-all: a statement each.
SignOut ==
    /\ \/ \E s \in Revocable : Revoke({s}, "LOGOUT")
       \/ Exists /\ Revoke(Sessions, "LOGOUT_ALL")
    /\ UNCHANGED <<user, token, link, request, history, crashes>>

\* rotate: the token and its session are read, and decide what comes next.
BugIgnoreRevoked(t) == token[t].status = "unused"
MayRotate(t) == token[t].status = "unused" /\ session[token[t].session].status = "live"

Refresh(q, t) ==
    /\ request[q].pc = "idle"
    /\ \/ token[t].status = "used" /\ request' = [request EXCEPT ![q] =
            [Idle EXCEPT !.pc = "reuse", !.token = t]]
       \/ MayRotate(t) /\ request' = [request EXCEPT ![q] =
            [Idle EXCEPT !.pc = "rotate", !.token = t]]
    /\ UNCHANGED <<user, session, token, link, history, crashes>>

\* The transaction of rotate checks nothing again: spent by id, replaced.
BugSpendOnly(t, new) == [token EXCEPT ![t].status = "used"]
Rotated(t, new) ==
    [token EXCEPT ![t].status = "used",
                  ![new] = [status |-> "unused", session |-> token[t].session]]

Rotate(q) ==
    /\ request[q].pc = "rotate"
    /\ LET t == request[q].token
           s == token[t].session
       IN  /\ Free(token) # {}
           /\ token' = Rotated(t, New(token))
           /\ late' = IF session[s].status = "revoked"
                      THEN [late EXCEPT ![s] = @ + 1] ELSE late
    /\ request' = [request EXCEPT ![q] = Idle]
    /\ UNCHANGED <<user, session, link, told, effects, crashes>>

\* revokeOnReuse: the revocation and its event in one transaction.
BugTellAlways(s) == TRUE
TookEffect(s) == s \in Revocable

RevokeOnReuse(q) ==
    /\ request[q].pc = "reuse"
    /\ LET s == token[request[q].token].session
       IN  /\ Revoke({s}, "REUSE_DETECTED")
           /\ told' = IF TookEffect(s) THEN [told EXCEPT ![s] = @ + 1] ELSE told
    /\ request' = [request EXCEPT ![q] = Idle]
    /\ UNCHANGED <<user, token, link, effects, late, crashes>>

-----------------------------------------------------------------------------

\* A request dies: its open transaction rolls back, the rest never happens.
Crash(q) ==
    /\ crashes < MaxCrashes
    /\ crashes' = crashes + 1
    /\ request[q].pc # "idle"
    /\ request' = [request EXCEPT ![q] = Idle]
    /\ UNCHANGED <<user, session, token, link, history>>

Next ==
    \/ \E l \in Links : VerifyEmail(l)
    \/ SignOut
    \/ \E q \in Requests :
         \/ Register(q) \/ CreateUser(q) \/ Login(q) \/ OpenSession(q)
         \/ ForgotPassword(q) \/ IssueLink(q) \/ RevokeAfterReset(q)
         \/ Rotate(q) \/ RevokeOnReuse(q) \/ Crash(q)
         \/ \E l \in Links : ResetPassword(q, l)
         \/ \E t \in Tokens : Refresh(q, t)

Spec == Init /\ [][Next]_vars
=============================================================================
