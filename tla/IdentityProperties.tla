------------------------- MODULE IdentityProperties -------------------------
(* What concurrent requests leave of the rules of identity.md.             *)
EXTENDS Identity

\* Every table and every request holds values of its columns' types.
IdentityTypeOK ==
    /\ user \in User
    /\ session \in [Sessions -> Session]
    /\ token \in [Tokens -> Token]
    /\ link \in [Links -> Link]
    /\ request \in [Requests -> Job]
    /\ told \in [Sessions -> Nat]
    /\ effects \in [Links -> Nat]
    /\ late \in [Sessions -> Nat]
    /\ crashes \in 0..MaxCrashes

\* The owner is told of a reuse exactly once, and only if it is what ended the
\* session (revokeOnReuse), however many requests present the used token.
ReuseToldOnce ==
    \A s \in Sessions :
        told[s] = IF session[s].reason = "REUSE_DETECTED" THEN 1 ELSE 0

\* No crash or race strands a device: a live session always has a token that
\* was not used yet (rotate spends and mints in one transaction).
NoSessionStranded ==
    \A s \in Sessions : session[s].status = "live" =>
        \E t \in Tokens : token[t] = [status |-> "unused", session |-> s]

\* Requests that read a session as live and are about to rotate its token.
Rotating(s) == {q \in Requests : request[q].pc = "rotate" /\ token[request[q].token].session = s}

\* A revoked session's chain ends: it grows by at most one token for each
\* request that had read it before the revocation.
RevocationCutsChain ==
    \A s \in Sessions : session[s].status = "revoked" =>
        late[s] + Cardinality(Rotating(s)) <= Cardinality(Requests)

\* A verification or reset link has its effect at most once, also when it is
\* clicked twice at a time (redeem).
LinkWorksOnce ==
    \A l \in Links : effects[l] <= 1 /\ (effects[l] = 1 => link[l].status = "used")

\* Two reset links that work come from requests that overlapped: one of a kind
\* when one request is served at a time (issue).
OneLinkPerIssuer ==
    \A k, l \in Unused("PASSWORD_RESET") : link[k].by = link[l].by => k = l

\* Unless a request died half way, no session whose row was inserted under an
\* older password is live once the resets have finished (resetPassword).
ResetSignsOut ==
    (crashes = 0 /\ \A q \in Requests : request[q].pc # "revokeAll") =>
        \A s \in Sessions : session[s].status = "live" => session[s].opened = user.password

\* Revocation is terminal and keeps its first reason, and a used refresh token
\* or link never works again, whoever writes the row next.
SpentForGood ==
    [][/\ \A s \in Sessions : session[s].status = "revoked" => session'[s] = session[s]
       /\ \A t \in Tokens : token[t].status = "used" => token'[t] = token[t]
       /\ \A l \in Links : link[l].status = "used" => link'[l] = link[l]]_<<session, token, link>>
=============================================================================
