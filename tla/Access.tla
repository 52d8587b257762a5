-------------------------------- MODULE Access --------------------------------
(***************************************************************************)
(* Who may watch a lecture: the entitlement row, its Redis cache, the      *)
(* policy chain that turns both into a verdict, and the playback token and *)
(* presigned URLs a verdict is spent on.                                   *)
(*                                                                         *)
(* The cache key is one learner and one course, so the module follows one  *)
(* pair, with one lecture. A snapshot carries, besides what the code puts  *)
(* in it, the number of the commit it was read after: history, which no    *)
(* guard reads. Instants are kept as time left or time gone by, so that    *)
(* the clock needs no end; of the learner's tokens, as of their URLs, the  *)
(* last to expire stands for all. Staff are decided on too, but what they  *)
(* are given is not followed. No caller grants with an expiresAt, so rows  *)
(* do not lapse.                                                           *)
(***************************************************************************)
EXTENDS Naturals, FiniteSets

CONSTANTS
    Orders,    \* the orders that contain the course
    Readers,   \* concurrent requests for a playback grant
    Admins,    \* besides whom the course's instructor is staff
    CacheTTL,  \* TTL_SECONDS of the cached row
    TokenTTL,  \* playbackTokenTtlSeconds
    Delay,     \* the longest a grant request takes
    MaxLosses, \* failed DELs and process crashes
    MaxEdits,  \* changes of the course
    None

ASSUME AccessAssumption ==
    /\ {CacheTTL, TokenTTL} \subseteq Nat \ {0}
    /\ {Delay, MaxLosses, MaxEdits} \subseteq Nat
    /\ "learner" \notin Admins

VARIABLES
    orders,   \* each order: open, paid or refunded
    row,      \* the Entitlement row: status and the order that granted it
    cache,    \* the Redis key, or NoEntry
    pending,  \* commits whose forget has not run yet
    lost,     \* commits whose forget failed or died with its process
    course,   \* what the policies read of Course and Lecture
    reader,   \* grant requests in progress
    token,    \* time left of the learner's last playback token
    url,      \* time left of the learner's last presigned manifest URL
    commits,  \* history: commits that changed the row
    since,    \* history: time since the last of them
    closed,   \* history: time since the course was last taken down
    losses, edits
vars == <<orders, row, cache, pending, lost, course, reader, token, url, commits, since,
          closed, losses, edits>>

\* How long a refund may take to show; the history clocks stop there. An entry
\* serves its last request in the tick before it expires.
Window == 2 * Delay + (CacheTTL - 1) + TokenTTL

Staff == {"instructor"} \cup Admins
Actors == {"learner"} \cup Staff
RowStatus == {"none", "ACTIVE", "REVOKED"}
\* gift: the course is free, or the lecture a preview; where it is both, either.
Gifts == {"none", "free", "preview"}
Course == [status : {"DRAFT", "IN_REVIEW", "PUBLISHED", "ARCHIVED"}, gift : Gifts]
NoEntry == [status |-> "none", commit |-> 0, wrote |-> 0, left |-> 0]
Idle == [pc |-> "idle", who |-> "learner", age |-> 0, status |-> "none", commit |-> 0,
         open |-> FALSE, gift |-> "none"]

Init ==
    /\ orders = [o \in Orders |-> "open"]
    /\ row = [status |-> "none", order |-> None]
    /\ cache = NoEntry /\ pending = {} /\ lost = {}
    /\ course \in [status : {"DRAFT", "PUBLISHED"}, gift : {"none"}]
    /\ reader = [p \in Readers |-> Idle]
    /\ token = 0 /\ url = 0
    /\ commits = 0 /\ since = 0 /\ closed = 0 /\ losses = 0 /\ edits = 0

-----------------------------------------------------------------------------
(* The writers: OrderService, inside its transaction and after it.         *)

\* A commit changes the row; its owner then still has the cache to drop.
Committed(r) ==
    /\ row' = r
    /\ commits' = commits + 1
    /\ since' = 0
    /\ pending' = pending \cup {commits + 1}

\* pay: the grant is an upsert by (user, course), so the last order owns it.
Pay(o) ==
    /\ orders[o] = "open"
    /\ orders' = [orders EXCEPT ![o] = "paid"]
    /\ Committed([status |-> "ACTIVE", order |-> o])
    /\ UNCHANGED <<cache, lost, course, reader, token, url, closed, losses, edits>>

\* refund: revokeByOrder finds what this order granted, or nothing to forget.
Refund(o) ==
    /\ orders[o] = "paid"
    /\ orders' = [orders EXCEPT ![o] = "refunded"]
    /\ IF row = [status |-> "ACTIVE", order |-> o]
       THEN Committed([row EXCEPT !.status = "REVOKED"])
       ELSE UNCHANGED <<row, commits, since, pending>>
    /\ UNCHANGED <<cache, lost, course, reader, token, url, closed, losses, edits>>

\* A forget that leaves negative entries.
BugDropped(entry) == IF entry.status = "none" THEN entry ELSE NoEntry

\* What DEL leaves of the key.
Dropped(entry) == NoEntry

\* forget, after the commit.
Forget(v) ==
    /\ v \in pending
    /\ pending' = pending \ {v}
    /\ cache' = Dropped(cache)
    /\ UNCHANGED <<orders, row, lost, course, reader, token, url, commits, since,
                   closed, losses, edits>>

Spend == losses < MaxLosses /\ losses' = losses + 1

\* A DEL that fails is logged and swallowed.
ForgetFails(v) ==
    /\ v \in pending /\ Spend
    /\ pending' = pending \ {v}
    /\ lost' = lost \cup {v}
    /\ UNCHANGED <<orders, row, cache, course, reader, token, url, commits, since,
                   closed, edits>>

\* The process dies: requests vanish, and what it had yet to forget.
Crash ==
    /\ Spend
    /\ pending' = {} /\ lost' = lost \cup pending
    /\ reader' = [p \in Readers |-> Idle]
    /\ UNCHANGED <<orders, row, cache, course, token, url, commits, since, closed,
                   edits>>

-----------------------------------------------------------------------------
(* The course, as the catalog changes it.                                  *)

Moves(s) ==
    CASE s = "DRAFT" -> {"IN_REVIEW", "ARCHIVED"}
      [] s = "IN_REVIEW" -> {"PUBLISHED", "DRAFT", "ARCHIVED"}
      [] s = "PUBLISHED" -> {"DRAFT", "ARCHIVED"}
      [] OTHER -> {}

Edited(c) ==
    /\ edits < MaxEdits /\ edits' = edits + 1
    /\ course' = c
    /\ UNCHANGED <<orders, row, cache, pending, lost, reader, token, url, commits,
                   since, losses>>

Transition ==
    \E s \in Moves(course.status) :
        /\ Edited([course EXCEPT !.status = s])
        /\ closed' = IF course.status = "PUBLISHED" THEN 0 ELSE closed

\* A price is confirmed, or a lecture made a preview, or neither any more.
Revise ==
    /\ course.status # "ARCHIVED"
    /\ \E gift \in Gifts \ {course.gift} : Edited([course EXCEPT !.gift = gift])
    /\ UNCHANGED closed

-----------------------------------------------------------------------------
(* A grant request: lecture and course, then the row, then the verdict.    *)

Step(p, r) ==
    /\ reader' = [reader EXCEPT ![p] = r]
    /\ UNCHANGED <<orders, row, pending, lost, course, url, commits, since, closed,
                   losses, edits>>

\* What the policies are shown of lecture and course.
lectureWithCourse == [open |-> course.status = "PUBLISHED", gift |-> course.gift]

\* authorizeLecture; for staff, contextFor then reads no row.
Open(p, who) ==
    /\ reader[p].pc = "idle"
    /\ Step(p, [Idle EXCEPT !.pc = IF who \in Staff THEN "decide" ELSE "get",
                            !.who = who,
                            !.open = lectureWithCourse.open,
                            !.gift = lectureWithCourse.gift])
    /\ UNCHANGED <<cache, token>>

\* GET: a hit, negative ones included, ends the lookup.
CacheGet(p) ==
    /\ reader[p].pc = "get"
    /\ \/ /\ cache.left > 0
          /\ Step(p, [reader[p] EXCEPT !.pc = "decide", !.status = cache.status,
                                       !.commit = cache.commit])
       \/ Step(p, [reader[p] EXCEPT !.pc = "find"]) /\ cache.left = 0
    /\ UNCHANGED <<cache, token>>

\* GET failed: the lookup goes to the database as if it had missed.
CacheDown(p) ==
    /\ reader[p].pc = "get"
    /\ cache.left > 0
    /\ Step(p, [reader[p] EXCEPT !.pc = "find"])
    /\ UNCHANGED <<cache, token>>

\* The decorated repository's find.
RowFind(p) ==
    /\ reader[p].pc = "find"
    /\ Step(p, [reader[p] EXCEPT !.pc = "set", !.status = row.status, !.commit = commits])
    /\ UNCHANGED <<cache, token>>

\* SET .. EX: what was found, whether or not it still holds; or SET failed.
CacheSet(p) ==
    /\ reader[p].pc = "set"
    /\ Step(p, [reader[p] EXCEPT !.pc = "decide"])
    /\ \/ cache' = [status |-> reader[p].status, commit |-> reader[p].commit,
                    wrote |-> commits, left |-> CacheTTL]
       \/ UNCHANGED cache
    /\ UNCHANGED token

-----------------------------------------------------------------------------
(* The policies, each of which allows, denies or abstains.                 *)

allow(condition) == IF condition THEN "ALLOW" ELSE "ABSTAIN"
deny(condition) == IF condition THEN "DENY" ELSE "ABSTAIN"

AdminOverride(r) == allow(r.who \in Admins)
CourseOwner(r) == allow(r.who = "instructor")
FreeCourse(r) == allow(r.gift = "free")
PreviewLecture(r) == allow(r.gift = "preview")
ActiveEntitlement(r) == allow(r.status = "ACTIVE")

\* A published check that spares whoever bought the course.
BugCoursePublished(r) == deny(r.who \notin Staff /\ ~r.open /\ r.status # "ACTIVE")
CoursePublished(r) == deny(r.who \notin Staff /\ ~r.open)
RevokedEntitlement(r) == deny(r.who \notin Staff /\ r.status = "REVOKED")

\* The engine asks every policy: a denial wins, and nothing allowed is denied.
Policies(r) == {AdminOverride(r), CourseOwner(r), CoursePublished(r), RevokedEntitlement(r),
                FreeCourse(r), PreviewLecture(r), ActiveEntitlement(r)}
Allowed(r) == "DENY" \notin Policies(r) /\ "ALLOW" \in Policies(r)

\* The engine's verdict, and on ALLOW a token.
Decide(p) ==
    /\ reader[p].pc = "decide"
    /\ Step(p, Idle)
    /\ token' = IF Allowed(reader[p]) /\ reader[p].who = "learner" THEN TokenTTL ELSE token
    /\ UNCHANGED cache

\* A presigned URL that lives for a full token time.
BugUrlLife(remaining) == TokenTTL

\* How long a manifest's URL may live: never beyond the token it was shown.
UrlLife(remaining) == IF remaining < TokenTTL THEN remaining ELSE TokenTTL

\* manifest: the token is the credential; the chain is not run again.
Manifest ==
    /\ token > 0
    /\ url' = UrlLife(token)
    /\ UNCHANGED <<orders, row, cache, pending, lost, course, reader, token, commits,
                   since, closed, losses, edits>>

-----------------------------------------------------------------------------
\* Time passes, but no request outlives Delay; what has expired is gone.
Less(t) == IF t > 0 THEN t - 1 ELSE 0
More(t) == IF t < Window THEN t + 1 ELSE t
Tick ==
    /\ \A p \in Readers : reader[p].pc = "idle" \/ reader[p].age < Delay
    /\ reader' = [p \in Readers |-> IF reader[p].pc = "idle" THEN reader[p]
                                   ELSE [reader[p] EXCEPT !.age = @ + 1]]
    /\ cache' = IF cache.left > 1 THEN [cache EXCEPT !.left = @ - 1] ELSE NoEntry
    /\ token' = Less(token) /\ url' = Less(url)
    /\ since' = More(since) /\ closed' = More(closed)
    /\ UNCHANGED <<orders, row, pending, lost, course, commits, losses, edits>>

Next ==
    \/ \E o \in Orders : Pay(o) \/ Refund(o)
    \/ \E v \in pending : Forget(v) \/ ForgetFails(v)
    \/ Crash \/ Transition \/ Revise \/ Manifest \/ Tick
    \/ \E p \in Readers :
          \/ \E who \in Actors : Open(p, who)
          \/ CacheGet(p) \/ CacheDown(p) \/ RowFind(p) \/ CacheSet(p) \/ Decide(p)

Spec == Init /\ [][Next]_vars
=============================================================================
