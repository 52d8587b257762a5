--------------------------- MODULE AccessProperties ---------------------------
(* How soon a refund and an unpublished course stop a learner watching.    *)
EXTENDS Access

\* Row, cache, requests and credentials hold values of their types.
AccessTypeOK ==
    /\ {commits, since, closed, losses, edits} \subseteq Nat
    /\ orders \in [Orders -> {"open", "paid", "refunded"}]
    /\ row \in [status : RowStatus, order : Orders \cup {None}]
    /\ cache \in [status : RowStatus, commit : Nat, wrote : Nat, left : 0..CacheTTL]
    /\ course \in Course
    /\ reader \in [Readers -> [pc : {"idle", "get", "find", "set", "decide"}, who : Actors,
                               age : 0..Delay, status : RowStatus, commit : Nat,
                               open : BOOLEAN, gift : Gifts]]
    /\ token \in 0..TokenTTL /\ url \in 0..TokenTTL
    /\ pending \subseteq Nat /\ lost \subseteq Nat

\* The learner can still watch for at most t from an instant `gone` ago.
StopsWithin(t, gone) ==
    /\ token > 0 => token + gone <= t
    /\ url > 0 => url + gone <= t

\* A refunded learner has no token and no URL once a cached row, a token and
\* the two requests that filled and used the cache have run out, whatever
\* became of the invalidation.
RevocationWindow ==
    row.status = "REVOKED" => StopsWithin(Window, since)

\* An unpublished or archived course stops within a token: the row is cached,
\* the course is not.
UnpublishedStops ==
    course.status # "PUBLISHED" => StopsWithin(TokenTTL + Delay, closed)

\* An entry written before a commit does not survive its forget: what is stale
\* awaits a DEL, lost one, or was written after the commit by an older read.
StaleOnlyWhenOvertaken ==
    cache.left > 0 /\ cache.commit < commits =>
        cache.wrote > cache.commit \/ cache.commit + 1 \in pending \cup lost
=============================================================================
