----------------------------- MODULE AccessProofs -----------------------------
(* How long stale access lasts, proved for any orders, requests and times. *)
EXTENDS AccessProperties, TLAPS

\* What a request holds is the row of now, or was overtaken not long ago.
Holds(r, slack) ==
    /\ r.commit <= commits
    /\ r.commit = commits => r.status = row.status
    /\ r.commit < commits => since <= r.age + slack

\* An entry too; its time left and the time since the commit add up.
CacheOK ==
    cache.left > 0 =>
        /\ cache.commit <= commits
        /\ cache.commit = commits => cache.status = row.status
        /\ cache.commit < commits => cache.left + since <= Delay + CacheTTL
        /\ cache.commit < commits /\ cache.wrote = cache.commit =>
               cache.commit + 1 \in pending \cup lost
        /\ cache.commit <= cache.wrote

ReaderOK(p) ==
    /\ reader[p].pc = "set" => Holds(reader[p], 0)
    /\ reader[p].pc = "decide" /\ reader[p].who \notin Staff =>
           Holds(reader[p], Delay + (CacheTTL - 1))
    /\ reader[p].pc # "idle" /\ reader[p].open /\ course.status # "PUBLISHED" =>
           closed <= reader[p].age

ReadersOK == \A p \in Readers : ReaderOK(p)

IInv == AccessTypeOK /\ CacheOK /\ ReadersOK /\ RevocationWindow /\ UnpublishedStops

Reader == [pc : {"idle", "get", "find", "set", "decide"}, who : Actors, age : 0..Delay,
           status : RowStatus, commit : Nat, open : BOOLEAN, gift : Gifts]

-----------------------------------------------------------------------------
LEMMA IdleReader == Idle \in Reader
<1>1. 0 \in 0..Delay /\ 0 \in Nat
    BY AccessAssumption DEF AccessAssumption
<1>2. "none" \in RowStatus /\ "learner" \in Actors /\ "none" \in Gifts
    BY DEF RowStatus, Actors, Gifts
<1> QED
    BY <1>1, <1>2 DEF Idle, Reader

LEMMA NoEntryTyped ==
    NoEntry \in [status : RowStatus, commit : Nat, wrote : Nat, left : 0..CacheTTL]
<1>1. 0 \in 0..CacheTTL /\ 0 \in Nat
    BY AccessAssumption DEF AccessAssumption
<1> QED
    BY <1>1 DEF NoEntry, RowStatus

LEMMA InitInv == Init => IInv
<1> SUFFICES ASSUME Init PROVE IInv
    OBVIOUS
<1> USE AccessAssumption DEF AccessAssumption
<1>1. AccessTypeOK
  <2>1. reader \in [Readers -> Reader]
      BY IdleReader DEF Init
  <2>2. course \in Course
    <3>1. course \in [status : {"DRAFT", "PUBLISHED"}, gift : {"none"}]
        BY DEF Init
    <3> QED
        BY <3>1 DEF Course, Gifts
  <2>3. /\ {commits, since, closed, losses, edits} \subseteq Nat
        /\ token \in 0..TokenTTL /\ url \in 0..TokenTTL
        /\ pending \subseteq Nat /\ lost \subseteq Nat
      BY DEF Init
  <2>4. /\ orders \in [Orders -> {"open", "paid", "refunded"}]
        /\ row \in [status : RowStatus, order : Orders \cup {None}]
      BY DEF Init, RowStatus
  <2>5. cache \in [status : RowStatus, commit : Nat, wrote : Nat, left : 0..CacheTTL]
      BY NoEntryTyped DEF Init
  <2> QED
      BY <2>1, <2>2, <2>3, <2>4, <2>5 DEF AccessTypeOK, Reader
<1>2. CacheOK /\ ReadersOK
    BY DEF Init, CacheOK, ReadersOK, ReaderOK, NoEntry, Idle
<1>3. RevocationWindow /\ UnpublishedStops
    BY DEF Init, RevocationWindow, UnpublishedStops, StopsWithin
<1> QED
    BY <1>1, <1>2, <1>3 DEF IInv

-----------------------------------------------------------------------------
(* Writers.                                                                *)

\* A commit overtakes whatever was read before it, by no time at all.
LEMMA CommitInv ==
    ASSUME IInv, NEW o \in Orders, Pay(o) \/ Refund(o)
    PROVE  IInv'
<1> USE AccessAssumption DEF AccessAssumption
<1> USE DEF IInv
<1>1. AccessTypeOK'
    BY DEF AccessTypeOK, Pay, Refund, Committed, RowStatus
<1>2. \/ /\ row' = row /\ commits' = commits /\ since' = since /\ pending' = pending
         /\ UNCHANGED <<cache, lost, course, reader, token, url, closed>>
      \/ /\ commits' = commits + 1 /\ since' = 0 /\ pending' = pending \cup {commits + 1}
         /\ UNCHANGED <<cache, lost, course, reader, token, url, closed>>
    BY DEF Pay, Refund, Committed
<1>3. CASE row' = row /\ commits' = commits /\ since' = since /\ pending' = pending
           /\ UNCHANGED <<cache, lost, course, reader, token, url, closed>>
    BY <1>1, <1>3 DEF CacheOK, ReadersOK, ReaderOK, Holds, RevocationWindow,
       UnpublishedStops, StopsWithin
<1>4. CASE commits' = commits + 1 /\ since' = 0 /\ pending' = pending \cup {commits + 1}
           /\ UNCHANGED <<cache, lost, course, reader, token, url, closed>>
  <2>1. CacheOK'
      BY <1>4 DEF CacheOK, AccessTypeOK
  <2>2. ReadersOK'
    <3> SUFFICES ASSUME NEW p \in Readers PROVE ReaderOK(p)'
        BY DEF ReadersOK
    <3>1. ReaderOK(p) /\ reader[p] \in Reader
        BY DEF ReadersOK, AccessTypeOK, Reader
    <3> QED
        BY <1>4, <3>1 DEF ReaderOK, Holds, Reader, AccessTypeOK
  <2>3. RevocationWindow'
      BY <1>4 DEF RevocationWindow, StopsWithin, AccessTypeOK, Window
  <2>4. UnpublishedStops'
      BY <1>4 DEF UnpublishedStops, StopsWithin
  <2> QED
      BY <1>1, <2>1, <2>2, <2>3, <2>4
<1> QED
    BY <1>2, <1>3, <1>4

LEMMA ForgetInv ==
    ASSUME IInv, NEW v \in pending, Forget(v) \/ ForgetFails(v)
    PROVE  IInv'
<1> USE AccessAssumption DEF AccessAssumption
<1> USE DEF IInv
<1>1. AccessTypeOK'
  <2>1. /\ UNCHANGED <<orders, row, course, reader, token, url, commits, since, closed, edits>>
        /\ losses' = losses \/ losses' = losses + 1
        /\ cache' = cache \/ cache' = NoEntry
        /\ pending' = pending \ {v} /\ (lost' = lost \/ lost' = lost \cup {v})
      BY DEF Forget, ForgetFails, Spend, Dropped
  <2>2. cache' \in [status : RowStatus, commit : Nat, wrote : Nat, left : 0..CacheTTL]
      BY <2>1, NoEntryTyped DEF AccessTypeOK
  <2>3. pending \subseteq Nat /\ lost \subseteq Nat /\ losses \in Nat
      BY DEF AccessTypeOK
  <2>4. pending' \subseteq Nat
      BY <2>1, <2>3
  <2>5. lost' \subseteq Nat
    <3>1. v \in Nat
        BY <2>3
    <3>2. lost' = lost \/ lost' = lost \cup {v}
        BY <2>1
    <3> HIDE DEF IInv
    <3> QED
        BY <2>3, <3>1, <3>2
  <2>6. losses' \in Nat
      BY <2>1, <2>3
  <2> QED
      BY <2>1, <2>2, <2>4, <2>5, <2>6 DEF AccessTypeOK
<1>2. CacheOK'
    BY DEF CacheOK, Forget, ForgetFails, Spend, Dropped, NoEntry
<1>3. UNCHANGED <<row, commits, since, course, reader, token, url, closed>>
    BY DEF Forget, ForgetFails, Spend
<1>4. ReadersOK' /\ RevocationWindow' /\ UnpublishedStops'
    BY <1>3 DEF ReadersOK, ReaderOK, Holds, RevocationWindow, UnpublishedStops, StopsWithin
<1> QED
    BY <1>1, <1>2, <1>4

LEMMA CrashInv ==
    ASSUME IInv, Crash
    PROVE  IInv'
<1> USE AccessAssumption DEF AccessAssumption
<1> USE DEF IInv
<1>1. AccessTypeOK'
    BY DEF AccessTypeOK, Crash, Spend, Idle, RowStatus, Actors, Gifts
<1>2. CacheOK'
    BY DEF CacheOK, Crash, Spend
<1>3. ReadersOK'
    BY DEF ReadersOK, ReaderOK, Crash, Idle
<1>4. RevocationWindow' /\ UnpublishedStops'
    BY DEF Crash, RevocationWindow, UnpublishedStops, StopsWithin
<1> QED
    BY <1>1, <1>2, <1>3, <1>4

-----------------------------------------------------------------------------
(* The course.                                                             *)

LEMMA MovesInCourse ==
    ASSUME NEW s, NEW n \in Moves(s)
    PROVE  n \in {"DRAFT", "IN_REVIEW", "PUBLISHED", "ARCHIVED"}
BY DEF Moves

LEMMA CourseInv ==
    ASSUME IInv, Transition \/ Revise
    PROVE  IInv'
<1> USE AccessAssumption DEF AccessAssumption
<1> USE DEF IInv
<1>1. UNCHANGED <<orders, row, cache, pending, lost, reader, token, url, commits, since, losses>>
    BY DEF Transition, Revise, Edited
<1>2. edits' = edits + 1 /\ course' \in Course
  <2>1. course \in Course
      BY DEF AccessTypeOK
  <2>2. CASE Transition
    <3>1. PICK s \in Moves(course.status) :
             course' = [course EXCEPT !.status = s] /\ edits' = edits + 1
        BY <2>2 DEF Transition, Edited
    <3>2. s \in {"DRAFT", "IN_REVIEW", "PUBLISHED", "ARCHIVED"}
        BY <3>1, MovesInCourse
    <3> QED
        BY <2>1, <3>1, <3>2 DEF Course
  <2>3. CASE Revise
    <3>1. PICK gift \in Gifts : course' = [course EXCEPT !.gift = gift] /\ edits' = edits + 1
        BY <2>3 DEF Revise, Edited
    <3> QED
        BY <2>1, <3>1 DEF Course
  <2> QED
      BY <2>2, <2>3
<1>3. \/ closed' = closed /\ (course'.status # "PUBLISHED" => course.status # "PUBLISHED")
      \/ closed' = closed /\ course.status = course'.status
      \/ closed' = 0
    BY DEF Transition, Revise, Edited, AccessTypeOK, Course
<1>4. AccessTypeOK'
    BY <1>1, <1>2, <1>3 DEF AccessTypeOK
<1>5. CacheOK' /\ RevocationWindow'
    BY <1>1 DEF CacheOK, RevocationWindow, StopsWithin
<1>6. ReadersOK'
  <2> SUFFICES ASSUME NEW p \in Readers PROVE ReaderOK(p)'
      BY DEF ReadersOK
  <2>1. ReaderOK(p) /\ reader[p] \in Reader
      BY DEF ReadersOK, AccessTypeOK, Reader
  <2> QED
      BY <1>1, <1>3, <2>1 DEF ReaderOK, Holds, Reader
<1>7. UnpublishedStops'
    BY <1>1, <1>3 DEF UnpublishedStops, StopsWithin, AccessTypeOK
<1> QED
    BY <1>4, <1>5, <1>6, <1>7

-----------------------------------------------------------------------------
(* Requests.                                                               *)

\* A step of one request that keeps cache and credentials.
LEMMA StepInv ==
    ASSUME IInv, NEW p \in Readers, NEW r \in Reader, Step(p, r), UNCHANGED <<cache, token>>,
           r.pc = "set" => Holds(r, 0),
           r.pc = "decide" /\ r.who \notin Staff => Holds(r, Delay + (CacheTTL - 1)),
           r.pc # "idle" /\ r.open /\ course.status # "PUBLISHED" => closed <= r.age
    PROVE  IInv'
<1> USE DEF IInv
<1>1. /\ reader' = [reader EXCEPT ![p] = r]
      /\ UNCHANGED <<orders, row, cache, pending, lost, course, token, url, commits, since,
                     closed, losses, edits>>
    BY DEF Step
<1>2. AccessTypeOK'
    BY <1>1 DEF AccessTypeOK, Reader
<1>3. CacheOK' /\ RevocationWindow' /\ UnpublishedStops'
    BY <1>1 DEF CacheOK, RevocationWindow, UnpublishedStops, StopsWithin
<1>4. ReadersOK'
  <2> SUFFICES ASSUME NEW q \in Readers PROVE ReaderOK(q)'
      BY DEF ReadersOK
  <2>1. ReaderOK(q) /\ reader'[q] = IF q = p THEN r ELSE reader[q]
      BY <1>1 DEF ReadersOK, AccessTypeOK
  <2> QED
      BY <1>1, <2>1 DEF ReaderOK, Holds
<1> QED
    BY <1>2, <1>3, <1>4

LEMMA OpenInv ==
    ASSUME IInv, NEW p \in Readers, NEW who \in Actors, Open(p, who)
    PROVE  IInv'
<1> USE AccessAssumption DEF AccessAssumption
<1> DEFINE pc == IF who \in Staff THEN "decide" ELSE "get"
           r == [Idle EXCEPT !.pc = pc, !.who = who, !.open = course.status = "PUBLISHED",
                             !.gift = course.gift]
<1>1. pc \in {"decide", "get"} /\ (pc = "decide" => who \in Staff)
    OBVIOUS
<1>2. Step(p, r) /\ UNCHANGED <<cache, token>>
    BY DEF Open, lectureWithCourse
<1>3. course.gift \in Gifts /\ (course.status = "PUBLISHED") \in BOOLEAN
    BY DEF IInv, AccessTypeOK, Course
<1> HIDE DEF pc
<1>4. /\ r.pc = pc /\ r.who = who
      /\ (r.open => course.status = "PUBLISHED")
    BY DEF Idle
<1>5. r \in Reader
    BY <1>1, <1>3, IdleReader DEF Reader
<1> HIDE DEF r
<1> QED
    BY <1>1, <1>2, <1>4, <1>5, StepInv

LEMMA LookupInv ==
    ASSUME IInv, NEW p \in Readers, CacheGet(p) \/ CacheDown(p) \/ RowFind(p)
    PROVE  IInv'
<1> USE AccessAssumption DEF AccessAssumption
<1>0. reader[p] \in Reader /\ ReaderOK(p)
    BY DEF IInv, AccessTypeOK, Reader, ReadersOK
<1>1. CASE (CacheGet(p) /\ cache.left = 0) \/ CacheDown(p)
  <2> DEFINE r == [reader[p] EXCEPT !.pc = "find"]
  <2>1. Step(p, r) /\ UNCHANGED <<cache, token>> /\ reader[p].pc = "get"
      BY <1>1 DEF CacheGet, CacheDown, IInv, AccessTypeOK
  <2>2. r \in Reader /\ r.pc = "find" /\ r.open = reader[p].open /\ r.age = reader[p].age
      BY <1>0 DEF Reader
  <2> HIDE DEF r
  <2> QED
      BY <1>0, <2>1, <2>2, StepInv DEF ReaderOK
<1>2. CASE CacheGet(p) /\ cache.left > 0
  <2> DEFINE r == [reader[p] EXCEPT !.pc = "decide", !.status = cache.status,
                                    !.commit = cache.commit]
  <2>1. Step(p, r) /\ UNCHANGED <<cache, token>> /\ reader[p].pc = "get"
      BY <1>2 DEF CacheGet
  <2>2. /\ r \in Reader /\ r.pc = "decide" /\ r.open = reader[p].open /\ r.age = reader[p].age
        /\ r.status = cache.status /\ r.commit = cache.commit
      BY <1>0 DEF Reader, IInv, AccessTypeOK
  <2> HIDE DEF r
  <2>3. Holds(r, Delay + (CacheTTL - 1))
      BY <1>2, <2>2 DEF Holds, CacheOK, IInv, AccessTypeOK, Reader
  <2> QED
      BY <1>0, <2>1, <2>2, <2>3, StepInv DEF ReaderOK
<1>3. CASE RowFind(p)
  <2> DEFINE r == [reader[p] EXCEPT !.pc = "set", !.status = row.status, !.commit = commits]
  <2>1. Step(p, r) /\ UNCHANGED <<cache, token>> /\ reader[p].pc = "find"
      BY <1>3 DEF RowFind
  <2>2. /\ r \in Reader /\ r.pc = "set" /\ r.open = reader[p].open /\ r.age = reader[p].age
        /\ r.status = row.status /\ r.commit = commits
      BY <1>0 DEF Reader, IInv, AccessTypeOK
  <2> HIDE DEF r
  <2>3. Holds(r, 0)
      BY <2>2 DEF Holds, IInv, AccessTypeOK
  <2> QED
      BY <1>0, <2>1, <2>2, <2>3, StepInv DEF ReaderOK
<1>4. cache.left = 0 \/ cache.left > 0
    BY DEF IInv, AccessTypeOK
<1> QED
    BY <1>1, <1>2, <1>3, <1>4

\* What a fill writes is at most a request older than the row.
LEMMA SetInv ==
    ASSUME IInv, NEW p \in Readers, CacheSet(p)
    PROVE  IInv'
<1> USE AccessAssumption DEF AccessAssumption
<1> USE DEF IInv
<1>0. reader[p] \in Reader /\ ReaderOK(p)
    BY DEF AccessTypeOK, Reader, ReadersOK
<1> DEFINE r == [reader[p] EXCEPT !.pc = "decide"]
           e == [status |-> reader[p].status, commit |-> reader[p].commit,
                 wrote |-> commits, left |-> CacheTTL]
<1>1. /\ reader[p].pc = "set" /\ reader' = [reader EXCEPT ![p] = r]
      /\ UNCHANGED <<orders, row, pending, lost, course, token, url, commits, since,
                     closed, losses, edits>>
      /\ cache' = e \/ cache' = cache
    BY DEF CacheSet, Step
<1>2. /\ r \in Reader /\ r.pc = "decide" /\ r.open = reader[p].open /\ r.age = reader[p].age
      /\ r.status = reader[p].status /\ r.commit = reader[p].commit
    BY <1>0 DEF Reader
<1>3. Holds(reader[p], 0)
    BY <1>0, <1>1 DEF ReaderOK
<1> HIDE DEF r
<1>4. Holds(r, Delay + (CacheTTL - 1))
    BY <1>0, <1>2, <1>3 DEF Holds, AccessTypeOK, Reader
<1>5. e \in [status : RowStatus, commit : Nat, wrote : Nat, left : 0..CacheTTL]
    BY <1>0 DEF Reader, AccessTypeOK
<1>6. AccessTypeOK'
    BY <1>1, <1>2, <1>5 DEF AccessTypeOK, Reader
<1>7. CacheOK'
  <2>1. CASE cache' = cache
      BY <1>1, <2>1 DEF CacheOK
  <2>2. CASE cache' = e
      BY <1>0, <1>1, <1>3, <2>2 DEF CacheOK, Holds, AccessTypeOK, Reader
  <2> QED
      BY <1>1, <2>1, <2>2
<1>8. ReadersOK'
  <2> SUFFICES ASSUME NEW q \in Readers PROVE ReaderOK(q)'
      BY DEF ReadersOK
  <2>1. ReaderOK(q) /\ reader'[q] = IF q = p THEN r ELSE reader[q]
      BY <1>1 DEF ReadersOK, AccessTypeOK
  <2> QED
      BY <1>0, <1>1, <1>2, <1>4, <2>1 DEF ReaderOK, Holds
<1>9. RevocationWindow' /\ UnpublishedStops'
    BY <1>1 DEF RevocationWindow, UnpublishedStops, StopsWithin
<1> QED
    BY <1>6, <1>7, <1>8, <1>9

LEMMA LearnersAreNotStaff == "learner" \notin Staff
    BY AccessAssumption DEF AccessAssumption, Staff

\* A learner who is allowed holds no REVOKED row and saw an open course.
LEMMA AllowedMeans ==
    ASSUME NEW r, r.who = "learner", Allowed(r)
    PROVE  r.status # "REVOKED" /\ r.open
<1>1. "learner" \notin Staff
    BY LearnersAreNotStaff
<1>2. RevokedEntitlement(r) # "DENY" /\ CoursePublished(r) # "DENY"
    BY DEF Allowed, Policies
<1> QED
    BY <1>1, <1>2 DEF RevokedEntitlement, CoursePublished, deny

LEMMA DecideInv ==
    ASSUME IInv, NEW p \in Readers, Decide(p)
    PROVE  IInv'
<1> USE AccessAssumption DEF AccessAssumption
<1> USE DEF IInv
<1>0. reader[p] \in Reader /\ ReaderOK(p)
    BY DEF AccessTypeOK, Reader, ReadersOK
<1>1. /\ reader[p].pc = "decide" /\ reader' = [reader EXCEPT ![p] = Idle]
      /\ UNCHANGED <<orders, row, cache, pending, lost, course, url, commits, since,
                     closed, losses, edits>>
    BY DEF Decide, Step
<1>2. \/ token' = token
      \/ /\ token' = TokenTTL /\ reader[p].who = "learner"
         /\ reader[p].status # "REVOKED" /\ reader[p].open
    BY AllowedMeans DEF Decide
<1>3. Idle \in Reader
    BY IdleReader
<1>4. AccessTypeOK'
    BY <1>1, <1>2, <1>3 DEF AccessTypeOK, Reader
<1>5. CacheOK'
    BY <1>1 DEF CacheOK
<1>6. ReadersOK'
  <2> SUFFICES ASSUME NEW q \in Readers PROVE ReaderOK(q)'
      BY DEF ReadersOK
  <2>1. ReaderOK(q) /\ reader'[q] = IF q = p THEN Idle ELSE reader[q]
      BY <1>1 DEF ReadersOK, AccessTypeOK
  <2> QED
      BY <1>1, <2>1 DEF ReaderOK, Holds, Idle
<1>7. RevocationWindow' /\ UnpublishedStops'
  <2>1. CASE token' = token
      BY <1>1, <2>1 DEF RevocationWindow, UnpublishedStops, StopsWithin
  <2>2. CASE /\ token' = TokenTTL /\ reader[p].who = "learner"
             /\ reader[p].status # "REVOKED" /\ reader[p].open
    <3>1. Holds(reader[p], Delay + (CacheTTL - 1))
        BY <1>0, <1>1, <2>2, LearnersAreNotStaff DEF ReaderOK
    <3>2. RevocationWindow'
      <4> SUFFICES ASSUME row.status = "REVOKED" PROVE StopsWithin(Window, since)'
          BY <1>1 DEF RevocationWindow
      <4>1. reader[p].commit < commits
          BY <1>0, <2>2, <3>1 DEF Holds, AccessTypeOK, Reader
      <4>2. since <= Delay + (Delay + (CacheTTL - 1))
          BY <1>0, <3>1, <4>1 DEF Holds, AccessTypeOK, Reader
      <4>3. token' + since <= Window
          BY <2>2, <4>2 DEF Window, AccessTypeOK
      <4>4. url > 0 => url + since <= Window
          BY DEF RevocationWindow, StopsWithin
      <4> QED
          BY <1>1, <4>3, <4>4 DEF StopsWithin, Window
    <3>3. course.status # "PUBLISHED" => closed <= reader[p].age
        BY <1>0, <1>1, <2>2 DEF ReaderOK
    <3>4. UnpublishedStops'
        BY <1>0, <1>1, <2>2, <3>3 DEF UnpublishedStops, StopsWithin, AccessTypeOK, Reader
    <3> QED
        BY <3>2, <3>4
  <2> QED
      BY <1>2, <2>1, <2>2
<1> QED
    BY <1>4, <1>5, <1>6, <1>7

LEMMA ManifestInv ==
    ASSUME IInv, Manifest
    PROVE  IInv'
<1> USE AccessAssumption DEF AccessAssumption
<1> USE DEF IInv
<1>1. /\ token > 0 /\ url' \in 0..TokenTTL /\ url' <= token
      /\ UNCHANGED <<orders, row, cache, pending, lost, course, reader, token, commits,
                     since, closed, losses, edits>>
    BY DEF Manifest, UrlLife, AccessTypeOK
<1>2. AccessTypeOK'
    BY <1>1 DEF AccessTypeOK
<1>3. CacheOK' /\ ReadersOK'
    BY <1>1 DEF CacheOK, ReadersOK, ReaderOK, Holds
<1>4. RevocationWindow' /\ UnpublishedStops'
    BY <1>1 DEF RevocationWindow, UnpublishedStops, StopsWithin, AccessTypeOK, Window
<1> QED
    BY <1>2, <1>3, <1>4

\* Time: what is left shrinks as what is gone grows.
LEMMA TickInv ==
    ASSUME IInv, Tick
    PROVE  IInv'
<1> USE AccessAssumption DEF AccessAssumption
<1> USE DEF IInv
<1>1. /\ since' \in Nat /\ since' <= since + 1 /\ closed' \in Nat /\ closed' <= closed + 1
      /\ UNCHANGED <<orders, row, pending, lost, course, commits, losses, edits>>
    BY DEF Tick, More, AccessTypeOK
<1>2. /\ token' \in 0..TokenTTL /\ url' \in 0..TokenTTL
      /\ token' > 0 => token > 0 /\ token' = token - 1
      /\ url' > 0 => url > 0 /\ url' = url - 1
    BY DEF Tick, Less, AccessTypeOK
<1>3. \/ cache' = NoEntry
      \/ cache.left > 1 /\ cache' = [cache EXCEPT !.left = @ - 1]
    BY DEF Tick
<1>4. \A p \in Readers :
         /\ reader'[p] \in Reader
         /\ \/ reader'[p] = reader[p] /\ reader[p].pc = "idle"
            \/ reader'[p] = [reader[p] EXCEPT !.age = @ + 1]
  <2> TAKE p \in Readers
  <2>1. reader[p] \in Reader
      BY DEF AccessTypeOK, Reader
  <2>2. reader'[p] = IF reader[p].pc = "idle" THEN reader[p]
                     ELSE [reader[p] EXCEPT !.age = @ + 1]
      BY DEF Tick
  <2>3. reader[p].pc = "idle" \/ reader[p].age < Delay
      BY DEF Tick
  <2> QED
      BY <2>1, <2>2, <2>3 DEF Reader
<1>5. reader' = [p \in Readers |-> reader'[p]]
    BY DEF Tick
<1>6. AccessTypeOK'
  <2>1. cache' \in [status : RowStatus, commit : Nat, wrote : Nat, left : 0..CacheTTL]
      BY <1>3 DEF AccessTypeOK, NoEntry, RowStatus
  <2>2. reader' \in [Readers -> Reader]
      BY <1>4, <1>5
  <2> QED
      BY <1>1, <1>2, <2>1, <2>2 DEF AccessTypeOK, Reader
<1>7. CacheOK'
  <2>1. CASE cache' = NoEntry
      BY <2>1 DEF CacheOK, NoEntry
  <2>2. CASE cache.left > 1 /\ cache' = [cache EXCEPT !.left = @ - 1]
      BY <1>1, <2>2 DEF CacheOK, AccessTypeOK
  <2> QED
      BY <1>3, <2>1, <2>2
<1>8. ReadersOK'
  <2> SUFFICES ASSUME NEW p \in Readers PROVE ReaderOK(p)'
      BY DEF ReadersOK
  <2>1. ReaderOK(p) /\ reader[p] \in Reader
      BY DEF ReadersOK, AccessTypeOK, Reader
  <2>2. CASE reader'[p] = reader[p] /\ reader[p].pc = "idle"
      BY <2>2 DEF ReaderOK
  <2>3. CASE reader'[p] = [reader[p] EXCEPT !.age = @ + 1]
    <3>1. /\ reader'[p].pc = reader[p].pc /\ reader'[p].who = reader[p].who
          /\ reader'[p].open = reader[p].open /\ reader'[p].age = reader[p].age + 1
          /\ reader'[p].status = reader[p].status /\ reader'[p].commit = reader[p].commit
        BY <2>1, <2>3 DEF Reader
    <3> QED
        BY <1>1, <2>1, <3>1 DEF ReaderOK, Holds, Reader, AccessTypeOK
  <2> QED
      BY <1>4, <2>2, <2>3
<1>9. RevocationWindow'
    BY <1>1, <1>2 DEF RevocationWindow, StopsWithin, AccessTypeOK, Window
<1>10. UnpublishedStops'
    BY <1>1, <1>2 DEF UnpublishedStops, StopsWithin, AccessTypeOK
<1> QED
    BY <1>6, <1>7, <1>8, <1>9, <1>10

-----------------------------------------------------------------------------
LEMMA NextInv == IInv /\ [Next]_vars => IInv'
<1> SUFFICES ASSUME IInv, [Next]_vars PROVE IInv'
    OBVIOUS
<1>1. CASE UNCHANGED vars
    BY <1>1 DEF vars, IInv, AccessTypeOK, CacheOK, ReadersOK, ReaderOK, Holds,
       RevocationWindow, UnpublishedStops, StopsWithin
<1>2. ASSUME NEW o \in Orders, Pay(o) \/ Refund(o) PROVE IInv'
    BY <1>2, CommitInv
<1>3. ASSUME NEW v \in pending, Forget(v) \/ ForgetFails(v) PROVE IInv'
    BY <1>3, ForgetInv
<1>4. CASE Crash
    BY <1>4, CrashInv
<1>5. CASE Transition \/ Revise
    BY <1>5, CourseInv
<1>6. CASE Manifest
    BY <1>6, ManifestInv
<1>7. CASE Tick
    BY <1>7, TickInv
<1>8. ASSUME NEW p \in Readers,
             \/ \E who \in Actors : Open(p, who)
             \/ CacheGet(p) \/ CacheDown(p) \/ RowFind(p) \/ CacheSet(p) \/ Decide(p)
      PROVE  IInv'
    BY <1>8, OpenInv, LookupInv, SetInv, DecideInv
<1> QED
    BY <1>1, <1>2, <1>3, <1>4, <1>5, <1>6, <1>7, <1>8 DEF Next

\* The invariant behind the windows, over any run of writers, cache and clock.
THEOREM AccessInvariant == Spec => []IInv
<1>1. Init => IInv
    BY InitInv
<1>2. IInv /\ [Next]_vars => IInv'
    BY NextInv
<1> QED
    BY <1>1, <1>2, PTL DEF Spec

\* Row, cache, requests and credentials keep their types.
THEOREM AccessTypes == Spec => []AccessTypeOK
<1>1. IInv => AccessTypeOK
    BY DEF IInv
<1> QED
    BY <1>1, AccessInvariant, PTL

\* A refunded learner stops within a cached row, a token and two requests.
THEOREM RefundsStopAccess == Spec => []RevocationWindow
<1>1. IInv => RevocationWindow
    BY DEF IInv
<1> QED
    BY <1>1, AccessInvariant, PTL

\* A course taken down stops within a token and a request.
THEOREM UnpublishingStopsAccess == Spec => []UnpublishedStops
<1>1. IInv => UnpublishedStops
    BY DEF IInv
<1> QED
    BY <1>1, AccessInvariant, PTL

\* What outlives its forget was written after the commit by an older read.
THEOREM OnlyOvertakenStale == Spec => []StaleOnlyWhenOvertaken
<1>1. IInv => StaleOnlyWhenOvertaken
    BY DEF IInv, CacheOK, StaleOnlyWhenOvertaken, AccessTypeOK
<1> QED
    BY <1>1, AccessInvariant, PTL
=============================================================================
