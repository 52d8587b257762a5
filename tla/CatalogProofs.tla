----------------------------- MODULE CatalogProofs -----------------------------
(***************************************************************************)
(* Proofs about Catalog, for any number of sections, lectures, requests    *)
(* and versions, and about Storefront, for any number of courses, pages    *)
(* and writes.                                                             *)
(*                                                                         *)
(* Counts and archiving need only what a request has read (RequestsOK).    *)
(* Undo needs more: what a command does to the membership of a tree        *)
(* (Effect) does not depend on positions, so the log is a chain: each      *)
(* inverse, applied where the next edit began, leads to where its own did. *)
(* A walk needs one fact, that the cursor's cut and the list's order agree *)
(* (OneOrder, PastTheCursor); no induction along its pages.                *)
(* A quote needs another, that rounding the shares of a discount down      *)
(* loses less than one unit for each line that still has room              *)
(* (LeftOverFits): one round hands out everything (AllocationIsExact).     *)
(***************************************************************************)
EXTENDS CatalogProperties, StorefrontProperties, FiniteSetTheorems, SequenceTheorems, TLAPS

-----------------------------------------------------------------------------
(* The shape of a tree, of a command and of the log.                       *)

SectionRow == [title : Titles, position : Nat]
LectureRow == [section : SectionIds, content : Content, position : Nat]
Table(f, ids, Shape) == f \in [DOMAIN f -> Shape] /\ DOMAIN f \subseteq ids /\ IsFiniteSet(DOMAIN f)

TreeOK(t) ==
    /\ t = [sections |-> t.sections, lectures |-> t.lectures]
    /\ Table(t.sections, SectionIds, SectionRow)
    /\ Table(t.lectures, LectureIds, LectureRow)
    /\ \A l \in Lectures(t) : t.lectures[l].section \in Sections(t)

Good(t) == TreeOK(t) /\ OneEach(t)

\* What a command carries, those a client sends and those the log keeps.
CommandOK(c) ==
    \/ c.kind \in {"ADD_SECTION", "RENAME_SECTION"} /\ c.section \in SectionIds /\ c.title \in Titles
    \/ c.kind = "REMOVE_SECTION" /\ c.section \in SectionIds
    \/ /\ c.kind = "RESTORE_SECTION" /\ c.section \in SectionIds /\ c.row \in SectionRow
       /\ Table(c.lectures, LectureIds, LectureRow)
       /\ \A l \in DOMAIN c.lectures : c.lectures[l].section = c.section
       /\ \A l, k \in DOMAIN c.lectures :
             l # k => c.lectures[l].position # c.lectures[k].position
    \/ c.kind = "REORDER_SECTIONS" /\ DOMAIN c.order = 1..Len(c.order)
    \/ /\ c.kind = "ADD_LECTURE" /\ c.lecture \in LectureIds /\ c.section \in SectionIds
       /\ c.content \in Content
    \/ c.kind = "UPDATE_LECTURE" /\ c.lecture \in LectureIds /\ c.content \in Content
    \/ c.kind = "REMOVE_LECTURE" /\ c.lecture \in LectureIds
    \/ c.kind = "RESTORE_LECTURE" /\ c.lecture \in LectureIds /\ c.row \in LectureRow
    \/ /\ c.kind = "MOVE_LECTURE" /\ c.lecture \in LectureIds /\ c.to \in SectionIds
       /\ c.index \in Nat

\* A command that makes sense of a course with sections S and lectures L.
Fits(S, L, c) ==
    /\ c.kind \in {"RENAME_SECTION", "REMOVE_SECTION", "ADD_LECTURE"} => c.section \in S
    /\ c.kind \in {"ADD_SECTION", "RESTORE_SECTION"} => c.section \notin S
    /\ c.kind = "RESTORE_SECTION" => DOMAIN c.lectures \cap L = {}
    /\ c.kind = "REORDER_SECTIONS" => Len(c.order) = Cardinality(S) /\ ToSet(c.order) = S
    /\ c.kind \in {"ADD_LECTURE", "RESTORE_LECTURE"} => c.lecture \notin L
    /\ c.kind \in {"UPDATE_LECTURE", "REMOVE_LECTURE", "MOVE_LECTURE"} => c.lecture \in L
    /\ c.kind = "RESTORE_LECTURE" => c.row.section \in S
    /\ c.kind = "MOVE_LECTURE" => c.to \in S

\* What a command makes of a membership.
Effect(m, c) ==
    CASE c.kind \in {"ADD_SECTION", "RENAME_SECTION"} ->
            [sections |-> Put(m.sections, c.section, c.title), lectures |-> m.lectures]
      [] c.kind = "REMOVE_SECTION" ->
            [sections |-> Restrict(m.sections, DOMAIN m.sections \ {c.section}),
             lectures |-> Restrict(m.lectures,
                            {l \in DOMAIN m.lectures : m.lectures[l][1] # c.section})]
      [] c.kind = "RESTORE_SECTION" ->
            [sections |-> Put(m.sections, c.section, c.row.title),
             lectures |-> [l \in DOMAIN m.lectures \cup DOMAIN c.lectures |->
                              IF l \in DOMAIN c.lectures
                              THEN <<c.lectures[l].section, c.lectures[l].content>>
                              ELSE m.lectures[l]]]
      [] c.kind = "REORDER_SECTIONS" -> m
      [] c.kind = "ADD_LECTURE" ->
            [sections |-> m.sections,
             lectures |-> Put(m.lectures, c.lecture, <<c.section, c.content>>)]
      [] c.kind = "UPDATE_LECTURE" ->
            [sections |-> m.sections,
             lectures |-> Put(m.lectures, c.lecture, <<m.lectures[c.lecture][1], c.content>>)]
      [] c.kind = "REMOVE_LECTURE" ->
            [sections |-> m.sections,
             lectures |-> Restrict(m.lectures, DOMAIN m.lectures \ {c.lecture})]
      [] c.kind = "RESTORE_LECTURE" ->
            [sections |-> m.sections,
             lectures |-> Put(m.lectures, c.lecture, <<c.row.section, c.row.content>>)]
      [] c.kind = "MOVE_LECTURE" ->
            [sections |-> m.sections,
             lectures |-> Put(m.lectures, c.lecture, <<c.to, m.lectures[c.lecture][2]>>)]

\* Applied to the membership m, the inverse of e leads to where its edit began.
Linked(e, m) ==
    /\ Fits(DOMAIN m.sections, DOMAIN m.lectures, e.inverse)
    /\ Effect(m, e.inverse) = e.before

\* The ids a command brings in, or back.
Returning(c) ==
    [sections |-> IF c.kind \in {"ADD_SECTION", "RESTORE_SECTION"} THEN {c.section} ELSE {},
     lectures |-> IF c.kind = "RESTORE_SECTION" THEN DOMAIN c.lectures
                  ELSE IF c.kind \in {"ADD_LECTURE", "RESTORE_LECTURE"} THEN {c.lecture} ELSE {}]

LogOK ==
    /\ \A e \in log : /\ e = [version |-> e.version, inverse |-> e.inverse, before |-> e.before]
                      /\ e.version \in Nat /\ e.version <= course.version
                      /\ CommandOK(e.inverse)
                      /\ Returning(e.inverse).sections \subseteq used
                      /\ Returning(e.inverse).lectures \subseteq used
    /\ \A e, f \in log : e.version = f.version => e = f

Newest(e) == \A f \in log : f.version <= e.version
Follows(e, f) ==
    /\ e.version < f.version
    /\ \A g \in log : ~(e.version < g.version /\ g.version < f.version)
Chain ==
    /\ \A e, f \in log : Follows(e, f) => Linked(e, f.before)
    /\ \A e \in log : Newest(e) => Linked(e, Membership(tree))

\* What a request has read of the course row c.
CourseRow == [status : Statuses, version : Nat, dated : BOOLEAN, priced : BOOLEAN,
              detailed : BOOLEAN, count : Nat]
CourseOK == course \in CourseRow
RequestOK(q, c) ==
    \/ q.pc \in {"idle", "undo"}
    \/ /\ q.pc = "edit" /\ q.row.expected \in Nat
       /\ q.row.ahead # TRUE => q.row.expected <= c.version
       /\ q.row.ahead # TRUE /\ q.row.expected = c.version => c.status # "ARCHIVED"
    \/ /\ q.pc \in {"gate", "move"} /\ q = [pc |-> q.pc, to |-> q.to, row |-> q.row]
       /\ q.row.status # "ARCHIVED" /\ q.to \in Statuses
    \/ /\ q.pc = "duplicate" /\ q.row.version \in Nat /\ q.row.version <= c.version
       /\ q.row.version = c.version => q.row.count = c.count
    \/ q.pc = "copied" /\ (~q.row.torn => q.row.count = q.row.lectures)
RequestsOK == req = [r \in Requests |-> req[r]] /\ \A r \in Requests : RequestOK(req[r], course)

CatalogInv ==
    /\ CourseOK /\ Good(tree) /\ RequestsOK /\ LogOK
    /\ Sections(tree) \cup Lectures(tree) \subseteq used
    /\ course.count = Cardinality(Lectures(tree)) /\ Chain

-----------------------------------------------------------------------------
(* Lists and positions.                                                    *)

\* A finite set of numbers that is not empty has a greatest one.
LEMMA MaxInSet ==
    ASSUME NEW S, S \subseteq Nat, IsFiniteSet(S), S # {}
    PROVE  Max(S) \in S /\ \A y \in S : y <= Max(S)
<1> DEFINE Has(U) == \E x \in U : \A y \in U : x >= y
           Without == {U \in FiniteSubsetsOf(S) : U # {} /\ ~Has(U)}
           R == StrictSubsetOrdering(S)
<1>1. Has(S)
  <2> SUFFICES ASSUME ~Has(S) PROVE FALSE
    OBVIOUS
  <2>1. S \in Without
    BY DEF FiniteSubsetsOf
  <2>2. PICK U \in Without : \A V \in Without : <<V, U>> \notin R
    <3> HIDE DEF R, Without
    <3>1. IsWellFoundedOn(R, FiniteSubsetsOf(S)) /\ Without \subseteq FiniteSubsetsOf(S)
      BY FS_StrictSubsetOrderingWellFounded DEF R, Without
    <3> QED BY <2>1, <3>1, WFMin
  <2>3. PICK x \in U : TRUE
    OBVIOUS
  <2> DEFINE V == U \ {x}
  <2>4. IsFiniteSet(U) /\ U \subseteq S /\ ~Has(U)
    BY <2>2 DEF FiniteSubsetsOf
  <2>5. V \in FiniteSubsetsOf(S) /\ <<V, U>> \in R
    BY <2>3, <2>4, FS_RemoveElement DEF FiniteSubsetsOf, StrictSubsetOrdering
  <2>6. CASE V = {}
    <3>1. U = {x} /\ x \in Nat
      BY <2>3, <2>4, <2>6
    <3> QED BY <2>4, <3>1
  <2>7. CASE V # {}
    <3>1. Has(V)
      BY <2>2, <2>5, <2>7
    <3>2. PICK m \in V : \A y \in V : m >= y
      BY <3>1
    <3>3. m \in Nat /\ x \in Nat /\ U \subseteq Nat
      BY <2>3, <2>4, <3>2
    <3>4. \A y \in U : y = x \/ y \in V
      OBVIOUS
    <3> QED BY <2>3, <2>4, <3>2, <3>3, <3>4
  <2> QED BY <2>6, <2>7
<1>2. PICK x \in S : \A y \in S : x >= y
  BY <1>1
<1>3. Max(S) \in S /\ \A y \in S : Max(S) >= y
  BY <1>2 DEF Max
<1> QED BY <1>3

\* A row goes where no other row is.
LEMMA NextIsFree ==
    ASSUME NEW taken, taken \subseteq Nat, IsFiniteSet(taken), NEW preferred \in Nat
    PROVE  /\ NextPosition(taken) \in Nat /\ NextPosition(taken) \notin taken
           /\ FreePosition(taken, preferred) \in Nat
           /\ FreePosition(taken, preferred) \notin taken
<1>1. taken \cup {0} \subseteq Nat /\ IsFiniteSet(taken \cup {0}) /\ taken \cup {0} # {}
  BY FS_AddElement
<1>2. PICK m \in Nat : m = Max(taken \cup {0}) /\ \A y \in taken : y <= m
  BY <1>1, MaxInSet
<1> QED BY <1>2 DEF NextPosition, FreePosition

\* The positions of finitely many rows are finitely many.
LEMMA PositionsFinite ==
    ASSUME NEW f, NEW S, IsFiniteSet(S), \A x \in S : f[x].position \in Nat
    PROVE  Positions(f, S) \subseteq Nat /\ IsFiniteSet(Positions(f, S))
<1> DEFINE g == [x \in S |-> f[x].position]
<1>1. g \in Surjection(S, Positions(f, S))
  BY DEF Surjection, Positions
<1>2. IsFiniteSet(Positions(f, S))
  BY <1>1, FS_Surjection
<1> QED BY <1>2 DEF Positions

\* How many members come before each.
Ranks(S, R) == [x \in S |-> Cardinality({y \in S : <<y, x>> \in R})]

\* Along a strict order of a finite set, ranks are the numbers below its size,
\* each once.
LEMMA RanksCount ==
    ASSUME NEW S, IsFiniteSet(S), NEW R,
           \A x \in S : <<x, x>> \notin R,
           \A x, y, z \in S : <<x, y>> \in R /\ <<y, z>> \in R => <<x, z>> \in R,
           \A x, y \in S : x = y \/ <<x, y>> \in R \/ <<y, x>> \in R
    PROVE  /\ Cardinality(S) \in Nat
           /\ \A x \in S : Ranks(S, R)[x] \in Nat /\ Ranks(S, R)[x] + 1 \in 1..Cardinality(S)
           /\ \A x, y \in S : <<x, y>> \in R <=> Ranks(S, R)[x] < Ranks(S, R)[y]
           /\ \A i \in 1..Cardinality(S) : \E x \in S : Ranks(S, R)[x] = i - 1
<1> DEFINE n == Cardinality(S)
           Low(x) == {y \in S : <<y, x>> \in R}
           rank == [x \in S |-> Ranks(S, R)[x] + 1]
<1>1. n \in Nat
  BY FS_CardinalityType
<1>2. \A x \in S : IsFiniteSet(Low(x)) /\ Cardinality(Low(x)) \in Nat /\ Ranks(S, R)[x] = Cardinality(Low(x))
  <2> TAKE x \in S
  <2>1. IsFiniteSet(Low(x))
    BY FS_Subset
  <2> QED BY <2>1, FS_CardinalityType DEF Ranks
<1>3. \A x \in S : Ranks(S, R)[x] \in Nat /\ Ranks(S, R)[x] + 1 \in 1..n
  <2> TAKE x \in S
  <2>1. Low(x) \subseteq S \ {x}
    OBVIOUS
  <2>2. IsFiniteSet(S \ {x}) /\ Cardinality(S \ {x}) = n - 1
    BY FS_RemoveElement
  <2> HIDE DEF Low
  <2>3. Cardinality(Low(x)) <= n - 1
    BY <2>1, <2>2, FS_Subset
  <2> QED BY <1>1, <1>2, <2>3
<1>4. ASSUME NEW x \in S, NEW y \in S, <<x, y>> \in R
      PROVE  Ranks(S, R)[x] < Ranks(S, R)[y]
  <2>1. Low(x) \subseteq Low(y) \ {x} /\ x \in Low(y)
    BY <1>4
  <2>2. IsFiniteSet(Low(y) \ {x}) /\ Cardinality(Low(y) \ {x}) = Cardinality(Low(y)) - 1
    BY <1>2, <2>1, FS_RemoveElement
  <2> HIDE DEF Low
  <2>3. Cardinality(Low(x)) <= Cardinality(Low(y)) - 1
    BY <2>1, <2>2, FS_Subset
  <2> QED BY <1>2, <2>3
<1>5. \A x, y \in S : <<x, y>> \in R <=> Ranks(S, R)[x] < Ranks(S, R)[y]
  <2> TAKE x, y \in S
  <2>1. Ranks(S, R)[x] \in Nat /\ Ranks(S, R)[y] \in Nat
    BY <1>3
  <2>2. CASE x = y
    BY <2>1, <2>2
  <2>3. CASE <<x, y>> \in R
    BY <1>4, <2>3
  <2>4. CASE <<y, x>> \in R /\ <<x, y>> \notin R
    BY <1>4, <2>1, <2>4
  <2> QED BY <2>2, <2>3, <2>4
<1>6. rank \in Injection(S, 1..n)
  <2>1. \A x, y \in S : rank[x] = rank[y] => x = y
    <3> TAKE x, y \in S
    <3>1. Ranks(S, R)[x] \in Nat /\ Ranks(S, R)[y] \in Nat
      BY <1>3
    <3>2. x = y \/ Ranks(S, R)[x] < Ranks(S, R)[y] \/ Ranks(S, R)[y] < Ranks(S, R)[x]
      BY <1>5
    <3> QED BY <3>1, <3>2
  <2> QED BY <1>3, <2>1 DEF Injection, IsInjective
<1>7. IsFiniteSet(1..n) /\ Cardinality(1..n) = n
  BY <1>1, FS_Interval
<1>8. rank \in Surjection(S, 1..n)
  BY <1>6, <1>7, FS_Injection
<1>9. \A i \in 1..n : \E x \in S : Ranks(S, R)[x] = i - 1
  <2> TAKE i \in 1..n
  <2>1. PICK x \in S : rank[x] = i
    BY <1>8 DEF Surjection
  <2>2. Ranks(S, R)[x] \in Nat /\ Ranks(S, R)[x] + 1 = i
    BY <1>3, <2>1
  <2> QED BY <2>2
<1> QED BY <1>1, <1>3, <1>5, <1>9

\* A list of rows with different positions is a list of them all.
PlacedApart(f, S) ==
    /\ IsFiniteSet(S) /\ \A x \in S : f[x].position \in Nat
    /\ \A x, y \in S : x # y => f[x].position # f[y].position

LEMMA OrderedListsAll ==
    ASSUME NEW f, NEW S, PlacedApart(f, S)
    PROVE  /\ Ordered(f, S) \in [1..Cardinality(S) -> S]
           /\ \A x \in S : \E i \in 1..Cardinality(S) : Ordered(f, S)[i] = x
           /\ Cardinality(S) \in Nat
<1> DEFINE R == {p \in S \X S : f[p[1]].position < f[p[2]].position}
           n == Cardinality(S)
           rank == Ranks(S, R)
<1> USE DEF PlacedApart
<1>1. \A x, y \in S : <<x, y>> \in R <=> f[x].position < f[y].position
  OBVIOUS
<1> HIDE DEF R
<1>2. /\ n \in Nat
      /\ \A x \in S : rank[x] \in Nat /\ rank[x] + 1 \in 1..n
      /\ \A x, y \in S : <<x, y>> \in R <=> rank[x] < rank[y]
      /\ \A i \in 1..n : \E x \in S : rank[x] = i - 1
  <2>1. \A x \in S : <<x, x>> \notin R
    BY <1>1
  <2>2. \A x, y, z \in S : <<x, y>> \in R /\ <<y, z>> \in R => <<x, z>> \in R
    BY <1>1
  <2>3. \A x, y \in S : x = y \/ <<x, y>> \in R \/ <<y, x>> \in R
    <3> TAKE x, y \in S
    <3>1. f[x].position \in Nat /\ f[y].position \in Nat
      OBVIOUS
    <3>2. x = y \/ f[x].position < f[y].position \/ f[y].position < f[x].position
      BY <3>1
    <3> QED BY <1>1, <3>2
  <2> QED BY <2>1, <2>2, <2>3, RanksCount
<1>3. \A x \in S : Before(f, S, x) = rank[x]
  <2> TAKE x \in S
  <2>1. {y \in S : <<y, x>> \in R} = {y \in S : f[y].position < f[x].position}
    BY <1>1
  <2> QED BY <2>1 DEF Before, Ranks
<1> HIDE DEF rank
<1>4. \A i \in 1..n : Ordered(f, S)[i] \in S /\ rank[Ordered(f, S)[i]] = i - 1
  <2> TAKE i \in 1..n
  <2>1. Ordered(f, S)[i] = CHOOSE x \in S : Before(f, S, x) = i - 1
    BY DEF Ordered
  <2>2. PICK x \in S : Before(f, S, x) = i - 1
    BY <1>2, <1>3
  <2>3. Ordered(f, S)[i] \in S /\ Before(f, S, Ordered(f, S)[i]) = i - 1
    BY <2>1, <2>2
  <2> QED BY <1>3, <2>3
<1>5. ASSUME NEW x \in S PROVE \E i \in 1..n : Ordered(f, S)[i] = x
  <2>1. PICK i \in 1..n : i = rank[x] + 1
    BY <1>2
  <2>2. Ordered(f, S)[i] \in S /\ rank[Ordered(f, S)[i]] = rank[x] /\ rank[x] \in Nat
    BY <1>2, <1>4, <2>1
  <2>3. <<x, Ordered(f, S)[i]>> \notin R /\ <<Ordered(f, S)[i], x>> \notin R
    BY <1>2, <2>2
  <2>4. Ordered(f, S)[i] = x
    BY <1>1, <2>2, <2>3
  <2> QED BY <2>1, <2>4
<1>6. Ordered(f, S) \in [1..n -> S]
  BY <1>4 DEF Ordered
<1> QED BY <1>2, <1>5, <1>6

\* Where a row is listed.
LEMMA IndexInList ==
    ASSUME NEW order, NEW x \in ToSet(order)
    PROVE  IndexIn(order, x) \in DOMAIN order /\ order[IndexIn(order, x)] = x
  BY DEF ToSet, IndexIn

\* Rows that are numbered along a list get different numbers.
LEMMA NumberedAlong ==
    ASSUME NEW f, NEW order, DOMAIN order \subseteq Nat
    PROVE  LET g == Resequenced(f, order)
           IN  /\ DOMAIN g = DOMAIN f
               /\ \A x \in DOMAIN f \cap ToSet(order) :
                     g[x] = [f[x] EXCEPT !.position = IndexIn(order, x)]
               /\ \A x \in DOMAIN f \ ToSet(order) : g[x] = f[x]
               /\ \A x \in ToSet(order) : IndexIn(order, x) \in Nat
               /\ \A x, y \in ToSet(order) : x # y => IndexIn(order, x) # IndexIn(order, y)
<1>1. \A x \in ToSet(order) : IndexIn(order, x) \in DOMAIN order /\ order[IndexIn(order, x)] = x
  BY IndexInList
<1>2. \A x, y \in ToSet(order) : x # y => IndexIn(order, x) # IndexIn(order, y)
  BY <1>1
<1> QED BY <1>1, <1>2 DEF Resequenced

\* A list of the members of a finite set.
ListOf(s, T) ==
    /\ Cardinality(T) \in Nat /\ s \in [1..Cardinality(T) -> T]
    /\ \A x \in T : \E i \in 1..Cardinality(T) : s[i] = x

\* What a list holds after a lecture is put into it.
LEMMA InsertedList ==
    ASSUME NEW T, NEW s, ListOf(s, T), NEW k \in 1..(Cardinality(T) + 1), NEW e
    PROVE  DOMAIN InsertAt(s, k, e) \subseteq Nat /\ ToSet(InsertAt(s, k, e)) = T \cup {e}
<1> DEFINE n == Cardinality(T)
           U == T \cup {e}
           front == SubSeq(s, 1, k - 1)
           back == SubSeq(s, k, Len(s))
           landed == InsertAt(s, k, e)
<1>0. /\ n \in Nat /\ s \in [1..n -> T] /\ k \in 1..(n + 1)
      /\ \A x \in T : \E i \in 1..n : s[i] = x
  BY DEF ListOf
<1> HIDE DEF n
<1>1. s \in Seq(U) /\ Len(s) = n
  BY <1>0
<1>2. /\ front \in Seq(U) /\ Len(front) = k - 1
      /\ \A i \in 1..(k - 1) : front[i] = s[i]
  BY <1>0, <1>1
<1>3. /\ back \in Seq(U) /\ Len(back) = n - k + 1
      /\ \A i \in 1..(n - k + 1) : back[i] = s[k + i - 1]
  BY <1>0, <1>1
<1>4. landed = front \o <<e>> \o back
  BY DEF InsertAt
<1> HIDE DEF front, back
<1>5. /\ landed \in Seq(U) /\ Len(landed) = n + 1
      /\ \A i \in 1..(k - 1) : landed[i] = front[i]
      /\ landed[k] = e
      /\ \A i \in 1..(n - k + 1) : landed[k + i] = back[i]
  <2> DEFINE middle == <<e>>
             start == front \o middle
  <2>1. middle \in Seq(U) /\ Len(middle) = 1 /\ middle[1] = e
    OBVIOUS
  <2> HIDE DEF middle
  <2>2. /\ start \in Seq(U) /\ Len(start) = k
        /\ \A i \in 1..(k - 1) : start[i] = front[i]
        /\ start[k] = e
    <3>1. /\ start \in Seq(U) /\ Len(start) = Len(front) + Len(middle)
          /\ \A i \in 1..(Len(front) + Len(middle)) :
                start[i] = IF i <= Len(front) THEN front[i] ELSE middle[i - Len(front)]
      BY <1>2, <2>1, ConcatProperties
    <3>2. /\ Len(front) + Len(middle) = k /\ k <= k /\ ~(k <= Len(front)) /\ k - Len(front) = 1
          /\ \A i \in 1..(k - 1) : i \in 1..k /\ i <= Len(front)
      BY <1>0, <1>2, <2>1
    <3> QED BY <1>2, <2>1, <3>1, <3>2
  <2>3. landed = start \o back
    BY <1>4 DEF middle
  <2> HIDE DEF start, landed
  <2>4. /\ landed \in Seq(U) /\ Len(landed) = k + Len(back)
        /\ \A i \in 1..(k + Len(back)) : landed[i] = IF i <= k THEN start[i] ELSE back[i - k]
    <3>1. /\ landed \in Seq(U) /\ Len(landed) = Len(start) + Len(back)
          /\ \A i \in 1..(Len(start) + Len(back)) :
                landed[i] = IF i <= Len(start) THEN start[i] ELSE back[i - Len(start)]
      <4> HIDE DEF U
      <4> QED BY <1>3, <2>2, <2>3, ConcatProperties
    <3> QED BY <2>2, <3>1
  <2>5. k + Len(back) = n + 1 /\ k \in 1..(n + 1) /\ \A i \in 1..(k - 1) : i \in 1..(n + 1) /\ i <= k
    BY <1>0, <1>3
  <2>6. \A i \in 1..(n - k + 1) : k + i \in 1..(n + 1) /\ ~(k + i <= k) /\ (k + i) - k = i
    BY <1>0
  <2>7. landed \in Seq(U) /\ Len(landed) = n + 1
    BY <2>4, <2>5
  <2>8. \A i \in 1..(k - 1) : landed[i] = front[i]
    BY <2>2, <2>4, <2>5
  <2>9. landed[k] = e
    BY <1>0, <2>2, <2>4, <2>5
  <2>10. \A i \in 1..(n - k + 1) : landed[k + i] = back[i]
    BY <2>4, <2>5, <2>6
  <2> QED BY <2>7, <2>8, <2>9, <2>10
<1> HIDE DEF landed
<1>6. DOMAIN landed = 1..(n + 1) /\ ToSet(landed) \subseteq U
  BY <1>0, <1>2, <1>3, <1>5 DEF ToSet
<1>7. e \in ToSet(landed)
  BY <1>0, <1>5, <1>6 DEF ToSet
<1>8. ASSUME NEW x \in T PROVE x \in ToSet(landed)
  <2>1. PICK i \in 1..n : s[i] = x
    BY <1>0
  <2>2. CASE i < k
    <3>1. i \in 1..(k - 1) /\ i \in 1..(n + 1)
      BY <1>0, <2>2
    <3> QED BY <1>2, <1>5, <1>6, <2>1, <3>1 DEF ToSet
  <2>3. CASE i >= k
    <3>1. i - k + 1 \in 1..(n - k + 1) /\ i + 1 \in 1..(n + 1)
          /\ k + (i - k + 1) = i + 1 /\ k + (i - k + 1) - 1 = i
      BY <1>0, <2>3
    <3>2. landed[k + (i - k + 1)] = back[i - k + 1] /\ back[i - k + 1] = s[k + (i - k + 1) - 1]
      BY <1>0, <1>3, <1>5, <3>1
    <3>3. landed[i + 1] = x
      BY <2>1, <3>1, <3>2
    <3> QED BY <1>6, <3>1, <3>3 DEF ToSet
  <2> QED BY <1>0, <2>2, <2>3
<1> QED BY <1>6, <1>7, <1>8 DEF landed

-----------------------------------------------------------------------------
(* Tables of rows.                                                         *)

TitlesOf(A) == [s \in DOMAIN A |-> A[s].title]
PairsOf(B) == [l \in DOMAIN B |-> <<B[l].section, B[l].content>>]

ApartSections(A) == \A s, z \in DOMAIN A : s # z => A[s].position # A[z].position
ApartLectures(B) ==
    \A l, k \in DOMAIN B : l # k /\ B[l].section = B[k].section => B[l].position # B[k].position

\* A tree, table by table.
LEMMA TreeByTables ==
    ASSUME NEW A, NEW B
    PROVE  LET t == [sections |-> A, lectures |-> B]
           IN  /\ Good(t) <=> /\ Table(A, SectionIds, SectionRow) /\ ApartSections(A)
                              /\ Table(B, LectureIds, LectureRow) /\ ApartLectures(B)
                              /\ \A l \in DOMAIN B : B[l].section \in DOMAIN A
               /\ Membership(t) = [sections |-> TitlesOf(A), lectures |-> PairsOf(B)]
               /\ Sections(t) = DOMAIN A /\ Lectures(t) = DOMAIN B
<1> DEFINE t == [sections |-> A, lectures |-> B]
<1>1. t.sections = A /\ t.lectures = B
  OBVIOUS
<1>2. Good(t) <=> /\ Table(A, SectionIds, SectionRow) /\ ApartSections(A)
                  /\ Table(B, LectureIds, LectureRow) /\ ApartLectures(B)
                  /\ \A l \in DOMAIN B : B[l].section \in DOMAIN A
  BY DEF Good, TreeOK, OneEach, ApartSections, ApartLectures, Sections, Lectures
<1>3. Membership(t) = [sections |-> TitlesOf(A), lectures |-> PairsOf(B)]
  BY DEF Membership, TitlesOf, PairsOf, Sections, Lectures
<1> QED BY <1>1, <1>2, <1>3 DEF Sections, Lectures

\* A good tree has good tables.
LEMMA GoodTables ==
    ASSUME NEW t, Good(t)
    PROVE  /\ t = [sections |-> t.sections, lectures |-> t.lectures]
           /\ Table(t.sections, SectionIds, SectionRow) /\ ApartSections(t.sections)
           /\ Table(t.lectures, LectureIds, LectureRow) /\ ApartLectures(t.lectures)
           /\ \A l \in DOMAIN t.lectures : t.lectures[l].section \in DOMAIN t.sections
           /\ Membership(t) = [sections |-> TitlesOf(t.sections), lectures |-> PairsOf(t.lectures)]
           /\ Sections(t) = DOMAIN t.sections /\ Lectures(t) = DOMAIN t.lectures
<1>1. t = [sections |-> t.sections, lectures |-> t.lectures]
  BY DEF Good, TreeOK
<1> QED BY <1>1, TreeByTables

\* A row that is put into a table,
LEMMA PutRow ==
    ASSUME NEW f, NEW x, NEW v
    PROVE  /\ DOMAIN Put(f, x, v) = DOMAIN f \cup {x} /\ Put(f, x, v)[x] = v
           /\ \A y \in DOMAIN f \ {x} : Put(f, x, v)[y] = f[y]
  BY DEF Put

\* leaves a table a table,
LEMMA PutTable ==
    ASSUME NEW f, NEW ids, NEW Shape, Table(f, ids, Shape), NEW x \in ids, NEW v \in Shape
    PROVE  Table(Put(f, x, v), ids, Shape)
<1>1. IsFiniteSet(DOMAIN f \cup {x})
  BY FS_AddElement DEF Table
<1> QED BY <1>1 DEF Table, Put

\* keeps the positions of sections apart if its own is free,
LEMMA PutSection ==
    ASSUME NEW A, Table(A, SectionIds, SectionRow), ApartSections(A),
           NEW s \in SectionIds, NEW row \in SectionRow,
           \A z \in DOMAIN A \ {s} : A[z].position # row.position
    PROVE  /\ Table(Put(A, s, row), SectionIds, SectionRow) /\ ApartSections(Put(A, s, row))
           /\ TitlesOf(Put(A, s, row)) = Put(TitlesOf(A), s, row.title)
<1>1. Table(Put(A, s, row), SectionIds, SectionRow)
  BY PutTable
<1>2. ApartSections(Put(A, s, row))
  BY DEF ApartSections, Put
<1>3. TitlesOf(Put(A, s, row)) = Put(TitlesOf(A), s, row.title)
  BY DEF TitlesOf, Put
<1> QED BY <1>1, <1>2, <1>3

\* and those of the lectures of each section;
LEMMA PutLecture ==
    ASSUME NEW B, Table(B, LectureIds, LectureRow), ApartLectures(B),
           NEW l \in LectureIds, NEW row \in LectureRow,
           \A k \in DOMAIN B \ {l} : B[k].section = row.section => B[k].position # row.position
    PROVE  /\ Table(Put(B, l, row), LectureIds, LectureRow) /\ ApartLectures(Put(B, l, row))
           /\ PairsOf(Put(B, l, row)) = Put(PairsOf(B), l, <<row.section, row.content>>)
<1>1. Table(Put(B, l, row), LectureIds, LectureRow)
  BY PutTable
<1>2. ApartLectures(Put(B, l, row))
  BY DEF ApartLectures, Put
<1>3. PairsOf(Put(B, l, row)) = Put(PairsOf(B), l, <<row.section, row.content>>)
  BY DEF PairsOf, Put
<1> QED BY <1>1, <1>2, <1>3

\* and a table some rows of which are left.
LEMMA RestrictTable ==
    ASSUME NEW f, NEW ids, NEW Shape, Table(f, ids, Shape), NEW D, D \subseteq DOMAIN f
    PROVE  /\ Table(Restrict(f, D), ids, Shape) /\ DOMAIN Restrict(f, D) = D
           /\ \A y \in D : Restrict(f, D)[y] = f[y]
           /\ TitlesOf(Restrict(f, D)) = Restrict(TitlesOf(f), D)
           /\ PairsOf(Restrict(f, D)) = Restrict(PairsOf(f), D)
<1>1. IsFiniteSet(D)
  BY FS_Subset DEF Table
<1> QED BY <1>1 DEF Table, Restrict, TitlesOf, PairsOf

-----------------------------------------------------------------------------
(* What a handler makes of a tree.                                         *)

\* What a handler promises: a good tree, with the membership Effect says.
Delivers(t, c) ==
    LET d == Handled(t, c).tree
    IN  Good(d) /\ Membership(d) = Effect(Membership(t), c)

\* The position a new section gets.
LEMMA FreeAmongSections ==
    ASSUME NEW t, Good(t), NEW preferred \in Nat
    PROVE  \A p \in {NextPosition(Positions(t.sections, Sections(t))),
                     FreePosition(Positions(t.sections, Sections(t)), preferred)} :
             p \in Nat /\ \A s \in DOMAIN t.sections : t.sections[s].position # p
<1> DEFINE taken == Positions(t.sections, Sections(t))
<1>1. \A s \in Sections(t) : t.sections[s].position \in Nat
  BY GoodTables DEF Table, SectionRow
<1>2. IsFiniteSet(Sections(t)) /\ Sections(t) = DOMAIN t.sections
  BY GoodTables DEF Table
<1>3. taken \subseteq Nat /\ IsFiniteSet(taken)
  BY <1>1, <1>2, PositionsFinite
<1>4. \A s \in DOMAIN t.sections : t.sections[s].position \in taken
  BY <1>2 DEF Positions
<1> HIDE DEF taken
<1> QED BY <1>3, <1>4, NextIsFree DEF taken

\* A tree in which one section is put is good, if the section's number is free;
LEMMA TreePutSection ==
    ASSUME NEW t, Good(t), NEW s \in SectionIds, NEW row \in SectionRow,
           \A z \in Sections(t) \ {s} : t.sections[z].position # row.position
    PROVE  LET d == [sections |-> Put(t.sections, s, row), lectures |-> t.lectures]
               m == Membership(t)
           IN  /\ Good(d)
               /\ Membership(d) = [sections |-> Put(m.sections, s, row.title),
                                   lectures |-> m.lectures]
<1> DEFINE A == Put(t.sections, s, row)
           B == t.lectures
           d == [sections |-> A, lectures |-> B]
<1>1. /\ Table(t.sections, SectionIds, SectionRow) /\ ApartSections(t.sections)
      /\ Table(B, LectureIds, LectureRow) /\ ApartLectures(B)
      /\ \A l \in DOMAIN B : B[l].section \in DOMAIN t.sections
      /\ Sections(t) = DOMAIN t.sections
      /\ Membership(t) = [sections |-> TitlesOf(t.sections), lectures |-> PairsOf(B)]
  BY GoodTables
<1>2. /\ Table(A, SectionIds, SectionRow) /\ ApartSections(A)
      /\ TitlesOf(A) = Put(TitlesOf(t.sections), s, row.title)
  BY <1>1, PutSection
<1>3. DOMAIN A = DOMAIN t.sections \cup {s}
  BY DEF Put
<1>4. \A l \in DOMAIN B : B[l].section \in DOMAIN A
  BY <1>1, <1>3
<1> HIDE DEF A, B
<1>5. Good(d) /\ Membership(d) = [sections |-> TitlesOf(A), lectures |-> PairsOf(B)]
  BY <1>1, <1>2, <1>4, TreeByTables
<1>6. /\ Membership(t).sections = TitlesOf(t.sections)
      /\ Membership(t).lectures = PairsOf(B)
  BY <1>1
<1> QED BY <1>2, <1>5, <1>6 DEF A, B

\* and so is one in which a lecture is put.
LEMMA TreePutLecture ==
    ASSUME NEW t, Good(t), NEW l \in LectureIds, NEW row \in LectureRow,
           row.section \in Sections(t),
           \A k \in LecturesOf(t, row.section) \ {l} : t.lectures[k].position # row.position
    PROVE  LET d == [sections |-> t.sections, lectures |-> Put(t.lectures, l, row)]
               m == Membership(t)
           IN  /\ Good(d)
               /\ Membership(d) = [sections |-> m.sections,
                                   lectures |-> Put(m.lectures, l, <<row.section, row.content>>)]
<1> DEFINE A == t.sections
           B == Put(t.lectures, l, row)
           d == [sections |-> A, lectures |-> B]
<1>1. /\ Table(A, SectionIds, SectionRow) /\ ApartSections(A)
      /\ Table(t.lectures, LectureIds, LectureRow) /\ ApartLectures(t.lectures)
      /\ \A k \in DOMAIN t.lectures : t.lectures[k].section \in DOMAIN A
      /\ Sections(t) = DOMAIN A /\ Lectures(t) = DOMAIN t.lectures
      /\ Membership(t) = [sections |-> TitlesOf(A), lectures |-> PairsOf(t.lectures)]
  BY GoodTables
<1>2. \A k \in DOMAIN t.lectures \ {l} :
          t.lectures[k].section = row.section => t.lectures[k].position # row.position
  BY <1>1 DEF LecturesOf
<1>3. /\ Table(B, LectureIds, LectureRow) /\ ApartLectures(B)
      /\ PairsOf(B) = Put(PairsOf(t.lectures), l, <<row.section, row.content>>)
  BY <1>1, <1>2, PutLecture
<1>4. \A k \in DOMAIN B : B[k].section \in DOMAIN A
  BY <1>1 DEF Put
<1> HIDE DEF A, B
<1>5. Good(d) /\ Membership(d) = [sections |-> TitlesOf(A), lectures |-> PairsOf(B)]
  BY <1>1, <1>3, <1>4, TreeByTables
<1>6. /\ Membership(t).sections = TitlesOf(A)
      /\ Membership(t).lectures = PairsOf(t.lectures)
  BY <1>1
<1> QED BY <1>3, <1>5, <1>6 DEF A, B

\* A tree some rows of which are left is good, if no lecture loses its section.
LEMMA TreeRestrict ==
    ASSUME NEW t, Good(t), NEW S, S \subseteq Sections(t), NEW L, L \subseteq Lectures(t),
           \A l \in L : t.lectures[l].section \in S
    PROVE  LET d == [sections |-> Restrict(t.sections, S), lectures |-> Restrict(t.lectures, L)]
               m == Membership(t)
           IN  /\ Good(d)
               /\ Membership(d) = [sections |-> Restrict(m.sections, S),
                                   lectures |-> Restrict(m.lectures, L)]
<1> DEFINE A == Restrict(t.sections, S)
           B == Restrict(t.lectures, L)
           d == [sections |-> A, lectures |-> B]
<1>1. /\ Table(t.sections, SectionIds, SectionRow) /\ ApartSections(t.sections)
      /\ Table(t.lectures, LectureIds, LectureRow) /\ ApartLectures(t.lectures)
      /\ Sections(t) = DOMAIN t.sections /\ Lectures(t) = DOMAIN t.lectures
      /\ Membership(t) = [sections |-> TitlesOf(t.sections), lectures |-> PairsOf(t.lectures)]
  BY GoodTables
<1>2. /\ Table(A, SectionIds, SectionRow) /\ DOMAIN A = S
      /\ \A y \in S : A[y] = t.sections[y]
      /\ TitlesOf(A) = Restrict(TitlesOf(t.sections), S)
  BY <1>1, RestrictTable
<1>3. /\ Table(B, LectureIds, LectureRow) /\ DOMAIN B = L
      /\ \A y \in L : B[y] = t.lectures[y]
      /\ PairsOf(B) = Restrict(PairsOf(t.lectures), L)
  BY <1>1, RestrictTable
<1> HIDE DEF A, B
<1>4. ApartSections(A)
  BY <1>1, <1>2 DEF ApartSections
<1>5. ApartLectures(B)
  BY <1>1, <1>3 DEF ApartLectures
<1>6. Good(d) /\ Membership(d) = [sections |-> TitlesOf(A), lectures |-> PairsOf(B)]
  BY <1>2, <1>3, <1>4, <1>5, TreeByTables
<1>7. /\ Membership(t).sections = TitlesOf(t.sections)
      /\ Membership(t).lectures = PairsOf(t.lectures)
  BY <1>1
<1> QED BY <1>2, <1>3, <1>6, <1>7 DEF A, B

\* The position a new lecture gets.
LEMMA FreeAmongLectures ==
    ASSUME NEW t, Good(t), NEW s, NEW preferred \in Nat
    PROVE  \A p \in {NextPosition(Positions(t.lectures, LecturesOf(t, s))),
                     FreePosition(Positions(t.lectures, LecturesOf(t, s)), preferred)} :
             p \in Nat /\ \A l \in LecturesOf(t, s) : t.lectures[l].position # p
<1> DEFINE taken == Positions(t.lectures, LecturesOf(t, s))
<1>1. \A l \in LecturesOf(t, s) : t.lectures[l].position \in Nat
  BY GoodTables DEF Table, LectureRow, LecturesOf
<1>2. IsFiniteSet(LecturesOf(t, s))
  BY GoodTables, FS_Subset DEF Table, LecturesOf
<1>3. taken \subseteq Nat /\ IsFiniteSet(taken)
  BY <1>1, <1>2, PositionsFinite
<1>4. \A l \in LecturesOf(t, s) : t.lectures[l].position \in taken
  BY DEF Positions
<1> HIDE DEF taken
<1> QED BY <1>3, <1>4, NextIsFree DEF taken

\* Each handler keeps it: a new section,
LEMMA AddSectionDelivers ==
    ASSUME NEW t, Good(t), NEW c, CommandOK(c), Fits(Sections(t), Lectures(t), c),
           c.kind = "ADD_SECTION"
    PROVE  Delivers(t, c)
<1> DEFINE taken == Positions(t.sections, Sections(t))
           row == [title |-> c.title, position |-> NextPosition(taken)]
<1>1. c.section \in SectionIds /\ c.title \in Titles
  BY DEF CommandOK
<1>2. NextPosition(taken) \in Nat /\ \A s \in Sections(t) : t.sections[s].position # NextPosition(taken)
  BY FreeAmongSections, GoodTables
<1>3. row \in SectionRow /\ row.title = c.title /\ row.position = NextPosition(taken)
  BY <1>1, <1>2 DEF SectionRow
<1>4. Handled(t, c).tree = [sections |-> Put(t.sections, c.section, row), lectures |-> t.lectures]
  <2>1. Handled(t, c) = AddSection(t, c)
    BY DEF Handled
  <2>2. [l \in Lectures(t) \cup DOMAIN <<>> |-> IF l \in DOMAIN <<>> THEN <<>>[l] ELSE t.lectures[l]]
          = t.lectures
    BY GoodTables DEF Lectures, Table
  <2> QED BY <2>1, <2>2 DEF AddSection, CreateSection
<1> HIDE DEF row
<1>5. Effect(Membership(t), c)
        = [sections |-> Put(Membership(t).sections, c.section, row.title),
           lectures |-> Membership(t).lectures]
  BY <1>3 DEF Effect
<1> QED BY <1>1, <1>2, <1>3, <1>4, <1>5, TreePutSection DEF Delivers

\* a section renamed,
LEMMA RenameSectionDelivers ==
    ASSUME NEW t, Good(t), NEW c, CommandOK(c), Fits(Sections(t), Lectures(t), c),
           c.kind = "RENAME_SECTION"
    PROVE  Delivers(t, c)
<1> DEFINE old == t.sections[c.section]
           row == [old EXCEPT !.title = c.title]
<1>1. c.section \in SectionIds /\ c.title \in Titles /\ c.section \in Sections(t)
  BY DEF CommandOK, Fits
<1>2. /\ t = [sections |-> t.sections, lectures |-> t.lectures]
      /\ t.sections \in [DOMAIN t.sections -> SectionRow] /\ Sections(t) = DOMAIN t.sections
      /\ ApartSections(t.sections)
  BY GoodTables DEF Table
<1>3. old \in SectionRow /\ old.position \in Nat
  BY <1>1, <1>2 DEF SectionRow
<1>4. row \in SectionRow /\ row.title = c.title /\ row.position = old.position
  BY <1>1, <1>3 DEF SectionRow
<1>5. \A z \in Sections(t) \ {c.section} : t.sections[z].position # row.position
  BY <1>1, <1>2, <1>4 DEF ApartSections
<1>6. Handled(t, c).tree = [sections |-> Put(t.sections, c.section, row), lectures |-> t.lectures]
  <2>1. Handled(t, c).tree = [t EXCEPT !.sections[c.section].title = c.title]
    BY DEF Handled, RenameSection
  <2>2. [t EXCEPT !.sections[c.section].title = c.title]
          = [sections |-> [t.sections EXCEPT ![c.section] = row], lectures |-> t.lectures]
    BY <1>2
  <2>3. [t.sections EXCEPT ![c.section] = row] = Put(t.sections, c.section, row)
    BY <1>1, <1>2 DEF Put
  <2> QED BY <2>1, <2>2, <2>3
<1> HIDE DEF row
<1>7. Effect(Membership(t), c)
        = [sections |-> Put(Membership(t).sections, c.section, row.title),
           lectures |-> Membership(t).lectures]
  BY <1>4 DEF Effect
<1> QED BY <1>1, <1>4, <1>5, <1>6, <1>7, TreePutSection DEF Delivers

\* a section removed with its lectures,
LEMMA RemoveSectionDelivers ==
    ASSUME NEW t, Good(t), NEW c, CommandOK(c), Fits(Sections(t), Lectures(t), c),
           c.kind = "REMOVE_SECTION"
    PROVE  Delivers(t, c)
<1> DEFINE gone == LecturesOf(t, c.section)
           m == Membership(t)
           S == Sections(t) \ {c.section}
           L == Lectures(t) \ gone
           d == [sections |-> Restrict(t.sections, S), lectures |-> Restrict(t.lectures, L)]
<1>1. Handled(t, c).tree = d
  BY DEF Handled, RemoveSection
<1>2. S \subseteq Sections(t) /\ L \subseteq Lectures(t)
  OBVIOUS
<1>3. \A l \in L : t.lectures[l].section \in S
  BY GoodTables DEF LecturesOf
<1>4. Good(d) /\ Membership(d) = [sections |-> Restrict(m.sections, S),
                                  lectures |-> Restrict(m.lectures, L)]
  <2> HIDE DEF S, L
  <2> QED BY <1>2, <1>3, TreeRestrict
<1>5. Effect(m, c) = [sections |-> Restrict(m.sections, S), lectures |-> Restrict(m.lectures, L)]
  <2>1. DOMAIN m.sections = Sections(t)
    BY DEF Membership
  <2>2. {l \in DOMAIN m.lectures : m.lectures[l][1] # c.section} = L
    BY DEF Membership, LecturesOf
  <2> HIDE DEF m, L
  <2> QED BY <2>1, <2>2 DEF Effect
<1> HIDE DEF d, m
<1> QED BY <1>1, <1>4, <1>5 DEF Delivers, m

\* a section restored with its lectures,
LEMMA RestoreSectionDelivers ==
    ASSUME NEW t, Good(t), NEW c, CommandOK(c), Fits(Sections(t), Lectures(t), c),
           c.kind = "RESTORE_SECTION"
    PROVE  Delivers(t, c)
<1> DEFINE taken == Positions(t.sections, Sections(t))
           p == FreePosition(taken, c.row.position)
           row == [title |-> c.row.title, position |-> p]
           A == Put(t.sections, c.section, row)
           B == t.lectures
           D == [l \in DOMAIN B \cup DOMAIN c.lectures |->
                    IF l \in DOMAIN c.lectures THEN c.lectures[l] ELSE B[l]]
           d == [sections |-> A, lectures |-> D]
           m == Membership(t)
<1>1. /\ c.section \in SectionIds /\ c.row \in SectionRow
      /\ Table(c.lectures, LectureIds, LectureRow)
      /\ \A l \in DOMAIN c.lectures : c.lectures[l].section = c.section
      /\ \A l, k \in DOMAIN c.lectures : l # k => c.lectures[l].position # c.lectures[k].position
  BY DEF CommandOK
<1>2. c.section \notin Sections(t) /\ DOMAIN c.lectures \cap Lectures(t) = {}
  BY DEF Fits
<1>3. p \in Nat /\ \A s \in Sections(t) : t.sections[s].position # p
  BY <1>1, FreeAmongSections, GoodTables DEF SectionRow
<1>4. row \in SectionRow /\ row.title = c.row.title /\ row.position = p
  BY <1>1, <1>3 DEF SectionRow
<1>5. /\ Table(t.sections, SectionIds, SectionRow) /\ ApartSections(t.sections)
      /\ Table(B, LectureIds, LectureRow) /\ ApartLectures(B)
      /\ \A l \in DOMAIN B : B[l].section \in DOMAIN t.sections
      /\ Sections(t) = DOMAIN t.sections /\ Lectures(t) = DOMAIN B
      /\ m = [sections |-> TitlesOf(t.sections), lectures |-> PairsOf(B)]
  BY GoodTables
<1>6. Handled(t, c).tree = d
  BY <1>5 DEF Handled, RestoreSection, CreateSection
<1> HIDE DEF row, p
<1>7. /\ Table(A, SectionIds, SectionRow) /\ ApartSections(A)
      /\ TitlesOf(A) = Put(TitlesOf(t.sections), c.section, row.title)
  BY <1>1, <1>3, <1>4, <1>5, PutSection
<1>8. DOMAIN A = DOMAIN t.sections \cup {c.section}
  BY DEF Put
<1>9. Table(D, LectureIds, LectureRow)
  <2>1. IsFiniteSet(DOMAIN B \cup DOMAIN c.lectures)
    BY <1>1, <1>5, FS_Union DEF Table
  <2> QED BY <1>1, <1>5, <2>1 DEF Table
<1>10. ApartLectures(D)
  <2>1. DOMAIN D = DOMAIN B \cup DOMAIN c.lectures
    OBVIOUS
  <2>2. \A l \in DOMAIN c.lectures : D[l] = c.lectures[l] /\ D[l].section = c.section
    BY <1>1
  <2>3. \A l \in DOMAIN B : D[l] = B[l] /\ D[l].section # c.section
    BY <1>2, <1>5
  <2> HIDE DEF D
  <2> QED BY <1>1, <1>5, <2>1, <2>2, <2>3 DEF ApartLectures
<1>11. \A l \in DOMAIN D : D[l].section \in DOMAIN A
  BY <1>1, <1>5, <1>8
<1>12. PairsOf(D) = [l \in DOMAIN PairsOf(B) \cup DOMAIN c.lectures |->
                        IF l \in DOMAIN c.lectures
                        THEN <<c.lectures[l].section, c.lectures[l].content>>
                        ELSE PairsOf(B)[l]]
  BY DEF PairsOf
<1> HIDE DEF A, D
<1>13. Good(d) /\ Membership(d) = [sections |-> TitlesOf(A), lectures |-> PairsOf(D)]
  BY <1>7, <1>9, <1>10, <1>11, TreeByTables
<1>14. Effect(m, c) = [sections |-> TitlesOf(A), lectures |-> PairsOf(D)]
  <2>1. m.sections = TitlesOf(t.sections) /\ m.lectures = PairsOf(B)
    BY <1>5
  <2> HIDE DEF m, B
  <2> QED BY <1>4, <1>7, <1>12, <2>1 DEF Effect
<1> HIDE DEF d
<1> QED BY <1>6, <1>13, <1>14 DEF Delivers, m

\* a new lecture,
LEMMA AddLectureDelivers ==
    ASSUME NEW t, Good(t), NEW c, CommandOK(c), Fits(Sections(t), Lectures(t), c),
           c.kind = "ADD_LECTURE"
    PROVE  Delivers(t, c)
<1> DEFINE p == NextPosition(Positions(t.lectures, LecturesOf(t, c.section)))
           row == [section |-> c.section, content |-> c.content, position |-> p]
<1>1. /\ c.lecture \in LectureIds /\ c.section \in SectionIds /\ c.content \in Content
      /\ c.section \in Sections(t)
  BY DEF CommandOK, Fits
<1>2. p \in Nat /\ \A k \in LecturesOf(t, c.section) : t.lectures[k].position # p
  BY FreeAmongLectures
<1>3. /\ row \in LectureRow /\ row.section = c.section /\ row.content = c.content
      /\ row.position = p
  BY <1>1, <1>2 DEF LectureRow
<1>4. Handled(t, c).tree = [sections |-> t.sections, lectures |-> Put(t.lectures, c.lecture, row)]
  <2>1. t = [sections |-> t.sections, lectures |-> t.lectures]
    BY GoodTables
  <2>2. Handled(t, c).tree = [t EXCEPT !.lectures = Put(@, c.lecture, row)]
    BY DEF Handled, AddLecture
  <2> HIDE DEF row
  <2> QED BY <2>1, <2>2
<1> HIDE DEF row, p
<1>5. Effect(Membership(t), c)
        = [sections |-> Membership(t).sections,
           lectures |-> Put(Membership(t).lectures, c.lecture, <<row.section, row.content>>)]
  BY <1>3 DEF Effect
<1> QED BY <1>1, <1>2, <1>3, <1>4, <1>5, TreePutLecture DEF Delivers

\* a lecture whose content changes,
LEMMA UpdateLectureDelivers ==
    ASSUME NEW t, Good(t), NEW c, CommandOK(c), Fits(Sections(t), Lectures(t), c),
           c.kind = "UPDATE_LECTURE"
    PROVE  Delivers(t, c)
<1> DEFINE old == t.lectures[c.lecture]
           row == [old EXCEPT !.content = c.content]
<1>1. c.lecture \in LectureIds /\ c.content \in Content /\ c.lecture \in Lectures(t)
  BY DEF CommandOK, Fits
<1>2. /\ t = [sections |-> t.sections, lectures |-> t.lectures]
      /\ t.lectures \in [DOMAIN t.lectures -> LectureRow] /\ Lectures(t) = DOMAIN t.lectures
      /\ \A l \in DOMAIN t.lectures : t.lectures[l].section \in Sections(t)
      /\ ApartLectures(t.lectures)
  BY GoodTables DEF Table
<1>3. old \in LectureRow /\ old.section \in Sections(t)
  BY <1>1, <1>2
<1>4. /\ row \in LectureRow /\ row.content = c.content /\ row.position = old.position
      /\ row.section = old.section
  BY <1>1, <1>3 DEF LectureRow
<1>5. \A k \in LecturesOf(t, row.section) \ {c.lecture} : t.lectures[k].position # row.position
  BY <1>1, <1>2, <1>4 DEF ApartLectures, LecturesOf
<1>6. Handled(t, c).tree = [sections |-> t.sections, lectures |-> Put(t.lectures, c.lecture, row)]
  <2>1. Handled(t, c).tree = [t EXCEPT !.lectures[c.lecture].content = c.content]
    BY DEF Handled, UpdateLecture
  <2>2. [t EXCEPT !.lectures[c.lecture].content = c.content]
          = [sections |-> t.sections, lectures |-> [t.lectures EXCEPT ![c.lecture] = row]]
    BY <1>2
  <2>3. [t.lectures EXCEPT ![c.lecture] = row] = Put(t.lectures, c.lecture, row)
    BY <1>1, <1>2 DEF Put
  <2> QED BY <2>1, <2>2, <2>3
<1>7. Membership(t).lectures[c.lecture][1] = row.section
  BY <1>1, <1>4 DEF Membership
<1> HIDE DEF row, old
<1>8. Effect(Membership(t), c)
        = [sections |-> Membership(t).sections,
           lectures |-> Put(Membership(t).lectures, c.lecture, <<row.section, row.content>>)]
  BY <1>4, <1>7 DEF Effect
<1> QED BY <1>1, <1>3, <1>4, <1>5, <1>6, <1>8, TreePutLecture DEF Delivers

\* a lecture removed,
LEMMA RemoveLectureDelivers ==
    ASSUME NEW t, Good(t), NEW c, CommandOK(c), Fits(Sections(t), Lectures(t), c),
           c.kind = "REMOVE_LECTURE"
    PROVE  Delivers(t, c)
<1> DEFINE m == Membership(t)
           S == Sections(t)
           L == Lectures(t) \ {c.lecture}
           d == [sections |-> Restrict(t.sections, S), lectures |-> Restrict(t.lectures, L)]
<1>1. /\ t = [sections |-> t.sections, lectures |-> t.lectures]
      /\ t.sections \in [DOMAIN t.sections -> SectionRow] /\ Sections(t) = DOMAIN t.sections
  BY GoodTables DEF Table
<1>2. Restrict(t.sections, S) = t.sections
  BY <1>1 DEF Restrict
<1>3. Handled(t, c).tree = d
  <2>1. Handled(t, c).tree = [t EXCEPT !.lectures = Restrict(@, L)]
    BY DEF Handled, RemoveLecture
  <2>2. [t EXCEPT !.lectures = Restrict(@, L)] = [sections |-> t.sections, lectures |-> Restrict(t.lectures, L)]
    BY <1>1
  <2> QED BY <1>2, <2>1, <2>2
<1>4. \A l \in L : t.lectures[l].section \in S
  BY GoodTables
<1>5. Good(d) /\ Membership(d) = [sections |-> Restrict(m.sections, S),
                                  lectures |-> Restrict(m.lectures, L)]
  <2>1. S \subseteq Sections(t) /\ L \subseteq Lectures(t)
    OBVIOUS
  <2> HIDE DEF S, L
  <2> QED BY <1>4, <2>1, TreeRestrict
<1>6. Effect(m, c) = [sections |-> Restrict(m.sections, S), lectures |-> Restrict(m.lectures, L)]
  <2>1. Restrict(m.sections, S) = m.sections
    BY DEF Membership, Restrict
  <2>2. DOMAIN m.lectures = Lectures(t)
    BY DEF Membership
  <2> HIDE DEF m
  <2> QED BY <2>1, <2>2 DEF Effect
<1> HIDE DEF d, m
<1> QED BY <1>3, <1>5, <1>6 DEF Delivers, m

\* a lecture restored,
LEMMA RestoreLectureDelivers ==
    ASSUME NEW t, Good(t), NEW c, CommandOK(c), Fits(Sections(t), Lectures(t), c),
           c.kind = "RESTORE_LECTURE"
    PROVE  Delivers(t, c)
<1> DEFINE p == FreePosition(Positions(t.lectures, LecturesOf(t, c.row.section)), c.row.position)
           row == [c.row EXCEPT !.position = p]
<1>1. c.lecture \in LectureIds /\ c.row \in LectureRow /\ c.row.section \in Sections(t)
  BY DEF CommandOK, Fits
<1>2. p \in Nat /\ \A k \in LecturesOf(t, c.row.section) : t.lectures[k].position # p
  BY <1>1, FreeAmongLectures DEF LectureRow
<1>3. /\ row \in LectureRow /\ row.section = c.row.section /\ row.content = c.row.content
      /\ row.position = p
  BY <1>1, <1>2 DEF LectureRow
<1>4. Handled(t, c).tree = [sections |-> t.sections, lectures |-> Put(t.lectures, c.lecture, row)]
  <2>1. t = [sections |-> t.sections, lectures |-> t.lectures]
    BY GoodTables
  <2>2. Handled(t, c).tree = [t EXCEPT !.lectures = Put(@, c.lecture, row)]
    BY DEF Handled, RestoreLecture
  <2> HIDE DEF row
  <2> QED BY <2>1, <2>2
<1> HIDE DEF row, p
<1>5. Effect(Membership(t), c)
        = [sections |-> Membership(t).sections,
           lectures |-> Put(Membership(t).lectures, c.lecture, <<row.section, row.content>>)]
  BY <1>3 DEF Effect
<1> QED BY <1>1, <1>2, <1>3, <1>4, <1>5, TreePutLecture DEF Delivers

\* the sections in another order,
LEMMA ReorderSectionsDelivers ==
    ASSUME NEW t, Good(t), NEW c, CommandOK(c), Fits(Sections(t), Lectures(t), c),
           c.kind = "REORDER_SECTIONS"
    PROVE  Delivers(t, c)
<1> DEFINE A == Resequenced(t.sections, c.order)
           B == t.lectures
           d == [sections |-> A, lectures |-> B]
           m == Membership(t)
<1>1. DOMAIN c.order \subseteq Nat /\ ToSet(c.order) = Sections(t)
  <2>1. DOMAIN c.order = 1..Len(c.order) /\ ToSet(c.order) = Sections(t)
    BY DEF CommandOK, Fits
  <2> QED BY <2>1
<1>2. /\ t = [sections |-> t.sections, lectures |-> t.lectures]
      /\ Table(t.sections, SectionIds, SectionRow)
      /\ Table(B, LectureIds, LectureRow) /\ ApartLectures(B)
      /\ \A l \in DOMAIN B : B[l].section \in DOMAIN t.sections
      /\ Sections(t) = DOMAIN t.sections
      /\ m = [sections |-> TitlesOf(t.sections), lectures |-> PairsOf(B)]
  BY GoodTables
<1>3. /\ DOMAIN A = DOMAIN t.sections
      /\ \A x \in DOMAIN A : A[x] = [t.sections[x] EXCEPT !.position = IndexIn(c.order, x)]
      /\ \A x \in DOMAIN A : IndexIn(c.order, x) \in Nat
      /\ \A x, y \in DOMAIN A : x # y => IndexIn(c.order, x) # IndexIn(c.order, y)
  BY <1>1, <1>2, NumberedAlong
<1>4. A = [x \in DOMAIN A |-> A[x]]
  BY DEF Resequenced
<1>5. \A x \in DOMAIN A : /\ A[x] \in SectionRow /\ A[x].title = t.sections[x].title
                          /\ A[x].position = IndexIn(c.order, x)
  <2> TAKE x \in DOMAIN A
  <2>1. t.sections[x] \in SectionRow /\ IndexIn(c.order, x) \in Nat
        /\ A[x] = [t.sections[x] EXCEPT !.position = IndexIn(c.order, x)]
    BY <1>2, <1>3 DEF Table
  <2> HIDE DEF A
  <2> QED BY <2>1 DEF SectionRow
<1>6. Handled(t, c).tree = d
  <2>1. Handled(t, c).tree = [t EXCEPT !.sections = Resequenced(@, c.order)]
    BY DEF Handled, ReorderSections
  <2> QED BY <1>2, <2>1
<1> HIDE DEF A
<1>7. Table(A, SectionIds, SectionRow) /\ ApartSections(A)
  BY <1>2, <1>3, <1>4, <1>5 DEF Table, ApartSections
<1>8. TitlesOf(A) = TitlesOf(t.sections)
  BY <1>3, <1>5 DEF TitlesOf
<1>9. Good(d) /\ Membership(d) = [sections |-> TitlesOf(A), lectures |-> PairsOf(B)]
  BY <1>2, <1>3, <1>7, TreeByTables
<1>10. Effect(m, c) = m
  BY DEF Effect
<1> HIDE DEF d, m
<1> QED BY <1>2, <1>6, <1>8, <1>9, <1>10 DEF Delivers, m

\* A table of lectures numbered along a list of lectures of it: what is not in
\* the list stays, what is differs in its number alone.
LEMMA NumberedLectures ==
    ASSUME NEW B, Table(B, LectureIds, LectureRow), NEW order, DOMAIN order \subseteq Nat
    PROVE  LET D == Resequenced(B, order)
           IN  /\ Table(D, LectureIds, LectureRow) /\ DOMAIN D = DOMAIN B
               /\ \A l \in DOMAIN B : /\ D[l].section = B[l].section
                                      /\ D[l].content = B[l].content
                                      /\ l \notin ToSet(order) => D[l] = B[l]
               /\ \A l, k \in DOMAIN B \cap ToSet(order) : l # k => D[l].position # D[k].position
<1> DEFINE D == Resequenced(B, order)
<1>1. /\ DOMAIN D = DOMAIN B
      /\ \A x \in DOMAIN B \cap ToSet(order) : D[x] = [B[x] EXCEPT !.position = IndexIn(order, x)]
      /\ \A x \in DOMAIN B \ ToSet(order) : D[x] = B[x]
      /\ \A x \in ToSet(order) : IndexIn(order, x) \in Nat
      /\ \A x, y \in ToSet(order) : x # y => IndexIn(order, x) # IndexIn(order, y)
  BY NumberedAlong
<1>2. D = [l \in DOMAIN D |-> D[l]]
  BY DEF Resequenced
<1> HIDE DEF D
<1>3. \A l \in DOMAIN B \cap ToSet(order) :
         /\ D[l] \in LectureRow /\ D[l].section = B[l].section /\ D[l].content = B[l].content
         /\ D[l].position = IndexIn(order, l)
  <2> TAKE l \in DOMAIN B \cap ToSet(order)
  <2>1. B[l] \in LectureRow /\ IndexIn(order, l) \in Nat
        /\ D[l] = [B[l] EXCEPT !.position = IndexIn(order, l)]
    BY <1>1 DEF Table
  <2> QED BY <2>1 DEF LectureRow
<1>4. \A l \in DOMAIN B : l \in ToSet(order) \/ D[l] = B[l]
  BY <1>1
<1>5. Table(D, LectureIds, LectureRow)
  BY <1>1, <1>2, <1>3, <1>4 DEF Table
<1> QED BY <1>1, <1>3, <1>4, <1>5 DEF D

\* The lectures of a section, one of them left out, in the order of their numbers.
OthersOf(t, s, l) == LecturesOf(t, s) \ {l}
OthersListed(t, s, l) == Ordered(t.lectures, OthersOf(t, s, l))

\* That list has every one of them.
LEMMA LecturesListed ==
    ASSUME NEW t, Good(t), NEW s, NEW l
    PROVE  /\ ListOf(OthersListed(t, s, l), OthersOf(t, s, l))
           /\ DOMAIN OthersListed(t, s, l) \subseteq Nat
           /\ ToSet(OthersListed(t, s, l)) = OthersOf(t, s, l)
<1> DEFINE T == OthersOf(t, s, l)
           list == OthersListed(t, s, l)
<1>1. Table(t.lectures, LectureIds, LectureRow) /\ ApartLectures(t.lectures)
      /\ T \subseteq DOMAIN t.lectures /\ \A x \in T : t.lectures[x].section = s
  BY GoodTables DEF OthersOf, LecturesOf
<1>2. PlacedApart(t.lectures, T)
  <2>1. IsFiniteSet(T)
    BY <1>1, FS_Subset DEF Table
  <2>2. \A x \in T : t.lectures[x] \in LectureRow
    BY <1>1 DEF Table
  <2> QED BY <1>1, <2>1, <2>2 DEF LectureRow, ApartLectures, PlacedApart
<1>3. list = Ordered(t.lectures, T)
  BY DEF OthersListed
<1> HIDE DEF T, list
<1>4. /\ list \in [1..Cardinality(T) -> T] /\ Cardinality(T) \in Nat
      /\ \A x \in T : \E i \in 1..Cardinality(T) : list[i] = x
  BY <1>2, <1>3, OrderedListsAll
<1>5. DOMAIN list \subseteq Nat /\ ToSet(list) = T
  BY <1>4 DEF ToSet
<1> QED BY <1>4, <1>5 DEF T, list, ListOf

\* and a lecture dragged to another place.
LEMMA MoveLectureDelivers ==
    ASSUME NEW t, Good(t), NEW c, CommandOK(c), Fits(Sections(t), Lectures(t), c),
           c.kind = "MOVE_LECTURE"
    PROVE  Delivers(t, c)
<1> DEFINE A == t.sections
           B == t.lectures
           from == B[c.lecture].section
           F == OthersOf(t, from, c.lecture)
           T == OthersOf(t, c.to, c.lecture)
           source == OthersListed(t, from, c.lecture)
           target == OthersListed(t, c.to, c.lecture)
           k == Min({c.index, Len(target)}) + 1
           landed == InsertAt(target, k, c.lecture)
           left == IF from = c.to THEN B ELSE Resequenced(B, source)
           mid == Resequenced(left, landed)
           D == [mid EXCEPT ![c.lecture].section = c.to]
           d == [sections |-> A, lectures |-> D]
           m == Membership(t)
<1>1. /\ c.lecture \in LectureIds /\ c.to \in SectionIds /\ c.index \in Nat
      /\ c.lecture \in Lectures(t) /\ c.to \in Sections(t)
  BY DEF CommandOK, Fits
<1>2. /\ t = [sections |-> A, lectures |-> B]
      /\ Table(A, SectionIds, SectionRow) /\ ApartSections(A)
      /\ Table(B, LectureIds, LectureRow) /\ ApartLectures(B)
      /\ \A l \in DOMAIN B : B[l].section \in DOMAIN A
      /\ Sections(t) = DOMAIN A /\ Lectures(t) = DOMAIN B
      /\ m = [sections |-> TitlesOf(A), lectures |-> PairsOf(B)]
  BY GoodTables
<1>3. Handled(t, c).tree = d
  <2>1. Handled(t, c).tree = [t EXCEPT !.lectures = D]
    BY DEF Handled, MoveLecture, OthersListed, OthersOf
  <2> HIDE DEF D
  <2> QED BY <1>2, <2>1
<1>4. DOMAIN source \subseteq Nat /\ ToSet(source) = F
  BY LecturesListed
<1>5. DOMAIN landed \subseteq Nat /\ ToSet(landed) = T \cup {c.lecture}
  <2> DEFINE n == Cardinality(T)
  <2>1. ListOf(target, T)
    BY LecturesListed
  <2> HIDE DEF target, T
  <2>2. n \in Nat /\ Len(target) = n
    BY <2>1 DEF ListOf
  <2>3. Min({c.index, n}) \in 0..n
    <3>1. \E x \in {c.index, n} : \A y \in {c.index, n} : x <= y
      BY <1>1, <2>2
    <3>2. Min({c.index, n}) \in {c.index, n} /\ \A y \in {c.index, n} : Min({c.index, n}) <= y
      BY <3>1 DEF Min
    <3> QED BY <1>1, <2>2, <3>2
  <2>4. k \in 1..(n + 1)
    BY <2>2, <2>3
  <2> HIDE DEF k
  <2> QED BY <2>1, <2>4, InsertedList
<1> HIDE DEF landed, source
<1>6. /\ Table(left, LectureIds, LectureRow) /\ DOMAIN left = DOMAIN B
      /\ \A l \in DOMAIN B : /\ left[l].section = B[l].section /\ left[l].content = B[l].content
                             /\ l \notin F => left[l] = B[l]
      /\ from # c.to => \A l, j \in DOMAIN B \cap F : l # j => left[l].position # left[j].position
  <2>1. CASE from = c.to
    BY <1>2, <2>1
  <2>2. CASE from # c.to
    <3>1. left = Resequenced(B, source)
      BY <2>2
    <3> HIDE DEF left, F
    <3> QED BY <1>2, <1>4, <3>1, NumberedLectures
  <2> QED BY <2>1, <2>2
<1> HIDE DEF left
<1>7. /\ Table(mid, LectureIds, LectureRow) /\ DOMAIN mid = DOMAIN B
      /\ \A l \in DOMAIN B : /\ mid[l].section = B[l].section /\ mid[l].content = B[l].content
                             /\ l \notin T \cup {c.lecture} => mid[l] = left[l]
      /\ \A l, j \in DOMAIN B \cap (T \cup {c.lecture}) : l # j => mid[l].position # mid[j].position
  <2> HIDE DEF T
  <2>1. LET G == Resequenced(left, landed)
        IN  /\ Table(G, LectureIds, LectureRow) /\ DOMAIN G = DOMAIN left
            /\ \A l \in DOMAIN left : /\ G[l].section = left[l].section
                                      /\ G[l].content = left[l].content
                                      /\ l \notin ToSet(landed) => G[l] = left[l]
            /\ \A l, j \in DOMAIN left \cap ToSet(landed) : l # j => G[l].position # G[j].position
    BY <1>5, <1>6, NumberedLectures
  <2> QED BY <1>5, <1>6, <2>1
<1> HIDE DEF mid
<1>8. /\ D[c.lecture] \in LectureRow /\ D[c.lecture].section = c.to
      /\ D[c.lecture].content = B[c.lecture].content
      /\ D[c.lecture].position = mid[c.lecture].position
      /\ DOMAIN D = DOMAIN B /\ D = [l \in DOMAIN D |-> D[l]]
      /\ \A l \in DOMAIN B \ {c.lecture} : D[l] = mid[l]
  <2>1. mid[c.lecture] \in LectureRow /\ c.lecture \in DOMAIN mid
    BY <1>1, <1>2, <1>7 DEF Table
  <2> DEFINE row == [mid[c.lecture] EXCEPT !.section = c.to]
  <2>2. /\ row \in LectureRow /\ row.section = c.to /\ row.content = mid[c.lecture].content
        /\ row.position = mid[c.lecture].position
    BY <1>1, <2>1 DEF LectureRow
  <2>3. D = [mid EXCEPT ![c.lecture] = row]
    OBVIOUS
  <2> HIDE DEF row, D
  <2> QED BY <1>1, <1>2, <1>7, <2>1, <2>2, <2>3
<1> HIDE DEF D
<1>9. Table(D, LectureIds, LectureRow)
  BY <1>2, <1>7, <1>8 DEF Table
<1>10. ApartLectures(D)
  <2> SUFFICES ASSUME NEW l \in DOMAIN B, NEW j \in DOMAIN B, l # j, D[l].section = D[j].section
               PROVE  D[l].position # D[j].position
    BY <1>8 DEF ApartLectures
  <2>1. \A x \in DOMAIN B : /\ D[x].section = c.to <=> x \in T \cup {c.lecture}
                            /\ D[x].position = mid[x].position
    BY <1>2, <1>7, <1>8 DEF OthersOf, LecturesOf
  <2>2. CASE D[l].section = c.to
    <3>1. l \in T \cup {c.lecture} /\ j \in T \cup {c.lecture}
      BY <2>1, <2>2
    <3> HIDE DEF T
    <3> QED BY <1>7, <2>1, <3>1
  <2>3. CASE D[l].section # c.to
    <3>1. l \notin T \cup {c.lecture} /\ j \notin T \cup {c.lecture}
      BY <2>1, <2>3
    <3>2. /\ D[l] = left[l] /\ D[j] = left[j]
          /\ D[l].section = B[l].section /\ D[j].section = B[j].section
      <4> HIDE DEF T
      <4> QED BY <1>6, <1>7, <1>8, <3>1
    <3>3. CASE B[l].section = from
      <4>1. l \in F /\ j \in F /\ from # c.to
        BY <1>2, <2>3, <3>1, <3>2, <3>3 DEF OthersOf, LecturesOf
      <4> HIDE DEF F
      <4> QED BY <1>6, <3>2, <4>1
    <3>4. CASE B[l].section # from
      <4>1. l \notin F /\ j \notin F
        BY <3>2, <3>4 DEF OthersOf, LecturesOf
      <4>2. left[l] = B[l] /\ left[j] = B[j]
        BY <1>6, <4>1
      <4> QED BY <1>2, <3>2, <4>2 DEF ApartLectures
    <3> QED BY <3>3, <3>4
  <2> QED BY <2>2, <2>3
<1>11. \A l \in DOMAIN D : D[l].section \in DOMAIN A
  BY <1>1, <1>2, <1>7, <1>8
<1>12. Good(d) /\ Membership(d) = [sections |-> TitlesOf(A), lectures |-> PairsOf(D)]
  BY <1>2, <1>9, <1>10, <1>11, TreeByTables
<1>13. PairsOf(D) = Put(PairsOf(B), c.lecture, <<c.to, B[c.lecture].content>>)
  BY <1>1, <1>2, <1>7, <1>8 DEF PairsOf, Put
<1>14. Effect(m, c) = [sections |-> TitlesOf(A), lectures |-> PairsOf(D)]
  <2>1. m.lectures[c.lecture][2] = B[c.lecture].content
    BY <1>1, <1>2 DEF Membership
  <2>2. m.sections = TitlesOf(A) /\ m.lectures = PairsOf(B)
    BY <1>2
  <2> HIDE DEF m
  <2> QED BY <1>13, <2>1, <2>2 DEF Effect
<1> HIDE DEF d, m
<1> QED BY <1>3, <1>12, <1>14 DEF Delivers, m

\* Every handler delivers.
LEMMA HandlersDeliver ==
    ASSUME NEW t, Good(t), NEW c, CommandOK(c), Fits(Sections(t), Lectures(t), c)
    PROVE  Delivers(t, c) /\ Applies(t, c)
<1>1. Delivers(t, c)
  <2>1. c.kind \in {"ADD_SECTION", "RENAME_SECTION", "REMOVE_SECTION", "RESTORE_SECTION",
                    "REORDER_SECTIONS", "ADD_LECTURE", "UPDATE_LECTURE", "REMOVE_LECTURE",
                    "RESTORE_LECTURE", "MOVE_LECTURE"}
    BY DEF CommandOK
  <2> QED BY <2>1, AddSectionDelivers, RenameSectionDelivers, RemoveSectionDelivers,
             RestoreSectionDelivers, ReorderSectionsDelivers, AddLectureDelivers,
             UpdateLectureDelivers, RemoveLectureDelivers, RestoreLectureDelivers,
             MoveLectureDelivers
<1>2. Applies(t, c)
  BY DEF Applies, Fits
<1> QED BY <1>1, <1>2

-----------------------------------------------------------------------------
(* What undoes a command.                                                  *)

IsFcn(f) == f = [y \in DOMAIN f |-> f[y]]

\* A row put in and taken out, put over, or taken out and put back.
LEMMA PutAndBack ==
    ASSUME NEW f, IsFcn(f), NEW x, NEW v
    PROVE  /\ x \notin DOMAIN f => Restrict(Put(f, x, v), DOMAIN Put(f, x, v) \ {x}) = f
           /\ x \in DOMAIN f => Put(Put(f, x, v), x, f[x]) = f
           /\ x \in DOMAIN f => Put(Restrict(f, DOMAIN f \ {x}), x, f[x]) = f
<1>1. ASSUME x \notin DOMAIN f PROVE Restrict(Put(f, x, v), DOMAIN Put(f, x, v) \ {x}) = f
  <2>1. DOMAIN Put(f, x, v) \ {x} = DOMAIN f /\ \A y \in DOMAIN f : Put(f, x, v)[y] = f[y]
    BY <1>1 DEF Put
  <2> QED BY <2>1 DEF Restrict, IsFcn
<1>2. ASSUME x \in DOMAIN f PROVE Put(Put(f, x, v), x, f[x]) = f
  <2>1. DOMAIN Put(f, x, v) = DOMAIN f /\ \A y \in DOMAIN f \ {x} : Put(f, x, v)[y] = f[y]
    BY <1>2 DEF Put
  <2> QED BY <1>2, <2>1 DEF Put, IsFcn
<1>3. ASSUME x \in DOMAIN f PROVE Put(Restrict(f, DOMAIN f \ {x}), x, f[x]) = f
  <2>1. /\ DOMAIN Restrict(f, DOMAIN f \ {x}) \cup {x} = DOMAIN f
        /\ \A y \in DOMAIN f \ {x} : Restrict(f, DOMAIN f \ {x})[y] = f[y]
    BY <1>3 DEF Restrict
  <2> QED BY <1>3, <2>1 DEF Put, IsFcn
<1> QED BY <1>1, <1>2, <1>3

\* The membership m of a good tree t.
Mirrors(m, t) ==
    /\ m = [sections |-> m.sections, lectures |-> m.lectures]
    /\ IsFcn(m.sections) /\ DOMAIN m.sections = Sections(t)
    /\ IsFcn(m.lectures) /\ DOMAIN m.lectures = Lectures(t)
    /\ \A s \in Sections(t) : m.sections[s] = t.sections[s].title
    /\ \A l \in Lectures(t) : /\ m.lectures[l] = <<t.lectures[l].section, t.lectures[l].content>>
                              /\ m.lectures[l][1] \in Sections(t)

\* It has the rows of the tree, without their numbers.
LEMMA MembershipMirrors ==
    ASSUME NEW t, Good(t)
    PROVE  Mirrors(Membership(t), t)
<1>1. \A l \in Lectures(t) : t.lectures[l].section \in Sections(t)
  BY GoodTables
<1> QED BY <1>1 DEF Membership, Mirrors, IsFcn

\* What the log keeps of a command: it makes sense, and it leads back.
Reverses(t, c) ==
    LET inverse == Handled(t, c).inverse
        m == Membership(t)
        landed == Effect(m, c)
    IN  /\ CommandOK(inverse)
        /\ Fits(DOMAIN landed.sections, DOMAIN landed.lectures, inverse)
        /\ Effect(landed, inverse) = m
        /\ Returning(inverse).sections \subseteq Sections(t)
        /\ Returning(inverse).lectures \subseteq Lectures(t)

\* A new section is removed again;
LEMMA AddSectionReverses ==
    ASSUME NEW t, Good(t), NEW c, CommandOK(c), Fits(Sections(t), Lectures(t), c),
           c.kind = "ADD_SECTION"
    PROVE  Reverses(t, c)
<1> DEFINE m == Membership(t)
           i == [kind |-> "REMOVE_SECTION", section |-> c.section]
           S == Put(m.sections, c.section, c.title)
           landed == [sections |-> S, lectures |-> m.lectures]
<1>1. Handled(t, c).inverse = i
  BY DEF Handled, AddSection
<1>2. c.section \in SectionIds /\ c.section \notin Sections(t)
  BY DEF CommandOK, Fits
<1>3. Effect(m, c) = landed
  BY DEF Effect
<1>4. Mirrors(m, t)
  BY MembershipMirrors
<1> HIDE DEF m
<1>5. Restrict(S, DOMAIN S \ {c.section}) = m.sections /\ c.section \in DOMAIN S
  <2>1. c.section \in DOMAIN S
    BY DEF Put
  <2>2. c.section \notin DOMAIN m.sections /\ IsFcn(m.sections)
    BY <1>2, <1>4 DEF Mirrors
  <2> QED BY <2>1, <2>2, PutAndBack
<1>6. Restrict(m.lectures, {l \in DOMAIN m.lectures : m.lectures[l][1] # c.section}) = m.lectures
  <2>1. {l \in DOMAIN m.lectures : m.lectures[l][1] # c.section} = DOMAIN m.lectures
    BY <1>2, <1>4 DEF Mirrors
  <2> QED BY <1>4, <2>1 DEF Restrict, Mirrors, IsFcn
<1> HIDE DEF S
<1>7. Effect(landed, i) = m
  BY <1>4, <1>5, <1>6 DEF Effect, Mirrors
<1>8. CommandOK(i) /\ Fits(DOMAIN S, DOMAIN m.lectures, i)
  BY <1>2, <1>5 DEF CommandOK, Fits
<1>9. Returning(i).sections = {} /\ Returning(i).lectures = {}
  BY DEF Returning
<1> HIDE DEF i
<1> QED BY <1>1, <1>3, <1>7, <1>8, <1>9 DEF Reverses, m

\* a section gets its old title back;
LEMMA RenameSectionReverses ==
    ASSUME NEW t, Good(t), NEW c, CommandOK(c), Fits(Sections(t), Lectures(t), c),
           c.kind = "RENAME_SECTION"
    PROVE  Reverses(t, c)
<1> DEFINE m == Membership(t)
           i == [kind |-> "RENAME_SECTION", section |-> c.section,
                 title |-> t.sections[c.section].title]
           S == Put(m.sections, c.section, c.title)
           landed == [sections |-> S, lectures |-> m.lectures]
<1>1. Handled(t, c).inverse = i
  BY DEF Handled, RenameSection
<1>2. c.section \in SectionIds /\ c.section \in Sections(t)
  BY DEF CommandOK, Fits
<1>3. t.sections[c.section].title \in Titles
  <2>1. t.sections[c.section] \in SectionRow
    BY <1>2, GoodTables DEF Table
  <2> QED BY <2>1 DEF SectionRow
<1>4. Effect(m, c) = landed
  BY DEF Effect
<1>5. Mirrors(m, t)
  BY MembershipMirrors
<1> HIDE DEF m
<1>6. Put(S, c.section, t.sections[c.section].title) = m.sections /\ c.section \in DOMAIN S
  <2>1. c.section \in DOMAIN S
    BY DEF Put
  <2>2. c.section \in DOMAIN m.sections /\ IsFcn(m.sections)
    BY <1>2, <1>5 DEF Mirrors
  <2>3. Put(S, c.section, m.sections[c.section]) = m.sections
    BY <2>2, PutAndBack
  <2> QED BY <1>2, <1>5, <2>1, <2>3 DEF Mirrors
<1> HIDE DEF S
<1>7. Effect(landed, i) = m
  BY <1>5, <1>6 DEF Effect, Mirrors
<1>8. CommandOK(i) /\ Fits(DOMAIN S, DOMAIN m.lectures, i)
  BY <1>2, <1>3, <1>6 DEF CommandOK, Fits
<1>9. Returning(i).sections = {} /\ Returning(i).lectures = {}
  BY DEF Returning
<1> HIDE DEF i
<1> QED BY <1>1, <1>4, <1>7, <1>8, <1>9 DEF Reverses, m

\* a removed section returns with its row and its lectures;
LEMMA RemoveSectionReverses ==
    ASSUME NEW t, Good(t), NEW c, CommandOK(c), Fits(Sections(t), Lectures(t), c),
           c.kind = "REMOVE_SECTION"
    PROVE  Reverses(t, c)
<1> DEFINE m == Membership(t)
           gone == LecturesOf(t, c.section)
           rows == Restrict(t.lectures, gone)
           i == [kind |-> "RESTORE_SECTION", section |-> c.section,
                 row |-> t.sections[c.section], lectures |-> rows]
           S == Restrict(m.sections, DOMAIN m.sections \ {c.section})
           L == Restrict(m.lectures, {l \in DOMAIN m.lectures : m.lectures[l][1] # c.section})
           landed == [sections |-> S, lectures |-> L]
<1>1. Handled(t, c).inverse = i
  BY DEF Handled, RemoveSection
<1>2. c.section \in SectionIds /\ c.section \in Sections(t)
  BY DEF CommandOK, Fits
<1>3. /\ Table(t.sections, SectionIds, SectionRow)
      /\ Table(t.lectures, LectureIds, LectureRow) /\ ApartLectures(t.lectures)
      /\ Sections(t) = DOMAIN t.sections /\ Lectures(t) = DOMAIN t.lectures
  BY GoodTables
<1>4. t.sections[c.section] \in SectionRow
  BY <1>2, <1>3 DEF Table
<1>5. /\ gone \subseteq DOMAIN t.lectures
      /\ \A l \in gone : t.lectures[l].section = c.section
      /\ \A l \in Lectures(t) : l \in gone \/ t.lectures[l].section # c.section
  BY <1>3 DEF LecturesOf
<1>6. Effect(m, c) = landed
  BY DEF Effect
<1>7. Mirrors(m, t)
  BY MembershipMirrors
<1> HIDE DEF m, gone
<1>8. /\ Table(rows, LectureIds, LectureRow) /\ DOMAIN rows = gone
      /\ \A l \in gone : rows[l] = t.lectures[l]
  BY <1>3, <1>5, RestrictTable
<1> HIDE DEF rows
<1>9. DOMAIN S = Sections(t) \ {c.section} /\ DOMAIN L = Lectures(t) \ gone
  <2>1. {l \in DOMAIN m.lectures : m.lectures[l][1] # c.section} = Lectures(t) \ gone
    BY <1>5, <1>7 DEF Mirrors
  <2> QED BY <1>7, <2>1 DEF Mirrors, Restrict
<1>10. Put(S, c.section, t.sections[c.section].title) = m.sections
  <2>1. Put(S, c.section, m.sections[c.section]) = m.sections
    BY <1>2, <1>7, PutAndBack DEF Mirrors
  <2> QED BY <1>2, <1>7, <2>1 DEF Mirrors
<1>11. [l \in DOMAIN L \cup DOMAIN rows |->
           IF l \in DOMAIN rows THEN <<rows[l].section, rows[l].content>> ELSE L[l]]
         = m.lectures
  <2>1. DOMAIN L \cup DOMAIN rows = DOMAIN m.lectures
    BY <1>3, <1>5, <1>7, <1>8, <1>9 DEF Mirrors
  <2>2. \A l \in DOMAIN m.lectures :
           m.lectures[l] = IF l \in DOMAIN rows THEN <<rows[l].section, rows[l].content>> ELSE L[l]
    <3> TAKE l \in DOMAIN m.lectures
    <3>1. CASE l \in gone
      BY <1>7, <1>8, <3>1 DEF Mirrors
    <3>2. CASE l \notin gone
      <4>1. l \in Lectures(t) /\ m.lectures[l][1] # c.section
        BY <1>5, <1>7, <3>2 DEF Mirrors
      <4>2. L[l] = m.lectures[l]
        BY <4>1 DEF Restrict
      <4> QED BY <1>8, <3>2, <4>2
    <3> QED BY <3>1, <3>2
  <2> HIDE DEF L
  <2> QED BY <1>7, <2>1, <2>2 DEF Mirrors, IsFcn
<1> HIDE DEF S, L
<1>12. Effect(landed, i) = m
  <2>1. Effect(landed, i) = [sections |-> Put(S, c.section, t.sections[c.section].title),
                            lectures |-> [l \in DOMAIN L \cup DOMAIN rows |->
                               IF l \in DOMAIN rows THEN <<rows[l].section, rows[l].content>>
                               ELSE L[l]]]
    BY DEF Effect
  <2> QED BY <1>7, <1>10, <1>11, <2>1 DEF Mirrors
<1>13. CommandOK(i)
  <2>1. \A l \in DOMAIN rows : rows[l].section = c.section
    BY <1>5, <1>8
  <2>2. \A l, k \in DOMAIN rows : l # k => rows[l].position # rows[k].position
    BY <1>3, <1>5, <1>8 DEF ApartLectures
  <2> QED BY <1>2, <1>4, <1>8, <2>1, <2>2 DEF CommandOK
<1>14. Fits(DOMAIN S, DOMAIN L, i)
  BY <1>8, <1>9 DEF Fits
<1>15. Returning(i).sections = {c.section} /\ Returning(i).lectures = DOMAIN rows
  BY DEF Returning
<1>16. {c.section} \subseteq Sections(t) /\ DOMAIN rows \subseteq Lectures(t)
  BY <1>2, <1>3, <1>5, <1>8
<1> HIDE DEF i
<1> QED BY <1>1, <1>6, <1>12, <1>13, <1>14, <1>15, <1>16 DEF Reverses, m

\* sections return to the order they had;
LEMMA ReorderSectionsReverses ==
    ASSUME NEW t, Good(t), NEW c, CommandOK(c), Fits(Sections(t), Lectures(t), c),
           c.kind = "REORDER_SECTIONS"
    PROVE  Reverses(t, c)
<1> DEFINE m == Membership(t)
           order == SectionOrder(t)
           i == [kind |-> "REORDER_SECTIONS", order |-> order]
           n == Cardinality(Sections(t))
<1>1. Handled(t, c).inverse = i
  BY DEF Handled, ReorderSections
<1>2. Effect(m, c) = m /\ Effect(m, i) = m
  BY DEF Effect
<1>3. ListOf(order, Sections(t))
  <2>1. /\ Table(t.sections, SectionIds, SectionRow) /\ ApartSections(t.sections)
        /\ Sections(t) = DOMAIN t.sections
    BY GoodTables
  <2>2. PlacedApart(t.sections, Sections(t))
    BY <2>1 DEF Table, SectionRow, ApartSections, PlacedApart
  <2>3. order = Ordered(t.sections, Sections(t))
    BY DEF SectionOrder
  <2> HIDE DEF order
  <2> QED BY <2>2, <2>3, OrderedListsAll DEF ListOf
<1>4. Mirrors(m, t)
  BY MembershipMirrors
<1> HIDE DEF m, order
<1>5. n \in Nat /\ DOMAIN order = 1..n /\ Len(order) = n /\ ToSet(order) = Sections(t)
  BY <1>3 DEF ListOf, ToSet
<1>6. CommandOK(i) /\ Fits(DOMAIN m.sections, DOMAIN m.lectures, i)
  BY <1>4, <1>5 DEF CommandOK, Fits, Mirrors
<1>7. Returning(i).sections = {} /\ Returning(i).lectures = {}
  BY DEF Returning
<1> HIDE DEF i
<1> QED BY <1>1, <1>2, <1>6, <1>7 DEF Reverses, m

\* a new lecture is removed again;
LEMMA AddLectureReverses ==
    ASSUME NEW t, Good(t), NEW c, CommandOK(c), Fits(Sections(t), Lectures(t), c),
           c.kind = "ADD_LECTURE"
    PROVE  Reverses(t, c)
<1> DEFINE m == Membership(t)
           i == [kind |-> "REMOVE_LECTURE", lecture |-> c.lecture]
           L == Put(m.lectures, c.lecture, <<c.section, c.content>>)
           landed == [sections |-> m.sections, lectures |-> L]
<1>1. Handled(t, c).inverse = i
  BY DEF Handled, AddLecture
<1>2. c.lecture \in LectureIds /\ c.lecture \notin Lectures(t)
  BY DEF CommandOK, Fits
<1>3. Effect(m, c) = landed
  BY DEF Effect
<1>4. Mirrors(m, t)
  BY MembershipMirrors
<1> HIDE DEF m
<1>5. Restrict(L, DOMAIN L \ {c.lecture}) = m.lectures /\ c.lecture \in DOMAIN L
  <2>1. c.lecture \in DOMAIN L
    BY DEF Put
  <2>2. c.lecture \notin DOMAIN m.lectures /\ IsFcn(m.lectures)
    BY <1>2, <1>4 DEF Mirrors
  <2> QED BY <2>1, <2>2, PutAndBack
<1> HIDE DEF L
<1>6. Effect(landed, i) = m
  BY <1>4, <1>5 DEF Effect, Mirrors
<1>7. CommandOK(i) /\ Fits(DOMAIN m.sections, DOMAIN L, i)
  BY <1>2, <1>5 DEF CommandOK, Fits
<1>8. Returning(i).sections = {} /\ Returning(i).lectures = {}
  BY DEF Returning
<1> HIDE DEF i
<1> QED BY <1>1, <1>3, <1>6, <1>7, <1>8 DEF Reverses, m

\* a lecture gets its old content back;
LEMMA UpdateLectureReverses ==
    ASSUME NEW t, Good(t), NEW c, CommandOK(c), Fits(Sections(t), Lectures(t), c),
           c.kind = "UPDATE_LECTURE"
    PROVE  Reverses(t, c)
<1> DEFINE m == Membership(t)
           old == t.lectures[c.lecture]
           i == [kind |-> "UPDATE_LECTURE", lecture |-> c.lecture, content |-> old.content]
           L == Put(m.lectures, c.lecture, <<m.lectures[c.lecture][1], c.content>>)
           landed == [sections |-> m.sections, lectures |-> L]
<1>1. Handled(t, c).inverse = i
  BY DEF Handled, UpdateLecture
<1>2. c.lecture \in LectureIds /\ c.lecture \in Lectures(t)
  BY DEF CommandOK, Fits
<1>3. old.content \in Content
  <2>1. old \in LectureRow
    BY <1>2, GoodTables DEF Table
  <2> QED BY <2>1 DEF LectureRow
<1>4. Effect(m, c) = landed
  BY DEF Effect
<1>5. Mirrors(m, t)
  BY MembershipMirrors
<1> HIDE DEF m
<1>6. c.lecture \in DOMAIN L /\ L[c.lecture][1] = m.lectures[c.lecture][1]
  BY DEF Put
<1>7. Put(L, c.lecture, <<L[c.lecture][1], old.content>>) = m.lectures
  <2>1. c.lecture \in DOMAIN m.lectures /\ IsFcn(m.lectures)
    BY <1>2, <1>5 DEF Mirrors
  <2>2. Put(L, c.lecture, m.lectures[c.lecture]) = m.lectures
    BY <2>1, PutAndBack
  <2>3. m.lectures[c.lecture] = <<L[c.lecture][1], old.content>>
    BY <1>2, <1>5, <1>6 DEF Mirrors
  <2> QED BY <2>2, <2>3
<1> HIDE DEF L
<1>8. Effect(landed, i) = m
  BY <1>5, <1>7 DEF Effect, Mirrors
<1>9. CommandOK(i) /\ Fits(DOMAIN m.sections, DOMAIN L, i)
  BY <1>2, <1>3, <1>6 DEF CommandOK, Fits
<1>10. Returning(i).sections = {} /\ Returning(i).lectures = {}
  BY DEF Returning
<1> HIDE DEF i
<1> QED BY <1>1, <1>4, <1>8, <1>9, <1>10 DEF Reverses, m

\* a removed lecture returns to its section;
LEMMA RemoveLectureReverses ==
    ASSUME NEW t, Good(t), NEW c, CommandOK(c), Fits(Sections(t), Lectures(t), c),
           c.kind = "REMOVE_LECTURE"
    PROVE  Reverses(t, c)
<1> DEFINE m == Membership(t)
           old == t.lectures[c.lecture]
           i == [kind |-> "RESTORE_LECTURE", lecture |-> c.lecture, row |-> old]
           L == Restrict(m.lectures, DOMAIN m.lectures \ {c.lecture})
           landed == [sections |-> m.sections, lectures |-> L]
<1>1. Handled(t, c).inverse = i
  BY DEF Handled, RemoveLecture
<1>2. c.lecture \in LectureIds /\ c.lecture \in Lectures(t)
  BY DEF CommandOK, Fits
<1>3. old \in LectureRow /\ old.section \in Sections(t)
  BY <1>2, GoodTables DEF Table
<1>4. Effect(m, c) = landed
  BY DEF Effect
<1>5. Mirrors(m, t)
  BY MembershipMirrors
<1> HIDE DEF m
<1>6. c.lecture \notin DOMAIN L
  BY DEF Restrict
<1>7. Put(L, c.lecture, <<old.section, old.content>>) = m.lectures
  <2>1. c.lecture \in DOMAIN m.lectures /\ IsFcn(m.lectures)
    BY <1>2, <1>5 DEF Mirrors
  <2>2. Put(L, c.lecture, m.lectures[c.lecture]) = m.lectures
    BY <2>1, PutAndBack
  <2>3. m.lectures[c.lecture] = <<old.section, old.content>>
    BY <1>2, <1>5 DEF Mirrors
  <2> QED BY <2>2, <2>3
<1> HIDE DEF L
<1>8. Effect(landed, i) = m
  BY <1>5, <1>7 DEF Effect, Mirrors
<1>9. CommandOK(i) /\ Fits(DOMAIN m.sections, DOMAIN L, i)
  BY <1>2, <1>3, <1>5, <1>6 DEF CommandOK, Fits, Mirrors
<1>10. Returning(i).sections = {} /\ Returning(i).lectures = {c.lecture}
  BY DEF Returning
<1> HIDE DEF i
<1> QED BY <1>1, <1>2, <1>4, <1>8, <1>9, <1>10 DEF Reverses, m

\* a dragged lecture returns to the list it was in.
LEMMA MoveLectureReverses ==
    ASSUME NEW t, Good(t), NEW c, CommandOK(c), Fits(Sections(t), Lectures(t), c),
           c.kind = "MOVE_LECTURE"
    PROVE  Reverses(t, c)
<1> DEFINE m == Membership(t)
           from == t.lectures[c.lecture].section
           list == LectureOrder(t, from)
           place == IndexIn(list, c.lecture)
           i == [kind |-> "MOVE_LECTURE", lecture |-> c.lecture, to |-> from,
                 index |-> place - 1]
           L == Put(m.lectures, c.lecture, <<c.to, m.lectures[c.lecture][2]>>)
           landed == [sections |-> m.sections, lectures |-> L]
<1>1. Handled(t, c).inverse = i
  BY DEF Handled, MoveLecture
<1>2. c.lecture \in LectureIds /\ c.lecture \in Lectures(t)
  BY DEF CommandOK, Fits
<1>3. /\ Table(t.sections, SectionIds, SectionRow)
      /\ Table(t.lectures, LectureIds, LectureRow) /\ ApartLectures(t.lectures)
      /\ Sections(t) = DOMAIN t.sections /\ Lectures(t) = DOMAIN t.lectures
      /\ from \in Sections(t)
  BY <1>2, GoodTables
<1>4. from \in SectionIds
  BY <1>3 DEF Table
<1>5. place - 1 \in Nat
  <2> DEFINE R == LecturesOf(t, from)
             n == Cardinality(R)
  <2>1. R \subseteq DOMAIN t.lectures /\ c.lecture \in R /\ \A x \in R : t.lectures[x].section = from
    BY <1>2, <1>3 DEF LecturesOf
  <2>2. PlacedApart(t.lectures, R)
    <3>1. IsFiniteSet(R)
      BY <1>3, <2>1, FS_Subset DEF Table
    <3>2. \A x \in R : t.lectures[x] \in LectureRow
      BY <1>3, <2>1 DEF Table
    <3> QED BY <1>3, <2>1, <3>1, <3>2 DEF LectureRow, ApartLectures, PlacedApart
  <2>3. list = Ordered(t.lectures, R)
    BY DEF LectureOrder
  <2> HIDE DEF R, list
  <2>4. n \in Nat /\ list \in [1..n -> R] /\ \E j \in 1..n : list[j] = c.lecture
    BY <2>1, <2>2, <2>3, OrderedListsAll
  <2>5. c.lecture \in ToSet(list)
    BY <2>4 DEF ToSet
  <2>6. place \in 1..n
    BY <2>4, <2>5, IndexInList
  <2> HIDE DEF place
  <2> QED BY <2>4, <2>6
<1>6. Effect(m, c) = landed
  BY DEF Effect
<1>7. Mirrors(m, t)
  BY MembershipMirrors
<1> HIDE DEF m, place
<1>8. c.lecture \in DOMAIN L /\ L[c.lecture][2] = m.lectures[c.lecture][2]
  BY DEF Put
<1>9. Put(L, c.lecture, <<from, L[c.lecture][2]>>) = m.lectures
  <2>1. c.lecture \in DOMAIN m.lectures /\ IsFcn(m.lectures)
    BY <1>2, <1>7 DEF Mirrors
  <2>2. Put(L, c.lecture, m.lectures[c.lecture]) = m.lectures
    BY <2>1, PutAndBack
  <2>3. m.lectures[c.lecture] = <<from, L[c.lecture][2]>>
    BY <1>2, <1>7, <1>8 DEF Mirrors
  <2> QED BY <2>2, <2>3
<1> HIDE DEF L
<1>10. Effect(landed, i) = m
  BY <1>7, <1>9 DEF Effect, Mirrors
<1>11. CommandOK(i) /\ Fits(DOMAIN m.sections, DOMAIN L, i)
  BY <1>2, <1>3, <1>4, <1>5, <1>7, <1>8 DEF CommandOK, Fits, Mirrors
<1>12. Returning(i).sections = {} /\ Returning(i).lectures = {}
  BY DEF Returning
<1> HIDE DEF i
<1> QED BY <1>1, <1>6, <1>10, <1>11, <1>12 DEF Reverses, m

-----------------------------------------------------------------------------
(* What a client sends, and what the server replays.                       *)

\* A client's command makes sense of the tree it is applied to.
LEMMA CommandsFit ==
    ASSUME Good(tree), Sections(tree) \cup Lectures(tree) \subseteq used,
           NEW c \in Commands(tree)
    PROVE  /\ CommandOK(c) /\ Fits(Sections(tree), Lectures(tree), c)
           /\ Returning(c).sections \cup Returning(c).lectures = NewIds(c)
           /\ c.kind \in {"ADD_SECTION", "RENAME_SECTION", "REMOVE_SECTION", "REORDER_SECTIONS",
                          "ADD_LECTURE", "UPDATE_LECTURE", "REMOVE_LECTURE", "MOVE_LECTURE"}
<1>1. Sections(tree) \subseteq SectionIds /\ Lectures(tree) \subseteq LectureIds
      /\ IsFiniteSet(Sections(tree)) /\ IsFiniteSet(Lectures(tree))
  BY GoodTables DEF Table
<1>2. CASE c \in [kind : {"ADD_SECTION"}, section : SectionIds \ used, title : Titles]
  <2>1. c.kind = "ADD_SECTION" /\ c.section \in SectionIds \ used /\ c.title \in Titles
    BY <1>2
  <2> QED BY <2>1 DEF CommandOK, Fits, Returning, NewIds
<1>3. CASE c \in [kind : {"RENAME_SECTION"}, section : Sections(tree), title : Titles]
  <2>1. c.kind = "RENAME_SECTION" /\ c.section \in Sections(tree) /\ c.title \in Titles
    BY <1>3
  <2> QED BY <1>1, <2>1 DEF CommandOK, Fits, Returning, NewIds
<1>4. CASE c \in [kind : {"REMOVE_SECTION"}, section : Sections(tree)]
  <2>1. c.kind = "REMOVE_SECTION" /\ c.section \in Sections(tree)
    BY <1>4
  <2> QED BY <1>1, <2>1 DEF CommandOK, Fits, Returning, NewIds
<1>5. CASE c \in [kind : {"REORDER_SECTIONS"}, order : SetToSeqs(Sections(tree)) \ {<<>>}]
  <2> DEFINE n == Cardinality(Sections(tree))
             f == c.order
  <2>1. c.kind = "REORDER_SECTIONS" /\ f \in SetToSeqs(Sections(tree))
    BY <1>5
  <2>2. n \in Nat
    BY <1>1, FS_CardinalityType
  <2>3. f \in [1..n -> Sections(tree)] /\ \A i, j \in 1..n : i # j => f[i] # f[j]
    BY <2>1 DEF SetToSeqs
  <2>4. f \in Injection(1..n, Sections(tree))
    BY <2>3 DEF Injection, IsInjective
  <2>5. IsFiniteSet(1..n) /\ Cardinality(1..n) = n
    BY <2>2, FS_Interval
  <2>6. f \in Surjection(1..n, Sections(tree))
    BY <1>1, <2>4, <2>5, FS_Injection
  <2>7. ToSet(f) = Sections(tree) /\ DOMAIN f = 1..n
    <3> HIDE DEF f, n
    <3>1. DOMAIN f = 1..n /\ \A i \in 1..n : f[i] \in Sections(tree)
      BY <2>3
    <3>2. \A x \in Sections(tree) : \E i \in 1..n : f[i] = x
      BY <2>6 DEF Surjection
    <3>3. ToSet(f) = {f[i] : i \in 1..n}
      BY <3>1 DEF ToSet
    <3> QED BY <3>1, <3>2, <3>3
  <2>8. Len(f) = n
    BY <2>2, <2>3
  <2> QED BY <2>1, <2>7, <2>8 DEF CommandOK, Fits, Returning, NewIds
<1>6. CASE c \in [kind : {"ADD_LECTURE"}, lecture : LectureIds \ used, section : Sections(tree),
                  content : Content]
  <2>1. c.kind = "ADD_LECTURE" /\ c.lecture \in LectureIds \ used /\ c.section \in Sections(tree)
        /\ c.content \in Content
    BY <1>6
  <2> QED BY <1>1, <2>1 DEF CommandOK, Fits, Returning, NewIds
<1>7. CASE c \in [kind : {"UPDATE_LECTURE"}, lecture : Lectures(tree), content : Content]
  <2>1. c.kind = "UPDATE_LECTURE" /\ c.lecture \in Lectures(tree) /\ c.content \in Content
    BY <1>7
  <2> QED BY <1>1, <2>1 DEF CommandOK, Fits, Returning, NewIds
<1>8. CASE c \in [kind : {"REMOVE_LECTURE"}, lecture : Lectures(tree)]
  <2>1. c.kind = "REMOVE_LECTURE" /\ c.lecture \in Lectures(tree)
    BY <1>8
  <2> QED BY <1>1, <2>1 DEF CommandOK, Fits, Returning, NewIds
<1>9. CASE c \in [kind : {"MOVE_LECTURE"}, lecture : Lectures(tree), to : Sections(tree),
                  index : 0..Cardinality(Lectures(tree))]
  <2>1. Cardinality(Lectures(tree)) \in Nat
    BY <1>1, FS_CardinalityType
  <2>2. c.kind = "MOVE_LECTURE" /\ c.lecture \in Lectures(tree) /\ c.to \in Sections(tree)
        /\ c.index \in Nat
    BY <1>9, <2>1
  <2> QED BY <1>1, <2>2 DEF CommandOK, Fits, Returning, NewIds
<1> QED BY <1>2, <1>3, <1>4, <1>5, <1>6, <1>7, <1>8, <1>9 DEF Commands

\* What the log keeps of it leads back.
LEMMA CommandsReverse ==
    ASSUME Good(tree), Sections(tree) \cup Lectures(tree) \subseteq used,
           NEW c \in Commands(tree)
    PROVE  Reverses(tree, c)
  BY CommandsFit, AddSectionReverses, RenameSectionReverses, RemoveSectionReverses,
     ReorderSectionsReverses, AddLectureReverses, UpdateLectureReverses,
     RemoveLectureReverses, MoveLectureReverses

\* A command brings in no other ids than it says.
LEMMA EffectIds ==
    ASSUME NEW m, NEW c, CommandOK(c), Fits(DOMAIN m.sections, DOMAIN m.lectures, c)
    PROVE  /\ DOMAIN Effect(m, c).sections \subseteq DOMAIN m.sections \cup Returning(c).sections
           /\ DOMAIN Effect(m, c).lectures \subseteq DOMAIN m.lectures \cup Returning(c).lectures
<1> DEFINE S == DOMAIN m.sections
           L == DOMAIN m.lectures
<1>2. \A f, D : DOMAIN Restrict(f, D) = D
  BY DEF Restrict
<1>3. c.kind \in {"ADD_SECTION", "RENAME_SECTION", "REMOVE_SECTION", "RESTORE_SECTION",
                  "REORDER_SECTIONS", "ADD_LECTURE", "UPDATE_LECTURE", "REMOVE_LECTURE",
                  "RESTORE_LECTURE", "MOVE_LECTURE"}
  BY DEF CommandOK
<1>4. CASE c.kind \in {"ADD_SECTION", "RENAME_SECTION"}
  <2>1. Effect(m, c).sections = Put(m.sections, c.section, c.title)
        /\ Effect(m, c).lectures = m.lectures
    BY <1>4 DEF Effect
  <2>2. c.section \in S \cup Returning(c).sections
    BY <1>4 DEF Fits, Returning
  <2>3. DOMAIN Effect(m, c).sections = S \cup {c.section} /\ DOMAIN Effect(m, c).lectures = L
    BY <2>1 DEF Put
  <2> QED BY <2>2, <2>3
<1>5. CASE c.kind = "REMOVE_SECTION"
  <2>1. Effect(m, c).sections = Restrict(m.sections, S \ {c.section})
        /\ Effect(m, c).lectures
             = Restrict(m.lectures, {l \in L : m.lectures[l][1] # c.section})
    BY <1>5 DEF Effect
  <2>2. DOMAIN Effect(m, c).sections = S \ {c.section}
        /\ DOMAIN Effect(m, c).lectures = {l \in L : m.lectures[l][1] # c.section}
    BY <1>2, <2>1
  <2> QED BY <2>2
<1>6. CASE c.kind = "RESTORE_SECTION"
  <2>1. Effect(m, c).sections = Put(m.sections, c.section, c.row.title)
        /\ DOMAIN Effect(m, c).lectures = L \cup DOMAIN c.lectures
    BY <1>6 DEF Effect
  <2>2. Returning(c).sections = {c.section} /\ Returning(c).lectures = DOMAIN c.lectures
    BY <1>6 DEF Returning
  <2>3. DOMAIN Effect(m, c).sections = S \cup {c.section}
    BY <2>1 DEF Put
  <2> QED BY <2>1, <2>2, <2>3
<1>7. CASE c.kind = "REORDER_SECTIONS"
  BY <1>7 DEF Effect
<1>8. CASE c.kind \in {"ADD_LECTURE", "RESTORE_LECTURE", "UPDATE_LECTURE", "MOVE_LECTURE"}
  <2>1. Effect(m, c).sections = m.sections
        /\ \E v : Effect(m, c).lectures = Put(m.lectures, c.lecture, v)
    BY <1>8 DEF Effect
  <2>2. c.lecture \in L \cup Returning(c).lectures
    BY <1>8 DEF Fits, Returning
  <2>3. DOMAIN Effect(m, c).sections = S /\ DOMAIN Effect(m, c).lectures = L \cup {c.lecture}
    BY <2>1 DEF Put
  <2> QED BY <2>2, <2>3
<1>9. CASE c.kind = "REMOVE_LECTURE"
  <2>1. Effect(m, c).sections = m.sections
        /\ Effect(m, c).lectures = Restrict(m.lectures, L \ {c.lecture})
    BY <1>9 DEF Effect
  <2>2. DOMAIN Effect(m, c).lectures = L \ {c.lecture}
    BY <1>2, <2>1
  <2> QED BY <2>1, <2>2
<1> QED BY <1>3, <1>4, <1>5, <1>6, <1>7, <1>8, <1>9

\* The newest entry of the log.
LEMMA NewestIsTop ==
    ASSUME CourseOK, LogOK, log # {}
    PROVE  Top \in log /\ Newest(Top)
<1> DEFINE versions == {e.version : e \in log}
<1>1. versions \subseteq 0..course.version /\ course.version \in Nat
  BY DEF CourseOK, CourseRow, LogOK
<1>2. IsFiniteSet(versions)
  <2>1. IsFiniteSet(0..course.version)
    BY <1>1, FS_Interval
  <2> HIDE DEF versions
  <2> QED BY <1>1, <2>1, FS_Subset
<1>3. versions \subseteq Nat /\ versions # {}
  BY <1>1
<1>4. Max(versions) \in versions /\ \A v \in versions : v <= Max(versions)
  <2> HIDE DEF versions
  <2> QED BY <1>2, <1>3, MaxInSet
<1>5. PICK e \in log : e.version = Max(versions)
  BY <1>4
<1>6. \A f \in log : f.version <= e.version
  BY <1>4, <1>5
<1> QED BY <1>6 DEF Top, Newest

-----------------------------------------------------------------------------
(* The invariant.                                                          *)

\* The first list of a finite set lists all of it.
LEMMA FirstList ==
    ASSUME NEW S, IsFiniteSet(S)
    PROVE  /\ \A x \in S : IndexIn(SetToSeq(S), x) \in Nat
           /\ \A x, y \in S : x # y => IndexIn(SetToSeq(S), x) # IndexIn(SetToSeq(S), y)
           /\ S # {} => SetToSeq(S)[1] \in S
<1> DEFINE n == Cardinality(S)
           f == SetToSeq(S)
<1>1. n \in Nat /\ ExistsBijection(1..n, S)
  BY FS_CardinalityType
<1>2. \E g \in [1..n -> S] : IsInjective(g)
  BY <1>1 DEF ExistsBijection, Bijection, Injection
<1>3. f \in [1..n -> S] /\ IsInjective(f)
  BY <1>2 DEF SetToSeq
<1>4. f \in Injection(1..n, S) /\ IsFiniteSet(1..n) /\ Cardinality(1..n) = n
  BY <1>1, <1>3, FS_Interval DEF Injection
<1> HIDE DEF f
<1>5. f \in Surjection(1..n, S)
  BY <1>4, FS_Injection
<1>6. \A x \in S : x \in ToSet(f)
  BY <1>3, <1>5 DEF Surjection, ToSet
<1>7. \A x \in S : IndexIn(f, x) \in 1..n /\ f[IndexIn(f, x)] = x
  BY <1>3, <1>6, IndexInList
<1>8. S # {} => 1 \in 1..n
  BY <1>1, FS_EmptySet
<1> QED BY <1>1, <1>3, <1>7, <1>8 DEF f

\* The course as it starts.
LEMMA CatalogStarts == Init => CatalogInv
<1> SUFFICES ASSUME Init PROVE CatalogInv
  OBVIOUS
<1> DEFINE A == [s \in FirstSections |->
                    [title |-> SomeTitle, position |-> IndexIn(SetToSeq(FirstSections), s)]]
           B == [l \in FirstLectures |->
                    [section |-> SetToSeq(FirstSections)[1], content |-> "preview",
                     position |-> IndexIn(SetToSeq(FirstLectures), l)]]
<1>1. /\ tree = [sections |-> A, lectures |-> B]
      /\ used = FirstSections \cup FirstLectures
      /\ course = NewCourse(Cardinality(FirstLectures))
      /\ log = {} /\ req = [r \in Requests |-> Idle]
  BY DEF Init
<1>2. /\ FirstSections \subseteq SectionIds /\ FirstSections # {} /\ IsFiniteSet(FirstSections)
      /\ FirstLectures \subseteq LectureIds /\ IsFiniteSet(FirstLectures)
      /\ SomeTitle \in Titles /\ "preview" \in Content
  BY CatalogAssumption DEF SomeTitle
<1>3. Table(A, SectionIds, SectionRow) /\ ApartSections(A)
  BY <1>2, FirstList DEF Table, SectionRow, ApartSections
<1>4. Table(B, LectureIds, LectureRow) /\ ApartLectures(B)
      /\ \A l \in DOMAIN B : B[l].section \in DOMAIN A
  <2>1. SetToSeq(FirstSections)[1] \in FirstSections
    BY <1>2, FirstList
  <2>2. /\ \A l \in FirstLectures : IndexIn(SetToSeq(FirstLectures), l) \in Nat
        /\ \A l, k \in FirstLectures : l # k => IndexIn(SetToSeq(FirstLectures), l)
                                                  # IndexIn(SetToSeq(FirstLectures), k)
    BY <1>2, FirstList
  <2> QED BY <1>2, <2>1, <2>2 DEF Table, LectureRow, ApartLectures
<1>5. DOMAIN A = FirstSections /\ DOMAIN B = FirstLectures
  OBVIOUS
<1> HIDE DEF A, B
<1>6. Good(tree) /\ Sections(tree) = FirstSections /\ Lectures(tree) = FirstLectures
  BY <1>1, <1>3, <1>4, <1>5, TreeByTables
<1>7. CourseOK /\ course.count = Cardinality(Lectures(tree))
  BY <1>1, <1>2, <1>6, FS_CardinalityType DEF CourseOK, CourseRow, NewCourse, Statuses
<1>8. RequestsOK
  BY <1>1 DEF RequestsOK, RequestOK, Idle
<1>9. LogOK /\ Chain
  BY <1>1 DEF LogOK, Chain
<1> QED BY <1>1, <1>6, <1>7, <1>8, <1>9 DEF CatalogInv

\* What a request has read goes on being so while the course moves on.
LEMMA RequestAges ==
    ASSUME NEW c \in CourseRow, NEW d \in CourseRow, d = c \/ d.version > c.version,
           NEW q, RequestOK(q, c)
    PROVE  RequestOK(q, d)
<1>1. c.version \in Nat /\ d.version \in Nat
  BY DEF CourseRow
<1>2. CASE d = c
  BY <1>2
<1>3. CASE d.version > c.version
  <2>1. \A v \in Nat : v <= c.version => v <= d.version /\ v # d.version
    BY <1>1, <1>3
  <2> QED BY <2>1, Zenon DEF RequestOK
<1> QED BY <1>2, <1>3

\* One request moves.
LEMMA RequestMoves ==
    ASSUME RequestsOK, CourseOK, CourseOK',
           course' = course \/ course'.version > course.version,
           NEW r \in Requests, NEW q, req' = [req EXCEPT ![r] = q], RequestOK(q, course')
    PROVE  RequestsOK'
<1>1. \A p \in Requests : RequestOK(req[p], course')
  BY RequestAges DEF RequestsOK, CourseOK
<1> QED BY <1>1 DEF RequestsOK

\* Nothing but a request moves.
LEMMA QuietStep ==
    ASSUME CatalogInv, UNCHANGED <<course, tree, log, used>>, RequestsOK'
    PROVE  CatalogInv'
  BY DEF CatalogInv, CourseOK, Good, TreeOK, OneEach, Sections, Lectures, LogOK, Chain, Follows,
         Newest, Linked, Membership

\* A request ends.
LEMMA FailsStep ==
    ASSUME CatalogInv, NEW r \in Requests, Fails(r)
    PROVE  CatalogInv'
<1>1. req' = [req EXCEPT ![r] = Idle] /\ UNCHANGED <<course, tree, log, used>>
  BY DEF Fails
<1>2. RequestOK(Idle, course') /\ CourseOK'
  BY <1>1 DEF RequestOK, Idle, CatalogInv, CourseOK
<1>3. RequestsOK'
  BY <1>1, <1>2, RequestMoves DEF CatalogInv
<1> QED BY <1>1, <1>3, QuietStep

\* A request reads.
LEMMA ReadStep ==
    ASSUME CatalogInv, NEW r \in Requests,
           BeginEdit(r) \/ BeginUndo(r) \/ BeginDuplicate(r) \/ CommitDuplicate(r)
             \/ \E to \in Statuses, admin \in BOOLEAN : BeginTransition(r, to, admin)
    PROVE  CatalogInv'
<1>1. course \in CourseRow /\ course.version \in Nat
  BY DEF CatalogInv, CourseOK, CourseRow
<1>2. ASSUME NEW q, req' = [req EXCEPT ![r] = q], UNCHANGED <<course, tree, log, used>>,
             RequestOK(q, course)
      PROVE  CatalogInv'
  <2>1. RequestsOK'
    BY <1>1, <1>2, RequestMoves DEF CatalogInv, CourseOK
  <2> QED BY <1>2, <2>1, QuietStep
<1>3. CASE BeginEdit(r)
  <2>1. PICK expected \in 0..MaxVersion - 1 :
            Reads(r, "edit", [expected |-> expected, ahead |-> expected > course.version])
    BY <1>3 DEF BeginEdit
  <2> DEFINE row == [expected |-> expected, ahead |-> expected > course.version]
             q == [pc |-> "edit", row |-> row]
  <2>2. course.status # "ARCHIVED" /\ expected \in Nat
    BY <1>3, CatalogAssumption DEF BeginEdit
  <2>3. row.expected = expected /\ row.ahead = (expected > course.version)
    OBVIOUS
  <2>4. row.ahead # TRUE => row.expected <= course.version
    <3>1. CASE expected > course.version
      BY <2>3, <3>1, Zenon
    <3>2. CASE ~(expected > course.version)
      BY <1>1, <2>2, <2>3, <3>2
    <3> QED BY <3>1, <3>2
  <2> HIDE DEF row
  <2>5. RequestOK(q, course)
    BY <2>2, <2>3, <2>4 DEF RequestOK
  <2>6. req' = [req EXCEPT ![r] = q] /\ UNCHANGED <<course, tree, log, used>>
    BY <2>1 DEF Reads, row
  <2> HIDE DEF q
  <2> QED BY <1>2, <2>5, <2>6
<1>4. CASE BeginUndo(r)
  <2> DEFINE q == [pc |-> "undo", row |-> <<>>]
  <2>1. RequestOK(q, course)
    BY DEF RequestOK
  <2> QED BY <1>2, <1>4, <2>1 DEF BeginUndo, Reads
<1>5. CASE BeginDuplicate(r)
  <2> DEFINE q == [pc |-> "duplicate", row |-> [count |-> course.count, version |-> course.version]]
  <2>1. RequestOK(q, course)
    BY <1>1 DEF RequestOK
  <2> QED BY <1>2, <1>5, <2>1 DEF BeginDuplicate, Reads
<1>6. CASE CommitDuplicate(r)
  <2> DEFINE row == [count |-> req[r].row.count, lectures |-> Cardinality(Lectures(tree)),
                     torn |-> req[r].row.version # course.version]
             q == [pc |-> "copied", row |-> row]
  <2>1. req[r].pc = "duplicate" /\ RequestOK(req[r], course)
        /\ course.count = Cardinality(Lectures(tree))
    BY <1>6 DEF CommitDuplicate, CatalogInv, RequestsOK
  <2>2. req[r].row.version = course.version => req[r].row.count = Cardinality(Lectures(tree))
    BY <2>1 DEF RequestOK
  <2>3. RequestOK(q, course)
    BY <2>2 DEF RequestOK
  <2> QED BY <1>2, <1>6, <2>3 DEF CommitDuplicate
<1>7. CASE \E to \in Statuses, admin \in BOOLEAN : BeginTransition(r, to, admin)
  <2>1. PICK to \in Statuses, admin \in BOOLEAN : BeginTransition(r, to, admin)
    BY <1>7
  <2> DEFINE pc == IF Gated(course.status, to) THEN "gate" ELSE "move"
             q == [pc |-> pc, to |-> to,
                   row |-> [status |-> course.status, ready |-> RowReady]]
  <2>2. course.status # "ARCHIVED"
    BY <2>1 DEF BeginTransition, Edges
  <2>3. pc \in {"gate", "move"}
    OBVIOUS
  <2>4. req' = [req EXCEPT ![r] = q] /\ UNCHANGED <<course, tree, log, used>>
    BY <2>1 DEF BeginTransition
  <2> HIDE DEF pc
  <2>5. RequestOK(q, course)
    BY <2>2, <2>3 DEF RequestOK
  <2> HIDE DEF q
  <2> QED BY <1>2, <2>4, <2>5
<1> QED BY <1>3, <1>4, <1>5, <1>6, <1>7

\* The gate lets a course through, or not.
LEMMA ReadGateStep ==
    ASSUME CatalogInv, NEW r \in Requests, ReadGate(r)
    PROVE  CatalogInv'
<1>1. CASE Fails(r)
  BY <1>1, FailsStep
<1>2. CASE req' = [req EXCEPT ![r].pc = "move"] /\ UNCHANGED <<course, tree, log, used>>
  <2> DEFINE q == [pc |-> "move", to |-> req[r].to, row |-> req[r].row]
  <2>1. /\ req[r].pc = "gate" /\ req[r] = [pc |-> req[r].pc, to |-> req[r].to, row |-> req[r].row]
        /\ req[r].row.status # "ARCHIVED" /\ req[r].to \in Statuses
    BY DEF ReadGate, CatalogInv, RequestsOK, RequestOK
  <2>2. [req[r] EXCEPT !.pc = "move"] = q
    BY <2>1
  <2>3. req' = [req EXCEPT ![r] = q]
    BY <1>2, <2>2
  <2>4. RequestOK(q, course)
    BY <2>1 DEF RequestOK
  <2> HIDE DEF q
  <2>5. RequestsOK'
    BY <1>2, <2>3, <2>4, RequestMoves DEF CatalogInv, CourseOK
  <2> QED BY <1>2, <2>5, QuietStep
<1> QED BY <1>1, <1>2 DEF ReadGate

\* What every write does to the row.
LEMMA BumpedRow ==
    ASSUME NEW c \in CourseRow
    PROVE  /\ Bumped(c) \in CourseRow /\ Bumped(c).version = c.version + 1
           /\ Bumped(c).status = c.status /\ Bumped(c).priced = c.priced
           /\ Bumped(c).detailed = c.detailed /\ Bumped(c).count = c.count
  BY DEF Bumped, CourseRow

\* A write to the course row alone.
LEMMA RowStep ==
    ASSUME CatalogInv, NEW r \in Requests,
           CommitDetails(r) \/ CommitPricing(r) \/ CommitTransition(r)
    PROVE  CatalogInv'
<1>1. course \in CourseRow /\ course.version \in Nat
  BY DEF CatalogInv, CourseOK, CourseRow
<1>2. UNCHANGED <<tree, log, used>> /\ req' = [req EXCEPT ![r] = Idle]
  BY DEF CommitDetails, CommitPricing, CommitTransition
<1>3. course' \in CourseRow /\ course'.version = course.version + 1 /\ course'.count = course.count
  <2>1. CASE CommitDetails(r)
    <3>1. PICK detailed \in BOOLEAN : course' = Bumped([course EXCEPT !.detailed = detailed])
      BY <2>1 DEF CommitDetails
    <3> DEFINE d == [course EXCEPT !.detailed = detailed]
    <3>2. d \in CourseRow /\ d.version = course.version /\ d.count = course.count
      BY <1>1 DEF CourseRow
    <3> HIDE DEF d
    <3> QED BY <3>1, <3>2, BumpedRow DEF d
  <2>2. CASE CommitPricing(r)
    <3> DEFINE d == [course EXCEPT !.priced = TRUE]
    <3>1. d \in CourseRow /\ d.version = course.version /\ d.count = course.count
      BY <1>1 DEF CourseRow
    <3>2. course' = Bumped(d)
      BY <2>2 DEF CommitPricing
    <3> HIDE DEF d
    <3> QED BY <3>1, <3>2, BumpedRow
  <2>3. CASE CommitTransition(r)
    <3> DEFINE to == req[r].to
               d == [course EXCEPT !.status = to, !.dated = course.dated \/ to = "PUBLISHED"]
    <3>1. to \in Statuses
      BY <2>3 DEF CommitTransition, CatalogInv, RequestsOK, RequestOK
    <3>2. (course.dated \/ to = "PUBLISHED") \in BOOLEAN
      OBVIOUS
    <3>3. d \in CourseRow /\ d.version = course.version /\ d.count = course.count
      BY <1>1, <3>1, <3>2 DEF CourseRow
    <3>4. course' = Bumped(d)
      BY <2>3 DEF CommitTransition, Moved
    <3> HIDE DEF d
    <3> QED BY <3>3, <3>4, BumpedRow
  <2> QED BY <2>1, <2>2, <2>3
<1>4. CourseOK' /\ course'.version > course.version
  BY <1>1, <1>3 DEF CourseOK
<1>5. RequestOK(Idle, course')
  BY DEF RequestOK, Idle
<1>6. RequestsOK'
  BY <1>2, <1>4, <1>5, RequestMoves DEF CatalogInv
<1>7. Good(tree)' /\ (Sections(tree) \cup Lectures(tree) \subseteq used)'
      /\ (course.count = Cardinality(Lectures(tree)))'
  BY <1>2, <1>3 DEF CatalogInv, Good, TreeOK, OneEach, Sections, Lectures
<1>8. LogOK'
  <2>1. log' = log /\ used' = used
    BY <1>2
  <2>2. \A e \in log : e.version \in Nat /\ e.version <= course'.version
    BY <1>1, <1>3 DEF CatalogInv, LogOK
  <2> QED BY <2>1, <2>2 DEF CatalogInv, LogOK
<1>9. Chain'
  BY <1>2 DEF CatalogInv, Chain, Follows, Newest, Linked, Membership, Sections, Lectures
<1> QED BY <1>4, <1>6, <1>7, <1>8, <1>9 DEF CatalogInv

\* The row after an edit or an undo that leaves the tree t.
LEMMA RolledUpRow ==
    ASSUME NEW c \in CourseRow, NEW t, Good(t)
    PROVE  LET d == RolledUp(Bumped(c), t)
           IN  /\ d \in CourseRow /\ d.version = c.version + 1 /\ d.status = c.status
               /\ d.priced = c.priced /\ d.detailed = c.detailed
               /\ d.count = Cardinality(Lectures(t))
<1>1. Cardinality(Lectures(t)) \in Nat
  BY GoodTables, FS_CardinalityType DEF Table
<1>2. /\ Bumped(c) \in CourseRow /\ Bumped(c).version = c.version + 1
      /\ Bumped(c).status = c.status /\ Bumped(c).priced = c.priced
      /\ Bumped(c).detailed = c.detailed
  BY BumpedRow
<1> QED BY <1>1, <1>2 DEF RolledUp, CourseRow

\* An edit: a new newest entry, that leads back to the tree it found.
LEMMA EditStep ==
    ASSUME CatalogInv, NEW r \in Requests, CommitEdit(r)
    PROVE  CatalogInv'
<1> DEFINE m == Membership(tree)
<1>1. PICK c \in Commands(tree) :
          /\ tree' = Handled(tree, c).tree
          /\ course' = RolledUp(Bumped(course), Handled(tree, c).tree)
          /\ log' = Recorded(course'.version, Handled(tree, c).inverse)
          /\ used' = used \cup NewIds(c)
  BY DEF CommitEdit
<1> DEFINE d == Handled(tree, c).tree
           i == Handled(tree, c).inverse
           new == [version |-> course'.version, inverse |-> i, before |-> m]
<1>2. /\ course \in CourseRow /\ course.version \in Nat /\ Good(tree) /\ RequestsOK /\ LogOK
      /\ Sections(tree) \cup Lectures(tree) \subseteq used /\ Chain
  BY DEF CatalogInv, CourseOK, CourseRow
<1>3. /\ CommandOK(c) /\ Fits(Sections(tree), Lectures(tree), c)
      /\ Returning(c).sections \cup Returning(c).lectures = NewIds(c)
  BY <1>2, CommandsFit
<1>4. Good(d) /\ Membership(d) = Effect(m, c)
  BY <1>2, <1>3, HandlersDeliver DEF Delivers
<1>5. /\ CommandOK(i)
      /\ Fits(DOMAIN Effect(m, c).sections, DOMAIN Effect(m, c).lectures, i)
      /\ Effect(Effect(m, c), i) = m
      /\ Returning(i).sections \subseteq Sections(tree)
      /\ Returning(i).lectures \subseteq Lectures(tree)
  BY <1>2, CommandsReverse DEF Reverses
<1>6. log' = log \cup {new}
  BY <1>1 DEF Recorded
<1>7. Mirrors(m, tree) /\ Mirrors(Membership(d), d)
  BY <1>2, <1>4, MembershipMirrors
<1>8. tree' = d /\ course' = RolledUp(Bumped(course), d) /\ used' = used \cup NewIds(c)
  BY <1>1
<1> HIDE DEF d, i, m
<1>9. /\ course' \in CourseRow /\ course'.version = course.version + 1
      /\ course'.count = Cardinality(Lectures(d))
  BY <1>2, <1>4, <1>8, RolledUpRow
<1>10. RequestsOK'
  <2>1. req' = [req EXCEPT ![r] = Idle]
    BY DEF CommitEdit
  <2>2. CourseOK /\ CourseOK' /\ course'.version > course.version
    BY <1>2, <1>9 DEF CourseOK
  <2>3. RequestOK(Idle, course')
    BY DEF RequestOK, Idle
  <2> QED BY <1>2, <2>1, <2>2, <2>3, RequestMoves
<1>11. (Sections(tree) \cup Lectures(tree) \subseteq used)'
  <2>1. Fits(DOMAIN m.sections, DOMAIN m.lectures, c)
    BY <1>3, <1>7 DEF Mirrors
  <2>2. /\ DOMAIN Effect(m, c).sections \subseteq DOMAIN m.sections \cup Returning(c).sections
        /\ DOMAIN Effect(m, c).lectures \subseteq DOMAIN m.lectures \cup Returning(c).lectures
    BY <1>3, <2>1, EffectIds
  <2>3. /\ Sections(d) \subseteq Sections(tree) \cup NewIds(c)
        /\ Lectures(d) \subseteq Lectures(tree) \cup NewIds(c)
    BY <1>3, <1>4, <1>7, <2>2 DEF Mirrors
  <2>4. Sections(d) \cup Lectures(d) \subseteq used \cup NewIds(c)
    BY <1>2, <2>3
  <2>5. (Sections(tree) \cup Lectures(tree))' = Sections(d) \cup Lectures(d)
    BY <1>8 DEF Sections, Lectures
  <2> QED BY <1>8, <2>4, <2>5
<1>12. \A e \in log : e.version \in Nat /\ e.version <= course.version
  BY <1>2 DEF LogOK
<1>13. LogOK'
  <2>1. \A e \in log' : /\ e = [version |-> e.version, inverse |-> e.inverse, before |-> e.before]
                        /\ e.version \in Nat /\ e.version <= course'.version
                        /\ CommandOK(e.inverse)
                        /\ Returning(e.inverse).sections \subseteq used'
                        /\ Returning(e.inverse).lectures \subseteq used'
    <3> TAKE e \in log'
    <3>1. CASE e \in log
      <4>1. /\ e = [version |-> e.version, inverse |-> e.inverse, before |-> e.before]
            /\ CommandOK(e.inverse)
            /\ Returning(e.inverse).sections \subseteq used
            /\ Returning(e.inverse).lectures \subseteq used
        BY <1>2, <3>1 DEF LogOK
      <4>2. e.version \in Nat /\ e.version <= course'.version
        BY <1>2, <1>9, <1>12, <3>1
      <4> QED BY <1>8, <4>1, <4>2
    <3>2. CASE e = new
      <4>1. e.version = course'.version /\ e.inverse = i /\ e.before = m
        BY <3>2
      <4>2. course'.version \in Nat
        BY <1>2, <1>9
      <4>3. Returning(i).sections \subseteq used' /\ Returning(i).lectures \subseteq used'
        BY <1>2, <1>5, <1>8
      <4> HIDE DEF new
      <4> QED BY <1>5, <3>2, <4>1, <4>2, <4>3 DEF new
    <3> QED BY <1>6, <3>1, <3>2
  <2>2. \A e, f \in log' : e.version = f.version => e = f
    <3>1. new.version = course.version + 1
      BY <1>9
    <3> HIDE DEF new
    <3> QED BY <1>2, <1>6, <1>12, <3>1 DEF LogOK
  <2> QED BY <2>1, <2>2 DEF LogOK
<1>14. new.version = course.version + 1 /\ new.inverse = i /\ new.before = m
  BY <1>9
<1> HIDE DEF new
<1>15. \A e \in log : e.version < new.version
  BY <1>2, <1>12, <1>14
<1>16. Chain'
  <2>1. ASSUME NEW e \in log', NEW f \in log', Follows(e, f)' PROVE Linked(e, f.before)
    <3>1. /\ e.version < f.version
          /\ \A g \in log' : ~(e.version < g.version /\ g.version < f.version)
      BY <2>1 DEF Follows
    <3>2. e \in log
      <4> SUFFICES ASSUME e = new PROVE FALSE
        BY <1>6
      <4>1. new.version \in Nat /\ f.version \in Nat /\ f.version <= new.version
        BY <1>2, <1>6, <1>12, <1>14, <1>15
      <4> QED BY <3>1, <4>1
    <3>3. CASE f \in log
      <4>1. Follows(e, f)
        BY <1>6, <3>1 DEF Follows
      <4> QED BY <1>2, <3>2, <3>3, <4>1 DEF Chain
    <3>4. CASE f = new
      <4>1. Newest(e)
        <5> SUFFICES ASSUME NEW g \in log PROVE g.version <= e.version
          BY DEF Newest
        <5>1. ~(e.version < g.version)
          BY <1>6, <1>15, <3>1, <3>4
        <5> QED BY <1>12, <3>2, <5>1
      <4>2. Linked(e, m)
        BY <1>2, <3>2, <4>1 DEF Chain, m
      <4> QED BY <1>14, <3>4, <4>2
    <3> QED BY <1>6, <3>3, <3>4
  <2>2. ASSUME NEW e \in log', Newest(e)' PROVE Linked(e, Membership(tree)')
    <3>1. e = new
      <4> SUFFICES ASSUME e \in log PROVE FALSE
        BY <1>6
      <4>1. new.version <= e.version /\ e.version < new.version
        BY <1>6, <1>15, <2>2 DEF Newest
      <4>2. e.version \in Nat /\ new.version \in Nat
        BY <1>2, <1>12, <1>14
      <4> QED BY <4>1, <4>2
    <3>2. Membership(tree)' = Effect(m, c)
      BY <1>4, <1>8 DEF Membership, Sections, Lectures
    <3> QED BY <1>5, <1>14, <3>1, <3>2 DEF Linked
  <2> QED BY <2>1, <2>2 DEF Chain, Linked, Membership, Sections, Lectures
<1>17. CourseOK' /\ Good(tree)' /\ (course.count = Cardinality(Lectures(tree)))'
  BY <1>4, <1>8, <1>9 DEF CourseOK, Good, TreeOK, OneEach, Sections, Lectures
<1> QED BY <1>10, <1>11, <1>13, <1>16, <1>17 DEF CatalogInv

\* An undo: the newest entry is replayed, and the one before it is the newest.
LEMMA UndoStep ==
    ASSUME CatalogInv, NEW r \in Requests, CommitUndo(r)
    PROVE  CatalogInv'
<1> DEFINE m == Membership(tree)
           i == Top.inverse
           d == Handled(tree, i).tree
<1>1. /\ log # {} /\ tree' = d /\ course' = RolledUp(Bumped(course), d)
      /\ log' = log \ {Top} /\ req' = [req EXCEPT ![r] = Idle] /\ used' = used
  BY DEF CommitUndo, markUndone
<1>2. /\ course \in CourseRow /\ course.version \in Nat /\ Good(tree) /\ RequestsOK /\ LogOK
      /\ Sections(tree) \cup Lectures(tree) \subseteq used /\ Chain /\ CourseOK
  BY DEF CatalogInv, CourseOK, CourseRow
<1>3. Top \in log /\ Newest(Top)
  BY <1>1, <1>2, NewestIsTop
<1>4. Mirrors(m, tree)
  BY <1>2, MembershipMirrors
<1>5. /\ Fits(DOMAIN m.sections, DOMAIN m.lectures, i) /\ Effect(m, i) = Top.before
      /\ CommandOK(i) /\ Returning(i).sections \subseteq used /\ Returning(i).lectures \subseteq used
  BY <1>2, <1>3 DEF Chain, Linked, LogOK
<1>6. Good(d) /\ Membership(d) = Top.before
  <2>1. Fits(Sections(tree), Lectures(tree), i)
    BY <1>4, <1>5 DEF Mirrors
  <2> QED BY <1>2, <1>5, <2>1, HandlersDeliver DEF Delivers
<1>7. Mirrors(Membership(d), d)
  BY <1>6, MembershipMirrors
<1> HIDE DEF d, i, m
<1>8. /\ course' \in CourseRow /\ course'.version = course.version + 1
      /\ course'.count = Cardinality(Lectures(d))
  BY <1>1, <1>2, <1>6, RolledUpRow
<1>9. RequestsOK'
  <2>1. CourseOK' /\ course'.version > course.version
    BY <1>2, <1>8 DEF CourseOK
  <2>2. RequestOK(Idle, course')
    BY DEF RequestOK, Idle
  <2> QED BY <1>1, <1>2, <2>1, <2>2, RequestMoves
<1>10. (Sections(tree) \cup Lectures(tree) \subseteq used)'
  <2>1. /\ DOMAIN Effect(m, i).sections \subseteq DOMAIN m.sections \cup Returning(i).sections
        /\ DOMAIN Effect(m, i).lectures \subseteq DOMAIN m.lectures \cup Returning(i).lectures
    BY <1>5, EffectIds
  <2>2. Sections(d) \cup Lectures(d) \subseteq used
    BY <1>2, <1>4, <1>5, <1>6, <1>7, <2>1 DEF Mirrors
  <2>3. (Sections(tree) \cup Lectures(tree))' = Sections(d) \cup Lectures(d)
    BY <1>1 DEF Sections, Lectures
  <2> QED BY <1>1, <2>2, <2>3
<1>11. \A e \in log : e.version \in Nat /\ e.version <= course.version /\ e.version <= Top.version
  BY <1>2, <1>3 DEF LogOK, Newest
<1>12. LogOK'
  <2>1. \A e \in log' : e \in log /\ e.version <= course'.version
    BY <1>1, <1>2, <1>8, <1>11
  <2> QED BY <1>1, <1>2, <2>1 DEF LogOK
<1>13. \A e \in log' : e \in log /\ e.version < Top.version
  <2> TAKE e \in log'
  <2>1. e \in log /\ e.version # Top.version
    BY <1>1, <1>2, <1>3 DEF LogOK
  <2> QED BY <1>3, <1>11, <2>1
<1>14. \A e \in log : e = Top \/ e \in log'
  BY <1>1
<1>15. Chain'
  <2>1. ASSUME NEW e \in log', NEW f \in log', Follows(e, f)' PROVE Linked(e, f.before)
    <3>1. /\ e.version < f.version
          /\ \A g \in log' : ~(e.version < g.version /\ g.version < f.version)
      BY <2>1 DEF Follows
    <3>2. ~(Top.version < f.version)
      BY <1>3, <1>11, <1>13
    <3>3. Follows(e, f)
      BY <1>14, <3>1, <3>2 DEF Follows
    <3> QED BY <1>2, <1>13, <3>3 DEF Chain
  <2>2. ASSUME NEW e \in log', Newest(e)' PROVE Linked(e, Membership(tree)')
    <3>1. \A g \in log' : g.version <= e.version
      BY <2>2 DEF Newest
    <3>2. \A g \in log : ~(e.version < g.version /\ g.version < Top.version)
      <4> SUFFICES ASSUME NEW g \in log, e.version < g.version, g.version < Top.version PROVE FALSE
        OBVIOUS
      <4>1. g.version \in Nat /\ e.version \in Nat /\ Top.version \in Nat
        BY <1>3, <1>11, <1>13
      <4>2. g \in log'
        BY <1>14, <4>1
      <4> QED BY <3>1, <4>1, <4>2
    <3>3. Follows(e, Top)
      BY <1>13, <3>2 DEF Follows
    <3>4. Linked(e, Top.before)
      BY <1>2, <1>3, <1>13, <3>3 DEF Chain
    <3>5. Membership(tree)' = Membership(d)
      BY <1>1 DEF Membership, Sections, Lectures
    <3> QED BY <1>6, <3>4, <3>5
  <2> QED BY <2>1, <2>2 DEF Chain, Linked, Membership, Sections, Lectures
<1>16. CourseOK' /\ Good(tree)' /\ (course.count = Cardinality(Lectures(tree)))'
  BY <1>1, <1>6, <1>8 DEF CourseOK, Good, TreeOK, OneEach, Sections, Lectures
<1> QED BY <1>9, <1>10, <1>12, <1>15, <1>16 DEF CatalogInv

\* No edit moves a course in its lifecycle.
LEMMA EditsKeepStatus ==
    ASSUME CatalogInv, NEW r \in Requests,
           CommitEdit(r) \/ CommitDetails(r) \/ CommitPricing(r)
    PROVE  course'.status = course.status
<1>1. course \in CourseRow /\ Good(tree)
  BY DEF CatalogInv, CourseOK
<1>2. CASE CommitEdit(r)
  <2>1. PICK c \in Commands(tree) : course' = RolledUp(Bumped(course), Handled(tree, c).tree)
    BY <1>2 DEF CommitEdit
  <2>2. Bumped(course) \in CourseRow /\ Bumped(course).status = course.status
    BY <1>1, BumpedRow
  <2> QED BY <2>1, <2>2 DEF RolledUp, CourseRow
<1>3. CASE CommitDetails(r)
  <2>1. PICK detailed \in BOOLEAN : course' = Bumped([course EXCEPT !.detailed = detailed])
    BY <1>3 DEF CommitDetails
  <2> QED BY <1>1, <2>1 DEF Bumped, CourseRow
<1>4. CASE CommitPricing(r)
  BY <1>1, <1>4 DEF CommitPricing, Bumped, CourseRow
<1> QED BY <1>2, <1>3, <1>4

-----------------------------------------------------------------------------
(* The theorems.                                                           *)

\* Every step keeps the invariant.
LEMMA CatalogSteps == CatalogInv /\ [Next]_vars => CatalogInv'
<1> SUFFICES ASSUME CatalogInv, [Next]_vars PROVE CatalogInv'
  OBVIOUS
<1>1. CASE UNCHANGED vars
  <2>1. RequestsOK'
    BY <1>1 DEF vars, CatalogInv, RequestsOK
  <2> QED BY <1>1, <2>1, QuietStep DEF vars
<1>2. CASE Next
  <2>1. PICK r \in Requests :
            \/ BeginEdit(r) \/ BeginUndo(r) \/ BeginDuplicate(r)
            \/ \E to \in Statuses, admin \in BOOLEAN : BeginTransition(r, to, admin)
            \/ CommitEdit(r) \/ CommitDetails(r) \/ CommitPricing(r) \/ EditRefused(r)
            \/ CommitUndo(r) \/ UndoRefused(r)
            \/ ReadGate(r) \/ CommitTransition(r) \/ TransitionLost(r)
            \/ CommitDuplicate(r) \/ Answer(r)
    BY <1>2 DEF Next
  <2>2. CASE \/ BeginEdit(r) \/ BeginUndo(r) \/ BeginDuplicate(r) \/ CommitDuplicate(r)
             \/ \E to \in Statuses, admin \in BOOLEAN : BeginTransition(r, to, admin)
    BY <2>2, ReadStep
  <2>3. CASE CommitEdit(r)
    BY <2>3, EditStep
  <2>4. CASE CommitUndo(r)
    BY <2>4, UndoStep
  <2>5. CASE CommitDetails(r) \/ CommitPricing(r) \/ CommitTransition(r)
    BY <2>5, RowStep
  <2>6. CASE ReadGate(r)
    BY <2>6, ReadGateStep
  <2>7. CASE EditRefused(r) \/ UndoRefused(r) \/ TransitionLost(r) \/ Answer(r)
    BY <2>7, FailsStep DEF EditRefused, UndoRefused, TransitionLost, Answer
  <2> QED BY <2>1, <2>2, <2>3, <2>4, <2>5, <2>6, <2>7
<1> QED BY <1>1, <1>2

\* The shape of the course, its tree, its log and its requests, always: rows
\* are whole, ids are never reused, the log is a chain.
THEOREM CatalogTypes == Spec => []CatalogInv
<1>1. Init => CatalogInv
  BY CatalogStarts
<1>2. CatalogInv /\ [Next]_vars => CatalogInv'
  BY CatalogSteps
<1> QED BY <1>1, <1>2, PTL DEF Spec

\* What the newest entry of the log does to a tree it leads back from.
LEMMA TopDelivers ==
    ASSUME CatalogInv, log # {}
    PROVE  /\ Applies(tree, Top.inverse) /\ Good(Handled(tree, Top.inverse).tree)
           /\ Membership(Handled(tree, Top.inverse).tree) = Top.before
<1> DEFINE m == Membership(tree)
<1>1. CourseOK /\ Good(tree) /\ LogOK /\ Chain
  BY DEF CatalogInv
<1>2. Top \in log /\ Newest(Top)
  BY <1>1, NewestIsTop
<1>3. Mirrors(m, tree)
  BY <1>1, MembershipMirrors
<1>4. /\ Fits(DOMAIN m.sections, DOMAIN m.lectures, Top.inverse)
      /\ Effect(m, Top.inverse) = Top.before /\ CommandOK(Top.inverse)
  BY <1>1, <1>2 DEF Chain, Linked, LogOK
<1>5. Fits(Sections(tree), Lectures(tree), Top.inverse)
  BY <1>3, <1>4 DEF Mirrors
<1> QED BY <1>1, <1>4, <1>5, HandlersDeliver DEF Delivers

\* Undo never gets stuck: the newest inverse always applies, and gives back
\* the sections and lectures its edit found.
THEOREM UndoUnwinds == Spec => []StackUnwinds
<1>1. CatalogInv => StackUnwinds
  BY TopDelivers DEF StackUnwinds
<1> QED BY <1>1, CatalogTypes, PTL

\* The unique constraints never fail an edit, nor the undo of the newest one.
THEOREM NoTwoRowsCollide == Spec => []PositionsDistinct
<1>1. CatalogInv => PositionsDistinct
  <2> SUFFICES ASSUME CatalogInv PROVE PositionsDistinct
    OBVIOUS
  <2>1. OneEach(tree)
    BY DEF CatalogInv, Good
  <2>2. log # {} => OneEach(Handled(tree, Top.inverse).tree)
    BY TopDelivers DEF Good
  <2> QED BY <2>1, <2>2 DEF PositionsDistinct
<1> QED BY <1>1, CatalogTypes, PTL

\* The lecture count a card shows does not drift from the curriculum, nor does
\* that of a copy no edit fell into.
THEOREM CountsNeverDrift == Spec => []CountsMatch
<1>1. CatalogInv => CountsMatch
  BY DEF CatalogInv, CountsMatch, RequestsOK, RequestOK
<1> QED BY <1>1, CatalogTypes, PTL

\* A request that judged a course before it was archived does not change it,
\* but for an undo, and an edit whose claim was ahead of what it was judged by.
THEOREM TakenDownStaysDown == Spec => ArchivedIsReadOnly
<1> DEFINE Kept == course.status = "ARCHIVED" =>
                      /\ course'.status = "ARCHIVED"
                      /\ \/ \E r \in Requests : Foretold(r)
                         \/ /\ course'.priced = course.priced /\ course'.detailed = course.detailed
                            /\ tree' = tree \/ Rewinds
<1>1. CatalogInv /\ [Next]_vars => Kept
  <2> SUFFICES ASSUME CatalogInv, [Next]_vars, course.status = "ARCHIVED",
                      ~(course' = course /\ tree' = tree)
               PROVE  /\ course'.status = "ARCHIVED"
                      /\ \/ \E r \in Requests : Foretold(r)
                         \/ /\ course'.priced = course.priced
                            /\ course'.detailed = course.detailed
                            /\ Rewinds
    OBVIOUS
  <2>1. /\ course \in CourseRow /\ req = [r \in Requests |-> req[r]]
        /\ \A r \in Requests : RequestOK(req[r], course)
    BY DEF CatalogInv, CourseOK, RequestsOK
  <2>2. PICK r \in Requests : CommitEdit(r) \/ CommitDetails(r) \/ CommitPricing(r)
                              \/ CommitUndo(r) \/ CommitTransition(r)
    BY DEF Next, vars, BeginEdit, BeginUndo, BeginDuplicate, Reads, BeginTransition, EditRefused,
           UndoRefused, ReadGate, TransitionLost, CommitDuplicate, Answer, Fails
  <2>3. ~(req[r].pc = "move" /\ course.status = req[r].row.status)
    BY <2>1 DEF RequestOK
  <2>4. CASE CommitEdit(r) \/ CommitDetails(r) \/ CommitPricing(r)
    <3>1. req[r].pc = "edit" /\ Claimed(r) /\ req' = [req EXCEPT ![r] = Idle]
      BY <2>4 DEF CommitEdit, CommitDetails, CommitPricing
    <3>2. req[r].row.ahead
      BY <2>1, <3>1 DEF RequestOK, Claimed
    <3>3. Foretold(r)
      BY <2>1, <3>1, <3>2 DEF Foretold
    <3>4. course'.status = course.status
      BY <2>4, EditsKeepStatus
    <3> QED BY <3>3, <3>4
  <2>5. CASE CommitUndo(r)
    <3> DEFINE d == Handled(tree, Top.inverse).tree
    <3>1. log # {} /\ course' = RolledUp(Bumped(course), d) /\ log' = log \ {Top}
      BY <2>5 DEF CommitUndo, markUndone
    <3>2. Good(d)
      BY <3>1, TopDelivers
    <3> HIDE DEF d
    <3>3. course'.status = course.status /\ course'.priced = course.priced
          /\ course'.detailed = course.detailed
      BY <2>1, <3>1, <3>2, RolledUpRow
    <3>4. Top \in log
      BY <3>1, NewestIsTop DEF CatalogInv
    <3>5. Rewinds
      BY <3>1, <3>4 DEF Rewinds
    <3> QED BY <3>3, <3>5
  <2> QED BY <2>2, <2>3, <2>4, <2>5 DEF CommitTransition
<1>2. CatalogInv /\ [Next]_vars => [Kept]_vars
  BY <1>1
<1>3. Spec => [][Kept]_vars
  BY <1>2, CatalogTypes, PTL DEF Spec
<1> QED BY <1>3 DEF ArchivedIsReadOnly

-----------------------------------------------------------------------------
(* The order of a list, and the cursor as a cut in it.                     *)

\* The keys a sort may meet.
Keys(sort) == IF sort = "NEWEST" THEN Nat \cup {None} ELSE Nat

\* One definition of the order, for rows and for cursors: key x and id c come
\* before key y and id d.
Ahead(sort, x, c, y, d) ==
    IF x = y THEN Beyond(sort, d, c)
    ELSE IF x = None \/ y = None THEN y = None
    ELSE Beyond(sort, y, x)

LEMMA AheadIsAnOrder ==
    ASSUME NEW sort \in Sorts, NEW x \in Keys(sort), NEW y \in Keys(sort), NEW z \in Keys(sort),
           NEW c \in Nat, NEW d \in Nat, NEW e \in Nat
    PROVE  /\ ~Ahead(sort, x, c, x, c)
           /\ Ahead(sort, x, c, y, d) /\ Ahead(sort, y, d, z, e) => Ahead(sort, x, c, z, e)
           /\ c = d \/ Ahead(sort, x, c, y, d) \/ Ahead(sort, y, d, x, c)
<1> USE StorefrontAssumption DEF StorefrontAssumption
<1>1. CASE sort = "NEWEST"
  BY <1>1 DEF Keys, Ahead, Beyond, Ascending
<1>2. CASE sort # "NEWEST"
  BY <1>2 DEF Keys, Ahead, Beyond, Ascending
<1> QED BY <1>1, <1>2

RowsOK == courseRow \in [Courses -> Row]

\* A course's key is of its sort.
LEMMA KeysFit ==
    ASSUME RowsOK, NEW sort \in Sorts, NEW c \in Courses
    PROVE  KeyOf(sort, c) \in Keys(sort) /\ c \in Nat
<1> USE StorefrontAssumption DEF StorefrontAssumption
<1>1. courseRow[c] \in Row /\ Rating[c] \in Nat
  BY DEF RowsOK
<1> QED BY <1>1 DEF KeyOf, cursorKeyOf, Selected, Row, Keys, Sorts

\* after and orderByFor are one order.
LEMMA OneOrder ==
    ASSUME RowsOK, NEW sort \in Sorts, NEW c \in Courses, NEW d \in Courses
    PROVE  Precedes(sort, c, d) <=> Ahead(sort, KeyOf(sort, c), c, KeyOf(sort, d), d)
  BY DEF Precedes, Ahead

\* What a cursor cuts off is what its row does not precede.
LEMMA PastTheCursor ==
    ASSUME RowsOK, NEW cursor, cursor.sort \in Sorts, cursor.key \in Keys(cursor.sort), cursor.id \in Courses,
           NEW c \in Courses
    PROVE  c \in after(cursor.sort, cursor) <=>
              Ahead(cursor.sort, cursor.key, cursor.id, KeyOf(cursor.sort, c), c)
<1> USE StorefrontAssumption DEF StorefrontAssumption
<1>1. KeyOf(cursor.sort, c) \in Keys(cursor.sort) /\ c \in Nat /\ cursor.id \in Nat
  BY KeysFit
<1>2. CASE cursor.sort = "NEWEST"
  BY <1>1, <1>2 DEF after, Ahead, Keys, Beyond, Ascending
<1>3. CASE cursor.sort # "NEWEST"
  BY <1>1, <1>3 DEF after, Ahead, Keys, Beyond, Ascending
<1> QED BY <1>2, <1>3

\* A list in the order of a sort lists every row once, from the first on.
LEMMA SortedListsAll ==
    ASSUME RowsOK, NEW sort \in Sorts, NEW S, S \subseteq Courses
    PROVE  /\ Cardinality(S) \in Nat
           /\ Sorted(sort, S) \in [1..Cardinality(S) -> S]
           /\ \A c \in S : \E i \in 1..Cardinality(S) : Sorted(sort, S)[i] = c
           /\ \A i, j \in 1..Cardinality(S) :
                 Precedes(sort, Sorted(sort, S)[i], Sorted(sort, S)[j]) <=> i < j
<1> DEFINE R == {p \in S \X S : Precedes(sort, p[1], p[2])}
           n == Cardinality(S)
           rank == Ranks(S, R)
<1>1. IsFiniteSet(S)
  BY StorefrontAssumption, FS_Subset DEF StorefrontAssumption
<1>2. \A c, d \in S : <<c, d>> \in R <=> Precedes(sort, c, d)
  OBVIOUS
<1>3. \A c, d \in S : <<c, d>> \in R <=> Ahead(sort, KeyOf(sort, c), c, KeyOf(sort, d), d)
  BY <1>2, OneOrder
<1>4. \A c \in S : KeyOf(sort, c) \in Keys(sort) /\ c \in Nat
  BY KeysFit
<1> HIDE DEF R
<1>5. \A c \in S : <<c, c>> \notin R
  BY <1>3, <1>4, AheadIsAnOrder
<1>6. \A c, d, e \in S : <<c, d>> \in R /\ <<d, e>> \in R => <<c, e>> \in R
  <2> TAKE c, d, e \in S
  <2> QED BY <1>3, <1>4, AheadIsAnOrder
<1>7. \A c, d \in S : c = d \/ <<c, d>> \in R \/ <<d, c>> \in R
  <2> TAKE c, d \in S
  <2> QED BY <1>3, <1>4, AheadIsAnOrder
<1>8. /\ n \in Nat
      /\ \A c \in S : rank[c] \in Nat /\ rank[c] + 1 \in 1..n
      /\ \A c, d \in S : <<c, d>> \in R <=> rank[c] < rank[d]
      /\ \A i \in 1..n : \E c \in S : rank[c] = i - 1
  BY <1>1, <1>5, <1>6, <1>7, RanksCount
<1>9. \A c \in S : Rank(sort, S, c) = rank[c]
  <2> TAKE c \in S
  <2>1. {d \in S : <<d, c>> \in R} = {d \in S : Precedes(sort, d, c)}
    BY <1>2
  <2> QED BY <2>1 DEF Rank, Ranks
<1> HIDE DEF rank
<1>10. \A i \in 1..n : Sorted(sort, S)[i] \in S /\ rank[Sorted(sort, S)[i]] = i - 1
  <2> TAKE i \in 1..n
  <2>1. Sorted(sort, S)[i] = CHOOSE c \in S : Rank(sort, S, c) = i - 1
    BY DEF Sorted
  <2>2. PICK c \in S : Rank(sort, S, c) = i - 1
    BY <1>8, <1>9
  <2>3. Sorted(sort, S)[i] \in S /\ Rank(sort, S, Sorted(sort, S)[i]) = i - 1
    BY <2>1, <2>2
  <2> QED BY <1>9, <2>3
<1>11. ASSUME NEW c \in S PROVE \E i \in 1..n : Sorted(sort, S)[i] = c
  <2>1. PICK i \in 1..n : i = rank[c] + 1
    BY <1>8
  <2>2. rank[Sorted(sort, S)[i]] = rank[c] /\ Sorted(sort, S)[i] \in S
    BY <1>8, <1>10, <2>1
  <2>3. rank[c] \in Nat /\ ~(rank[c] < rank[Sorted(sort, S)[i]])
        /\ ~(rank[Sorted(sort, S)[i]] < rank[c])
    BY <1>8, <2>2
  <2>4. Sorted(sort, S)[i] = c
    BY <1>7, <1>8, <2>2, <2>3
  <2> QED BY <2>1, <2>4
<1>12. \A i, j \in 1..n : Precedes(sort, Sorted(sort, S)[i], Sorted(sort, S)[j]) <=> i < j
  <2> TAKE i, j \in 1..n
  <2> DEFINE c == Sorted(sort, S)[i]
             d == Sorted(sort, S)[j]
  <2>1. c \in S /\ d \in S /\ rank[c] = i - 1 /\ rank[d] = j - 1
    BY <1>10
  <2> HIDE DEF c, d
  <2>2. Precedes(sort, c, d) <=> rank[c] < rank[d]
    BY <1>2, <1>8, <2>1
  <2>3. rank[c] < rank[d] <=> i < j
    BY <1>8, <2>1
  <2> QED BY <2>2, <2>3 DEF c, d
<1>13. Sorted(sort, S) \in [1..n -> S]
  BY <1>10 DEF Sorted
<1> QED BY <1>8, <1>11, <1>12, <1>13

-----------------------------------------------------------------------------
(* The walk.                                                               *)

\* Undated rows are keyed None under NEWEST alone.
CursorFits == walk.pc = "walking" /\ walk.cursor # None => walk.cursor.key \in Keys(walk.query.sort)

\* What is past the cursor was not served yet, what is not was served once.
SteadyServed ==
    walk.pc # "idle" => \A c \in steady : served[c] = IF Reached(c) THEN 1 ELSE 0

WalkInv ==
    /\ StorefrontTypeOK /\ CursorFits /\ SteadyServed
    /\ walk.pc = "idle" => served = [c \in Courses |-> 0]
    /\ walk.pc = "walking" => steady \subseteq Matching(walk.query)

\* Before a walk nothing has been served.
LEMMA WalkStarts == StorefrontInit => WalkInv
<1> SUFFICES ASSUME StorefrontInit PROVE WalkInv
  OBVIOUS
<1>1. courseRow \in [Courses -> Row]
  BY StorefrontAssumption DEF StorefrontAssumption, StorefrontInit
<1> QED BY <1>1 DEF StorefrontInit, WalkInv, StorefrontTypeOK, CursorFits, SteadyServed

\* What a page is taken from.
LEMMA FoundIs ==
    ASSUME NEW query, NEW cursor
    PROVE  \E S \in SUBSET Courses :
              /\ Found(query, cursor) = Sorted(query.sort, S)
              /\ \A c \in Courses : c \in S <=>
                    c \in Matching(query) /\ (cursor # None => c \in after(query.sort, cursor))
<1> DEFINE past == IF cursor = None THEN {} ELSE {after(query.sort, cursor)}
           S == and({Matching(query)} \cup past)
<1>1. S = {c \in Courses : \A s \in {Matching(query)} \cup past : c \in s}
  BY DEF and
<1>2. Found(query, cursor) = Sorted(query.sort, S)
  BY DEF Found
<1>3. \A c \in Courses : c \in S <=>
          c \in Matching(query) /\ (cursor # None => c \in after(query.sort, cursor))
  BY <1>1
<1>4. S \in SUBSET Courses
  BY <1>1
<1> QED BY <1>2, <1>3, <1>4

\* What a query matches depends on the rows alone.
LEMMA MatchingKept ==
    ASSUME NEW query, courseRow' = courseRow
    PROVE  Matching(query)' = Matching(query)
  BY DEF Matching, and, all, byInstructor, hasStatus, visibleTo, isPublished, or, none,
         filtersFrom, hasTrait, priceBetween, ratedAtLeast

\* A walk starts among the courses that match.
LEMMA AskInv ==
    ASSUME WalkInv, NEW query \in Queries, Ask(query)
    PROVE  WalkInv'
<1>1. /\ walk.pc = "idle" /\ served = [c \in Courses |-> 0]
      /\ walk' = [pc |-> "walking", query |-> query, cursor |-> None]
      /\ steady' = Matching(query) /\ UNCHANGED <<courseRow, clock, edits, served>>
  BY DEF Ask, WalkInv
<1>2. Matching(query) \subseteq Courses /\ Matching(query)' = Matching(query)
  <2>1. Matching(query) \subseteq Courses
    BY DEF Matching, and, all
  <2>2. Matching(query)' = Matching(query)
    BY <1>1, MatchingKept
  <2> QED BY <2>1, <2>2
<1>3. StorefrontTypeOK'
  BY <1>1, <1>2 DEF WalkInv, StorefrontTypeOK
<1>4. CursorFits' /\ SteadyServed'
  BY <1>1, <1>2 DEF CursorFits, SteadyServed, Reached
<1> QED BY <1>1, <1>2, <1>3, <1>4 DEF WalkInv

\* A page serves each course between two cursors once.
LEMMA PageInv ==
    ASSUME WalkInv, NextPage
    PROVE  WalkInv'
<1>1. PICK query \in Queries, cursor \in CursorPayload \cup {None}, sort \in Sorts :
         /\ walk = [pc |-> "walking", query |-> query, cursor |-> cursor]
         /\ sort = query.sort
         /\ cursor # None => /\ cursor \in CursorPayload /\ cursor.sort = sort
                             /\ cursor.key \in Keys(sort) /\ cursor.id \in Courses
         /\ steady \subseteq Matching(query) /\ steady \subseteq Courses
         /\ RowsOK /\ served \in [Courses -> Nat]
  <2>1. walk.pc = "walking"
    BY DEF NextPage
  <2>2. /\ walk = [pc |-> "walking", query |-> walk.query, cursor |-> walk.cursor]
        /\ walk.query \in Queries /\ walk.cursor \in CursorPayload \cup {None}
        /\ walk.cursor # None => walk.cursor.sort = walk.query.sort
    BY <2>1 DEF WalkInv, StorefrontTypeOK
  <2>3. walk.query.sort \in Sorts
    BY <2>2 DEF Queries, Sorts
  <2>4. walk.cursor # None => walk.cursor.key \in Keys(walk.query.sort) /\ walk.cursor.id \in Courses
    BY <2>1, <2>2 DEF WalkInv, CursorFits, CursorPayload
  <2>5. steady \subseteq Matching(walk.query) /\ steady \subseteq Courses
        /\ RowsOK /\ served \in [Courses -> Nat]
    BY <2>1 DEF WalkInv, StorefrontTypeOK, RowsOK
  <2> QED BY <2>2, <2>3, <2>4, <2>5
<1>2. PICK S \in SUBSET Courses :
          /\ Found(query, cursor) = Sorted(sort, S)
          /\ \A c \in Courses : c \in S <=>
                c \in Matching(query) /\ (cursor # None => c \in after(sort, cursor))
  BY <1>1, FoundIs
<1> DEFINE L == Sorted(sort, S)
           n == Cardinality(S)
           last == L[Limit]
           next == encodeCursor(sort, Selected(last))
           shown == Min({Limit, n})
<1>3. /\ n \in Nat /\ L \in [1..n -> S]
      /\ \A c \in S : \E i \in 1..n : L[i] = c
      /\ \A i, j \in 1..n : Precedes(sort, L[i], L[j]) <=> i < j
  BY <1>1, SortedListsAll
<1>4. Limit \in Nat \ {0} /\ shown = IF n <= Limit THEN n ELSE Limit
  <2>1. Limit \in Nat \ {0}
    BY StorefrontAssumption DEF StorefrontAssumption
  <2> QED BY <1>3, <2>1 DEF Min
<1>5. Len(L) = n
  BY <1>3
<1>6. \A i \in 1..n : toListItem(Selected(L[i])).id = L[i]
  BY DEF toListItem, Selected, Restrict
<1>7. /\ served' = [c \in Courses |->
                       served[c] + IF \E i \in 1..shown : L[i] = c THEN 1 ELSE 0]
      /\ walk' = IF n > Limit THEN [walk EXCEPT !.cursor = next] ELSE [pc |-> "done"]
      /\ UNCHANGED <<courseRow, clock, edits, steady>>
  <2> DEFINE items == [i \in 1..shown |-> toListItem(Selected(L[i]))]
  <2>1. 1..shown \subseteq 1..n
    BY <1>3, <1>4
  <2>2. \A c \in Courses : (\E i \in DOMAIN items : items[i].id = c) <=> \E i \in 1..shown : L[i] = c
    BY <1>6, <2>1
  <2>3. /\ served' = [c \in Courses |->
                       served[c] + IF \E i \in DOMAIN items : items[i].id = c THEN 1 ELSE 0]
        /\ walk' = IF n > Limit THEN [walk EXCEPT !.cursor = next] ELSE [pc |-> "done"]
        /\ UNCHANGED <<courseRow, clock, edits, steady>>
    <3>1. PICK rows : rows = L
      OBVIOUS
    <3>2. Found(walk.query, walk.cursor) = rows /\ walk.query.sort = sort
      BY <1>1, <1>2, <3>1
    <3>3. /\ served' = [c \in Courses |->
                 served[c] + IF \E i \in DOMAIN [j \in 1..Min({Limit, Len(rows)}) |-> toListItem(Selected(rows[j]))] :
                                  [j \in 1..Min({Limit, Len(rows)}) |-> toListItem(Selected(rows[j]))][i].id = c
                             THEN 1 ELSE 0]
          /\ walk' = IF Len(rows) > Limit
                     THEN [walk EXCEPT !.cursor = encodeCursor(sort, Selected(rows[Limit]))]
                     ELSE [pc |-> "done"]
          /\ UNCHANGED <<courseRow, clock, edits, steady>>
      BY <3>2, Zenon DEF NextPage
    <3> QED BY <1>5, <3>1, <3>3, Zenon
  <2> HIDE DEF items
  <2> QED BY <2>2, <2>3
<1>8. ASSUME n > Limit
      PROVE  /\ next \in CursorPayload /\ next.sort = sort /\ next.key \in Keys(sort)
             /\ next.id = last /\ last \in S /\ next # None /\ next.key = KeyOf(sort, last)
  <2>1. last \in S /\ last \in Courses
    BY <1>3, <1>4, <1>8
  <2>2. KeyOf(sort, last) \in Keys(sort)
    BY <1>1, <2>1, KeysFit
  <2>3. next = [sort |-> sort, key |-> KeyOf(sort, last), id |-> last]
    BY DEF encodeCursor, KeyOf, Selected
  <2>4. next \in CursorPayload
    BY <1>1, <2>1, <2>2, <2>3 DEF CursorPayload, Keys
  <2> QED BY <2>1, <2>2, <2>3, <2>4, StorefrontAssumption DEF StorefrontAssumption
<1> HIDE DEF L, n, last, next, shown
<1>9. StorefrontTypeOK'
  <2>1. served' \in [Courses -> Nat]
    BY <1>1, <1>7
  <2>2. CASE n > Limit
    <3>1. walk' = [pc |-> "walking", query |-> query, cursor |-> next]
      BY <1>1, <1>7, <2>2
    <3> QED BY <1>1, <1>7, <1>8, <2>1, <2>2, <3>1 DEF WalkInv, StorefrontTypeOK
  <2>3. CASE ~(n > Limit)
    BY <1>7, <2>1, <2>3 DEF WalkInv, StorefrontTypeOK
  <2> QED BY <2>2, <2>3
<1>10. CursorFits'
  BY <1>1, <1>7, <1>8 DEF CursorFits
<1>11. SteadyServed'
  <2> SUFFICES ASSUME NEW c \in steady PROVE served'[c] = IF Reached(c)' THEN 1 ELSE 0
    BY <1>7 DEF SteadyServed
  <2>1. c \in Courses /\ c \in Matching(query)
    BY <1>1
  <2>2. served[c] = IF c \in S THEN 0 ELSE 1
    <3>1. served[c] = IF Reached(c) THEN 1 ELSE 0
      BY <1>1 DEF WalkInv, SteadyServed
    <3>2. Reached(c) <=> cursor # None /\ c \notin after(sort, cursor)
      BY <1>1 DEF Reached
    <3>3. Reached(c) <=> c \notin S
      BY <1>2, <2>1, <3>2
    <3> QED BY <3>1, <3>3
  <2>3. Reached(c)' <=> ~(n > Limit) \/ c \notin after(sort, next)
    <3>1. CASE n > Limit
      <4>1. PICK to : to = next
        OBVIOUS
      <4>2. walk' = [pc |-> "walking", query |-> query, cursor |-> to]
        BY <1>1, <1>7, <3>1, <4>1
      <4>3. after(sort, to)' = after(sort, to)
        BY <1>7 DEF after, KeyOf, Selected
      <4>4. Reached(c)' <=> to # None /\ c \notin after(sort, to)'
        BY <1>1, <4>2 DEF Reached
      <4> QED BY <1>8, <3>1, <4>1, <4>3, <4>4
    <3>2. CASE ~(n > Limit)
      BY <1>7, <3>2 DEF Reached
    <3> QED BY <3>1, <3>2
  <2>4. n > Limit => (c \in after(sort, next) <=> Precedes(sort, last, c))
    <3> SUFFICES ASSUME n > Limit PROVE c \in after(sort, next) <=> Precedes(sort, last, c)
      OBVIOUS
    <3>1. c \in after(next.sort, next) <=>
             Ahead(next.sort, next.key, next.id, KeyOf(next.sort, c), c)
      BY <1>1, <1>8, <2>1, PastTheCursor
    <3>2. Precedes(sort, last, c) <=> Ahead(sort, KeyOf(sort, last), last, KeyOf(sort, c), c)
      BY <1>1, <1>8, <2>1, OneOrder
    <3> QED BY <1>8, <3>1, <3>2
  <2>5. CASE c \in S
    <3>1. PICK k \in 1..n : L[k] = c
      BY <1>3, <2>5
    <3>2. (\E i \in 1..shown : L[i] = c) <=> k <= shown
      <4>1. \A i \in 1..shown : L[i] = c => i = k
        <5> TAKE i \in 1..shown
        <5>1. i \in 1..n
          BY <1>3, <1>4
        <5>2. L[i] = c => (i < k <=> k < k) /\ (k < i <=> k < k)
          BY <1>3, <3>1, <5>1
        <5> QED BY <5>1, <5>2
      <4>2. shown \in Nat
        BY <1>3, <1>4
      <4> QED BY <3>1, <4>1, <4>2
    <3>3. n > Limit => (Precedes(sort, last, c) <=> Limit < k)
      BY <1>3, <1>4, <3>1 DEF last
    <3> QED BY <1>3, <1>4, <1>7, <2>1, <2>2, <2>3, <2>4, <2>5, <3>1, <3>2, <3>3
  <2>6. CASE c \notin S
    <3>1. ~\E i \in 1..shown : L[i] = c
      BY <1>3, <1>4, <2>6
    <3>2. cursor # None /\ c \notin after(sort, cursor)
      BY <1>2, <2>1, <2>6
    <3>3. ~(n > Limit /\ Precedes(sort, last, c))
      <4> SUFFICES ASSUME n > Limit, Precedes(sort, last, c) PROVE FALSE
        OBVIOUS
      <4>1. last \in after(sort, cursor) /\ last \in Courses
        BY <1>2, <1>8, <3>2
      <4>2. Ahead(sort, cursor.key, cursor.id, KeyOf(sort, last), last)
        BY <1>1, <3>2, <4>1, PastTheCursor
      <4>3. Ahead(sort, KeyOf(sort, last), last, KeyOf(sort, c), c)
        BY <1>1, <2>1, <4>1, OneOrder
      <4>4. KeyOf(sort, c) \in Keys(sort) /\ c \in Nat /\ KeyOf(sort, last) \in Keys(sort)
            /\ last \in Nat /\ cursor.id \in Nat
        BY <1>1, <2>1, <3>2, <4>1, KeysFit
      <4>5. Ahead(sort, cursor.key, cursor.id, KeyOf(sort, c), c)
        BY <1>1, <3>2, <4>2, <4>3, <4>4, AheadIsAnOrder
      <4>6. c \in after(sort, cursor)
        BY <1>1, <2>1, <3>2, <4>5, PastTheCursor
      <4> QED BY <3>2, <4>6
    <3> QED BY <1>7, <2>1, <2>2, <2>3, <2>4, <2>6, <3>1, <3>3
  <2> QED BY <2>5, <2>6
<1>12. walk'.pc # "idle" /\ (walk'.pc = "walking" => steady' \subseteq Matching(walk.query)')
  <2>1. walk'.pc = "walking" => walk'.query = query
    BY <1>1, <1>7
  <2>2. Matching(query)' = Matching(query)
    BY <1>7, MatchingKept
  <2> QED BY <1>1, <1>7, <2>1, <2>2
<1> QED BY <1>9, <1>10, <1>11, <1>12 DEF WalkInv

\* A write moves nobody whose key it leaves alone.
LEMMA WriteInv ==
    ASSUME WalkInv, NEW c \in Courses, NEW row \in Row, Write(c, row)
    PROVE  WalkInv'
<1>1. /\ courseRow' = [courseRow EXCEPT ![c] = [row EXCEPT !.updatedAt = clock]]
      /\ edits' = edits + 1 /\ UNCHANGED <<clock, walk, served>>
      /\ steady' \subseteq steady /\ walk.pc # "done"
      /\ walk.pc = "walking" => \A d \in steady' :
            /\ KeyOf(walk.query.sort, d)' = KeyOf(walk.query.sort, d)
            /\ d \in Matching(walk.query)'
  BY DEF Write
<1>2. courseRow' \in [Courses -> Row]
  <2>1. [row EXCEPT !.updatedAt = clock] \in Row
    BY DEF WalkInv, StorefrontTypeOK, Row
  <2> QED BY <1>1, <2>1 DEF WalkInv, StorefrontTypeOK
<1>3. StorefrontTypeOK'
  BY <1>1, <1>2 DEF WalkInv, StorefrontTypeOK
<1>4. CursorFits'
  BY <1>1 DEF WalkInv, CursorFits
<1>5. SteadyServed'
  <2> SUFFICES ASSUME walk.pc = "walking", NEW d \in steady'
               PROVE  served[d] = IF Reached(d)' THEN 1 ELSE 0
    <3>1. walk.pc \in {"idle", "walking", "done"}
      BY DEF WalkInv, StorefrontTypeOK
    <3> QED BY <1>1, <3>1 DEF SteadyServed
  <2>1. PICK query, cursor : walk.query = query /\ walk.cursor = cursor
    OBVIOUS
  <2>2. KeyOf(query.sort, d)' = KeyOf(query.sort, d)
    BY <1>1, <2>1
  <2>3. d \in after(query.sort, cursor)' <=> d \in after(query.sort, cursor)
    BY <2>2 DEF after
  <2>4. served[d] = IF Reached(d) THEN 1 ELSE 0
    BY <1>1 DEF WalkInv, SteadyServed
  <2>5. Reached(d) <=> cursor # None /\ d \notin after(query.sort, cursor)
    BY <2>1 DEF Reached
  <2>6. Reached(d)' <=> cursor # None /\ d \notin after(query.sort, cursor)'
    BY <1>1, <2>1 DEF Reached
  <2> QED BY <2>3, <2>4, <2>5, <2>6
<1> QED BY <1>1, <1>3, <1>4, <1>5 DEF WalkInv

\* What the instructors write is a row.
LEMMA EditInv ==
    ASSUME WalkInv, NEW c \in Courses,
           \/ \E status \in {"DRAFT", "PUBLISHED"} : SetStatus(c, status)
           \/ \E price \in Prices : UpdatePricing(c, price)
           \/ \E traits \in SUBSET Traits : UpdateDetails(c, traits)
    PROVE  WalkInv'
<1>1. courseRow[c] \in Row /\ clock \in Nat
  BY DEF WalkInv, StorefrontTypeOK
<1>2. CASE \E status \in {"DRAFT", "PUBLISHED"} : SetStatus(c, status)
  <2>1. PICK status \in {"DRAFT", "PUBLISHED"} : SetStatus(c, status)
    BY <1>2
  <2> DEFINE row == [courseRow[c] EXCEPT !.status = status,
                 !.publishedAt = IF status = "PUBLISHED" /\ @ = None THEN clock ELSE @]
  <2>2. row \in Row
    BY <1>1 DEF Row, CourseStatuses
  <2>3. Write(c, row)
    BY <2>1 DEF SetStatus
  <2> QED BY <2>2, <2>3, WriteInv
<1>3. CASE \E price \in Prices : UpdatePricing(c, price)
  <2>1. PICK price \in Prices : UpdatePricing(c, price)
    BY <1>3
  <2>2. [courseRow[c] EXCEPT !.priceMinor = price] \in Row
    BY <1>1, StorefrontAssumption DEF Row, StorefrontAssumption
  <2> QED BY <2>1, <2>2, WriteInv DEF UpdatePricing
<1>4. CASE \E traits \in SUBSET Traits : UpdateDetails(c, traits)
  <2>1. PICK traits \in SUBSET Traits : UpdateDetails(c, traits)
    BY <1>4
  <2>2. [courseRow[c] EXCEPT !.traits = traits] \in Row
    BY <1>1 DEF Row
  <2> QED BY <2>1, <2>2, WriteInv DEF UpdateDetails
<1> QED BY <1>2, <1>3, <1>4

\* Every step of the storefront keeps the walk.
LEMMA WalkSteps == WalkInv /\ [StorefrontNext]_storefront => WalkInv'
<1> SUFFICES ASSUME WalkInv, [StorefrontNext]_storefront PROVE WalkInv'
  OBVIOUS
<1>1. ASSUME UNCHANGED <<courseRow, edits, walk, served, steady>>, clock' \in Nat PROVE WalkInv'
  <2>1. StorefrontTypeOK' /\ CursorFits'
    BY <1>1 DEF WalkInv, StorefrontTypeOK, CursorFits
  <2>2. SteadyServed'
    BY <1>1 DEF WalkInv, SteadyServed, Reached, after, KeyOf, Selected
  <2>3. Matching(walk.query)' = Matching(walk.query)
    <3>1. PICK query : walk.query = query
      OBVIOUS
    <3>2. Matching(query)' = Matching(query) /\ walk'.query = query
      BY <1>1, <3>1, MatchingKept
    <3> QED BY <1>1, <3>1, <3>2
  <2> QED BY <1>1, <2>1, <2>2, <2>3 DEF WalkInv
<1>2. CASE UNCHANGED storefront
  BY <1>1, <1>2 DEF storefront, WalkInv, StorefrontTypeOK
<1>3. CASE Tick
  BY <1>1, <1>3 DEF Tick, WalkInv, StorefrontTypeOK
<1>4. CASE NextPage
  BY <1>4, PageInv
<1>5. ASSUME NEW query \in Queries, Ask(query) PROVE WalkInv'
  BY <1>5, AskInv
<1> QED BY <1>2, <1>3, <1>4, <1>5, EditInv DEF StorefrontNext

\* Whatever a walk asks for, its cursor is one of its sort, and what it is shown
\* are courses.
THEOREM StorefrontTypes == StorefrontSpec => []WalkInv
<1> QED BY WalkStarts, WalkSteps, PTL DEF StorefrontSpec

\* A listed course is one whose page its visitor may open.
LEMMA ListedIsVisible ==
    ASSUME NEW query \in Queries, NEW c \in Courses, c \in Matching(query)
    PROVE  findBySlug(c, query.viewer) = {c}
<1>1. c \in visibleTo(query.viewer)
  <2>1. CASE query.mine
    <3>1. query.viewer \notin {"anonymous", "admin"}
      BY <2>1 DEF Queries
    <3>2. c \in byInstructor(query.viewer)
      BY <2>1 DEF Matching, and
    <3> QED BY <3>1, <3>2 DEF visibleTo, or
  <2>2. CASE ~query.mine
    BY <2>2 DEF Matching, and
  <2> QED BY <2>1, <2>2
<1> QED BY <1>1 DEF findBySlug, and

\* For any number of courses, any pages, sorts and filters, and any writes
\* meanwhile: a course that keeps its place is served once when the walk has
\* passed it and not before, and nothing is listed that cannot be opened.
THEOREM WalksAreExact == StorefrontSpec => []WalkIsExact
<1>1. WalkInv => WalkIsExact
  <2> SUFFICES ASSUME WalkInv, walk.pc # "idle"
               PROVE  /\ \A c \in steady : served[c] = IF Reached(c) THEN 1 ELSE 0
                      /\ walk.pc = "walking" =>
                          \A c \in ToSet(Found(walk.query, walk.cursor)) :
                              findBySlug(c, walk.query.viewer) = {c}
    BY DEF WalkIsExact
  <2>1. \A c \in steady : served[c] = IF Reached(c) THEN 1 ELSE 0
    BY DEF WalkInv, SteadyServed
  <2>2. ASSUME walk.pc = "walking", NEW c \in ToSet(Found(walk.query, walk.cursor))
        PROVE  findBySlug(c, walk.query.viewer) = {c}
    <3>1. walk.query \in Queries /\ walk.query.sort \in Sorts /\ RowsOK
      BY <2>2 DEF WalkInv, StorefrontTypeOK, Queries, Sorts, RowsOK
    <3>2. PICK S \in SUBSET Courses :
              /\ Found(walk.query, walk.cursor) = Sorted(walk.query.sort, S)
              /\ \A d \in Courses : d \in S => d \in Matching(walk.query)
      BY FoundIs
    <3>3. Sorted(walk.query.sort, S) \in [1..Cardinality(S) -> S]
      BY <3>1, SortedListsAll
    <3>4. c \in S
      BY <2>2, <3>2, <3>3 DEF ToSet
    <3> QED BY <3>1, <3>2, <3>4, ListedIsVisible
  <2> QED BY <2>1, <2>2
<1> QED BY <1>1, StorefrontTypes, PTL

-----------------------------------------------------------------------------
(* Sums: how the units of some amounts are counted.                        *)

\* What holds of no lines, and of some lines and one more, holds of all of them.
LEMMA OneByOne ==
    ASSUME NEW D, IsFiniteSet(D), NEW Fine, {} \in Fine,
           \A S \in SUBSET D : \A x \in D \ S : S \in Fine => S \cup {x} \in Fine
    PROVE  D \in Fine
<1> SUFFICES ASSUME D \notin Fine PROVE FALSE
  OBVIOUS
<1> DEFINE Odd == {S \in SUBSET D : S \notin Fine}
           N == {n \in Nat : \E S \in Odd : Cardinality(S) = n}
           R == OpToRel(<, Nat)
<1>1. \A S \in SUBSET D : IsFiniteSet(S) /\ Cardinality(S) \in Nat
  BY FS_Subset, FS_CardinalityType
<1>2. N # {} /\ N \subseteq Nat
  <2>1. D \in Odd
    OBVIOUS
  <2> QED BY <1>1, <2>1
<1>3. PICK n \in N : \A m \in N : <<m, n>> \notin R
  <2> HIDE DEF R, N
  <2>1. IsWellFoundedOn(R, Nat)
    BY NatLessThanWellFounded DEF R
  <2> QED BY <1>2, <2>1, WFMin
<1>4. PICK S \in Odd : Cardinality(S) = n
  OBVIOUS
<1>5. PICK x \in S : TRUE
  BY <1>4
<1>6. S \ {x} \in SUBSET D /\ Cardinality(S \ {x}) = n - 1 /\ n - 1 \in Nat
  <2>1. Cardinality(S \ {x}) = Cardinality(S) - 1
    BY <1>1, <1>4, <1>5, FS_RemoveElement
  <2>2. Cardinality(S \ {x}) \in Nat
    BY <1>1, <1>4
  <2> QED BY <1>4, <2>1, <2>2
<1>7. S \ {x} \in Fine
  <2> SUFFICES ASSUME S \ {x} \notin Fine PROVE FALSE
    OBVIOUS
  <2>1. n - 1 \in N
    BY <1>6
  <2>2. <<n - 1, n>> \in R
    BY <1>2, <1>6 DEF OpToRel
  <2> QED BY <1>3, <2>1, <2>2
<1>8. (S \ {x}) \cup {x} = S /\ x \in D \ (S \ {x})
  BY <1>4, <1>5
<1> QED BY <1>4, <1>6, <1>7, <1>8

\* The amounts of some of the lines.
Only(f, S) == [i \in S |-> f[i]]

\* One more line adds its amount.
LEMMA OneMore ==
    ASSUME NEW f, NEW S, NEW x, x \notin S, f[x] \in Nat, IsFiniteSet(Units(Only(f, S)))
    PROVE  /\ IsFiniteSet(Units(Only(f, S \cup {x})))
           /\ Sum(Only(f, S \cup {x})) = Sum(Only(f, S)) + f[x]
<1> DEFINE U == Units(Only(f, S))
           V == {x} \X (1..f[x])
           g == [n \in 1..f[x] |-> <<x, n>>]
<1>0. PICK amount \in Nat : amount = f[x]
  OBVIOUS
<1>1. Units(Only(f, S \cup {x})) = U \cup V
  BY DEF Units, Only
<1>2. U \cap V = {}
  BY DEF Units, Only
<1>3. g \in Bijection(1..f[x], V)
  <2>1. g \in [1..f[x] -> V] /\ \A a, b \in 1..f[x] : g[a] = g[b] => a = b
    OBVIOUS
  <2>2. \A y \in V : \E a \in 1..f[x] : g[a] = y
    OBVIOUS
  <2> HIDE DEF g, V
  <2> QED BY <2>1, <2>2 DEF Bijection, Injection, Surjection, IsInjective
<1>4. IsFiniteSet(1..f[x]) /\ Cardinality(1..f[x]) = f[x]
  <2>1. IsFiniteSet(1..amount) /\ Cardinality(1..amount) = amount
    BY FS_Interval
  <2> QED BY <1>0, <2>1
<1>5. IsFiniteSet(V) /\ Cardinality(V) = f[x]
  BY <1>3, <1>4, FS_Bijection DEF ExistsBijection
<1> HIDE DEF U, V
<1>6. IsFiniteSet(U \cup V) /\ Cardinality(U \cup V) = Cardinality(U) + Cardinality(V) - Cardinality(U \cap V)
  BY <1>5, FS_Union DEF U
<1>7. Cardinality(U \cap V) = 0 /\ Cardinality(U) \in Nat
  BY <1>2, FS_EmptySet, FS_CardinalityType DEF U
<1>8. Cardinality(U \cup V) = Cardinality(U) + f[x]
  BY <1>5, <1>6, <1>7
<1>9. Units(Only(f, S)) = U
  BY DEF U
<1> HIDE DEF Only
<1> QED BY <1>1, <1>6, <1>8, <1>9 DEF Sum

\* No lines have no units.
LEMMA NoLines == ASSUME NEW f PROVE Units(Only(f, {})) = {} /\ Sum(Only(f, {})) = 0
<1>1. Units(Only(f, {})) = {}
  BY DEF Units, Only
<1> QED BY <1>1, FS_EmptySet DEF Sum

\* A finite list of amounts has a sum.
LEMMA SumIsNat ==
    ASSUME NEW D, IsFiniteSet(D), NEW f \in [D -> Nat]
    PROVE  IsFiniteSet(Units(f)) /\ Sum(f) \in Nat
<1> DEFINE Fine == {S \in SUBSET D : IsFiniteSet(Units(Only(f, S)))}
<1>1. {} \in Fine
  BY NoLines, FS_EmptySet
<1>2. ASSUME NEW S \in SUBSET D, NEW x \in D \ S, S \in Fine PROVE S \cup {x} \in Fine
  BY <1>2, OneMore
<1> HIDE DEF Fine
<1>3. D \in Fine
  BY <1>1, <1>2, OneByOne
<1>4. Only(f, D) = f
  BY DEF Only
<1>5. IsFiniteSet(Units(f))
  BY <1>3, <1>4 DEF Fine
<1> QED BY <1>5, FS_CardinalityType DEF Sum

\* What holds of each amount holds of their sums.
Linear(D, a, f, b, g, h) ==
    /\ a \in Nat /\ b \in Nat /\ f \in [D -> Nat] /\ g \in [D -> Nat] /\ h \in [D -> Nat]
    /\ \A i \in D : a * f[i] = b * g[i] + h[i]

LEMMA SumIsLinear ==
    ASSUME NEW D, IsFiniteSet(D), NEW f, NEW g, NEW h, NEW a, NEW b, Linear(D, a, f, b, g, h)
    PROVE  a * Sum(f) = b * Sum(g) + Sum(h)
<1> DEFINE Fine == {S \in SUBSET D :
              a * Sum(Only(f, S)) = b * Sum(Only(g, S)) + Sum(Only(h, S))}
<1>0. a \in Nat /\ b \in Nat /\ f \in [D -> Nat] /\ g \in [D -> Nat] /\ h \in [D -> Nat]
  BY DEF Linear
<1>1. {} \in Fine
  BY <1>0, NoLines
<1>2. ASSUME NEW S \in SUBSET D, NEW x \in D \ S, S \in Fine PROVE S \cup {x} \in Fine
  <2>1. /\ IsFiniteSet(Units(Only(f, S))) /\ IsFiniteSet(Units(Only(g, S)))
        /\ IsFiniteSet(Units(Only(h, S)))
        /\ Sum(Only(f, S)) \in Nat /\ Sum(Only(g, S)) \in Nat /\ Sum(Only(h, S)) \in Nat
    <3>1. IsFiniteSet(S) /\ Only(f, S) \in [S -> Nat] /\ Only(g, S) \in [S -> Nat]
          /\ Only(h, S) \in [S -> Nat]
      BY <1>0, FS_Subset DEF Only
    <3> QED BY <3>1, SumIsNat
  <2>2. /\ Sum(Only(f, S \cup {x})) = Sum(Only(f, S)) + f[x]
        /\ Sum(Only(g, S \cup {x})) = Sum(Only(g, S)) + g[x]
        /\ Sum(Only(h, S \cup {x})) = Sum(Only(h, S)) + h[x]
    BY <1>0, <2>1, OneMore
  <2>3. PICK p \in Nat, q \in Nat, r \in Nat :
           p = Sum(Only(f, S)) /\ q = Sum(Only(g, S)) /\ r = Sum(Only(h, S))
    BY <2>1
  <2>4. PICK u \in Nat, v \in Nat, w \in Nat : u = f[x] /\ v = g[x] /\ w = h[x]
    BY <1>0
  <2>5. a * p = b * q + r /\ a * u = b * v + w
    BY <1>2, <2>3, <2>4 DEF Linear
  <2>6. \A k, m, n \in Nat : k * (m + n) = k * m + k * n /\ k * m \in Nat
    OBVIOUS
  <2>7. a * (p + u) = a * p + a * u /\ b * (q + v) = b * q + b * v
        /\ a * p \in Nat /\ a * u \in Nat /\ b * q \in Nat /\ b * v \in Nat
    BY <1>0, <2>6
  <2>8. a * (p + u) = b * (q + v) + (r + w)
    BY <2>5, <2>7
  <2> QED BY <2>2, <2>3, <2>4, <2>8
<1> HIDE DEF Fine
<1>3. D \in Fine
  BY <1>1, <1>2, OneByOne
<1>4. Only(f, D) = f /\ Only(g, D) = g /\ Only(h, D) = h
  BY <1>0 DEF Only
<1> QED BY <1>3, <1>4 DEF Fine

\* A unit for each of some lines.
Mark(D, S) == [i \in D |-> IF i \in S THEN 1 ELSE 0]

\* Marks sum to how many lines have one.
LEMMA SumOfMarks ==
    ASSUME NEW D, IsFiniteSet(D), NEW S, S \subseteq D
    PROVE  Mark(D, S) \in [D -> Nat] /\ Sum(Mark(D, S)) = Cardinality(S)
<1> DEFINE U == Units(Mark(D, S))
           g == [i \in S |-> <<i, 1>>]
<1>1. U = {<<i, 1>> : i \in S}
  <2>1. \A i \in D : 1..Mark(D, S)[i] = IF i \in S THEN {1} ELSE {}
    <3> TAKE i \in D
    <3>1. 1..1 = {1} /\ 1..0 = {}
      OBVIOUS
    <3>2. Mark(D, S)[i] = IF i \in S THEN 1 ELSE 0
      BY DEF Mark
    <3> QED BY <3>1, <3>2
  <2>2. DOMAIN Mark(D, S) = D
    BY DEF Mark
  <2>3. U = UNION {{i} \X (1..Mark(D, S)[i]) : i \in D}
    BY <2>2 DEF Units
  <2>4. \A i \in D \ S : {i} \X (1..Mark(D, S)[i]) = {}
    BY <2>1
  <2>5. \A i \in S : {i} \X (1..Mark(D, S)[i]) = {<<i, 1>>}
    <3> TAKE i \in S
    <3>1. 1..Mark(D, S)[i] = {1}
      BY <2>1
    <3> QED BY <3>1
  <2> QED BY <2>3, <2>4, <2>5
<1>2. g \in Bijection(S, U)
  BY <1>1 DEF Bijection, Injection, Surjection, IsInjective
<1>3. IsFiniteSet(S)
  BY FS_Subset
<1>4. Cardinality(U) = Cardinality(S)
  BY <1>2, <1>3, FS_Bijection DEF ExistsBijection
<1> QED BY <1>4 DEF Sum, Mark

\* Lines that bear nothing do not count.
LEMMA SumOfRest ==
    ASSUME NEW D, NEW S, S \subseteq D, NEW f, DOMAIN f = D, \A i \in D \ S : f[i] = 0
    PROVE  Sum(f) = Sum(Only(f, S))
<1>1. Units(f) = Units(Only(f, S))
  <2>1. \A i \in D \ S : {i} \X (1..f[i]) = {}
    OBVIOUS
  <2>2. DOMAIN Only(f, S) = S /\ \A i \in S : Only(f, S)[i] = f[i]
    BY DEF Only
  <2>3. Units(f) = UNION {{i} \X (1..f[i]) : i \in D}
    BY DEF Units
  <2>4. Units(Only(f, S)) = UNION {{i} \X (1..f[i]) : i \in S}
    BY <2>2 DEF Units
  <2> QED BY <2>1, <2>3, <2>4
<1> QED BY <1>1 DEF Sum

\* Lines that bear nothing sum to nothing.
LEMMA SumOfNothing ==
    ASSUME NEW D, NEW f, DOMAIN f = D, \A i \in D : f[i] = 0
    PROVE  Sum(f) = 0
<1>1. Sum(f) = Sum(Only(f, {}))
  BY SumOfRest
<1> QED BY <1>1, NoLines

-----------------------------------------------------------------------------
(* Allocation: the shares of a discount sum to it.                         *)

\* The first turns of a round go to as many lines.
LEMMA FirstTurns ==
    ASSUME NEW F, IsFiniteSet(F), NEW R, NEW left \in Nat, left <= Cardinality(F),
           \A x \in F : <<x, x>> \notin R,
           \A x, y, z \in F : <<x, y>> \in R /\ <<y, z>> \in R => <<x, z>> \in R,
           \A x, y \in F : x = y \/ <<x, y>> \in R \/ <<y, x>> \in R
    PROVE  Cardinality({x \in F : Ranks(F, R)[x] < left}) = left
<1> DEFINE T == {x \in F : Ranks(F, R)[x] < left}
           turn == [x \in T |-> Ranks(F, R)[x] + 1]
<1>1. /\ \A x \in F : Ranks(F, R)[x] \in Nat
      /\ \A x, y \in F : <<x, y>> \in R <=> Ranks(F, R)[x] < Ranks(F, R)[y]
      /\ \A i \in 1..Cardinality(F) : \E x \in F : Ranks(F, R)[x] = i - 1
      /\ Cardinality(F) \in Nat
  BY RanksCount
<1>2. turn \in [T -> 1..left]
  BY <1>1
<1>3. \A x, y \in T : turn[x] = turn[y] => x = y
  <2> TAKE x, y \in T
  <2>1. Ranks(F, R)[x] \in Nat /\ Ranks(F, R)[y] \in Nat
    BY <1>1
  <2>2. x = y \/ Ranks(F, R)[x] < Ranks(F, R)[y] \/ Ranks(F, R)[y] < Ranks(F, R)[x]
    BY <1>1
  <2> QED BY <2>1, <2>2
<1>4. \A i \in 1..left : \E x \in T : turn[x] = i
  <2> TAKE i \in 1..left
  <2>1. PICK x \in F : Ranks(F, R)[x] = i - 1
    BY <1>1
  <2>2. x \in T /\ turn[x] = i
    BY <2>1
  <2> QED BY <2>2
<1> HIDE DEF turn
<1>5. turn \in Bijection(T, 1..left)
  BY <1>2, <1>3, <1>4 DEF Bijection, Injection, Surjection, IsInjective
<1>6. IsFiniteSet(T)
  BY FS_Subset
<1>7. Cardinality(1..left) = left
  BY FS_Interval
<1> QED BY <1>5, <1>6, <1>7, FS_Bijection DEF ExistsBijection

\* A share rounded down is no more than its line, and exact when it is its line.
LEMMA ShareOfLine ==
    ASSUME NEW amount \in Nat, NEW capped \in Nat, NEW subtotal \in Nat \ {0}, capped <= subtotal
    PROVE  LET share == (amount * capped) \div subtotal
               rest == (amount * capped) % subtotal
           IN  /\ share \in 0..amount /\ rest \in 0..subtotal - 1
               /\ capped * amount = subtotal * share + rest
               /\ share = amount => rest = 0
<1>1. amount * capped \in Nat
  OBVIOUS
<1>2. \A a \in Nat, b \in Nat \ {0} : \E q \in Nat, r \in 0..b - 1 :
         q = a \div b /\ r = a % b /\ a = b * q + r
  BY Z3
<1>3. PICK q \in Nat, r \in 0..subtotal - 1 :
         /\ q = (amount * capped) \div subtotal /\ r = (amount * capped) % subtotal
         /\ amount * capped = subtotal * q + r
  BY <1>1, <1>2
<1>4. amount * capped <= subtotal * amount
  OBVIOUS
<1>5. q <= amount
  <2> SUFFICES ASSUME amount + 1 <= q PROVE FALSE
    OBVIOUS
  <2>1. subtotal * (amount + 1) <= subtotal * q
    OBVIOUS
  <2>2. subtotal * (amount + 1) = subtotal * amount + subtotal
    OBVIOUS
  <2>3. subtotal * amount \in Nat /\ subtotal * q \in Nat
    OBVIOUS
  <2> QED BY <1>1, <1>3, <1>4, <2>1, <2>2, <2>3
<1>6. q = amount => r = 0
  <2>1. subtotal * amount \in Nat
    OBVIOUS
  <2> QED BY <1>1, <1>3, <1>4, <2>1
<1>7. capped * amount = amount * capped
  OBVIOUS
<1> QED BY <1>3, <1>5, <1>6, <1>7

\* Lines that lost a unit or less each left no more units than they are.
LEMMA LossIsSmall ==
    ASSUME NEW s \in Nat \ {0}, NEW c \in Nat, NEW q \in Nat, NEW lost \in Nat, NEW slack \in Nat,
           NEW n \in Nat, c * s = s * q + lost, s * n = lost + slack
    PROVE  c - q \in Nat /\ c - q <= n
<1>1. c * s \in Nat /\ s * q \in Nat /\ s * n \in Nat
  OBVIOUS
<1>2. q <= c
  <2> SUFFICES ASSUME c + 1 <= q PROVE FALSE
    OBVIOUS
  <2>1. s * (c + 1) <= s * q /\ s * (c + 1) = c * s + s
    OBVIOUS
  <2> QED BY <1>1, <2>1
<1>3. PICK left \in Nat : c = q + left
  <2>1. c - q \in Nat /\ c = q + (c - q)
    BY <1>2
  <2> QED BY <2>1
<1>4. s * left = lost
  <2>1. c * s = s * q + s * left /\ s * left \in Nat
    BY <1>3
  <2> QED BY <1>1, <2>1
<1>5. left <= n
  <2> SUFFICES ASSUME n + 1 <= left PROVE FALSE
    OBVIOUS
  <2>1. s * (n + 1) <= s * left /\ s * (n + 1) = s * n + s
    OBVIOUS
  <2> QED BY <1>1, <1>4, <2>1
<1> QED BY <1>3, <1>5

\* Shares of c in proportion to the amounts, and what rounding them down lost.
Shared(D, amounts, s, c, shares, rest) ==
    /\ Linear(D, c, amounts, s, shares, rest)
    /\ \A i \in D : /\ rest[i] < s /\ shares[i] <= amounts[i]
                    /\ shares[i] = amounts[i] => rest[i] = 0

\* What rounding left over is less than a unit for each line with room.
LEMMA LeftOverFits ==
    ASSUME NEW D, IsFiniteSet(D), NEW amounts, NEW s \in Nat \ {0}, s = Sum(amounts),
           NEW c, NEW shares, NEW rest, Shared(D, amounts, s, c, shares, rest)
    PROVE  /\ c - Sum(shares) \in Nat
           /\ c - Sum(shares) <= Cardinality({i \in D : shares[i] < amounts[i]})
<1> DEFINE open == {i \in D : shares[i] < amounts[i]}
           mark == Mark(D, open)
           slack == [i \in D |-> s * mark[i] - rest[i]]
<1>1. /\ Linear(D, c, amounts, s, shares, rest) /\ c \in Nat
      /\ amounts \in [D -> Nat] /\ shares \in [D -> Nat] /\ rest \in [D -> Nat]
  BY DEF Shared, Linear
<1>2. open \subseteq D /\ IsFiniteSet(open) /\ Cardinality(open) \in Nat
  BY FS_Subset, FS_CardinalityType
<1>3. mark \in [D -> Nat] /\ Sum(mark) = Cardinality(open)
  BY <1>2, SumOfMarks
<1>4. \A i \in D : mark[i] = IF shares[i] < amounts[i] THEN 1 ELSE 0
  BY DEF Mark
<1> HIDE DEF mark, open
<1>5. ASSUME NEW i \in D
      PROVE  slack[i] \in Nat /\ s * mark[i] = 1 * rest[i] + slack[i]
  <2>1. slack[i] = s * mark[i] - rest[i]
    OBVIOUS
  <2>2. rest[i] \in Nat /\ rest[i] < s /\ shares[i] \in Nat /\ amounts[i] \in Nat
    BY <1>1 DEF Shared
  <2> HIDE DEF slack
  <2>3. CASE shares[i] < amounts[i]
    <3>1. mark[i] = 1
      BY <1>4, <2>3
    <3> QED BY <2>1, <2>2, <3>1
  <2>4. CASE ~(shares[i] < amounts[i])
    <3>1. mark[i] = 0 /\ shares[i] = amounts[i]
      BY <1>4, <2>2, <2>4 DEF Shared
    <3>2. rest[i] = 0
      BY <3>1 DEF Shared
    <3> QED BY <2>1, <3>1, <3>2
  <2> QED BY <2>3, <2>4
<1>6. Linear(D, s, mark, 1, rest, slack)
  BY <1>1, <1>3, <1>5 DEF Linear
<1> HIDE DEF slack
<1>7. /\ c * Sum(amounts) = s * Sum(shares) + Sum(rest)
      /\ s * Sum(mark) = 1 * Sum(rest) + Sum(slack)
  BY <1>1, <1>6, SumIsLinear
<1>8. Sum(shares) \in Nat /\ Sum(rest) \in Nat /\ Sum(slack) \in Nat
  <2>1. slack \in [D -> Nat]
    BY <1>6 DEF Linear
  <2> QED BY <1>1, <2>1, SumIsNat
<1>9. PICK q \in Nat, lost \in Nat, spare \in Nat, n \in Nat :
         q = Sum(shares) /\ lost = Sum(rest) /\ spare = Sum(slack) /\ n = Cardinality(open)
  BY <1>2, <1>8
<1>10. c * s = s * q + lost /\ s * n = lost + spare
  BY <1>3, <1>7, <1>9
<1>11. c - q \in Nat /\ c - q <= n
  BY <1>1, <1>10, LossIsSmall
<1> QED BY <1>9, <1>11 DEF open

\* Shares with room for what is left over.
Room(D, amounts, shares, left) ==
    /\ amounts \in [D -> Nat] /\ shares \in [D -> Nat] /\ \A i \in D : shares[i] <= amounts[i]
    /\ left \in Nat /\ left <= Cardinality({i \in D : shares[i] < amounts[i]})

\* Shares of a total, none more than its line.
Spread(D, amounts, shares, total) ==
    shares \in [D -> Nat] /\ (\A i \in D : shares[i] <= amounts[i]) /\ Sum(shares) = total

\* One round hands out what is left, no line over its amount.
LEMMA HandedOut ==
    ASSUME NEW D, D \subseteq Nat, IsFiniteSet(D), NEW amounts, NEW shares, NEW left,
           Room(D, amounts, shares, left)
    PROVE  Spread(D, amounts, HandOut(shares, amounts, left), Sum(shares) + left)
<1> DEFINE open == {i \in D : shares[i] < amounts[i]}
           R == {p \in open \X open : LargestFirst(amounts, p[1], p[2])}
           T == {i \in open : Ranks(open, R)[i] < left}
           handed == HandOut(shares, amounts, left)
<1>1. /\ amounts \in [D -> Nat] /\ shares \in [D -> Nat] /\ \A i \in D : shares[i] <= amounts[i]
      /\ left \in Nat
  BY DEF Room
<1>2. open \subseteq D /\ IsFiniteSet(open)
  BY FS_Subset
<1>3. \A x \in open : x \in Nat /\ amounts[x] \in Nat
  BY <1>1, <1>2
<1>4. \A x, y \in open : <<x, y>> \in R <=>
         amounts[x] > amounts[y] \/ (amounts[x] = amounts[y] /\ x < y)
  BY DEF LargestFirst
<1>5. open = {i \in DOMAIN amounts : shares[i] < amounts[i]} /\ DOMAIN amounts = D
  BY <1>1
<1>6. handed = [i \in DOMAIN amounts |->
          IF i \in open /\ Cardinality({j \in open : LargestFirst(amounts, j, i)}) < left
          THEN shares[i] + 1 ELSE shares[i]]
  BY <1>5 DEF HandOut
<1>7. \A i \in open : Ranks(open, R)[i] = Cardinality({j \in open : LargestFirst(amounts, j, i)})
  <2>1. \A i \in open : {j \in open : LargestFirst(amounts, j, i)} = {j \in open : <<j, i>> \in R}
    OBVIOUS
  <2> QED BY <2>1 DEF Ranks
<1>8. left <= Cardinality(open) /\ left \in Nat
  BY DEF Room
<1>9. \A i \in open : shares[i] < amounts[i]
  OBVIOUS
<1> HIDE DEF handed, R, open
<1>10. Cardinality(T) = left /\ T \subseteq open
  <2>1. \A x \in open : <<x, x>> \notin R
    BY <1>3, <1>4
  <2>2. \A x, y, z \in open : <<x, y>> \in R /\ <<y, z>> \in R => <<x, z>> \in R
    <3> TAKE x, y, z \in open
    <3> QED BY <1>3, <1>4
  <2>3. \A x, y \in open : x = y \/ <<x, y>> \in R \/ <<y, x>> \in R
    <3> TAKE x, y \in open
    <3>1. x \in Nat /\ y \in Nat /\ amounts[x] \in Nat /\ amounts[y] \in Nat
      BY <1>3
    <3>2. \/ amounts[x] > amounts[y] \/ amounts[y] > amounts[x]
          \/ (amounts[x] = amounts[y] /\ x < y) \/ (amounts[y] = amounts[x] /\ y < x) \/ x = y
      BY <3>1
    <3> QED BY <1>4, <3>2
  <2> QED BY <1>2, <1>8, <2>1, <2>2, <2>3, FirstTurns
<1>11. \A i \in D : handed[i] = IF i \in T THEN shares[i] + 1 ELSE shares[i]
  BY <1>5, <1>6, <1>7
<1>12. handed = [i \in D |-> handed[i]]
  BY <1>5, <1>6
<1> HIDE DEF T
<1>13. \A i \in D : handed[i] \in Nat /\ handed[i] <= amounts[i]
  <2> TAKE i \in D
  <2>1. shares[i] \in Nat /\ amounts[i] \in Nat /\ shares[i] <= amounts[i]
    BY <1>1
  <2>2. i \in T => shares[i] < amounts[i]
    BY <1>9, <1>10
  <2> QED BY <1>11, <2>1, <2>2
<1>14. handed \in [D -> Nat]
  BY <1>12, <1>13
<1>15. Sum(handed) = Sum(shares) + left
  <2>1. T \subseteq D
    BY <1>2, <1>10
  <2>2. Mark(D, T) \in [D -> Nat] /\ Sum(Mark(D, T)) = left
    BY <1>10, <2>1, SumOfMarks
  <2>3. \A i \in D : 1 * handed[i] = 1 * shares[i] + Mark(D, T)[i]
    <3> TAKE i \in D
    <3>1. Mark(D, T)[i] = IF i \in T THEN 1 ELSE 0
      BY DEF Mark
    <3>2. shares[i] \in Nat
      BY <1>1
    <3> QED BY <1>11, <3>1, <3>2
  <2>4. Linear(D, 1, handed, 1, shares, Mark(D, T))
    BY <1>1, <1>14, <2>2, <2>3 DEF Linear
  <2>5. 1 * Sum(handed) = 1 * Sum(shares) + Sum(Mark(D, T))
    BY <2>4, SumIsLinear
  <2>6. Sum(handed) \in Nat /\ Sum(shares) \in Nat
    BY <1>1, <1>14, SumIsNat
  <2> QED BY <1>1, <2>2, <2>5, <2>6
<1> QED BY <1>13, <1>14, <1>15 DEF handed, Spread

\* The shares, rounded down.
Portions(D, amounts, s, c) == [i \in D |-> (amounts[i] * c) \div s]

\* allocateDiscount, past its early return: nothing is left after one round.
LEMMA RoundIsEnough ==
    ASSUME NEW D, D \subseteq Nat, IsFiniteSet(D), NEW amounts \in [D -> Nat],
           NEW s \in Nat \ {0}, s = Sum(amounts), NEW capped \in Nat, capped <= s
    PROVE  LET shares == Portions(D, amounts, s, capped)
           IN  Spread(D, amounts, HandOut(shares, amounts, capped - Sum(shares)), capped)
<1> DEFINE shares == Portions(D, amounts, s, capped)
           rest == [i \in D |-> (amounts[i] * capped) % s]
<1>1. ASSUME NEW i \in D
      PROVE  /\ shares[i] \in Nat /\ rest[i] \in Nat /\ rest[i] < s /\ shares[i] <= amounts[i]
             /\ capped * amounts[i] = s * shares[i] + rest[i]
             /\ shares[i] = amounts[i] => rest[i] = 0
  <2>1. PICK a \in Nat : a = amounts[i]
    OBVIOUS
  <2>2. shares[i] = (a * capped) \div s /\ rest[i] = (a * capped) % s
    BY <2>1 DEF Portions
  <2>3. /\ (a * capped) \div s \in 0..a /\ (a * capped) % s \in 0..s - 1
        /\ capped * a = s * ((a * capped) \div s) + ((a * capped) % s)
        /\ (a * capped) \div s = a => (a * capped) % s = 0
    BY ShareOfLine
  <2> HIDE DEF shares, rest
  <2>4. PICK x \in 0..a, y \in 0..s - 1 : x = (a * capped) \div s /\ y = (a * capped) % s
    BY <2>3
  <2> QED BY <2>1, <2>2, <2>3, <2>4
<1>2. DOMAIN shares = D /\ shares = [i \in D |-> shares[i]]
  BY DEF Portions
<1> HIDE DEF shares
<1>3. shares \in [D -> Nat] /\ rest \in [D -> Nat]
  BY <1>1, <1>2
<1> HIDE DEF rest
<1>4. Shared(D, amounts, s, capped, shares, rest)
  BY <1>1, <1>3 DEF Shared, Linear
<1>5. Sum(shares) \in Nat
  BY <1>3, SumIsNat
<1>6. /\ capped - Sum(shares) \in Nat
      /\ capped - Sum(shares) <= Cardinality({i \in D : shares[i] < amounts[i]})
  BY <1>4, LeftOverFits
<1>7. Room(D, amounts, shares, capped - Sum(shares))
  BY <1>1, <1>3, <1>6 DEF Room
<1>8. Spread(D, amounts, HandOut(shares, amounts, capped - Sum(shares)), Sum(shares) + (capped - Sum(shares)))
  BY <1>7, HandedOut
<1>9. Sum(shares) + (capped - Sum(shares)) = capped
  BY <1>5
<1> QED BY <1>8, <1>9 DEF shares

\* A discount is clamped to what it is taken off.
LEMMA ClampIs ==
    ASSUME NEW discount \in Nat, NEW subtotal \in Nat
    PROVE  clampDiscount(discount, subtotal) = IF discount <= subtotal THEN discount ELSE subtotal
<1>1. Min({discount, subtotal}) = IF discount <= subtotal THEN discount ELSE subtotal
  BY DEF Min
<1>2. \A n \in Nat : Max({0, n}) = n
  BY DEF Max
<1> QED BY <1>1, <1>2 DEF clampDiscount

\* allocateDiscount: the shares sum to the discount, or to the whole subtotal.
LEMMA AllocationIsExact ==
    ASSUME NEW D, D \subseteq Nat, IsFiniteSet(D), NEW amounts \in [D -> Nat], NEW discount \in Nat
    PROVE  Spread(D, amounts, allocateDiscount(amounts, discount),
                  IF discount <= Sum(amounts) THEN discount ELSE Sum(amounts))
<1>1. PICK s \in Nat : s = Sum(amounts)
  BY SumIsNat
<1>2. CASE s <= 0 \/ discount <= 0
  <2>1. allocateDiscount(amounts, discount) = [i \in D |-> 0]
    BY <1>1, <1>2 DEF allocateDiscount
  <2>2. Sum([i \in D |-> 0]) = 0
    BY SumOfNothing
  <2> QED BY <1>1, <1>2, <2>1, <2>2 DEF Spread
<1>3. CASE s > 0 /\ discount > 0
  <2>1. PICK capped \in Nat : /\ capped = clampDiscount(discount, s) /\ capped <= s
                                /\ capped = IF discount <= s THEN discount ELSE s
    BY ClampIs
  <2> DEFINE shares == Portions(D, amounts, s, capped)
             handed == HandOut(shares, amounts, capped - Sum(shares))
  <2>2. allocateDiscount(amounts, discount) = handed
    BY <1>1, <1>3, <2>1 DEF allocateDiscount, Portions
  <2>3. s \in Nat \ {0}
    BY <1>3
  <2>4. Spread(D, amounts, handed, capped)
    BY <1>1, <2>1, <2>3, RoundIsEnough
  <2> HIDE DEF handed
  <2> QED BY <1>1, <2>1, <2>2, <2>4
<1> QED BY <1>1, <1>2, <1>3

-----------------------------------------------------------------------------
(* Quotes.                                                                 *)

\* A coupon is accepted when no rule rejects, and takes off what it promises.
LEMMA CouponApplied ==
    ASSUME NEW coupon \in Coupons, NEW ctx, ctx.now = clock, ctx.currency = "INR",
           NEW w \in Nat, ctx.eligible = w, NEW uses, ctx.global = uses.global,
           ctx.mine = uses.mine, uses.global \in Nat, uses.mine \in Nat, clock \in Nat
    PROVE  LET applied == applyCoupon(coupon, ctx)
           IN  /\ applied.ok <=> w > 0 /\ Admitted(coupon, uses)
               /\ applied.ok => /\ applied.discountMinor = Promised(coupon, w)
                                /\ Promised(coupon, w) \in 0..w
<1> DEFINE rules == Rules(coupon, ctx)
           rejecting == {k \in DOMAIN rules : rules[k][2]}
           raw == IF coupon.kind = "PERCENT" THEN percentOff(w, coupon.value) ELSE coupon.value
           applied == applyCoupon(coupon, ctx)
<1>1. /\ coupon.active \in BOOLEAN /\ coupon.startsAt \in Nat \cup {None}
      /\ coupon.endsAt \in Nat \cup {None} /\ coupon.maxRedemptions \in Nat \cup {None}
      /\ coupon.perUserLimit \in Nat /\ coupon.value \in Nat /\ BasisPoints \in Nat \ {0}
      /\ None \notin Nat
  BY CouponsAssumption, StorefrontAssumption DEF CouponsAssumption, StorefrontAssumption, Coupon
<1>2. rejecting = {} <=> w > 0 /\ Admitted(coupon, uses)
  <2>1. DOMAIN rules = 1..7
    BY DEF Rules
  <2>2. /\ rules[1][2] <=> ~coupon.active
        /\ rules[2][2] <=> (coupon.startsAt # None /\ coupon.startsAt > clock)
        /\ rules[3][2] <=> (coupon.endsAt # None /\ coupon.endsAt <= clock)
        /\ rules[4][2] <=> (coupon.kind = "FIXED" /\ coupon.currency # "INR")
        /\ rules[5][2] <=> (w <= 0)
        /\ rules[6][2] <=> (coupon.maxRedemptions # None /\ uses.global >= coupon.maxRedemptions)
        /\ rules[7][2] <=> (uses.mine >= coupon.perUserLimit)
    BY DEF Rules
  <2> HIDE DEF rules
  <2>3. rejecting = {} <=> \A k \in {1, 2, 3, 4, 5, 6, 7} : ~rules[k][2]
    BY <2>1
  <2>4. (\A k \in {1, 2, 3, 4, 5, 6, 7} : ~rules[k][2]) <=> w > 0 /\ Admitted(coupon, uses)
    BY <1>1, <2>2 DEF Admitted
  <2> QED BY <2>3, <2>4
<1>3. raw \in Nat
  <2>1. w * coupon.value \in Nat
    BY <1>1
  <2>2. \A a \in Nat, b \in Nat \ {0} : a \div b \in Nat
    OBVIOUS
  <2> QED BY <1>1, <2>1, <2>2 DEF percentOff
<1>4. clampDiscount(raw, w) = Promised(coupon, w)
  <2>1. raw = IF coupon.kind = "PERCENT" THEN (w * coupon.value) \div BasisPoints ELSE coupon.value
    BY DEF percentOff
  <2> HIDE DEF raw
  <2>2. clampDiscount(raw, w) = IF raw <= w THEN raw ELSE w
    BY <1>3, ClampIs
  <2>3. Promised(coupon, w) = IF raw > w THEN w ELSE raw
    BY <2>1 DEF Promised
  <2> QED BY <1>3, <2>2, <2>3
<1>5. Promised(coupon, w) \in 0..w
  <2> HIDE DEF raw
  <2> QED BY <1>3, <1>4, ClampIs
<1>6. /\ rejecting = {} => applied = [ok |-> TRUE, discountMinor |-> clampDiscount(raw, w)]
      /\ rejecting # {} => applied.ok = FALSE
  BY DEF applyCoupon
<1> HIDE DEF rejecting, raw, applied
<1>7. rejecting = {} => applied.ok = TRUE /\ applied.discountMinor = clampDiscount(raw, w)
  BY <1>6
<1> QED BY <1>2, <1>4, <1>5, <1>6, <1>7 DEF applied

\* A line of a quote.
Line == [courseId : Courses, unitPriceMinor : Nat, discountMinor : Nat]

\* Lines that bear nothing add up when the coupon promises nothing.
LEMMA PlainAddsUp ==
    ASSUME NEW n \in Nat, NEW lines \in [1..n -> Line], \A i \in 1..n : lines[i].discountMinor = 0,
           NEW coupon, NEW uses,
           coupon # None => ~(/\ Worth(lines, EligibleLines(coupon, lines)) > 0
                              /\ Admitted(coupon, uses))
    PROVE  AddsUp(Plain(lines), coupon, uses)
<1> DEFINE q == Plain(lines)
           every == DOMAIN q.lines
           covered == IF coupon = None THEN {} ELSE EligibleLines(coupon, q.lines)
<1>1. /\ q.lines = lines /\ q.totalMinor = Worth(lines, 1..n) /\ q.subtotalMinor = Worth(lines, 1..n)
      /\ q.discountMinor = 0
  BY DEF Plain
<1>2. Worth(lines, 1..n) \in Nat
  <2>1. [i \in 1..n |-> lines[i].unitPriceMinor] \in [1..n -> Nat]
    BY DEF Line
  <2>2. IsFiniteSet(1..n)
    BY FS_Interval
  <2> QED BY <2>1, <2>2, SumIsNat DEF Worth
<1>3. \A S \in SUBSET (1..n) : Borne(lines, S) = 0
  <2> TAKE S \in SUBSET (1..n)
  <2> DEFINE f == [i \in S |-> lines[i].discountMinor]
  <2>1. DOMAIN f = S /\ \A i \in S : f[i] = 0
    OBVIOUS
  <2> HIDE DEF f
  <2>2. Sum(f) = 0
    BY <2>1, SumOfNothing
  <2> QED BY <2>2 DEF Borne, f
<1>4. \A i \in 1..n : lines[i].discountMinor \in 0..lines[i].unitPriceMinor
  BY DEF Line
<1>5. every = 1..n
  BY <1>1
<1> HIDE DEF q
<1>6. /\ q.totalMinor = Worth(q.lines, every) - Borne(q.lines, every)
      /\ q.totalMinor = q.subtotalMinor - q.discountMinor
      /\ \A i \in every : q.lines[i].discountMinor \in 0..q.lines[i].unitPriceMinor
      /\ Borne(q.lines, every \ covered) = 0
  BY <1>1, <1>2, <1>3, <1>4, <1>5
<1>7. q.discountMinor = IF coupon # None /\ Worth(q.lines, covered) > 0 /\ Admitted(coupon, uses)
                        THEN Promised(coupon, Worth(q.lines, covered)) ELSE 0
  BY <1>1
<1>8. AddsUp(q, coupon, uses)
  BY <1>6, <1>7 DEF AddsUp
<1> QED BY <1>8 DEF q

\* Lines before a coupon, and lines that share a discount: each costs what it
\* cost, the covered ones bear the discount, no line more than it costs, and no
\* other line anything.
Unpriced(n, lines) ==
    n \in Nat /\ lines \in [1..n -> Line] /\ \A i \in 1..n : lines[i].discountMinor = 0
WellPriced(n, lines, coupon, priced, discount) ==
    LET eligible == EligibleLines(coupon, lines)
    IN  /\ DOMAIN priced = 1..n /\ EligibleLines(coupon, priced) = eligible
        /\ \A S \in SUBSET (1..n) : Worth(priced, S) = Worth(lines, S)
        /\ \A i \in 1..n : priced[i].discountMinor \in 0..priced[i].unitPriceMinor
        /\ Borne(priced, 1..n) = discount
        /\ Borne(priced, (1..n) \ eligible) = 0

LEMMA PricedLines ==
    ASSUME NEW n, NEW lines, Unpriced(n, lines), NEW coupon, NEW discount \in Nat,
           discount <= Worth(lines, EligibleLines(coupon, lines))
    PROVE  WellPriced(n, lines, coupon, Priced(lines, coupon, discount), discount)
<1> DEFINE priced == Priced(lines, coupon, discount)
           E == EligibleLines(coupon, lines)
           prices == [i \in E |-> lines[i].unitPriceMinor]
           shares == allocateDiscount(prices, discount)
<1>0. n \in Nat /\ lines \in [1..n -> Line] /\ \A i \in 1..n : lines[i].discountMinor = 0
  BY DEF Unpriced
<1>1. E \subseteq 1..n /\ IsFiniteSet(E) /\ E \subseteq Nat
  <2>1. E \subseteq 1..n
    BY <1>0 DEF EligibleLines
  <2> HIDE DEF E
  <2>2. IsFiniteSet(1..n)
    BY <1>0, FS_Interval
  <2>3. IsFiniteSet(E)
    BY <2>1, <2>2, FS_Subset
  <2>4. 1..n \subseteq Nat
    BY <1>0
  <2> QED BY <2>1, <2>3, <2>4
<1>2. \A i \in 1..n : priced[i] = IF i \in E THEN [lines[i] EXCEPT !.discountMinor = shares[i]]
                                              ELSE lines[i]
  BY <1>0 DEF Priced
<1>3. DOMAIN priced = 1..n
  BY <1>0 DEF Priced
<1>4. \A i \in E : Eligible(coupon, lines[i])
  BY DEF EligibleLines
<1>5. \A i \in (1..n) \ E : ~Eligible(coupon, lines[i])
  BY <1>0 DEF EligibleLines
<1> HIDE DEF E, priced, shares
<1>6. prices \in [E -> Nat]
  BY <1>0, <1>1 DEF Line
<1>7. Worth(lines, E) = Sum(prices)
  BY DEF Worth
<1> HIDE DEF prices
<1>8. Spread(E, prices, shares, discount)
  <2>1. discount <= Sum(prices)
    BY <1>7 DEF E
  <2>2. Spread(E, prices, allocateDiscount(prices, discount),
               IF discount <= Sum(prices) THEN discount ELSE Sum(prices))
    BY <1>1, <1>6, AllocationIsExact
  <2> QED BY <2>1, <2>2 DEF shares
<1>9. \A i \in 1..n : /\ priced[i].courseId = lines[i].courseId
                      /\ priced[i].unitPriceMinor = lines[i].unitPriceMinor
                      /\ priced[i].discountMinor = IF i \in E THEN shares[i] ELSE 0
  BY <1>0, <1>2 DEF Line
<1>10. EligibleLines(coupon, priced) = E
  <2>1. \A i \in 1..n : Eligible(coupon, priced[i]) <=> Eligible(coupon, lines[i])
    BY <1>9 DEF Eligible
  <2>2. EligibleLines(coupon, priced) = {i \in 1..n : Eligible(coupon, priced[i])}
    BY <1>3 DEF EligibleLines
  <2> QED BY <1>1, <1>4, <1>5, <2>1, <2>2
<1>11. \A S \in SUBSET (1..n) : Worth(priced, S) = Worth(lines, S)
  <2> TAKE S \in SUBSET (1..n)
  <2>1. [i \in S |-> priced[i].unitPriceMinor] = [i \in S |-> lines[i].unitPriceMinor]
    BY <1>9
  <2> QED BY <2>1 DEF Worth
<1>12. \A i \in 1..n : priced[i].discountMinor \in 0..priced[i].unitPriceMinor
  <2> TAKE i \in 1..n
  <2>1. lines[i].unitPriceMinor \in Nat
    BY <1>0 DEF Line
  <2>2. i \in E => shares[i] \in Nat /\ shares[i] <= prices[i] /\ prices[i] = lines[i].unitPriceMinor
    BY <1>8 DEF Spread, prices
  <2> QED BY <1>9, <2>1, <2>2
<1>13. Borne(priced, 1..n) = discount
  <2> DEFINE f == [i \in 1..n |-> priced[i].discountMinor]
  <2>1. DOMAIN f = 1..n /\ \A i \in (1..n) \ E : f[i] = 0
    BY <1>9
  <2>2. \A i \in E : f[i] = shares[i]
    BY <1>1, <1>9
  <2> HIDE DEF f
  <2>3. Sum(f) = Sum(Only(f, E))
    BY <1>1, <2>1, SumOfRest
  <2>4. Only(f, E) = shares
    BY <1>8, <2>2 DEF Only, Spread
  <2>5. Sum(shares) = discount
    BY <1>8 DEF Spread
  <2> QED BY <2>3, <2>4, <2>5 DEF Borne, f
<1>14. Borne(priced, (1..n) \ E) = 0
  <2> DEFINE f == [i \in (1..n) \ E |-> priced[i].discountMinor]
  <2>1. DOMAIN f = (1..n) \ E /\ \A i \in (1..n) \ E : f[i] = 0
    BY <1>9
  <2> HIDE DEF f
  <2>2. Sum(f) = 0
    BY <2>1, SumOfNothing
  <2> QED BY <2>2 DEF Borne, f
<1> QED BY <1>3, <1>10, <1>11, <1>12, <1>13, <1>14 DEF WellPriced, priced, E

\* Lines under an admitted coupon add up.
LEMMA DiscountAddsUp ==
    ASSUME NEW n, NEW lines, Unpriced(n, lines), NEW coupon, coupon # None, NEW uses, Admitted(coupon, uses),
           NEW w, w = Worth(lines, EligibleLines(coupon, lines)), w > 0,
           NEW d, d = Promised(coupon, w), d \in 0..w, w \in Nat, NEW q,
           q.lines = Priced(lines, coupon, d), q.subtotalMinor = Worth(lines, 1..n),
           q.discountMinor = d, q.totalMinor = Worth(lines, 1..n) - d
    PROVE  AddsUp(q, coupon, uses)
<1> DEFINE priced == Priced(lines, coupon, d)
           E == EligibleLines(coupon, lines)
<1>1. d \in Nat /\ d <= Worth(lines, E)
  OBVIOUS
<1>0. WellPriced(n, lines, coupon, priced, d)
  BY <1>1, PricedLines
<1>2. /\ DOMAIN priced = 1..n /\ EligibleLines(coupon, priced) = E
      /\ \A S \in SUBSET (1..n) : Worth(priced, S) = Worth(lines, S)
      /\ \A i \in 1..n : priced[i].discountMinor \in 0..priced[i].unitPriceMinor
      /\ Borne(priced, 1..n) = d
      /\ Borne(priced, (1..n) \ E) = 0
  BY <1>0 DEF WellPriced
<1>3. E \subseteq 1..n
  BY DEF EligibleLines, Unpriced
<1> HIDE DEF priced, E
<1>4. q.lines = priced /\ w = Worth(lines, E)
  BY DEF priced, E
<1>5. Worth(priced, 1..n) = Worth(lines, 1..n) /\ Worth(priced, E) = w
  BY <1>2, <1>3, <1>4
<1> QED BY <1>2, <1>4, <1>5 DEF AddsUp

\* A quote adds up, whatever the courses, the coupon and its redemptions.
LEMMA QuoteAddsUp ==
    ASSUME NEW n \in Nat, NEW courses,
           courses \in [1..n -> [id : Courses, priceMinor : Nat, currency : {"INR"}]],
           NEW coupon \in Coupons \cup {None}, NEW uses, uses.global \in Nat, uses.mine \in Nat,
           clock \in Nat
    PROVE  AddsUp(quote(courses, coupon, uses, clock), coupon, uses)
<1> DEFINE lines == [i \in DOMAIN courses |-> [courseId |-> courses[i].id,
                                               unitPriceMinor |-> courses[i].priceMinor,
                                               discountMinor |-> 0]]
           w == Worth(lines, EligibleLines(coupon, lines))
           ctx == [now |-> clock, currency |-> CurrencyOf(courses), eligible |-> w,
                   global |-> uses.global, mine |-> uses.mine]
           applied == applyCoupon(coupon, ctx)
           d == applied.discountMinor
           priced == Priced(lines, coupon, d)
           discounted == [Plain(lines) EXCEPT !.lines = priced,
                            !.discountMinor = Borne(priced, DOMAIN priced), !.coupon = coupon,
                            !.totalMinor = @ - Borne(priced, DOMAIN priced)]
<1>1. quote(courses, coupon, uses, clock) =
         IF coupon = None \/ ~applied.ok THEN Plain(lines) ELSE discounted
  BY DEF quote
<1>2. /\ lines \in [1..n -> Line] /\ \A i \in 1..n : lines[i].discountMinor = 0
      /\ Unpriced(n, lines)
  BY DEF Line, Unpriced
<1>3. CurrencyOf(courses) = "INR"
  <2> DEFINE held == {courses[i].currency : i \in DOMAIN courses}
  <2>1. held = {} \/ held = {"INR"}
    OBVIOUS
  <2> HIDE DEF held
  <2>2. Cardinality({"INR"}) = 1
    BY FS_Singleton
  <2>3. CurrencyOf(courses) = IF held = {} THEN "INR" ELSE IF Cardinality(held) = 1
                              THEN CHOOSE c \in held : TRUE ELSE None
    BY DEF CurrencyOf, held
  <2> QED BY <2>1, <2>2, <2>3
<1> HIDE DEF lines
<1>4. w \in Nat
  <2> DEFINE E == EligibleLines(coupon, lines)
  <2>1. E \subseteq 1..n
    BY <1>2 DEF EligibleLines
  <2> HIDE DEF E
  <2>2. IsFiniteSet(E)
    <3>1. IsFiniteSet(1..n)
      BY FS_Interval
    <3> QED BY <2>1, <3>1, FS_Subset
  <2>3. [i \in E |-> lines[i].unitPriceMinor] \in [E -> Nat]
    BY <1>2, <2>1 DEF Line
  <2>4. Worth(lines, E) \in Nat
    BY <2>2, <2>3, SumIsNat DEF Worth
  <2> QED BY <2>4 DEF E
<1>5. /\ ctx.now = clock /\ ctx.currency = "INR" /\ ctx.eligible = w
      /\ ctx.global = uses.global /\ ctx.mine = uses.mine
  BY <1>3
<1> HIDE DEF ctx
<1>6. coupon # None => /\ applied.ok <=> w > 0 /\ Admitted(coupon, uses)
                       /\ applied.ok => d = Promised(coupon, w) /\ Promised(coupon, w) \in 0..w
  <2> SUFFICES ASSUME coupon # None
               PROVE  /\ applied.ok <=> w > 0 /\ Admitted(coupon, uses)
                      /\ applied.ok => d = Promised(coupon, w) /\ Promised(coupon, w) \in 0..w
    OBVIOUS
  <2> HIDE DEF w
  <2> QED BY <1>4, <1>5, CouponApplied
<1> HIDE DEF applied
<1>7. CASE coupon = None \/ ~applied.ok
  <2>1. coupon # None => ~(w > 0 /\ Admitted(coupon, uses))
    BY <1>6, <1>7
  <2> QED BY <1>1, <1>2, <1>7, <2>1, PlainAddsUp
<1>8. CASE coupon # None /\ applied.ok
  <2>1. w > 0 /\ Admitted(coupon, uses) /\ d = Promised(coupon, w) /\ d \in 0..w
    BY <1>6, <1>8
  <2>2. /\ DOMAIN priced = 1..n /\ Borne(priced, 1..n) = d
    <3>1. d \in Nat /\ d <= w
      BY <1>4, <2>1
    <3> HIDE DEF d, w
    <3>2. w = Worth(lines, EligibleLines(coupon, lines))
      BY DEF w
    <3>3. WellPriced(n, lines, coupon, priced, d)
      BY <1>2, <3>1, <3>2, PricedLines
    <3> QED BY <3>3 DEF WellPriced
  <2>3. DOMAIN lines = 1..n
    BY <1>2
  <2>4. /\ discounted.lines = priced /\ discounted.discountMinor = d
        /\ discounted.subtotalMinor = Worth(lines, 1..n)
        /\ discounted.totalMinor = Worth(lines, 1..n) - d
    <3> HIDE DEF priced, d
    <3> QED BY <2>2, <2>3 DEF Plain
  <2> HIDE DEF discounted
  <2>5. AddsUp(discounted, coupon, uses)
    <3> HIDE DEF d
    <3> QED BY <1>2, <1>4, <1>8, <2>1, <2>4, DiscountAddsUp
  <2> QED BY <1>1, <1>8, <2>5
<1> QED BY <1>7, <1>8

\* A finite set has a list of its elements.
LEMMA Listed ==
    ASSUME NEW S, IsFiniteSet(S)
    PROVE  Cardinality(S) \in Nat /\ SetToSeq(S) \in [1..Cardinality(S) -> S]
<1>1. PICK n \in Nat : n = Cardinality(S) /\ ExistsBijection(1..n, S)
  BY FS_CardinalityType
<1>2. PICK f : f \in Bijection(1..n, S)
  BY <1>1 DEF ExistsBijection
<1>3. f \in [1..Cardinality(S) -> S] /\ IsInjective(f)
  BY <1>1, <1>2 DEF Bijection, Injection
<1>4. SetToSeq(S) \in [1..Cardinality(S) -> S]
  BY <1>3 DEF SetToSeq
<1> QED BY <1>1, <1>4

\* For any courses at any prices, any coupon and any redemptions of it: a quote
\* adds up to the last unit.
THEOREM QuotesAreExact == StorefrontSpec => []QuotesAddUp
<1>1. WalkInv => QuotesAddUp
  <2> SUFFICES ASSUME WalkInv, NEW cart \in SUBSET Courses, NEW coupon \in Coupons \cup {None},
                      NEW times \in {0, 1}
               PROVE  LET courses == [i \in 1..Cardinality(cart) |->
                             LET c == SetToSeq(cart)[i]
                             IN  [id |-> c, priceMinor |-> courseRow[c].priceMinor,
                                  currency |-> "INR"]]
                          uses == [global |-> times, mine |-> times]
                      IN  AddsUp(quote(courses, coupon, uses, clock), coupon, uses)
    BY DEF QuotesAddUp
  <2> DEFINE courses == [i \in 1..Cardinality(cart) |->
                          LET c == SetToSeq(cart)[i]
                          IN  [id |-> c, priceMinor |-> courseRow[c].priceMinor,
                               currency |-> "INR"]]
             uses == [global |-> times, mine |-> times]
  <2>1. Cardinality(cart) \in Nat /\ SetToSeq(cart) \in [1..Cardinality(cart) -> cart]
    <3>1. IsFiniteSet(cart)
      BY StorefrontAssumption, FS_Subset DEF StorefrontAssumption
    <3> QED BY <3>1, Listed
  <2>2. PICK n \in Nat : n = Cardinality(cart)
    BY <2>1
  <2>3. PICK seq : seq \in [1..n -> cart] /\ seq = SetToSeq(cart)
    BY <2>1, <2>2
  <2>4. \A c \in Courses : courseRow[c].priceMinor \in Nat
    BY DEF WalkInv, StorefrontTypeOK, Row
  <2>5. courses = [i \in 1..n |-> [id |-> seq[i], priceMinor |-> courseRow[seq[i]].priceMinor,
                                   currency |-> "INR"]]
    BY <2>2, <2>3
  <2> HIDE DEF courses
  <2>6. courses \in [1..n -> [id : Courses, priceMinor : Nat, currency : {"INR"}]]
    BY <2>3, <2>4, <2>5
  <2>7. uses.global \in Nat /\ uses.mine \in Nat /\ clock \in Nat
    BY DEF WalkInv, StorefrontTypeOK
  <2> HIDE DEF uses
  <2>8. AddsUp(quote(courses, coupon, uses, clock), coupon, uses)
    BY <2>6, <2>7, QuoteAddsUp
  <2> QED BY <2>8 DEF courses, uses
<1> QED BY <1>1, StorefrontTypes, PTL
=============================================================================
