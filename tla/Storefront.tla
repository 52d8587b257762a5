------------------------------- MODULE Storefront -------------------------------
(***************************************************************************)
(* The public catalog and the instructor's dashboard: a visitor walks a    *)
(* list page by page (CourseCatalogService, the specifications, the keyset *)
(* cursor) while instructors publish, unpublish, price and edit courses,   *)
(* and what any of those courses would cost together (Pricing).            *)
(*                                                                         *)
(* Ids and stamps are numbers, because the cursor compares them. A row's   *)
(* level, language, topic, category and title are its `traits`; a filter   *)
(* asks for traits and for a price range. Nothing in the repository moves  *)
(* ratings yet.                                                            *)
(***************************************************************************)
EXTENDS Pricing

CONSTANTS Courses,             \* course ids, numbers
          Owner, Rating,       \* of a course, constant
          FirstRows,           \* the rows a course may start as
          Viewers, Traits, Prices,
          Limit,               \* rows in a page
          MaxClock, MaxEdits   \* bounds: milliseconds, edits

VARIABLES courseRow,           \* Course rows
          clock, edits,
          walk,                \* what the visitor asks for, and the cursor it holds
          served,              \* how often each course was on a page of this walk
          steady               \* courses listed at its start whose place did not change since
storefront == <<courseRow, clock, edits, walk, served, steady>>

CourseStatuses == {"DRAFT", "IN_REVIEW", "PUBLISHED", "ARCHIVED"}
Sorts == {"NEWEST", "RATING", "PRICE_ASC", "PRICE_DESC", "RECENT"}
Row == [status : CourseStatuses, priceMinor : Nat, publishedAt : Nat \cup {None},
        updatedAt : Nat, traits : SUBSET Traits]

\* What a client holds between two pages: the sort, and the last row's key and id.
CursorPayload == [sort : Sorts, key : Nat \cup {None}, id : Courses]

ASSUME StorefrontAssumption ==
    /\ Courses \subseteq Nat /\ IsFiniteSet(Courses) /\ None \notin Nat \cup CursorPayload
    /\ Rating \in [Courses -> Nat] /\ Prices \subseteq Nat /\ FirstRows \subseteq Row
    /\ Limit \in Nat \ {0} /\ MaxClock \in Nat /\ MaxEdits \in Nat

-----------------------------------------------------------------------------
(* Specifications. One is the courses that satisfy it; without parts, `and' *)
(* is every course and `or' is none.                                       *)

all == Courses
none == {}
and(specs) == IF specs = {} THEN all ELSE {c \in Courses : \A s \in specs : c \in s}
or(specs) == IF specs = {} THEN none ELSE {c \in Courses : \E s \in specs : c \in s}

isPublished == {c \in Courses : courseRow[c].status = "PUBLISHED"}
hasStatus(status) == {c \in Courses : courseRow[c].status = status}
byInstructor(i) == {c \in Courses : Owner[c] = i}
hasTrait(t) == {c \in Courses : t \in courseRow[c].traits}
priceBetween(low, high) == {c \in Courses : courseRow[c].priceMinor \in low..high}
ratedAtLeast(stars) == {c \in Courses : Rating[c] >= stars}

visibleTo(viewer) ==
    CASE viewer = "anonymous" -> isPublished
      [] viewer = "admin" -> all
      [] OTHER -> or({isPublished, byInstructor(viewer)})

\* filtersFrom: one rule for each filter the query has.
filtersFrom(query) ==
    {hasTrait(t) : t \in query.traits}
    \cup {priceBetween(query.minPrice, query.maxPrice), ratedAtLeast(query.minRating)}

\* list asks for what the viewer may see and the query's filters; listMine for
\* the instructor's own, of any status or of one.
Matching(query) ==
    IF query.mine
    THEN and({byInstructor(query.viewer)}
             \cup (IF query.status = None THEN {} ELSE {hasStatus(query.status)}))
    ELSE and({visibleTo(query.viewer)} \cup filtersFrom(query))

\* The course page: the slug's row, if the viewer may see it.
findBySlug(c, viewer) == and({{c}, visibleTo(viewer)})

-----------------------------------------------------------------------------
(* The keyset.                                                             *)

\* What a list query selects of a row, and what its client gets of that.
Selected(c) == [id |-> c, status |-> courseRow[c].status, ratingAverage |-> Rating[c],
                priceMinor |-> courseRow[c].priceMinor, publishedAt |-> courseRow[c].publishedAt,
                updatedAt |-> courseRow[c].updatedAt]
toListItem(row) == Restrict(row, DOMAIN row \ {"updatedAt"})

\* The column a sort reads, and what a cursor carries of it.
cursorKeyOf(sort, row) ==
    CASE sort = "RATING" -> row.ratingAverage
      [] sort \in {"PRICE_ASC", "PRICE_DESC"} -> row.priceMinor
      [] sort = "RECENT" -> row.updatedAt
      [] sort = "NEWEST" -> row.publishedAt
KeyOf(sort, c) == cursorKeyOf(sort, Selected(c))

Ascending(sort) == sort = "PRICE_ASC"
Beyond(sort, x, y) == IF Ascending(sort) THEN x > y ELSE x < y

\* after: strictly past <<key, id>> in the sort; undated rows come last, and
\* past one of those come only undated ones.
BugAfter(sort, cursor) ==
    {c \in Courses :
        LET key == KeyOf(sort, c)
        IN  IF cursor.key = None \/ key = None THEN key = None /\ cursor.key # None
            ELSE Beyond(sort, key, cursor.key)}
after(sort, cursor) ==
    {c \in Courses :
        LET key == KeyOf(sort, c)
        IN  IF cursor.key = None THEN key = None /\ c < cursor.id
            ELSE \/ key = None
                 \/ key # None /\ Beyond(sort, key, cursor.key)
                 \/ key = cursor.key /\ Beyond(sort, c, cursor.id)}

\* orderByFor: the same order, as the database sorts by it.
Precedes(sort, c, d) ==
    LET x == KeyOf(sort, c)  y == KeyOf(sort, d)
    IN  IF x = y THEN Beyond(sort, d, c)
        ELSE IF x = None \/ y = None THEN y = None
        ELSE Beyond(sort, y, x)

\* A row's place among those of S is the number of rows before it.
Rank(sort, S, c) == Cardinality({d \in S : Precedes(sort, d, c)})
Sorted(sort, S) == [i \in 1..Cardinality(S) |-> CHOOSE c \in S : Rank(sort, S, c) = i - 1]

\* repository.list: the rows past the cursor, in order.
Found(query, cursor) ==
    Sorted(query.sort, and({Matching(query)}
                           \cup (IF cursor = None THEN {} ELSE {after(query.sort, cursor)})))

\* encodeCursor, and decodeCursor, which accepts it for the same sort alone.
encodeCursor(sort, row) == [sort |-> sort, key |-> cursorKeyOf(sort, row), id |-> row.id]

-----------------------------------------------------------------------------
(* The visitor.                                                            *)

Queries ==
    [mine : {FALSE}, viewer : Viewers, sort : Sorts, status : {None},
     traits : SUBSET Traits, minPrice : {0}, maxPrice : Prices, minRating : {0}]
    \cup [mine : {TRUE}, viewer : Viewers \ {"anonymous", "admin"}, sort : {"RECENT"},
          status : {None, "DRAFT"}, traits : {{}}, minPrice : {0}, maxPrice : {0}, minRating : {0}]

Ask(query) ==
    /\ walk.pc = "idle"
    /\ walk' = [pc |-> "walking", query |-> query, cursor |-> None]
    /\ steady' = Matching(query)
    /\ UNCHANGED <<courseRow, clock, edits, served>>

\* One page: Limit rows, and one more that says whether to go on.
NextPage ==
    /\ walk.pc = "walking"
    /\ LET rows == Found(walk.query, walk.cursor)
           hasMore == Len(rows) > Limit
           items == [i \in 1..Min({Limit, Len(rows)}) |-> toListItem(Selected(rows[i]))]
       IN  /\ served' = [c \in Courses |->
                            served[c] + IF \E i \in DOMAIN items : items[i].id = c THEN 1 ELSE 0]
           /\ walk' = IF hasMore
                      THEN [walk EXCEPT !.cursor =
                               encodeCursor(walk.query.sort, Selected(rows[Limit]))]
                      ELSE [pc |-> "done"]
    /\ UNCHANGED <<courseRow, clock, edits, steady>>

-----------------------------------------------------------------------------
(* What happens to courses meanwhile. Every write stamps updatedAt. After *)
(* the walk nothing is looked at any more.                                 *)

Write(c, row) ==
    /\ walk.pc # "done" /\ edits < MaxEdits /\ edits' = edits + 1
    /\ courseRow' = [courseRow EXCEPT ![c] = [row EXCEPT !.updatedAt = clock]]
    /\ UNCHANGED <<clock, walk, served>>
    /\ steady' = {d \in steady :
                     walk.pc = "walking" =>
                        /\ KeyOf(walk.query.sort, d)' = KeyOf(walk.query.sort, d)
                        /\ d \in Matching(walk.query)'}

\* setStatus: publishedAt is stamped by the first publication and stays.
SetStatus(c, status) ==
    Write(c, [courseRow[c] EXCEPT !.status = status,
                 !.publishedAt = IF status = "PUBLISHED" /\ @ = None THEN clock ELSE @])
UpdatePricing(c, price) == Write(c, [courseRow[c] EXCEPT !.priceMinor = price])
UpdateDetails(c, traits) == Write(c, [courseRow[c] EXCEPT !.traits = traits])

Tick == walk.pc # "done" /\ clock < MaxClock /\ clock' = clock + 1
        /\ UNCHANGED <<courseRow, edits, walk, served, steady>>

-----------------------------------------------------------------------------
StorefrontInit ==
    /\ courseRow \in [Courses -> FirstRows]
    /\ clock = 1 /\ edits = 0
    /\ walk = [pc |-> "idle"]
    /\ served = [c \in Courses |-> 0] /\ steady = {}

StorefrontNext ==
    \/ \E query \in Queries : Ask(query)
    \/ NextPage
    \/ \E c \in Courses :
        \/ \E status \in {"DRAFT", "PUBLISHED"} : SetStatus(c, status)
        \/ \E price \in Prices : UpdatePricing(c, price)
        \/ \E traits \in SUBSET Traits : UpdateDetails(c, traits)
    \/ Tick

StorefrontSpec == StorefrontInit /\ [][StorefrontNext]_storefront
=============================================================================
