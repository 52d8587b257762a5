-------------------------------- MODULE Catalog --------------------------------
(***************************************************************************)
(* Authoring one course: the curriculum commands and their inverses, the   *)
(* undo stack, optimistic versions, the lifecycle with its publish gate,   *)
(* and duplication.                                                        *)
(*                                                                         *)
(* A request reads the course, judges what it read, and only then opens    *)
(* its transaction. The transaction's first statement takes the course     *)
(* row's lock, so the transaction is one action; what another request      *)
(* commits between the read and it is the interleaving. A handler that     *)
(* throws rolls everything back: its request ends and nothing has changed. *)
(* Positions count in units of POSITION_GAP. The command a request carries *)
(* is chosen when it commits, since nothing reads it before.               *)
(***************************************************************************)
EXTENDS Naturals, Sequences, FiniteSets, SequencesExt

CONSTANTS
    SectionIds, LectureIds, \* the ids the database hands out, each once
    FirstSections, FirstLectures, \* those the course starts with
    Titles,
    Content,   \* bare: no video, no body; full: has one; preview: full and free to watch
    Requests,
    MaxVersion              \* bound on the version counter

ASSUME CatalogAssumption ==
    /\ Titles # {} /\ MaxVersion \in Nat
    /\ "preview" \in Content /\ Content \subseteq {"bare", "full", "preview"}
    /\ FirstSections \in (SUBSET SectionIds) \ {{}} /\ FirstLectures \subseteq LectureIds
    /\ IsFiniteSet(FirstSections) /\ IsFiniteSet(FirstLectures)

VARIABLES
    course,   \* the Course row
    tree,     \* its Section and Lecture rows
    log,      \* CourseEdit rows not undone yet
    req,      \* requests in progress
    used      \* ids handed out so far
vars == <<course, tree, log, req, used>>

Statuses == {"DRAFT", "IN_REVIEW", "PUBLISHED", "ARCHIVED"}

Put(f, x, v) == [y \in DOMAIN f \cup {x} |-> IF y = x THEN v ELSE f[y]]
Sections(t) == DOMAIN t.sections
Lectures(t) == DOMAIN t.lectures
LecturesOf(t, s) == {l \in Lectures(t) : t.lectures[l].section = s}
Positions(f, S) == {f[x].position : x \in S}

\* load: rows in the order of their positions. A row's place in a list is the
\* number of rows before it.
Before(f, S, x) == Cardinality({y \in S : f[y].position < f[x].position})
Ordered(f, S) == [i \in 1..Cardinality(S) |-> CHOOSE x \in S : Before(f, S, x) = i - 1]
SectionOrder(t) == Ordered(t.sections, Sections(t))
LectureOrder(t, s) == Ordered(t.lectures, LecturesOf(t, s))

NextPosition(taken) == Max(taken \cup {0}) + 1

\* A restored row that lands on the number it had.
BugFreePosition(taken, preferred) == preferred

\* Where a restored row goes: where it was, or last.
FreePosition(taken, preferred) ==
    IF preferred \in taken THEN NextPosition(taken) ELSE preferred

\* resequence: the rows named are numbered from one, in the order given. The
\* code parks them on negative numbers and settles them row by row; nobody
\* outside the transaction sees that, and here it is one write.
IndexIn(order, x) == CHOOSE i \in DOMAIN order : order[i] = x
Resequenced(f, order) ==
    [x \in DOMAIN f |-> IF x \in ToSet(order)
                        THEN [f[x] EXCEPT !.position = IndexIn(order, x)] ELSE f[x]]

-----------------------------------------------------------------------------
(* The handlers: what a command makes of the tree, and the command that    *)
(* would undo it.                                                          *)

CreateSection(t, s, title, position, lectures) ==
    [sections |-> Put(t.sections, s, [title |-> title, position |-> position]),
     lectures |-> [l \in Lectures(t) \cup DOMAIN lectures |->
                      IF l \in DOMAIN lectures THEN lectures[l] ELSE t.lectures[l]]]

AddSection(t, c) ==
    [tree |-> CreateSection(t, c.section, c.title,
                            NextPosition(Positions(t.sections, Sections(t))), <<>>),
     inverse |-> [kind |-> "REMOVE_SECTION", section |-> c.section]]

RenameSection(t, c) ==
    [tree |-> [t EXCEPT !.sections[c.section].title = c.title],
     inverse |-> [kind |-> "RENAME_SECTION", section |-> c.section,
                  title |-> t.sections[c.section].title]]

RemoveSection(t, c) ==
    LET gone == LecturesOf(t, c.section)
    IN  [tree |-> [sections |-> Restrict(t.sections, Sections(t) \ {c.section}),
                   lectures |-> Restrict(t.lectures, Lectures(t) \ gone)],
         inverse |-> [kind |-> "RESTORE_SECTION", section |-> c.section,
                      row |-> t.sections[c.section],
                      lectures |-> Restrict(t.lectures, gone)]]

RestoreSection(t, c) ==
    [tree |-> CreateSection(t, c.section, c.row.title,
                            FreePosition(Positions(t.sections, Sections(t)), c.row.position),
                            c.lectures),
     inverse |-> [kind |-> "REMOVE_SECTION", section |-> c.section]]

ReorderSections(t, c) ==
    [tree |-> [t EXCEPT !.sections = Resequenced(@, c.order)],
     inverse |-> [kind |-> "REORDER_SECTIONS", order |-> SectionOrder(t)]]

AddLecture(t, c) ==
    [tree |-> [t EXCEPT !.lectures = Put(@, c.lecture,
                  [section |-> c.section, content |-> c.content,
                   position |-> NextPosition(Positions(t.lectures, LecturesOf(t, c.section)))])],
     inverse |-> [kind |-> "REMOVE_LECTURE", lecture |-> c.lecture]]

UpdateLecture(t, c) ==
    [tree |-> [t EXCEPT !.lectures[c.lecture].content = c.content],
     inverse |-> [kind |-> "UPDATE_LECTURE", lecture |-> c.lecture,
                  content |-> t.lectures[c.lecture].content]]

RemoveLecture(t, c) ==
    [tree |-> [t EXCEPT !.lectures = Restrict(@, Lectures(t) \ {c.lecture})],
     inverse |-> [kind |-> "RESTORE_LECTURE", lecture |-> c.lecture,
                  row |-> t.lectures[c.lecture]]]

RestoreLecture(t, c) ==
    [tree |-> [t EXCEPT !.lectures = Put(@, c.lecture,
                  [c.row EXCEPT !.position =
                      FreePosition(Positions(t.lectures, LecturesOf(t, c.row.section)), @)])],
     inverse |-> [kind |-> "REMOVE_LECTURE", lecture |-> c.lecture]]

\* A drag: the lecture leaves one list and is put into another, or the same.
MoveLecture(t, c) ==
    LET from == t.lectures[c.lecture].section
        source == Ordered(t.lectures, LecturesOf(t, from) \ {c.lecture})
        target == Ordered(t.lectures, LecturesOf(t, c.to) \ {c.lecture})
        landed == InsertAt(target, Min({c.index, Len(target)}) + 1, c.lecture)
        left == IF from = c.to THEN t.lectures ELSE Resequenced(t.lectures, source)
    IN  [tree |-> [t EXCEPT !.lectures =
                     [Resequenced(left, landed) EXCEPT ![c.lecture].section = c.to]],
         inverse |-> [kind |-> "MOVE_LECTURE", lecture |-> c.lecture, to |-> from,
                      index |-> IndexIn(LectureOrder(t, from), c.lecture) - 1]]

\* The lookups of a handler: the nodes it names are in this course.
Applies(t, c) ==
    CASE c.kind \in {"RENAME_SECTION", "REMOVE_SECTION", "ADD_LECTURE"} -> c.section \in Sections(t)
      [] c.kind = "REORDER_SECTIONS" -> Len(c.order) = Cardinality(Sections(t))
                                        /\ ToSet(c.order) = Sections(t)
      [] c.kind \in {"UPDATE_LECTURE", "REMOVE_LECTURE"} -> c.lecture \in Lectures(t)
      [] c.kind = "RESTORE_LECTURE" -> c.row.section \in Sections(t)
      [] c.kind = "MOVE_LECTURE" -> c.lecture \in Lectures(t) /\ c.to \in Sections(t)
      [] OTHER -> TRUE

Handled(t, c) ==
    CASE c.kind = "ADD_SECTION" -> AddSection(t, c)
      [] c.kind = "RENAME_SECTION" -> RenameSection(t, c)
      [] c.kind = "REMOVE_SECTION" -> RemoveSection(t, c)
      [] c.kind = "RESTORE_SECTION" -> RestoreSection(t, c)
      [] c.kind = "REORDER_SECTIONS" -> ReorderSections(t, c)
      [] c.kind = "ADD_LECTURE" -> AddLecture(t, c)
      [] c.kind = "UPDATE_LECTURE" -> UpdateLecture(t, c)
      [] c.kind = "REMOVE_LECTURE" -> RemoveLecture(t, c)
      [] c.kind = "RESTORE_LECTURE" -> RestoreLecture(t, c)
      [] c.kind = "MOVE_LECTURE" -> MoveLecture(t, c)

\* What a client may send. Restores are made by the server alone.
Commands(t) ==
    [kind : {"ADD_SECTION"}, section : SectionIds \ used, title : Titles]
    \cup [kind : {"RENAME_SECTION"}, section : Sections(t), title : Titles]
    \cup [kind : {"REMOVE_SECTION"}, section : Sections(t)]
    \cup [kind : {"REORDER_SECTIONS"}, order : SetToSeqs(Sections(t)) \ {<<>>}]
    \cup [kind : {"ADD_LECTURE"}, lecture : LectureIds \ used, section : Sections(t),
          content : Content]
    \cup [kind : {"UPDATE_LECTURE"}, lecture : Lectures(t), content : Content]
    \cup [kind : {"REMOVE_LECTURE"}, lecture : Lectures(t)]
    \cup [kind : {"MOVE_LECTURE"}, lecture : Lectures(t), to : Sections(t),
          index : 0..Cardinality(Lectures(t))]

-----------------------------------------------------------------------------
(* Requests.                                                               *)

Idle == [pc |-> "idle"]

\* One query of the course row by a request that goes on to do `what`, and
\* will use only `kept` of it.
Reads(r, what, kept) ==
    /\ req[r].pc = "idle"
    /\ req' = [req EXCEPT ![r] = [pc |-> what, row |-> kept]]
    /\ UNCHANGED <<course, tree, log, used>>

Fails(r) ==
    /\ req' = [req EXCEPT ![r] = Idle]
    /\ UNCHANGED <<course, tree, log, used>>

\* assertEditable: what may not be edited is refused here, and only here. The
\* version an edit will claim is its body's, any number, and nothing compares it
\* with the row read here; whether it is `ahead' of that row is for the properties.
BeginEdit(r) ==
    /\ course.status # "ARCHIVED"
    /\ \E expected \in 0..MaxVersion - 1 : \* the bound could not be claimed
        Reads(r, "edit", [expected |-> expected, ahead |-> expected > course.version])
BeginUndo(r) == course.status # "ARCHIVED" /\ Reads(r, "undo", <<>>)

\* A status change is news to every open editor.
BugMoved(to) == [course EXCEPT !.status = to, !.dated = @ \/ to = "PUBLISHED"]

\* bumpVersion: what every write does to the row, and the lock it takes.
Bumped(c) == [c EXCEPT !.version = @ + 1]

\* setStatus: publishedAt is stamped once.
Moved(to) == Bumped([course EXCEPT !.status = to, !.dated = @ \/ to = "PUBLISHED"])

\* claimVersion: the version the request names is the latest one.
Claimed(r) == course.version = req[r].row.expected

\* refreshRollups.
BugRolledUp(c, t) == c
RolledUp(c, t) == [c EXCEPT !.count = Cardinality(Lectures(t))]

\* What the tree holds, whatever numbers its rows have.
Membership(t) ==
    [sections |-> [s \in Sections(t) |-> t.sections[s].title],
     lectures |-> [l \in Lectures(t) |-> <<t.lectures[l].section, t.lectures[l].content>>]]

NewIds(c) == CASE c.kind = "ADD_SECTION" -> {c.section}
               [] c.kind = "ADD_LECTURE" -> {c.lecture}
               [] OTHER -> {}

\* record: an entry of the undo stack, under the version its edit took. Its
\* `before' is the membership the edit started from, for the properties alone.
Recorded(version, inverse) ==
    log \cup {[version |-> version, inverse |-> inverse, before |-> Membership(tree)]}

\* apply: claim, load, handle, count, and record the inverse.
CommitEdit(r) ==
    /\ req[r].pc = "edit"
    /\ Claimed(r)
    /\ course.version < MaxVersion
    /\ \E c \in Commands(tree) :
        LET done == Handled(tree, c)
        IN  /\ tree' = done.tree
            /\ course' = RolledUp(Bumped(course), done.tree)
            /\ log' = Recorded(course'.version, done.inverse)
            /\ used' = used \cup NewIds(c)
    /\ req' = [req EXCEPT ![r] = Idle]

\* The handler throws on a node that is not there, or the claim is lost: 404,
\* 400 and 409 alike roll the version back.
EditRefused(r) == req[r].pc = "edit" /\ Fails(r)

\* updateDetails and updatePricing: the same claim, and no undo.
CommitDetails(r) ==
    /\ req[r].pc = "edit" /\ Claimed(r)
    /\ course.version < MaxVersion
    /\ \E detailed \in BOOLEAN :
        course' = Bumped([course EXCEPT !.detailed = detailed])
    /\ req' = [req EXCEPT ![r] = Idle]
    /\ UNCHANGED <<tree, log, used>>
CommitPricing(r) ==
    /\ req[r].pc = "edit" /\ Claimed(r)
    /\ course.version < MaxVersion
    /\ course' = Bumped([course EXCEPT !.priced = TRUE])
    /\ req' = [req EXCEPT ![r] = Idle]
    /\ UNCHANGED <<tree, log, used>>

\* peek: the newest edit nobody has undone.
BugTop == CHOOSE e \in log : \A f \in log : e.version <= f.version
Top == CHOOSE e \in log : \A f \in log : f.version <= e.version

markUndone(e) == log \ {e}

\* undo: no claim, only the bump that takes the lock.
CommitUndo(r) ==
    /\ req[r].pc = "undo"
    /\ course.version < MaxVersion
    /\ log # {} /\ Applies(tree, Top.inverse)
    /\ LET done == Handled(tree, Top.inverse)
       IN  tree' = done.tree /\ course' = RolledUp(Bumped(course), done.tree)
    /\ log' = markUndone(Top)
    /\ req' = [req EXCEPT ![r] = Idle]
    /\ UNCHANGED used

UndoRefused(r) ==
    /\ req[r].pc = "undo"
    /\ log # {} => ~Applies(tree, Top.inverse)
    /\ Fails(r)

-----------------------------------------------------------------------------
(* The lifecycle.                                                          *)

\* COURSE_LIFECYCLE; the two ways up pass the publish gate.
Edges == {<<"DRAFT", "IN_REVIEW">>, <<"IN_REVIEW", "PUBLISHED">>,
          <<"IN_REVIEW", "DRAFT">>, <<"PUBLISHED", "DRAFT">>}
         \cup ({"DRAFT", "IN_REVIEW", "PUBLISHED"} \X {"ARCHIVED"})
Gated(from, to) == <<from, to>> \in {<<"DRAFT", "IN_REVIEW">>, <<"IN_REVIEW", "PUBLISHED">>}
NeedsAdmin(to) == to = "PUBLISHED"

\* readinessOf, of a course row and a tree that are read apart.
RowReady == course.detailed /\ course.priced
TreeReady ==
    /\ Sections(tree) # {}
    /\ \A s \in Sections(tree) : LecturesOf(tree, s) # {}
    /\ \A l \in Lectures(tree) : tree.lectures[l].content # "bare"
    /\ \E l \in Lectures(tree) : tree.lectures[l].content = "preview"

BeginTransition(r, to, admin) ==
    /\ req[r].pc = "idle"
    /\ <<course.status, to>> \in Edges
    /\ NeedsAdmin(to) => admin
    /\ req' = [req EXCEPT ![r] =
                  [pc |-> IF Gated(course.status, to) THEN "gate" ELSE "move", to |-> to,
                   row |-> [status |-> course.status, ready |-> RowReady]]]
    /\ UNCHANGED <<course, tree, log, used>>

ReadGate(r) ==
    /\ req[r].pc = "gate"
    /\ IF req[r].row.ready /\ TreeReady
       THEN req' = [req EXCEPT ![r].pc = "move"] /\ UNCHANGED <<course, tree, log, used>>
       ELSE Fails(r)

\* setStatus moves the row only from the state the edge was checked from.
CommitTransition(r) ==
    /\ req[r].pc = "move"
    /\ course.status = req[r].row.status
    /\ course.version < MaxVersion
    /\ course' = Moved(req[r].to)
    /\ req' = [req EXCEPT ![r] = Idle]
    /\ UNCHANGED <<tree, log, used>>
TransitionLost(r) == req[r].pc = "move" /\ course.status # req[r].row.status /\ Fails(r)

-----------------------------------------------------------------------------
(* Duplication: findDeepById is two queries, the row and then its tree.    *)

BeginDuplicate(r) ==
    Reads(r, "duplicate", [count |-> course.count, version |-> course.version])

\* cloneCourse keeps positions, and the count as the row had it. The copy's
\* rows are new, so what the course is asked about it is asked before the
\* answer leaves.
CommitDuplicate(r) ==
    /\ req[r].pc = "duplicate"
    /\ req' = [req EXCEPT ![r] = [pc |-> "copied", row |->
                  [count |-> req[r].row.count, lectures |-> Cardinality(Lectures(tree)),
                   torn |-> req[r].row.version # course.version]]]
    /\ UNCHANGED <<course, tree, log, used>>
Answer(r) == req[r].pc = "copied" /\ Fails(r)

-----------------------------------------------------------------------------
\* writer.create: a copy is a draft with the details of its source, a price
\* nobody confirmed, and the lecture count it is given.
NewCourse(count) == [status |-> "DRAFT", version |-> 0, dated |-> FALSE, priced |-> FALSE,
                     detailed |-> TRUE, count |-> count]
SomeTitle == CHOOSE t \in Titles : TRUE

\* The course as a duplicate leaves it: sections and lectures, nothing to undo.
Init ==
    /\ LET sections == SetToSeq(FirstSections)
           lectures == SetToSeq(FirstLectures)
       IN  tree = [sections |-> [s \in FirstSections |->
                      [title |-> SomeTitle, position |-> IndexIn(sections, s)]],
                   lectures |-> [l \in FirstLectures |->
                      [section |-> sections[1], content |-> "preview",
                       position |-> IndexIn(lectures, l)]]]
    /\ used = FirstSections \cup FirstLectures
    /\ course = NewCourse(Cardinality(FirstLectures))
    /\ log = {} /\ req = [r \in Requests |-> Idle]

Next ==
    \E r \in Requests :
        \/ BeginEdit(r) \/ BeginUndo(r) \/ BeginDuplicate(r)
        \/ \E to \in Statuses, admin \in BOOLEAN : BeginTransition(r, to, admin)
        \/ CommitEdit(r) \/ CommitDetails(r) \/ CommitPricing(r) \/ EditRefused(r)
        \/ CommitUndo(r) \/ UndoRefused(r)
        \/ ReadGate(r) \/ CommitTransition(r) \/ TransitionLost(r)
        \/ CommitDuplicate(r) \/ Answer(r)

Spec == Init /\ [][Next]_vars
=============================================================================
