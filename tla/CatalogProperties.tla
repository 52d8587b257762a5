--------------------------- MODULE CatalogProperties ---------------------------
(* What authoring promises: undo always works, a curriculum is never       *)
(* ambiguous, a taken-down course stays as it was, counts do not drift.    *)
EXTENDS Catalog

\* Undo never gets stuck: whatever was edited and undone since, the newest
\* inverse still applies, and gives back the sections and lectures, titles and
\* contents its edit found, each lecture in its section.
StackUnwinds ==
    log # {} =>
        /\ Applies(tree, Top.inverse)
        /\ Membership(Handled(tree, Top.inverse).tree) = Top.before

\* No two sections of a course, and no two lectures of a section, share a
\* position: what a transaction leaves behind never meets the unique constraints.
OneEach(t) ==
    /\ \A s, z \in Sections(t) : s # z => t.sections[s].position # t.sections[z].position
    /\ \A l, k \in Lectures(t) :
        l # k /\ t.lectures[l].section = t.lectures[k].section =>
            t.lectures[l].position # t.lectures[k].position
PositionsDistinct ==
    /\ OneEach(tree)
    /\ log # {} => OneEach(Handled(tree, Top.inverse).tree)

\* The card's lecture count is the curriculum's, and a duplicate's too unless
\* an edit fell between the two reads it was made from.
CountsMatch ==
    /\ course.count = Cardinality(Lectures(tree))
    /\ \A r \in Requests : req[r].pc = "copied" /\ ~req[r].row.torn =>
            req[r].row.count = req[r].row.lectures

\* An archived course stays archived, and a request that judged it while it was
\* not edits or reprices it no more. What the code lets through is named: an undo
\* that had begun still rewinds it, and so does an edit that names a version
\* ahead of the one it was judged by, which the archive then gave the course.
Rewinds == log' \subseteq log /\ log' # log
Foretold(r) == req[r].pc = "edit" /\ req[r].row.ahead /\ req'[r] = Idle
ArchivedIsReadOnly ==
    [][course.status = "ARCHIVED" =>
        /\ course'.status = "ARCHIVED"
        /\ \/ \E r \in Requests : Foretold(r)
           \/ /\ course'.priced = course.priced /\ course'.detailed = course.detailed
              /\ tree' = tree \/ Rewinds]_vars
=============================================================================
