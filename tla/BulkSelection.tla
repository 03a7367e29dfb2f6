--------------------------- MODULE BulkSelection ---------------------------
(***************************************************************************)
(* Editing and deleting objects in bulk: the checkboxes of a list of       *)
(* objects (forms.js), the request they make, the page that asks to review *)
(* what it is about, and what the confirmation of that page does           *)
(* (BulkDeleteView and BulkEditView), while others change the objects.     *)
(*                                                                         *)
(* One user looks at the first page of a list longer than a page, through  *)
(* a filter that is part of its URL.                                       *)
(***************************************************************************)
EXTENDS FiniteSets, Naturals

CONSTANTS
    Objects,
    Protected, \* those that something else refers to
    PerPage,   \* rows of a page
    MaxEdits   \* bound: changes by others

SelectionAssumption ==
    /\ Protected \subseteq Objects /\ PerPage \in 1..(Cardinality(Objects) - 1)
    /\ MaxEdits \in Nat

VARIABLES
    record,    \* record[o]: "new" (not created yet), "matching" the filter, "other", "gone"
    view,      \* the page the user is on: "list" or "review"
    kind,      \* what is to be confirmed: "edit" or "delete"
    queries,   \* what the page under review has still to read
    rows,      \* the objects the list shows
    ticked,    \* the rows whose checkbox is checked
    toggle,    \* the checkbox in the header is
    selectAll, \* #select_all is; its name is _all
    box,       \* #select_all_box, which a list of one page does not have
    buttons,   \* the buttons in it are enabled
    pks,       \* the hidden fields of the page under review
    reviewed,  \* the objects it lists
    refused,   \* the rows the user has unchecked and not chosen again (history)
    edits

boxes  == <<ticked, toggle, selectAll, box, buttons>>
review == <<kind, queries, pks, reviewed>>
vars   == <<record, view, rows, boxes, review, refused, edits>>

Existing == {o \in Objects : record[o] \in {"matching", "other"}}
Matching == {o \in Objects : record[o] = "matching"}

-----------------------------------------------------------------------------
(* The list: the click handlers of forms.js. *)

Toggle(checked) ==
    /\ view = "list" /\ toggle # checked
    /\ toggle' = checked
    /\ ticked' = IF checked THEN rows ELSE {}
    /\ box' = IF checked /\ box = "hidden" THEN "visible" ELSE box
    /\ selectAll' = (selectAll /\ checked)
    /\ refused' = IF checked THEN {} ELSE rows
    /\ UNCHANGED <<record, view, rows, buttons, review, edits>>

Tick(o) ==
    /\ view = "list" /\ o \in rows \ ticked
    /\ ticked' = ticked \cup {o}
    /\ refused' = refused \ {o}
    /\ UNCHANGED <<record, view, rows, toggle, selectAll, box, buttons, review, edits>>

Untick_the_row(o) ==
    /\ view = "list" /\ o \in ticked
    /\ ticked' = ticked \ {o}
    /\ toggle' = FALSE
    /\ refused' = refused \cup {o}
    /\ UNCHANGED <<record, view, rows, selectAll, box, buttons, review, edits>>

\* The handler unchecks #select_all, which is no click on it: its buttons stay.
Untick(o) ==
    /\ view = "list" /\ o \in ticked
    /\ ticked' = ticked \ {o}
    /\ toggle' = FALSE /\ selectAll' = FALSE
    /\ refused' = refused \cup {o}
    /\ UNCHANGED <<record, view, rows, box, buttons, review, edits>>

SelectAll(checked) ==
    /\ view = "list" /\ box = "visible" /\ selectAll # checked
    /\ selectAll' = checked /\ buttons' = checked
    /\ refused' = IF checked THEN {} ELSE refused
    /\ UNCHANGED <<record, view, rows, ticked, toggle, box, review, edits>>

-----------------------------------------------------------------------------
(* The requests *)

\* The objects a page may begin with, and whether there are others.
FirstPages(matching) ==
    IF Cardinality(matching) <= PerPage THEN {matching}
    ELSE {s \in SUBSET matching : Cardinality(s) = PerPage}
BoxFor(matching) == IF Cardinality(matching) > PerPage THEN "hidden" ELSE "none"

ShowList ==
    /\ view' = "list" /\ kind' = "edit"
    /\ rows' \in FirstPages(Matching') /\ box' = BoxFor(Matching')
    /\ ticked' = {} /\ toggle' = FALSE /\ selectAll' = FALSE /\ buttons' = FALSE
    /\ queries' = {} /\ pks' = {} /\ reviewed' = {} /\ refused' = {}

\* pk_list: with _all it is a query, made again wherever it is used.
pk_list == IF selectAll THEN Matching ELSE ticked

\* Each button of the list sends the whole form; a table without rows sends the
\* user back.
Submit(k) ==
    /\ view = "list"
    /\ UNCHANGED <<record, edits>>
    /\ IF pk_list \cap Existing = {}
       THEN ShowList
       ELSE /\ view' = "review" /\ kind' = k
            /\ queries' = {"table", "fields"}
            /\ UNCHANGED <<rows, boxes, pks, reviewed, refused>>

\* bulk_delete.html renders the table and then the hidden fields, bulk_edit.html
\* the hidden fields and then the table.
ReadTable ==
    /\ "table" \in queries /\ (kind = "edit" => queries = {"table"})
    /\ reviewed' = pk_list \cap Existing
    /\ queries' = queries \ {"table"}
    /\ UNCHANGED <<record, view, kind, rows, boxes, pks, refused, edits>>

ReadFields ==
    /\ "fields" \in queries /\ (kind = "delete" => queries = {"fields"})
    /\ pks' = pk_list
    /\ queries' = queries \ {"fields"}
    /\ UNCHANGED <<record, view, kind, rows, boxes, reviewed, refused, edits>>

\* The form is not valid, or the change is refused: it is shown again, with the
\* hidden fields it came with and those of the objects that are left.
Redisplay ==
    /\ UNCHANGED record
    /\ IF pks \cap Existing = {}
       THEN ShowList
       ELSE /\ reviewed' = pks \cap Existing
            /\ UNCHANGED <<view, kind, queries, rows, boxes, pks, refused>>

\* A protected object ends a deletion, after some of the others.
Apply(objects) ==
    /\ \/ /\ kind = "delete"
          /\ \E deleted \in SUBSET (objects \ Protected) :
                /\ objects \cap Protected = {} => deleted = objects
                /\ record' = [o \in Objects |-> IF o \in deleted THEN "gone" ELSE record[o]]
       \/ /\ kind = "edit"
          /\ \E r \in {"matching", "other"} :
                record' = [o \in Objects |-> IF o \in objects THEN r ELSE record[o]]
    /\ ShowList

Confirm_applies_to_the_filter ==
    /\ view = "review" /\ queries = {}
    /\ IF pks \subseteq Existing
       THEN Apply(Matching) \/ (kind = "edit" /\ Redisplay)
       ELSE Redisplay
    /\ UNCHANGED edits

\* post() with _confirm or _apply: each hidden field has to name an object.
Confirm ==
    /\ view = "review" /\ queries = {}
    /\ IF pks \subseteq Existing
       THEN Apply(pks) \/ (kind = "edit" /\ Redisplay)
       ELSE Redisplay
    /\ UNCHANGED edits

\* The link Cancel, and loading the list again.
Reload == UNCHANGED <<record, edits>> /\ ShowList

\* Others create, change and delete objects.
Edit ==
    /\ edits < MaxEdits
    /\ edits' = edits + 1
    /\ \E o \in Objects, r \in {"matching", "other", "gone"} :
        /\ record[o] # "gone" /\ (record[o] = "new" => r # "gone")
        /\ record' = [record EXCEPT ![o] = r]
    /\ UNCHANGED <<view, rows, boxes, review, refused>>

-----------------------------------------------------------------------------
Init ==
    /\ record \in [Objects -> {"new", "matching", "other"}]
    /\ rows \in FirstPages(Matching) /\ box = BoxFor(Matching)
    /\ view = "list" /\ kind = "edit" /\ queries = {}
    /\ ticked = {} /\ toggle = FALSE /\ selectAll = FALSE /\ buttons = FALSE
    /\ pks = {} /\ reviewed = {} /\ refused = {}
    /\ edits = 0

Next ==
    \/ \E checked \in BOOLEAN : Toggle(checked) \/ SelectAll(checked)
    \/ \E o \in Objects : Tick(o) \/ Untick(o)
    \/ \E k \in {"edit", "delete"} : Submit(k)
    \/ ReadTable \/ ReadFields \/ Confirm \/ Reload \/ Edit

Spec == Init /\ [][Next]_vars

-----------------------------------------------------------------------------
(* Properties *)

\* Every variable keeps to its values: only rows are checked, all of them while the
\* box in the header is, and #select_all where it can be seen.
TypeOK ==
    /\ record \in [Objects -> {"new", "matching", "other", "gone"}]
    /\ view \in {"list", "review"} /\ kind \in {"edit", "delete"}
    /\ queries \in {{}, {"table", "fields"}, {"table"}, {"fields"}}
    /\ rows \subseteq Objects /\ ticked \subseteq rows /\ (toggle => ticked = rows)
    /\ box \in {"none", "hidden", "visible"} /\ (selectAll => buttons)
    /\ buttons \in BOOLEAN /\ (buttons => box = "visible")
    /\ pks \subseteq Objects /\ reviewed \subseteq Objects /\ refused \subseteq rows
    /\ edits \in 0..MaxEdits

Changed == {o \in Objects : record'[o] # record[o]}

\* What a user has unchecked is not what is to be edited or deleted, though boxes,
\* the header's and "select all" set and reset each other, unless the user checks
\* it, or all, again.
UncheckedRowsAreLeftAlone == view = "review" => refused \cap (pks \cup reviewed) = {}

\* The confirmation of objects picked one by one, or by the page, changes none
\* but those the page before it listed, whoever changes or deletes some meanwhile.
PickedObjectsAreReviewed ==
    [][edits' = edits /\ ~selectAll => Changed \subseteq reviewed]_vars

\* "Please carefully review the objects to be deleted and confirm below": what the
\* confirmation of a bulk deletion deletes was listed for review.
ObjectsAreReviewed ==
    [][edits' = edits /\ kind = "delete" => Changed \subseteq reviewed]_vars

=============================================================================
