-------------------------- MODULE TablePreferences --------------------------
(***************************************************************************)
(* The preferences of a user: the dialog that arranges the columns of a    *)
(* list (the buttons of forms.js), the requests that save what it says,    *)
(* the order, the length of pages and the preferences page, and the list   *)
(* that is shown after.                                                    *)
(*                                                                         *)
(* All preferences are one JSON value: a request reads it, changes some    *)
(* keys and saves the whole, as many times as it has something to save.    *)
(* The user has several tabs; the dialog is that of the list in one of     *)
(* them.  Stored keys never clash with categories, so that paths do for    *)
(* nested objects; a list of no columns counts as none.                    *)
(***************************************************************************)
EXTENDS Integers, Sequences, SequencesExt

CONSTANTS
    Tabs, List,  \* the tabs, and the one with the list
    Columns,     \* the columns of the table, in the order of its class
    Default,     \* Meta.default_columns
    MaxRequests, \* bound: what users ask for
    MaxMoves     \* bound: clicks in the dialog of one page

PreferencesAssumption ==
    /\ List \in Tabs
    /\ Columns \in Seq(STRING) /\ IsInjective(Columns)
    /\ Default \in Seq(Range(Columns)) \ {<<>>} /\ IsInjective(Default)
    /\ {MaxRequests, MaxMoves} \subseteq Nat

VARIABLES
    preferences, \* the row
    url,         \* what the URL of the list saves whenever it is loaded
    request,     \* request[t]: what tab t waits for, and the instance it works on
    options,     \* the options of the dialog
    selected,    \* those that are selected
    moves,       \* clicks in the dialog
    requests,    \* what users asked for so far
    asked,       \* what was last asked for each preference (history)
    raced        \* has a request saved while another one worked (history)

dialog == <<options, selected, moves>>
vars   == <<preferences, url, request, dialog, requests, asked, raced>>

Names == Range(Columns)

Value == {"none", "set"}
NoPreferences == [columns |-> <<>>, ordering |-> "none", per_page |-> "none"]

\* stage: "idle", "sent", "read"; each change saves its keys; a POST to the list
\* redirects to it.
AtRest == [stage |-> "idle", changes |-> <<>>, instance |-> NoPreferences, shows |-> FALSE]

OfColumns(s) == [columns |-> s]
Ordering(v) == [ordering |-> v]
PerPage(v)  == [per_page |-> v]
AllOf(v, cleared) ==
    [k \in {"per_page"} \cup cleared |-> IF k = "per_page" THEN v ELSE NoPreferences[k]]

\* Preferences with the keys of a change set.
Updated(p, change) == [k \in DOMAIN p |-> IF k \in DOMAIN change THEN change[k] ELSE p[k]]

-----------------------------------------------------------------------------
(* The dialog *)

\* The members of s that are in a set, in the order of s.
Among(s, set) ==
    LET taken[n \in 0..Len(s)] ==
            IF n = 0 THEN <<>>
            ELSE IF s[n] \in set THEN Append(taken[n - 1], s[n]) ELSE taken[n - 1]
    IN  taken[Len(s)]

Selected == Among(options, selected)

Position(s, option) == CHOOSE k \in DOMAIN s : s[k] = option

\* A copy of the option at i is put at j and the option is removed.
MoveTo(s, i, j) == InsertAt(RemoveAt(s, i), j, s[i])

\* One option moves by so many places, if there are so many.
Shift(s, option, by) ==
    LET i == CHOOSE k \in DOMAIN s : s[k] = option
    IN  IF i + by \in DOMAIN s THEN MoveTo(s, i, i + by) ELSE s

\* The chosen options move one after the other.
ShiftAll(s, chosen, by) ==
    LET shifted[n \in 0..Len(chosen)] ==
            IF n = 0 THEN s ELSE Shift(shifted[n - 1], chosen[n], by)
    IN  shifted[Len(chosen)]

move_up(s, chosen)          == ShiftAll(s, chosen, -1)
move_down_by_one(s, chosen) == ShiftAll(s, chosen, 1)
move_down(s, chosen)        == ShiftAll(s, chosen, Len(chosen))

Click == moves < MaxMoves /\ moves' = moves + 1 /\ request[List] = AtRest

MoveUp ==
    /\ Click
    /\ options' = move_up(options, Selected)
    /\ UNCHANGED <<preferences, url, request, selected, requests, asked, raced>>

MoveDown ==
    /\ Click
    /\ options' = move_down(options, Selected)
    /\ UNCHANGED <<preferences, url, request, selected, requests, asked, raced>>

\* Clicks on options, or "Select all".
Select(set) ==
    /\ Click
    /\ selected' = set
    /\ UNCHANGED <<preferences, url, request, options, requests, asked, raced>>

-----------------------------------------------------------------------------
(* Requests *)

sequence_of_the_class(columns) ==
    LET first == IF columns = <<>> THEN Default ELSE columns
    IN  Among(Columns, Range(first)) \o Among(Columns, Names \ Range(first))

\* The columns of a table: those preferred, then the others.
sequence(columns) ==
    LET first == IF columns = <<>> THEN Default ELSE columns
    IN  first \o Among(Columns, Names \ Range(first))

Send(t, changes, shows) ==
    /\ requests < MaxRequests /\ requests' = requests + 1
    /\ request[t] = AtRest
    /\ request' = [request EXCEPT ![t].stage = "sent", ![t].changes = changes,
                                  ![t].shows = shows]
    /\ UNCHANGED <<preferences, dialog, asked, raced>>

\* A link of the list: an order or none, a length of pages, or neither.
Follow(link) == url' = link /\ Send(List, link, TRUE)

\* "Save" and "Reset" of the dialog.
Save  == Send(List, <<OfColumns(Selected)>>, FALSE) /\ UNCHANGED url
Reset == Send(List, <<OfColumns(<<>>)>>, FALSE) /\ UNCHANGED url

\* The preferences page: one save of all it says.
SaveAll(t, v, cleared) ==
    /\ t # List
    /\ Send(t, <<AllOf(v, cleared)>>, FALSE)
    /\ UNCHANGED url

\* request.user.preferences
Read(t) ==
    /\ request[t].stage = "sent"
    /\ request' = [request EXCEPT ![t].stage = "read", ![t].instance = preferences]
    /\ UNCHANGED <<preferences, url, dialog, requests, asked, raced>>

Change_after_the_save(t) ==
    LET changes == request[t].changes IN
    /\ request[t].stage = "read" /\ changes # <<>>
    /\ request' = [request EXCEPT ![t].instance = Updated(@, Head(changes)),
                                  ![t].changes = Tail(changes)]
    /\ preferences' = request[t].instance
    /\ asked' = Updated(asked, Head(changes))
    /\ raced' = (raced \/ \E u \in Tabs \ {t} : request[u].stage = "read")
    /\ UNCHANGED <<url, dialog, requests>>

\* UserPreferences.set() or delete(), and save()
Change(t) ==
    LET changes == request[t].changes IN
    /\ request[t].stage = "read" /\ changes # <<>>
    /\ request' = [request EXCEPT ![t].instance = Updated(@, Head(changes)),
                                  ![t].changes = Tail(changes)]
    /\ preferences' = request'[t].instance
    /\ asked' = Updated(asked, Head(changes))
    /\ raced' = (raced \/ \E u \in Tabs \ {t} : request[u].stage = "read")
    /\ UNCHANGED <<url, dialog, requests>>

\* The answer to a POST redirects to the list in the tab of the list, and to the
\* preferences page in another one, which saves nothing.
Answer(t) ==
    /\ request[t].stage = "read" /\ request[t].changes = <<>>
    /\ IF t = List /\ ~request[t].shows
       THEN /\ request' = [request EXCEPT ![t] =
                               [AtRest EXCEPT !.stage = "sent", !.changes = url, !.shows = TRUE]]
            /\ UNCHANGED dialog
       ELSE /\ request' = [request EXCEPT ![t] = AtRest]
            /\ IF t = List
               THEN LET columns == request[t].instance.columns IN
                    /\ options' = sequence(columns)
                    /\ selected' = Range(IF columns = <<>> THEN Default ELSE columns)
                    /\ moves' = 0
               ELSE UNCHANGED dialog
    /\ UNCHANGED <<preferences, url, requests, asked, raced>>

-----------------------------------------------------------------------------
Init ==
    /\ preferences = NoPreferences /\ asked = NoPreferences
    /\ url = <<>>
    /\ request = [t \in Tabs |-> AtRest]
    /\ options = sequence(<<>>) /\ selected = Range(Default)
    /\ moves = 0 /\ requests = 0 /\ raced = FALSE

Links == {<<>>, <<Ordering("set")>>, <<Ordering("none")>>, <<PerPage("set")>>,
          <<Ordering("set"), PerPage("set")>>}

Next ==
    \/ MoveUp \/ MoveDown
    \/ \E set \in SUBSET Names : Select(set)
    \/ \E link \in Links : Follow(link)
    \/ Save \/ Reset
    \/ \E t \in Tabs :
        \/ \E v \in Value, cleared \in SUBSET {"columns", "ordering"} : SaveAll(t, v, cleared)
        \/ Read(t) \/ Change(t) \/ Answer(t)

Spec == Init /\ [][Next]_vars

-----------------------------------------------------------------------------
(* Properties *)

\* Every variable keeps to its values: the buttons lose and double no option.
TypeOK ==
    /\ \A p \in {preferences, asked} \cup {request[t].instance : t \in Tabs} :
        /\ DOMAIN p = DOMAIN NoPreferences /\ {p.ordering, p.per_page} \subseteq Value
        /\ IsInjective(p.columns) /\ Range(p.columns) \subseteq Names
    /\ url \in Links
    /\ \A t \in Tabs : request[t].stage \in {"idle", "sent", "read"}
    /\ IsInjective(options) /\ Range(options) = Names
    /\ selected \subseteq Names
    /\ moves \in 0..MaxMoves /\ requests \in 0..MaxRequests /\ raced \in BOOLEAN

\* A block of selected options moves as a whole, by one place, in the order it has:
\* up where something is above it, down where enough is below it, and down again is
\* where it was, though each button moves one option after the other in a list that
\* changes meanwhile.
BlocksMoveTogether ==
    \A i, j \in DOMAIN options :
        i <= j /\ selected = {options[k] : k \in i..j} =>
            LET block == SubSeq(options, i, j)
                above == SubSeq(options, 1, i - 1)
                below == SubSeq(options, j + 1, Len(options))
                up    == move_up(options, Selected)
            IN  /\ above # <<>> =>
                    /\ up = Front(above) \o block \o <<Last(above)>> \o below
                    /\ move_down(up, Selected) = options
                /\ below # <<>> =>
                    move_down(options, Selected)
                        = above \o <<Head(below)>> \o block \o Tail(below)

\* A list that is loaded while nothing overlaps shows what was last asked for: the
\* columns that were selected when the dialog was saved, in the order they had
\* there, or the default ones.
SavedColumnsAreShown ==
    [][request[List].stage = "read" /\ request'[List].stage = "idle" /\ ~raced =>
        Among(options', selected') =
            (IF asked.columns = <<>> THEN Default ELSE asked.columns)]_vars

\* Each preference is what was last asked for, though every request saves all of
\* them, and some more than once, unless requests overlapped.
PreferencesAreAsAsked == ~raced => preferences = asked

=============================================================================
