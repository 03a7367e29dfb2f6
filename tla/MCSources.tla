----------------------------- MODULE MCSources -----------------------------
(* Four parts on small instances: what a data source does to its files       *)
(* (DataSourceSync), its files to objects (AutoSync), users to many objects  *)
(* (BulkSelection) and to what a list shows of them (TablePreferences).      *)
(* They share no state here, so that a behaviour is one of one of them.      *)
EXTENDS DataSourceSync, TLC

CONSTANTS
    Objects, DataFiles, MaxSyncs, MaxSaves,
    Rows, Protected, RowsPerPage, MaxChanges,
    Tabs, List, Columns, Default, MaxRequests, MaxMoves

VARIABLES
    part,  \* which of the four
    dataFiles, object, record, receiver, todo, loaded, current, pending, syncs, saves,
    held, typed, touched, raced,
    matches, page, kind, queries, rows, ticked, toggle, selectAll, box, buttons, pks,
    reviewed, refused, changes,
    preferences, url, request, options, selected, moves, requests, asked, overlapped

autoVars == <<dataFiles, object, record, receiver, todo, loaded, current, pending, syncs,
              saves, held, typed, touched, raced>>
bulkVars == <<matches, page, kind, queries, rows, ticked, toggle, selectAll, box, buttons,
              pks, reviewed, refused, changes>>
tableVars == <<preferences, url, request, options, selected, moves, requests, asked,
               overlapped>>
allVars == <<part, vars, autoVars, bulkVars, tableVars>>

Sync == INSTANCE AutoSync WITH
    Files <- DataFiles, None <- Missing, MaxEdits <- MaxSaves,
    files <- dataFiles, pc <- receiver, edits <- saves

Bulk == INSTANCE BulkSelection WITH
    Objects <- Rows, PerPage <- RowsPerPage, MaxEdits <- MaxChanges,
    record <- matches, view <- page, edits <- changes

Table == INSTANCE TablePreferences WITH raced <- overlapped

ASSUME PartsAssumption ==
    Sync!NoneAssumption /\ Bulk!SelectionAssumption /\ Table!PreferencesAssumption

SourcesInit ==
    /\ part \in {"source", "auto", "bulk", "table"}
    /\ Init /\ Sync!Init /\ Bulk!Init /\ Table!Init
    /\ part # "source" => remote.tree = NoTree
    /\ part # "bulk" => \A o \in Rows : matches[o] = "new"

Fetching(A)  == part = "source" /\ A /\ UNCHANGED <<part, autoVars, bulkVars, tableVars>>
Following(A) == part = "auto"   /\ A /\ UNCHANGED <<part, vars, bulkVars, tableVars>>
Listing(A)   == part = "bulk"   /\ A /\ UNCHANGED <<part, vars, autoVars, tableVars>>
Arranging(A) == part = "table"  /\ A /\ UNCHANGED <<part, vars, autoVars, bulkVars>>

SourcesNext ==
    \/ Fetching(Next)
    \/ \E o \in Objects :
        \/ Following(Sync!SaveObject(o)) \/ Following(Sync!SaveRecord(o))
        \/ Following(Sync!Fail(o))       \/ Following(Sync!SubmitForm(o))
        \/ Following(Sync!Patch(o))      \/ Following(Sync!DeleteObject(o))
    \/ \E f \in DataFiles : Following(Sync!DeleteFile(f))
    \/ Following(Sync!LoadRecords)  \/ Following(Sync!Complete) \/ Following(Sync!Rest)
    \/ Following(Sync!RefreshFiles) \/ Following(Sync!SaveRequest)
    \/ \E checked \in BOOLEAN :
        Listing(Bulk!Toggle(checked)) \/ Listing(Bulk!SelectAll(checked))
    \/ \E o \in Rows : Listing(Bulk!Tick(o)) \/ Listing(Bulk!Untick(o))
    \/ \E k \in {"edit", "delete"} : Listing(Bulk!Submit(k))
    \/ Listing(Bulk!ReadTable) \/ Listing(Bulk!ReadFields) \/ Listing(Bulk!Confirm)
    \/ Listing(Bulk!Reload)    \/ Listing(Bulk!Edit)
    \/ Arranging(Table!MoveUp) \/ Arranging(Table!MoveDown)
    \/ \E set \in SUBSET Table!Names : Arranging(Table!Select(set))
    \/ \E link \in Table!Links : Arranging(Table!Follow(link))
    \/ Arranging(Table!Save)   \/ Arranging(Table!Reset)
    \/ \E t \in Tabs :
        \/ \E v \in Table!Value, cleared \in SUBSET {"columns", "ordering"} :
            Arranging(Table!SaveAll(t, v, cleared))
        \/ Arranging(Table!Read(t)) \/ Arranging(Table!Change(t)) \/ Arranging(Table!Answer(t))

SourcesSpec == SourcesInit /\ [][SourcesNext]_allVars

\* A table whose default is not in the order of its class.
FourColumns == <<"a", "b", "c", "d">>
TwoOfThem   == <<"b", "a">>

\* Jobs, workers, contents, objects, files and rows that nothing protects may be renamed.
Swap(S) == CHOOSE p \in Permutations(S) : \A x \in S : p[x] # x

SourcesSymmetry ==
    Permutations(Contents) \cup Permutations(DataFiles) \cup Permutations(Workers)
        \cup {Swap(Jobs) @@ Swap(Objects) @@ Swap(Rows \ Protected)}

\* Every variable of each part keeps to its values, as told there: rows link to files
\* that exist, only rows of a page are checked, the buttons lose no option.
TypesOK ==
    /\ part = "source" => TypeOK
    /\ part = "auto"   => Sync!TypeOK
    /\ part = "bulk"   => Bulk!TypeOK
    /\ part = "table"  => Table!TypeOK

\* As stated and explained in AutoSync.
TextComesFromTheFile == Sync!TextComesFromTheFile

\* As stated and explained in AutoSync.
AutomaticObjectsAreFresh == Sync!AutomaticObjectsAreFresh

\* As stated and explained in AutoSync.
AutomaticObjectsAreRecorded == Sync!AutomaticObjectsAreRecorded

\* As stated and explained in BulkSelection.
UncheckedRowsAreLeftAlone == Bulk!UncheckedRowsAreLeftAlone

\* As stated and explained in BulkSelection.
PickedObjectsAreReviewed == Bulk!PickedObjectsAreReviewed

\* As stated and explained in TablePreferences.
BlocksMoveTogether == part = "table" => Table!BlocksMoveTogether

\* As stated and explained in TablePreferences.
PreferencesAreAsAsked == Table!PreferencesAreAsAsked

\* As stated and explained in TablePreferences.
SavedColumnsAreShown == Table!SavedColumnsAreShown

=============================================================================
