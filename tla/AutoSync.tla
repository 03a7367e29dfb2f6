----------------------------- MODULE AutoSync -----------------------------
(***************************************************************************)
(* Objects whose text comes from a data file (configurations, e-mail and   *)
(* export templates, config contexts) and the records that make the source *)
(* they come from refresh them: SynchronisedDataMixin, its save(), clean() *)
(* and delete(), and the receiver of post_synchronisation that walks       *)
(* the AutoSynchronisationRecord rows.                                     *)
(*                                                                         *)
(* Users edit objects through the form, which validates an instance and    *)
(* saves it in a transaction, and through the API, which validates, then   *)
(* sets the text again, then saves.  The receiver saves outside any        *)
(* transaction, from instances it loaded before its loop.                  *)
(*                                                                         *)
(* There is one source.  A file is its primary key: once deleted it never  *)
(* comes back.  Timestamps are left out.                                   *)
(***************************************************************************)
EXTENDS Naturals

CONSTANTS
    Objects,   \* primary keys of synchronised objects
    Files,     \* primary keys of the source's data files
    Contents,  \* what a file or an object's text may be
    None,      \* no file, no content, no object
    MaxSyncs,  \* bound: synchronisations of the source
    MaxEdits   \* bound: requests of users

NoneAssumption == None \notin Files /\ None \notin Contents /\ None \notin Objects

VARIABLES
    files,    \* files[f]: the content of the data file, None if there is no row
    object,   \* object[o]: the row of the object
    record,   \* record[o]: the data file of the object's record, or None
    pc,       \* what the synchronisation is doing
    todo,     \* the objects whose records the receiver has yet to visit
    loaded,   \* loaded[o]: the instance the receiver loaded
    current,  \* the object whose row is saved and whose record is not yet
    pending,  \* the user's request: the instance it is about to save
    syncs, edits,
    held,     \* held[f]: the contents file f has had (history)
    typed,    \* the objects whose text a user typed last (history)
    touched,  \* the objects users changed since the synchronisation began
    raced     \* has a request been saved during a synchronisation (history)

dataVars    == <<files, held>>
syncVars    == <<pc, todo, loaded, current, syncs>>
requestVars == <<pending, edits>>
historyVars == <<typed, touched, raced>>
vars == <<dataVars, object, record, syncVars, requestVars, historyVars>>

Content == Contents \cup {None}
Link    == Files \cup {None}

Instance == [text: Content, file: Link, auto: BOOLEAN]
NoObject == [text |-> None, file |-> None, auto |-> FALSE]

\* A row always has a text.
Exists(r) == r.text # None

NoRequest == [object |-> None, instance |-> NoObject, typed |-> FALSE]

Present(f) == f # None /\ files[f] # None

-----------------------------------------------------------------------------
(* SynchronisedDataMixin *)

\* synchronise(): a dangling or missing data file raises.
Synchronisable(i) == Exists(i) /\ Present(i.file)

synchronise(i) == [i EXCEPT !.text = files[i.file]]

\* clean(): an object without a file is not synchronised automatically.
clean_keeps_text(i) == IF i.file = None THEN [i EXCEPT !.auto = FALSE] ELSE i

clean(i) == IF i.file = None THEN [i EXCEPT !.auto = FALSE] ELSE synchronise(i)

\* What save() leaves in the record of an object: only a record of the very
\* same file is deleted.
saved_record_create_only(i, r) ==
    IF i.auto /\ i.file # None THEN (IF r = None THEN i.file ELSE r)
    ELSE IF r = i.file THEN None ELSE r

saved_record(i, r) ==
    IF i.auto /\ i.file # None THEN i.file
    ELSE IF r = i.file THEN None ELSE r

save_row(o, i)    == object' = [object EXCEPT ![o] = i]
save_record(o, i) == record' = [record EXCEPT ![o] = saved_record(i, @)]

-----------------------------------------------------------------------------
(* A synchronisation of the source: DataSource.synchronise() *)

\* Deleting a file deletes its records and unlinks its objects.
Cascade_keeps_records(gone) ==
    /\ object' = [o \in Objects |->
            IF object[o].file \in gone THEN [object[o] EXCEPT !.file = None] ELSE object[o]]
    /\ record' = record

Cascade(gone) ==
    /\ object' = [o \in Objects |->
            IF object[o].file \in gone THEN [object[o] EXCEPT !.file = None] ELSE object[o]]
    /\ record' = [o \in Objects |-> IF record[o] \in gone THEN None ELSE record[o]]

\* Files are updated, deleted and created; a deleted row never comes back.
RefreshFiles ==
    /\ pc = "idle" /\ syncs < MaxSyncs
    /\ \E new \in [Files -> Content] :
        /\ \A f \in Files : files[f] = None /\ held[f] # {} => new[f] = None
        /\ files' = new
        /\ held'  = [f \in Files |-> held[f] \cup ({new[f]} \ {None})]
        /\ Cascade({f \in Files : new[f] = None})
    /\ pc' = "signal"
    /\ syncs' = syncs + 1
    /\ touched' = {}
    /\ UNCHANGED <<todo, loaded, current, requestVars, typed, raced>>

\* The records of the source's files, each with the object it points to.
LoadRecords ==
    /\ pc = "signal"
    /\ todo' = {o \in Objects : record[o] # None}
    /\ loaded' = [o \in Objects |-> IF record[o] # None THEN object[o] ELSE NoObject]
    /\ pc' = "loop"
    /\ UNCHANGED <<dataVars, object, record, current, syncs, requestVars, historyVars>>

\* record.object.synchronise(save=True), the row
SaveObject(o) ==
    /\ pc = "loop" /\ current = None
    /\ o \in todo
    /\ Synchronisable(loaded[o])
    /\ save_row(o, synchronise(loaded[o]))
    /\ current' = o
    /\ typed' = typed \ {o}
    /\ UNCHANGED <<dataVars, record, pc, todo, loaded, syncs, requestVars, touched, raced>>

\* and its record.
SaveRecord(o) ==
    /\ current = o
    /\ save_record(o, loaded[o])
    /\ Present(loaded[o].file) \/ ~loaded[o].auto
    /\ current' = None
    /\ todo' = todo \ {o}
    /\ UNCHANGED <<dataVars, object, pc, loaded, syncs, requestVars, historyVars>>

\* No object, no data file, or a data file that was deleted: the exception
\* leaves synchronise() and the source ends up failed.
Fail(o) ==
    /\ pc = "loop"
    /\ \/ current = None /\ o \in todo /\ ~Synchronisable(loaded[o])
       \/ current = o /\ loaded[o].auto /\ ~Present(loaded[o].file)
    /\ pc' = "failed"
    /\ UNCHANGED <<dataVars, object, record, todo, loaded, current, syncs, requestVars,
                   historyVars>>

Complete_early ==
    /\ pc = "loop" /\ current = None
    /\ pc' = "completed"
    /\ UNCHANGED <<dataVars, object, record, todo, loaded, current, syncs, requestVars,
                   historyVars>>

Complete ==
    /\ pc = "loop" /\ current = None /\ todo = {}
    /\ pc' = "completed"
    /\ UNCHANGED <<dataVars, object, record, todo, loaded, current, syncs, requestVars,
                   historyVars>>

\* The next synchronisation may begin.
Rest ==
    /\ pc \in {"completed", "failed"}
    /\ pc' = "idle"
    /\ todo' = {} /\ current' = None
    /\ loaded' = [o \in Objects |-> NoObject]
    /\ UNCHANGED <<dataVars, object, record, syncs, requestVars, historyVars>>

-----------------------------------------------------------------------------
(* Requests of users *)

Ask(o, i, t) ==
    /\ edits < MaxEdits
    /\ pending = NoRequest
    /\ edits' = edits + 1
    /\ pending' = [object |-> o, instance |-> i, typed |-> t]
    /\ UNCHANGED <<dataVars, object, record, syncVars, historyVars>>

\* The form of a new or an existing object sets every field.
SubmitForm(o) ==
    \E i \in Instance :
        /\ Exists(i)
        /\ i.file = None \/ Present(i.file)
        /\ Ask(o, clean(i), i.file = None)

\* PATCH: full_clean() synchronises the instance, then the serializer sets the
\* text it was given.
Patch(o) ==
    /\ Exists(object[o])
    /\ \E text \in Contents : Ask(o, [clean(object[o]) EXCEPT !.text = text], TRUE)

Touch(o) ==
    /\ touched' = touched \cup {o}
    /\ raced'   = (raced \/ pc # "idle")

\* The row and the record are saved in one transaction, unless the data file
\* is gone by now: a foreign key that dangles is refused.
SaveRequest ==
    LET o == pending.object
        i == pending.instance
    IN  /\ pending # NoRequest
        /\ IF i.file = None \/ Present(i.file)
           THEN /\ save_row(o, i)
                /\ save_record(o, i)
                /\ typed' = IF pending.typed THEN typed \cup {o} ELSE typed \ {o}
                /\ Touch(o)
           ELSE UNCHANGED <<object, record, historyVars>>
        /\ pending' = NoRequest
        /\ UNCHANGED <<dataVars, syncVars, edits>>

\* delete(): the record goes only if it is that of the object's own file.
DeleteObject(o) ==
    /\ edits < MaxEdits /\ pending = NoRequest
    /\ Exists(object[o])
    /\ object' = [object EXCEPT ![o] = NoObject]
    /\ record' = [record EXCEPT ![o] = IF @ = object[o].file THEN None ELSE @]
    /\ typed'  = typed \ {o}
    /\ Touch(o)
    /\ edits'  = edits + 1
    /\ UNCHANGED <<dataVars, syncVars, pending>>

\* DataFileDeleteView
DeleteFile(f) ==
    /\ edits < MaxEdits /\ pending = NoRequest
    /\ Present(f)
    /\ files' = [files EXCEPT ![f] = None]
    /\ Cascade({f})
    /\ touched' = touched \cup {o \in Objects : object[o].file = f}
    /\ raced' = (raced \/ pc # "idle")
    /\ edits' = edits + 1
    /\ UNCHANGED <<held, syncVars, pending, typed>>

-----------------------------------------------------------------------------
Init ==
    /\ files   = [f \in Files |-> None]
    /\ held    = [f \in Files |-> {}]
    /\ object  = [o \in Objects |-> NoObject]
    /\ record  = [o \in Objects |-> None]
    /\ pc      = "idle"
    /\ todo    = {}
    /\ loaded  = [o \in Objects |-> NoObject]
    /\ current = None
    /\ pending = NoRequest
    /\ syncs   = 0
    /\ edits   = 0
    /\ typed   = {}
    /\ touched = {}
    /\ raced   = FALSE

Receiver ==
    \/ LoadRecords
    \/ \E o \in Objects : SaveObject(o) \/ SaveRecord(o) \/ Fail(o)
    \/ Complete
    \/ Rest

Next ==
    \/ RefreshFiles
    \/ Receiver
    \/ \E o \in Objects : SubmitForm(o) \/ Patch(o) \/ DeleteObject(o)
    \/ SaveRequest
    \/ \E f \in Files : DeleteFile(f)

Spec == Init /\ [][Next]_vars

-----------------------------------------------------------------------------
(* Properties *)

\* Among the types: no row links to a file that has no row, not even when the
\* file is deleted while a request or the receiver holds an instance that does.
TypeOK ==
    /\ files   \in [Files -> Content]
    /\ held    \in [Files -> SUBSET Contents]
    /\ object  \in [Objects -> Instance]
    /\ record  \in [Objects -> Link]
    /\ pc      \in {"idle", "signal", "loop", "completed", "failed"}
    /\ todo    \subseteq Objects
    /\ loaded  \in [Objects -> Instance]
    /\ current \in Objects \cup {None}
    /\ pending \in [object: Objects \cup {None}, instance: Instance, typed: BOOLEAN]
    /\ typed   \subseteq Objects
    /\ touched \subseteq Objects
    /\ \A o \in Objects : {object[o].file, record[o]} \subseteq {None} \cup {f \in Files : Present(f)}

\* The text of an object linked to a file was that file's content at some time,
\* or was typed by a user through the API: rows are saved whole, so that stale
\* instances may bring back an old text but never mix two files.
TextComesFromTheFile ==
    \A o \in Objects :
        Exists(object[o]) /\ object[o].file # None /\ o \notin typed
            => object[o].text \in held[object[o].file]

\* When the receiver has visited all the records, every automatic object that
\* no user touched meanwhile has the text of its file.
AutomaticObjectsAreFresh ==
    pc = "completed" =>
        \A o \in Objects :
            object[o].auto /\ object[o].file # None /\ o \notin touched /\ ~raced
                => object[o].text = files[object[o].file]

\* Between synchronisations, an automatic object has the record of its file,
\* unless a request was saved during a synchronisation.
AutomaticObjectsAreRecorded ==
    pc = "idle" /\ ~raced =>
        \A o \in Objects :
            object[o].auto /\ object[o].file # None => record[o] = object[o].file

\* "Enable automatic synchronisation of data when the data file is updated":
\* the receiver changes no object for which it is disabled, requests saved
\* during a synchronisation aside.
ManualObjectsAreLeftAlone ==
    [][\A o \in Objects : current' = o /\ current # o /\ ~raced
            => object[o].auto \/ object'[o] = object[o]]_vars

=============================================================================
