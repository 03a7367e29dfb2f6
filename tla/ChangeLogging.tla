--------------------------- MODULE ChangeLogging ---------------------------
(***************************************************************************)
(* What a web request that changes objects leaves behind: the rows, the    *)
(* ObjectChange rows of the change log, and the webhooks handed to RQ.     *)
(*                                                                         *)
(* CoreMiddleware wraps a request in change_logging(): signal receivers    *)
(* append to the request's webhook queue while the view works, and the     *)
(* queue is flushed to RQ when the response is there, whatever the         *)
(* response is.  Several requests run at once; rows written by a           *)
(* transaction are locked until it ends.                                   *)
(*                                                                         *)
(* An object has one plain field and one set of tags (or another           *)
(* many-to-many relation), which is written after the row.  Every event of *)
(* every object has a webhook.                                             *)
(***************************************************************************)
EXTENDS Naturals, Sequences, SequencesExt

CONSTANTS
    Objects,   \* primary keys of change-logged objects
    Requests,  \* web requests that change objects
    Views,     \* the views users go through, among KnownViews
    TagSteps,  \* what they do to tags, among "keep", "change" and "clear"
    None,      \* no object, no request
    MaxLost    \* bound: flushes interrupted because Redis is gone

KnownViews == {"form", "bulk_edit", "bulk_delete", "api_update", "api_delete"}

ASSUME ViewsAssumption ==
    /\ Views \subseteq KnownViews
    /\ TagSteps \subseteq {"keep", "change", "clear"}
    /\ None \notin Objects \cup Requests

VARIABLES
    db,       \* db[o]: the committed row and tags
    locked,   \* locked[o]: the request whose transaction wrote o
    log,      \* the committed ObjectChange rows
    rq,       \* the webhook tasks handed to RQ
    phase,    \* phase[r]: what request r is doing
    view,     \* view[r]: the view it goes through
    todo,     \* todo[r]: the objects it has yet to save or delete
    mem,      \* mem[r][o]: the instance it loaded, its _prechange_snapshot
    wrote,    \* wrote[r][o]: what it wrote
    changes,  \* changes[r]: the ObjectChange rows its transaction wrote
    hooks,    \* hooks[r]: webhooks_queue
    at,       \* at[r]: the object whose row it saved last, and what comes next
    outcome,  \* outcome[r]: how its view ended
    untold,   \* untold[r]: objects whose tags the receivers did not see (history)
    lost      \* interrupted flushes so far

workVars == <<todo, mem, wrote, changes, at, untold>>
reqVars  == <<phase, view, hooks, outcome, workVars>>
dbVars   == <<db, locked, log>>
vars     == <<dbVars, rq, reqVars, lost>>

State     == [value: {0, 1}, tags: BOOLEAN]
Gone      == [value |-> 2, tags |-> FALSE]
Untouched == [value |-> 3, tags |-> FALSE]

Nowhere == [object |-> None, step |-> "keep"]

Atomic  == {"form", "bulk_edit", "api_update", "api_delete"}
Deletes == {"bulk_delete", "api_delete"}
Single  == {"form"}
Clears  == {"bulk_edit", "api_update"}

\* What a view may end with once it has begun to write.
MayRaise ==
    {<<"form", "PermissionsViolation">>, <<"form", "IntegrityError">>,
     <<"bulk_edit", "ValidationError">>, <<"bulk_edit", "IntegrityError">>,
     <<"bulk_delete", "ProtectedError">>, <<"api_delete", "ProtectedError">>,
     <<"api_update", "ValidationError">>, <<"api_update", "ObjectDoesNotExist">>}

\* The handlers that send clear_webhooks: no API viewset does.
SendsClear == {<<"form", "PermissionsViolation">>, <<"bulk_edit", "ValidationError">>}

\* An object as the request's own transaction sees it.
Now(r, o) == IF wrote[r][o] = Untouched THEN db[o] ELSE wrote[r][o]

Put(f, r, o, s) == [f EXCEPT ![r][o] = s]

Entry(r, o, data, post) == [request |-> r, object |-> o, data |-> data, post |-> post]

Change(r, o, post) == [request |-> r, object |-> o, post |-> post]

Free(r, o) == locked[o] \in {None, r}

-----------------------------------------------------------------------------
\* The view loads the objects and takes their snapshots; a form may be that of
\* a new object.
Begin(r, v, targets) ==
    /\ phase[r] = "new"
    /\ v \in Views
    /\ targets # {} /\ (v \in Single => \E o \in targets : targets = {o})
    /\ \A o \in targets :
        \/ db[o] # Gone
        \/ v = "form" /\ locked[o] = None /\ \A q \in Requests : o \notin todo[q]
    /\ phase' = [phase EXCEPT ![r] = "view"]
    /\ view'  = [view  EXCEPT ![r] = v]
    /\ todo'  = [todo  EXCEPT ![r] = targets]
    /\ mem'   = [mem   EXCEPT ![r] = db]
    /\ UNCHANGED <<dbVars, rq, wrote, changes, hooks, at, outcome, untold, lost>>

\* serialize_object(): the API update caches the tags it was given, or none, on
\* the instance, and the cache stands for the tags.
Serialized(r, s, step) ==
    IF view[r] = "api_update" THEN [s EXCEPT !.tags = (step = "change")] ELSE s

\* save() and handle_changed_object() on post_save.
Save(r, o, v, step) ==
    LET new  == [value |-> v, tags |-> Now(r, o).tags]
        post == Serialized(r, new, step)
    IN  /\ phase[r] = "view" /\ view[r] \notin Deletes
        /\ o \in todo[r] /\ at[r] = Nowhere
        /\ Free(r, o)
        /\ step \in TagSteps /\ (step = "clear" => view[r] \in Clears)
        /\ wrote'  = Put(wrote, r, o, new)
        /\ locked' = [locked EXCEPT ![o] = r]
        /\ changes' = [changes EXCEPT ![r] =
               IF post = mem[r][o] THEN @ ELSE @ \cup {Change(r, o, post)}]
        /\ hooks' = [hooks EXCEPT ![r] = Append(@, Entry(r, o, new, post))]
        /\ at'    = [at    EXCEPT ![r] = [object |-> o, step |-> step]]
        /\ todo'  = [todo  EXCEPT ![r] = @ \ {o}]
        /\ UNCHANGED <<db, log, rq, phase, view, mem, outcome, untold, lost>>

LoggedAgain_keeps_the_row(r, o, post) ==
    IF \E c \in changes[r] : c.object = o
    THEN changes[r]
    ELSE changes[r] \cup (IF post = mem[r][o] THEN {} ELSE {Change(r, o, post)})

\* handle_changed_object() on m2m_changed: the log.
LoggedAgain(r, o, post) ==
    IF \E c \in changes[r] : c.object = o
    THEN {c \in changes[r] : c.object # o} \cup {Change(r, o, post)}
    ELSE changes[r] \cup (IF post = mem[r][o] THEN {} ELSE {Change(r, o, post)})

is_same_object_never(o, e) == FALSE

is_same_object(o, e) == e.object = o

Enqueued_keeps_the_data(r, o, s, q) ==
    IF q # <<>> /\ is_same_object(o, Last(q))
    THEN [q EXCEPT ![Len(q)].post = s]
    ELSE Append(q, Entry(r, o, s, s))

\* handle_changed_object() on m2m_changed: the queue.
Enqueued(r, o, s, q) ==
    IF q # <<>> /\ is_same_object(o, Last(q))
    THEN [q EXCEPT ![Len(q)] = Entry(r, o, s, s)]
    ELSE Append(q, Entry(r, o, s, s))

\* The tags, once the row is saved.  Clearing them is an action the receiver
\* ignores.
SaveTags(r) ==
    LET o    == at[r].object
        step == at[r].step
        old  == wrote[r][o]
        new  == [old EXCEPT !.tags =
                   IF step = "keep" THEN @
                   ELSE IF step = "clear" THEN FALSE
                   ELSE IF view[r] = "api_update" THEN TRUE ELSE ~@]
        told == step = "change" /\ new # old
        hide == old.tags /\ (step = "clear" \/ (step = "keep" /\ view[r] = "api_update"))
    IN  /\ o # None
        /\ wrote'   = Put(wrote, r, o, new)
        /\ changes' = IF told THEN [changes EXCEPT ![r] = LoggedAgain(r, o, new)] ELSE changes
        /\ hooks'   = IF told THEN [hooks EXCEPT ![r] = Enqueued(r, o, new, @)] ELSE hooks
        /\ untold'  = [untold EXCEPT ![r] = IF hide THEN @ \cup {o} ELSE @]
        /\ at'      = [at EXCEPT ![r] = Nowhere]
        /\ UNCHANGED <<dbVars, rq, phase, view, todo, mem, outcome, lost>>

\* delete() and handle_deleted_object(), in a transaction of their own if the
\* view has none.
Destroy(r, o) ==
    LET c == Change(r, o, Gone)
    IN  /\ phase[r] = "view" /\ view[r] \in Deletes
        /\ o \in todo[r]
        /\ Free(r, o)
        /\ wrote' = Put(wrote, r, o, Gone)
        /\ hooks' = [hooks EXCEPT ![r] = Append(@, Entry(r, o, Now(r, o), Gone))]
        /\ IF view[r] \in Atomic
           THEN /\ changes' = [changes EXCEPT ![r] = @ \cup {c}]
                /\ locked'  = [locked  EXCEPT ![o] = r]
                /\ UNCHANGED <<db, log>>
           ELSE /\ db'  = [db EXCEPT ![o] = Gone]
                /\ log' = log \cup {c}
                /\ UNCHANGED <<changes, locked>>
        /\ todo' = [todo EXCEPT ![r] = @ \ {o}]
        /\ UNCHANGED <<rq, phase, view, mem, at, outcome, untold, lost>>

Unlock_nothing(r) == UNCHANGED locked

Unlock(r) == locked' = [o \in Objects |-> IF locked[o] = r THEN None ELSE locked[o]]

\* The transaction commits, or the loop of the view ends.
Commit(r) ==
    /\ phase[r] = "view" /\ todo[r] = {} /\ at[r] = Nowhere
    /\ db'  = [o \in Objects |-> IF locked[o] = r THEN wrote[r][o] ELSE db[o]]
    /\ log' = log \cup changes[r]
    /\ Unlock(r)
    /\ changes' = [changes EXCEPT ![r] = {}]
    /\ phase'   = [phase   EXCEPT ![r] = "flush"]
    /\ outcome' = [outcome EXCEPT ![r] = "done"]
    /\ UNCHANGED <<rq, view, todo, mem, wrote, hooks, at, untold, lost>>

\* The transaction is rolled back; some handlers clear the webhook queue.
Abort_forgets_to_clear(r, e) ==
    /\ phase[r] = "view"
    /\ <<view[r], e>> \in MayRaise
    /\ Unlock(r)
    /\ IF view[r] \in Atomic
       THEN /\ wrote'   = [wrote   EXCEPT ![r] = [o \in Objects |-> Untouched]]
            /\ changes' = [changes EXCEPT ![r] = {}]
       ELSE UNCHANGED <<wrote, changes>>
    /\ at'      = [at      EXCEPT ![r] = Nowhere]
    /\ todo'    = [todo    EXCEPT ![r] = {}]
    /\ phase'   = [phase   EXCEPT ![r] = "flush"]
    /\ outcome' = [outcome EXCEPT ![r] = e]
    /\ UNCHANGED <<db, log, rq, view, mem, hooks, untold, lost>>

Abort(r, e) ==
    /\ phase[r] = "view"
    /\ <<view[r], e>> \in MayRaise
    /\ Unlock(r)
    /\ IF view[r] \in Atomic
       THEN /\ wrote'   = [wrote   EXCEPT ![r] = [o \in Objects |-> Untouched]]
            /\ changes' = [changes EXCEPT ![r] = {}]
       ELSE UNCHANGED <<wrote, changes>>
    /\ hooks'   = [hooks   EXCEPT ![r] = IF <<view[r], e>> \in SendsClear THEN <<>> ELSE @]
    /\ at'      = [at      EXCEPT ![r] = Nowhere]
    /\ todo'    = [todo    EXCEPT ![r] = {}]
    /\ phase'   = [phase   EXCEPT ![r] = "flush"]
    /\ outcome' = [outcome EXCEPT ![r] = e]
    /\ UNCHANGED <<db, log, rq, view, mem, untold, lost>>

\* The response is there: what the request held in memory is gone.
Forget(r) ==
    /\ hooks'  = [hooks  EXCEPT ![r] = <<>>]
    /\ mem'    = [mem    EXCEPT ![r] = [o \in Objects |-> Gone]]
    /\ wrote'  = [wrote  EXCEPT ![r] = [o \in Objects |-> Untouched]]
    /\ untold' = [untold EXCEPT ![r] = {}]

\* flush_webhooks(): one RQ task per entry, in order.
Flush(r) ==
    /\ phase[r] = "flush"
    /\ rq'    = rq \cup ToSet(hooks[r])
    /\ phase' = [phase EXCEPT ![r] = "over"]
    /\ Forget(r)
    /\ UNCHANGED <<dbVars, view, outcome, todo, changes, at, lost>>

\* Redis goes away before the last task is there.
FlushFails(r) ==
    /\ phase[r] = "flush"
    /\ lost < MaxLost
    /\ lost' = lost + 1
    /\ \E n \in 1 .. Len(hooks[r]) :
           rq' = rq \cup {hooks[r][i] : i \in 1 .. n - 1}
    /\ phase' = [phase EXCEPT ![r] = "crashed"]
    /\ Forget(r)
    /\ UNCHANGED <<dbVars, view, outcome, todo, changes, at>>

-----------------------------------------------------------------------------
\* The two values of a field are interchangeable: a row starts with the first.
Init ==
    /\ db      \in [Objects -> {s \in State : s.value = 0} \cup {Gone}]
    /\ locked  = [o \in Objects |-> None]
    /\ log     = {}
    /\ rq      = {}
    /\ phase   = [r \in Requests |-> "new"]
    /\ view    = [r \in Requests |-> "form"]
    /\ todo    = [r \in Requests |-> {}]
    /\ mem     = [r \in Requests |-> [o \in Objects |-> Gone]]
    /\ wrote   = [r \in Requests |-> [o \in Objects |-> Untouched]]
    /\ changes = [r \in Requests |-> {}]
    /\ hooks   = [r \in Requests |-> <<>>]
    /\ at      = [r \in Requests |-> Nowhere]
    /\ outcome = [r \in Requests |-> "none"]
    /\ untold  = [r \in Requests |-> {}]
    /\ lost    = 0

Next ==
    \E r \in Requests :
        \/ \E v \in Views, targets \in SUBSET Objects : Begin(r, v, targets)
        \/ \E o \in Objects, v \in {0, 1}, step \in TagSteps : Save(r, o, v, step)
        \/ SaveTags(r)
        \/ \E o \in Objects : Destroy(r, o)
        \/ Commit(r)
        \/ \E x \in MayRaise : Abort(r, x[2])
        \/ Flush(r)
        \/ FlushFails(r)

Spec == Init /\ [][Next]_vars

-----------------------------------------------------------------------------
(* What the steps above are to the change log and to RQ: see CommitJournal. *)

StateOf(r) ==
    IF phase[r] \in {"new", "view"} THEN "open"
    ELSE IF phase[r] = "flush" THEN (IF outcome[r] = "done" THEN "done" ELSE "failed")
    ELSE IF phase[r] = "over" THEN "told" ELSE "lost"

\* A transaction that is open has committed nothing.
Committed(r) ==
    IF phase[r] = "view" /\ view[r] \in Atomic THEN [o \in Objects |-> Untouched] ELSE wrote[r]

JournalState   == [r \in Requests |-> StateOf(r)]
JournalPending == [r \in Requests |-> Committed(r)]

Journal == INSTANCE CommitJournal WITH
    Rows <- State \cup {Gone}, state <- JournalState, pending <- JournalPending

-----------------------------------------------------------------------------
(* Properties *)

\* Types; a transaction is open only while its view runs: it holds rows and
\* unseen ObjectChange rows then, and no longer.
TypeOK ==
    /\ db \in [Objects -> State \cup {Gone}]
    /\ phase \in [Requests -> {"new", "view", "flush", "over", "crashed"}]
    /\ view \in [Requests -> Views \cup {"form"}]
    /\ \A r \in Requests :
        phase[r] # "view" =>
            todo[r] = {} /\ changes[r] = {} /\ at[r] = Nowhere
    /\ \A o \in Objects : locked[o] = None \/ phase[locked[o]] = "view"

Announced(r) == ToSet(hooks[r])

\* Serialisability of the writers of one object: a request that is done has
\* written what the webhooks it is about to hand over say, whatever other
\* requests did to the same object.  Each object it saved or deleted is told
\* with the state that was committed, and exactly once.  Only tags may be told
\* otherwise: when they were cleared, and, in the snapshot, when an API update
\* said nothing of them.
DoneChangesAreTold ==
    \A r \in Requests : outcome[r] = "done" /\ phase[r] = "flush" =>
        \A o \in Objects : wrote[r][o] # Untouched =>
            \E e \in Announced(r) :
                /\ e.object = o
                /\ e.post.value = wrote[r][o].value
                /\ e.post # Gone => e.data.value = e.post.value
                /\ o \notin untold[r] =>
                      e.post = wrote[r][o] /\ (e.post # Gone => e.data = e.post)
                /\ \A d \in Announced(r) : d.object = o => d = e

\* What a request changed is in the change log as it was committed.  The change
\* is against the instance the view read: a save that takes another request's
\* change back may look like no change at all; and tags may not be told.
DoneChangesAreLogged ==
    \A r \in Requests : outcome[r] = "done" /\ phase[r] = "flush" =>
        \A o \in Objects \ untold[r] :
            wrote[r][o] \in {Untouched, mem[r][o]} \/ Change(r, o, wrote[r][o]) \in log

\* Signals, tags written after rows, transactions, locks, rollbacks and flushes, of
\* requests that overlap, amount to commits that the log and RQ hear of: each row once,
\* as it was committed, the log in the same step and RQ after, both the same.
CommitsAreJournalled == Journal!Spec

\* RQ is not given the webhook of a change that was rolled back, when the view
\* catches what ended it and clears the queue.
HandledAbortsAreSilent ==
    [][\A e \in rq' \ rq :
          \/ wrote[e.request][e.object] # Untouched
          \/ <<view[e.request], outcome[e.request]>> \notin SendsClear]_vars

\* "Deletes any queued webhooks (e.g. because of an aborted bulk transaction)":
\* RQ is given no webhook of a change that was rolled back.
AbortsAreSilent ==
    [][\A e \in rq' \ rq : wrote[e.request][e.object] # Untouched]_vars

=============================================================================
