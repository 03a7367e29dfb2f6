-------------------------- MODULE DataSourceSync --------------------------
(***************************************************************************)
(* A data source, the data files fetched from it, and everything that      *)
(* synchronises it or pushes to it: web requests that queue jobs, workers  *)
(* that run them, and the `datasource` management command that calls       *)
(* DataSource.synchronise() itself.  Jobs live as JobLifecycle says: every *)
(* step a job takes here is one of its actions, joined to what the step    *)
(* does to the source.                                                     *)
(*                                                                         *)
(* Every actor works on its own DataSource instance, read or unpickled     *)
(* once, and every save() writes all of that instance's fields.            *)
(*                                                                         *)
(* The backend is the git one.  A file's size, hash and data are its       *)
(* content; a timestamp is the value of a clock that ticks when it is read.*)
(***************************************************************************)
EXTENDS Naturals, FiniteSets

CONSTANTS
    Jobs, Workers, Idle,    \* as in JobLifecycle
    Commands,   \* runs of `manage.py datasource`
    Kinds,      \* the jobs users ask for, among "sync" and "push"
    Paths,      \* file names in the repository
    Ignored,    \* those that the source's ignore rules match
    PushPath,   \* the data_path of the router whose configuration is pushed
    Contents,   \* what a file may contain
    Missing,    \* the content of a file that does not exist
    MaxCommits, \* bound: revisions of the repository
    MaxEdits,   \* bound: users' edits of the source and deletions of its files
    MaxFaults   \* bound: killed workers, lost tasks, errors outside a try block

ASSUME ModelAssumption ==
    /\ Idle \notin Jobs
    /\ Commands \cap Jobs = {}
    /\ Kinds \subseteq {"sync", "push"}
    /\ Ignored \subseteq Paths
    /\ PushPath \in Paths
    /\ Missing \notin Contents
    /\ IsFiniteSet(Jobs) /\ IsFiniteSet(Commands)
    /\ MaxEdits \in Nat /\ MaxFaults \in Nat

VARIABLES
    row, copy, func, stage, queue, busy,   \* as in JobLifecycle
    source,   \* the DataSource row
    files,    \* files[p]: the DataFile row of path p
    remote,   \* the head of the git repository and its revision
    seen,     \* seen[p]: what the repository ever held at p (history)
    unnoticed, \* the actors whose push was refused without their backend noticing (history)
    clock,    \* the latest value given to last_synchronised
    pc,       \* pc[a]: how far actor a has come
    mem,      \* mem[a]: the DataSource instance actor a works on
    clone,    \* clone[a]: the clone actor a fetched, and the text it pushes
    listing,  \* listing[a]: the DataFile rows actor a listed
    theirs,   \* theirs[a]: the paths of rows that others changed since (history)
    edit,     \* the request that edits the source, and the instance it read
    edits,    \* users' edits and deletions so far
    faults,   \* faults so far
    slips     \* has a fault or a stale edit happened (history)

jobVars  == <<row, copy, func, stage, queue, busy>>
fileVars == <<files, remote, seen, unnoticed>>
ownVars  == <<clone, listing, theirs>>
userVars == <<edit, edits>>
faultVars == <<faults, slips>>
vars == <<jobVars, source, fileVars, clock, pc, mem, ownVars, userVars, faultVars>>

Job == INSTANCE JobLifecycle

Actors == Jobs \cup Commands

DataSourceStatus ==
    {"NEW", "QUEUED", "SYNCHRONISING", "PUSHING", "COMPLETED", "FAILED"}

\* A DataSource row; last_synchronised is 0 until it is set.
DataSource == [status: DataSourceStatus, enabled: BOOLEAN, last: Nat]

\* A DataFile row; a primary key only has to tell rows of one path apart.
NoFile   == [id |-> 0, content |-> Missing]
DataFile == [id: Nat \ {0}, content: Contents] \cup {NoFile}
NoFiles  == [p \in Paths |-> NoFile]

Tree    == [Paths -> Contents \cup {Missing}]
NoTree  == [p \in Paths |-> Missing]
NoClone == [tree |-> NoTree, rev |-> 0, text |-> Missing]

NewSource == [status |-> "NEW", enabled |-> TRUE, last |-> 0]
NoEdit    == [open |-> FALSE, read |-> NewSource]

At(a, s) == pc[a] = s

Goto(a, s) == pc' = [pc EXCEPT ![a] = s]

\* The instance is saved: all of its fields are written.
save(a, instance) ==
    /\ mem'    = [mem EXCEPT ![a] = instance]
    /\ source' = instance

set_status(a, status) == save(a, [mem[a] EXCEPT !.status = status])

Forget(a) ==
    /\ clone'   = [clone   EXCEPT ![a].tree = NoTree, ![a].rev = 0]
    /\ listing' = [listing EXCEPT ![a] = NoFiles]
    /\ theirs'  = [theirs  EXCEPT ![a] = {}]

\* Between the listing and the last file.
Mirroring == {"update", "delete", "create", "finish"}

\* What changes the files, changes them behind the back of some.
Behind(others) ==
    theirs' = [b \in Actors |->
        IF b \in others /\ pc[b] \in Mirroring
        THEN theirs[b] \cup {p \in Paths : files'[p] # files[p]} ELSE theirs[b]]

Used(p) == {files[p].id} \cup {listing[a][p].id : a \in Actors}

Fresh(p) == CHOOSE n \in 1..(Cardinality(Used(p)) + 1) : n \notin Used(p)

-----------------------------------------------------------------------------
(* Web requests that queue a job. *)

\* POST .../synchronise/: the view reads the source,
RequestSync(j) ==
    /\ "sync" \in Kinds
    /\ stage[j] = "absent" /\ At(j, "idle")
    /\ mem' = [mem EXCEPT ![j] = source]
    /\ Goto(j, "asked")
    /\ UNCHANGED <<jobVars, source, fileVars, clock, ownVars, userVars, faultVars>>

\* saves it as queued, whatever it was doing,
SaveQueued(j) ==
    /\ At(j, "asked")
    /\ set_status(j, "QUEUED")
    /\ Goto(j, "queued")
    /\ UNCHANGED <<jobVars, fileVars, clock, ownVars, userVars, faultVars>>

\* creates the job,
EnqueueSync(j) ==
    /\ At(j, "queued")
    /\ Job!enqueue(j, "sync")
    /\ UNCHANGED <<source, fileVars, clock, pc, mem, ownVars, userVars, faultVars>>

\* POST .../push-datasource/ creates the job and does not touch the source,
EnqueuePush(j) ==
    /\ "push" \in Kinds
    /\ At(j, "idle")
    /\ Job!enqueue(j, "push")
    /\ UNCHANGED <<source, fileVars, clock, pc, mem, ownVars, userVars, faultVars>>

\* and queues the task, which carries a pickled copy of the source.
Delay(j) ==
    /\ Job!delay(j)
    /\ UNCHANGED <<source, fileVars, clock, pc, mem, ownVars, userVars, faultVars>>

LoseTask(j) ==
    /\ faults < MaxFaults
    /\ Job!delay_fails(j)
    /\ faults' = faults + 1 /\ slips' = TRUE
    /\ UNCHANGED <<source, fileVars, clock, pc, mem, ownVars, userVars>>

-----------------------------------------------------------------------------
(* core.jobs.synchronise_datasource and push_configuration_to_data_source,  *)
(* the parts outside DataSource's own methods.                              *)

TakeJob(w) ==
    /\ Job!Take(w)
    /\ UNCHANGED <<source, fileVars, clock, pc, mem, ownVars, userVars, faultVars>>

StartSync(w, j) ==
    /\ func[j] = "sync"
    /\ Job!mark_running(w, j)
    /\ Goto(j, "sync")
    /\ UNCHANGED <<source, fileVars, clock, mem, ownVars, userVars, faultVars>>

\* The router has no data source or no path in it.
CancelPush(w, j) ==
    /\ At(j, "idle")
    /\ Job!cancel(w, j)
    /\ Goto(j, "done")
    /\ UNCHANGED <<source, fileVars, clock, mem, ownVars, userVars, faultVars>>

\* `router.data_source` is read once and kept by the router instance.
ReadRouterSource(w, j) ==
    /\ Job!Holds(w, j, {"started"})
    /\ func[j] = "push" /\ At(j, "idle")
    /\ mem' = [mem EXCEPT ![j] = source]
    /\ Goto(j, "read")
    /\ UNCHANGED <<jobVars, source, fileVars, clock, ownVars, userVars, faultVars>>

\* The configuration is rendered before the source is looked at.
StartPush(w, j) ==
    /\ At(j, "read")
    /\ Job!mark_running(w, j)
    /\ \E text \in Contents : clone' = [clone EXCEPT ![j].text = text]
    /\ Goto(j, "push")
    /\ UNCHANGED <<source, fileVars, clock, mem, listing, theirs, userVars, faultVars>>

Succeed(w, j) ==
    /\ At(j, "synced")
    /\ Job!mark_completed(w, j)
    /\ Goto(j, "done")
    /\ UNCHANGED <<source, fileVars, clock, mem, ownVars, userVars, faultVars>>

\* Something in the try block raised: the job is marked failed first,
Except_leaves_the_job(w, j) ==
    /\ Job!Holds(w, j, {"body"})
    /\ stage' = [stage EXCEPT ![j] = "caught"]
    /\ Goto(j, "failed")
    /\ Forget(j)
    /\ UNCHANGED <<row, copy, func, queue, busy>>
    /\ UNCHANGED <<source, fileVars, clock, mem, userVars, faultVars>>

Except(w, j) ==
    /\ ~(func[j] = "sync" /\ At(j, "synced"))
    /\ Job!except(w, j)
    /\ Goto(j, "failed")
    /\ Forget(j)
    /\ UNCHANGED <<source, fileVars, clock, mem, userVars, faultVars>>

\* the source second.
FailSource_not_saved(a) ==
    /\ At(a, "failed")
    /\ mem' = [mem EXCEPT ![a].status = "FAILED"]
    /\ Goto(a, "done")
    /\ UNCHANGED <<jobVars, source, fileVars, clock, ownVars, userVars, faultVars>>

FailSource(a) ==
    /\ At(a, "failed")
    /\ set_status(a, "FAILED")
    /\ Goto(a, "done")
    /\ UNCHANGED <<jobVars, fileVars, clock, ownVars, userVars, faultVars>>

Return(w, j) ==
    /\ At(j, "done")
    /\ Job!Return(w, j)
    /\ UNCHANGED <<source, fileVars, clock, pc, mem, ownVars, userVars, faultVars>>

\* `raise e`, once the job and the source are marked failed.
Reraise(w, j) ==
    /\ At(j, "done") /\ stage[j] = "caught"
    /\ Job!raise(w, j)
    /\ UNCHANGED <<source, fileVars, clock, pc, mem, ownVars, userVars, faultVars>>

Handle(w, j) ==
    /\ Job!handler_fetch(w, j) \/ Job!mark_errored(w, j)
    /\ UNCHANGED <<source, fileVars, clock, pc, mem, ownVars, userVars, faultVars>>

\* RQ's timeout or a database error outside the try block.
Abort(w, j) ==
    /\ faults < MaxFaults
    /\ Job!raise(w, j)
    /\ Goto(j, "done")
    /\ Forget(j)
    /\ faults' = faults + 1 /\ slips' = TRUE
    /\ UNCHANGED <<source, fileVars, clock, mem, userVars>>

KillWorker(w) ==
    /\ faults < MaxFaults
    /\ Job!Crash(w)
    /\ Goto(busy[w], "done")
    /\ Forget(busy[w])
    /\ faults' = faults + 1 /\ slips' = TRUE
    /\ UNCHANGED <<source, fileVars, clock, mem, userVars>>

-----------------------------------------------------------------------------
(* The management command. *)

StartCommand(c) ==
    /\ At(c, "idle")
    /\ mem' = [mem EXCEPT ![c] = source]
    /\ Goto(c, "sync")
    /\ UNCHANGED <<jobVars, source, fileVars, clock, ownVars, userVars, faultVars>>

Try == {"sync", "fetch", "list", "update", "delete", "create", "finish", "signal"}

ExceptCommand(c) ==
    /\ pc[c] \in Try
    /\ Goto(c, "failed")
    /\ Forget(c)
    /\ UNCHANGED <<jobVars, source, fileVars, clock, mem, userVars, faultVars>>

\* An interrupt is no Exception: the command stops where it is.
KillCommand(c) ==
    /\ faults < MaxFaults
    /\ pc[c] \notin {"idle", "done"}
    /\ Goto(c, "done")
    /\ Forget(c)
    /\ faults' = faults + 1 /\ slips' = TRUE
    /\ UNCHANGED <<jobVars, source, fileVars, clock, mem, userVars>>

-----------------------------------------------------------------------------
(* An actor's steps go on while it runs: a command always, a job while a    *)
(* worker holds it and its function is inside the try block.                *)

Working(a) == a \in Jobs => stage[a] = "body"

Step(a, s, t) ==
    /\ At(a, s)
    /\ Working(a)
    /\ Goto(a, t)
    /\ UNCHANGED <<jobVars, userVars, faultVars>>

(* DataSource.synchronise() *)

BeginSync(a) ==
    /\ Step(a, "sync", "fetch")
    /\ mem[a].enabled
    /\ mem[a].status \notin {"SYNCHRONISING", "PUSHING"}
    /\ set_status(a, "SYNCHRONISING")
    /\ UNCHANGED <<fileVars, clock, ownVars>>

FetchSync(a) ==
    /\ Step(a, "fetch", "list")
    /\ clone' = [clone EXCEPT ![a].tree = remote.tree, ![a].rev = remote.rev]
    /\ UNCHANGED <<source, fileVars, clock, mem, listing, theirs>>

ListFiles(a) ==
    /\ Step(a, "list", "update")
    /\ listing' = [listing EXCEPT ![a] = files]
    /\ theirs'  = [theirs  EXCEPT ![a] = {}]
    /\ UNCHANGED <<source, fileVars, clock, mem, clone>>

Known(a)  == {p \in Paths : listing[a][p] # NoFile}
Walk(a)   == {p \in Paths \ Ignored : clone[a].tree[p] # Missing}
Listed(a) == {p \in Known(a) : files[p].id = listing[a][p].id}

Changed(a) ==
    {p \in Listed(a) : clone[a].tree[p] \notin {Missing, listing[a][p].content}}

Deleted(a) == {p \in Listed(a) : clone[a].tree[p] = Missing}

Created_ignored_too(a) == {p \in Paths : clone[a].tree[p] # Missing} \ Known(a)

Created(a) == Walk(a) \ Known(a)

\* Known files are compared with the listing; rows are updated by their key.
UpdateFiles(a) ==
    /\ Step(a, "update", "delete")
    /\ files' = [p \in Paths |->
            IF p \in Changed(a) THEN [files[p] EXCEPT !.content = clone[a].tree[p]]
                                ELSE files[p]]
    /\ Behind(Actors \ {a})
    /\ UNCHANGED <<source, remote, seen, unnoticed, clock, mem, clone, listing>>

DeleteFiles(a) ==
    /\ Step(a, "delete", "create")
    /\ files' = [p \in Paths |-> IF p \in Deleted(a) THEN NoFile ELSE files[p]]
    /\ Behind(Actors \ {a})
    /\ UNCHANGED <<source, remote, seen, unnoticed, clock, mem, clone, listing>>

\* full_clean() refuses a path that has a row by now.
CreateFiles(a) ==
    /\ Step(a, "create", "finish")
    /\ \A p \in Created(a) : files[p] = NoFile
    /\ files' = [p \in Paths |->
            IF p \in Created(a) THEN [id |-> Fresh(p), content |-> clone[a].tree[p]]
                                ELSE files[p]]
    /\ Behind(Actors \ {a})
    /\ UNCHANGED <<source, remote, seen, unnoticed, clock, mem, clone, listing>>

Complete(a) ==
    /\ save(a, [mem[a] EXCEPT !.status = "COMPLETED", !.last = clock + 1])
    /\ clock' = clock + 1
    /\ Forget(a)

FinishSync(a) ==
    /\ Step(a, "finish", "signal")
    /\ Complete(a)
    /\ UNCHANGED fileVars

\* The receivers of post_synchronisation ran without raising.
SignalSync(a) ==
    /\ Step(a, "signal", IF a \in Jobs THEN "synced" ELSE "done")
    /\ UNCHANGED <<source, fileVars, clock, mem, ownVars>>

(* DataSource.push() *)

BeginPush(a) ==
    /\ Step(a, "push", "clone")
    /\ mem[a].enabled
    /\ mem[a].status \notin {"SYNCHRONISING", "PUSHING"}
    /\ set_status(a, "PUSHING")
    /\ UNCHANGED <<fileVars, clock, ownVars>>

CloneForPush(a) ==
    /\ Step(a, "clone", "write")
    /\ clone' = [clone EXCEPT ![a].tree = remote.tree, ![a].rev = remote.rev]
    /\ UNCHANGED <<source, fileVars, clock, mem, listing, theirs>>

\* The DataFile is written before anything is committed to the repository.
WriteFile(a) ==
    /\ Step(a, "write", "publish")
    /\ files' = [files EXCEPT ![PushPath] =
            [id      |-> IF @ = NoFile THEN Fresh(PushPath) ELSE @.id,
             content |-> clone[a].text]]
    /\ Behind(Actors \ {a})
    /\ UNCHANGED <<source, remote, seen, unnoticed, clock, mem, clone, listing>>

Accept(a) ==
    /\ remote' = [tree |-> [remote.tree EXCEPT ![PushPath] = clone[a].text],
                  rev  |-> remote.rev + 1]
    /\ seen' = [seen EXCEPT ![PushPath] = @ \cup {clone[a].text}]

Publish_ignores_divergence(a) ==
    /\ Step(a, "publish", "complete")
    /\ IF clone[a].rev = remote.rev THEN Accept(a) ELSE UNCHANGED <<remote, seen>>
    /\ UNCHANGED <<source, files, unnoticed, clock, mem, ownVars>>

\* Nothing to commit; or a push that the repository accepts, its head still the clone;
\* or one that it refuses in words that are not among GIT_ERROR_MATCHES, which passes
\* for accepted.  A push that raises, as when the repository has moved on, or one refused
\* in words that are known is the except branch's.
Publish(a) ==
    /\ Step(a, "publish", "complete")
    /\ \/ /\ clone[a].tree[PushPath] = clone[a].text
          /\ UNCHANGED <<remote, seen, unnoticed>>
       \/ /\ clone[a].tree[PushPath] # clone[a].text
          /\ clone[a].rev = remote.rev
          /\ Accept(a)
          /\ UNCHANGED unnoticed
       \/ /\ clone[a].tree[PushPath] # clone[a].text
          /\ unnoticed' = unnoticed \cup {a}
          /\ UNCHANGED <<remote, seen>>
    /\ UNCHANGED <<source, files, clock, mem, ownVars>>

FinishPush(a) ==
    /\ Step(a, "complete", "synced")
    /\ Complete(a)
    /\ UNCHANGED fileVars

-----------------------------------------------------------------------------
(* The repository's other users, and the source's. *)

Commit(p, c) ==
    /\ remote.rev < MaxCommits
    /\ c # remote.tree[p]
    /\ remote' = [tree |-> [remote.tree EXCEPT ![p] = c], rev |-> remote.rev + 1]
    /\ seen'   = [seen EXCEPT ![p] = @ \cup {c}]
    /\ UNCHANGED <<jobVars, source, files, unnoticed, clock, pc, mem, ownVars, userVars, faultVars>>

\* ObjectEditView.post reads the source,
OpenEdit ==
    /\ edits < MaxEdits
    /\ ~edit.open
    /\ edit' = [open |-> TRUE, read |-> source]
    /\ edits' = edits + 1
    /\ UNCHANGED <<jobVars, source, fileVars, clock, pc, mem, ownVars, faultVars>>

\* and saves what it read with the form's fields in place of its own.
SaveEdit(enabled) ==
    /\ edit.open
    /\ source' = [edit.read EXCEPT !.enabled = enabled]
    /\ edit'   = NoEdit
    /\ slips'  = (slips \/ edit.read.status # source.status)
    /\ UNCHANGED <<jobVars, fileVars, clock, pc, mem, ownVars, edits, faults>>

\* DataFileDeleteView and DataFileBulkDeleteView.
DeleteFile(p) ==
    /\ edits < MaxEdits
    /\ files[p] # NoFile
    /\ files' = [files EXCEPT ![p] = NoFile]
    /\ edits' = edits + 1
    /\ Behind(Actors)
    /\ UNCHANGED <<jobVars, source, remote, seen, unnoticed, clock, pc, mem, clone, listing, edit,
                   faultVars>>

-----------------------------------------------------------------------------
Init ==
    /\ Job!Init
    /\ source  = NewSource
    /\ files   = NoFiles
    /\ remote \in [tree: Tree, rev: {0}]
    /\ seen    = [p \in Paths |-> {remote.tree[p]}]
    /\ unnoticed = {}
    /\ clock   = 0
    /\ pc      = [a \in Actors |-> "idle"]
    /\ mem     = [a \in Actors |-> NewSource]
    /\ clone   = [a \in Actors |-> NoClone]
    /\ listing = [a \in Actors |-> NoFiles]
    /\ theirs  = [a \in Actors |-> {}]
    /\ edit    = NoEdit
    /\ edits   = 0
    /\ faults  = 0
    /\ slips   = FALSE

Synchronise(a) ==
    \/ BeginSync(a)
    \/ FetchSync(a)
    \/ ListFiles(a)
    \/ UpdateFiles(a)
    \/ DeleteFiles(a)
    \/ CreateFiles(a)
    \/ FinishSync(a)
    \/ SignalSync(a)

Push(a) ==
    \/ BeginPush(a)
    \/ CloneForPush(a)
    \/ WriteFile(a)
    \/ Publish(a)
    \/ FinishPush(a)

RequestStep(j) ==
    \/ SaveQueued(j)
    \/ EnqueueSync(j)
    \/ Delay(j)

Function(w, j) ==
    \/ StartSync(w, j)
    \/ CancelPush(w, j)
    \/ ReadRouterSource(w, j)
    \/ StartPush(w, j)
    \/ Succeed(w, j)
    \/ Except(w, j)
    \/ Return(w, j)
    \/ Reraise(w, j)
    \/ Handle(w, j)

JobStep(j) == Synchronise(j) \/ Push(j) \/ FailSource(j)

CommandStep(c) == Synchronise(c) \/ ExceptCommand(c) \/ FailSource(c)

Next ==
    \/ \E j \in Jobs : RequestSync(j) \/ EnqueuePush(j) \/ RequestStep(j) \/ LoseTask(j)
    \/ \E w \in Workers : TakeJob(w) \/ KillWorker(w)
    \/ \E w \in Workers, j \in Jobs : Function(w, j) \/ Abort(w, j)
    \/ \E j \in Jobs : JobStep(j)
    \/ \E c \in Commands : StartCommand(c) \/ CommandStep(c) \/ KillCommand(c)
    \/ \E p \in Paths, c \in Contents \cup {Missing} : Commit(p, c)
    \/ OpenEdit
    \/ \E enabled \in BOOLEAN : SaveEdit(enabled)
    \/ \E p \in Paths : DeleteFile(p)

Spec == Init /\ [][Next]_vars

\* A request goes on, a worker takes the next job and goes on with the one it
\* holds, a command goes on.
FairSpec ==
    /\ Spec
    /\ \A j \in Jobs : WF_vars(RequestStep(j))
    /\ \A w \in Workers :
        WF_vars(TakeJob(w) \/ \E j \in Jobs : \/ Function(w, j)
                                              \/ busy[w] = j /\ JobStep(j))
    /\ \A c \in Commands : WF_vars(CommandStep(c))

-----------------------------------------------------------------------------
(* Properties *)

PCs == {"idle", "asked", "queued", "read", "sync", "fetch", "list", "update", "delete",
        "create", "finish", "signal", "push", "clone", "write", "publish", "complete",
        "synced", "failed", "done"}

TypeOK ==
    /\ Job!TypeOK
    /\ source \in DataSource
    /\ files  \in [Paths -> DataFile]
    /\ remote \in [tree: Tree, rev: Nat]
    /\ seen   \in [Paths -> SUBSET (Contents \cup {Missing})]
    /\ unnoticed \subseteq Actors
    /\ clock  \in Nat
    /\ pc     \in [Actors -> PCs]
    /\ mem    \in [Actors -> DataSource]
    /\ clone  \in [Actors -> [tree: Tree, rev: Nat, text: Contents \cup {Missing}]]
    /\ listing \in [Actors -> [Paths -> DataFile]]
    /\ theirs  \in [Actors -> SUBSET Paths]
    /\ edit   \in [open: BOOLEAN, read: DataSource]
    /\ edits  \in 0..MaxEdits
    /\ faults \in 0..MaxFaults
    /\ slips  \in BOOLEAN

\* Jobs on a data source live as any job does: JobLifecycle, with what is
\* proved of it, applies to them.
JobsFollowTheirLifecycle == Job!Spec

\* A queued job of a data source is eventually over, whatever other actors do to
\* the source meanwhile, unless its row was deleted or its worker was killed.
QueuedJobsSettle == Job!QueuedJobsSettle

\* What a synchronisation that read the clone and the listing ought to leave
\* at p: ignored paths are not created, but a known file is followed even if
\* a rule ignores it by now.
Mirror(a, p) ==
    IF p \in Walk(a) \cup Known(a) THEN clone[a].tree[p] ELSE Missing

\* Whoever else works on the source, and whatever users do: a file nobody else changed
\* since it was listed is that of the commit fetched, though rows and listings age and
\* the passes of several actors take turns.
OtherFilesMirrorTheClone ==
    \A a \in Actors : At(a, "finish") =>
        \A p \in Paths \ theirs[a] : files[p].content = Mirror(a, p)

\* Nobody works on the source or is about to.
Quiet ==
    /\ queue = <<>>
    /\ \A w \in Workers : busy[w] = Idle
    /\ \A j \in Jobs : stage[j] # "created"
    /\ \A a \in Actors : pc[a] \in {"idle", "done"}

Settled == source.status \in {"NEW", "COMPLETED", "FAILED"}

\* The source is never left queued, synchronising or pushing with nobody there
\* to finish: not by overlapping jobs, by refused or failed ones, nor by the
\* command.  Only a killed process, a lost task, an error outside the functions'
\* try blocks or an edit of a row that changed since it was read can do it.
QuietSourceIsSettled == Quiet => Settled \/ slips

\* A push job that reports success has put its text in the repository: neither a push
\* that raised nor one that raced with a commit is taken for a success.  The one that is
\* not noticed is a push that the host refuses in words the backend does not look for.
CompletedPushIsPublished ==
    \A j \in Jobs :
        func[j] = "push" /\ row[j].status = "COMPLETED" /\ row[j].started
            => clone[j].text \in seen[PushPath] \/ j \in unnoticed

\* A source that was queued is eventually settled, slips aside.
QueuedSourceSettles == source.status = "QUEUED" ~> Settled \/ slips

=============================================================================
