--------------------------- MODULE SourcesProofs ---------------------------
(***************************************************************************)
(* What is proved of MCSources, and of DataSourceSync in it.               *)
(*                                                                         *)
(* DataSourceSync implements JobLifecycle: whatever a synchronisation or a *)
(* push does to its source, to the files and to the repository, its job    *)
(* takes a step of JobLifecycle or none.                                   *)
(*                                                                         *)
(* What a push reports is true (PushInv): what it cloned is what the       *)
(* repository held, so that a text with nothing to commit is there, and a  *)
(* job that has not started cannot have been completed before.             *)
(*                                                                         *)
(* The source settles (SettledInv): whoever left it unsettled, or somebody *)
(* after, still has a status to save.  Its files are rows (FilesInv), and  *)
(* each place of a synchronisation says which files are those of the clone *)
(* by then and which are as listed, of those others have left alone        *)
(* (MirrorInv); with one worker and no edits that is all (LoneInv).        *)
(*                                                                         *)
(* Each step of MCSources is one of AutoSync or none, and so for           *)
(* BulkSelection and TablePreferences: what is proved of them holds there. *)
(* The preferences of a user are proved here (PreferencesInv, TableInv),   *)
(* and what the buttons of the dialog do to a list of any length.          *)
(***************************************************************************)
EXTENDS MCSources, Sequences, FiniteSetTheorems, SequenceTheorems, WellFoundedInduction, TLAPS

\* The proofs about jobs, with no page to watch them.
Life == INSTANCE JobPageProofs WITH
    Pages <- {}, PageWorkers <- {}, MaxCuts <- 0,
    page <- "closed", label <- "ready", shown <- TRUE, dialog <- FALSE, alerts <- {},
    follows <- <<>>, loop <- <<>>, seen <- <<>>, cuts <- 0

\* A step that leaves the job system alone is a stutter of it.
LEMMA Stutter == UNCHANGED jobVars => UNCHANGED Job!jobVars
BY DEF jobVars, Job!jobVars

\* What users and Redis do with a job.
LEMMA RequestsRefine ==
    ASSUME NEW j \in Jobs,
           RequestSync(j) \/ EnqueuePush(j) \/ RequestStep(j) \/ LoseTask(j)
    PROVE  [Job!Next]_(Job!jobVars)
<1>1. CASE RequestSync(j)
  BY <1>1, Stutter DEF RequestSync
<1>2. CASE EnqueuePush(j)
  BY <1>2 DEF EnqueuePush, Job!Next, Job!Request, Job!Functions
<1>3. CASE SaveQueued(j)
  BY <1>3, Stutter DEF SaveQueued
<1>4. CASE EnqueueSync(j)
  BY <1>4 DEF EnqueueSync, Job!Next, Job!Request, Job!Functions
<1>5. CASE Delay(j)
  BY <1>5 DEF Delay, Job!Next, Job!Request
<1>6. CASE LoseTask(j)
  BY <1>6 DEF LoseTask, Job!Next, Job!Request
<1>7. QED
  BY <1>1, <1>2, <1>3, <1>4, <1>5, <1>6 DEF RequestStep

\* What the functions do around the source's own methods.
LEMMA FunctionsRefine ==
    ASSUME NEW w \in Workers, NEW j \in Jobs, Function(w, j) \/ Abort(w, j)
    PROVE  [Job!Next]_(Job!jobVars)
<1>1. CASE StartSync(w, j)
  BY <1>1 DEF StartSync, Job!Next, Job!Run
<1>2. CASE CancelPush(w, j)
  BY <1>2 DEF CancelPush, Job!Next, Job!Run
<1>3. CASE ReadRouterSource(w, j)
  BY <1>3, Stutter DEF ReadRouterSource
<1>4. CASE StartPush(w, j)
  BY <1>4 DEF StartPush, Job!Next, Job!Run
<1>5. CASE Succeed(w, j)
  BY <1>5 DEF Succeed, Job!Next, Job!Run
<1>6. CASE Except(w, j)
  BY <1>6 DEF Except, Job!Next, Job!Run
<1>7. CASE Return(w, j)
  BY <1>7 DEF Return, Job!Next, Job!Run
<1>8. CASE Reraise(w, j)
  BY <1>8 DEF Reraise, Job!Next, Job!Run
<1>9. CASE Handle(w, j)
  BY <1>9 DEF Handle, Job!Next, Job!Run
<1>10. CASE Abort(w, j)
  BY <1>10 DEF Abort, Job!Next, Job!Run
<1>11. QED
  BY <1>1, <1>2, <1>3, <1>4, <1>5, <1>6, <1>7, <1>8, <1>9, <1>10 DEF Function

\* The methods of DataSource do not touch jobs.
LEMMA MethodsStutter ==
    ASSUME NEW a, Synchronise(a) \/ Push(a) \/ FailSource(a) \/ ExceptCommand(a)
    PROVE  UNCHANGED jobVars
BY DEF Synchronise, Push, FailSource, ExceptCommand, BeginSync, FetchSync, ListFiles, UpdateFiles,
       DeleteFiles, CreateFiles, FinishSync, SignalSync, BeginPush, CloneForPush, WriteFile,
       Publish, FinishPush, Step

\* Every step of the composition is a step of the job system or a stutter.
LEMMA StepsRefine == [Next]_vars => [Job!Next]_(Job!jobVars)
<1> SUFFICES ASSUME [Next]_vars
             PROVE  [Job!Next]_(Job!jobVars)
    OBVIOUS
<1>1. CASE \E j \in Jobs : RequestSync(j) \/ EnqueuePush(j) \/ RequestStep(j) \/ LoseTask(j)
  BY <1>1, RequestsRefine
<1>2. CASE \E w \in Workers : TakeJob(w) \/ KillWorker(w)
  BY <1>2 DEF TakeJob, KillWorker, Job!Next
<1>3. CASE \E w \in Workers, j \in Jobs : Function(w, j) \/ Abort(w, j)
  BY <1>3, FunctionsRefine
<1>4. CASE \E j \in Jobs : JobStep(j)
  BY <1>4, MethodsStutter, Stutter DEF JobStep
<1>5. CASE \E c \in Commands : StartCommand(c) \/ CommandStep(c) \/ KillCommand(c)
  BY <1>5, MethodsStutter, Stutter DEF CommandStep, StartCommand, KillCommand
<1>6. CASE \/ \E p \in Paths, c \in Contents \cup {Missing} : Commit(p, c)
           \/ OpenEdit
           \/ \E enabled \in BOOLEAN : SaveEdit(enabled)
           \/ \E p \in Paths : DeleteFile(p)
  BY <1>6, Stutter DEF Commit, OpenEdit, SaveEdit, DeleteFile
<1>7. CASE UNCHANGED vars
  BY <1>7, Stutter DEF vars
<1>8. QED
  BY <1>1, <1>2, <1>3, <1>4, <1>5, <1>6, <1>7 DEF Next

\* In the composed system the other parts leave the source alone, so that what is
\* proved of DataSourceSync holds there.
THEOREM SourcesAreSynchronised == SourcesSpec => Spec
<1>1. SourcesInit => Init
  BY DEF SourcesInit
<1>2. SourcesNext => [Next]_vars
  BY DEF SourcesNext, Fetching, Following, Listing, Arranging
<1>3. UNCHANGED allVars => UNCHANGED vars
  BY DEF allVars
<1>4. QED
  BY <1>1, <1>2, <1>3, PTL DEF SourcesSpec, Spec

\* Refinement: the jobs of synchronise_datasource and of
\* push_configuration_to_data_source, with everything that happens to their
\* source, behave as JobLifecycle says jobs do.
THEOREM LifecycleIsFollowed == Spec => JobsFollowTheirLifecycle
<1>1. Init => Job!Init
  BY DEF Init
<1>2. QED
  BY <1>1, StepsRefine, PTL DEF Spec, JobsFollowTheirLifecycle, Job!Spec

\* The jobs of a data source inherit what is proved of all jobs: the inductive
\* invariant, terminal statuses for all that ended, and exclusive workers.
THEOREM SourceJobsAreSafe ==
    Spec => [](Life!IInv /\ Life!EndedIsOver /\ Life!OneWorkerPerJob)
<1>1. Init => Life!Init
  BY DEF Init, Job!Init, Life!Init, Job!Absent, Life!Absent
<1>2. Job!Next => Life!Next
  BY DEF Job!Next, Life!Next, Job!Request, Life!Request, Job!Run, Life!Run, Job!Take, Life!Take,
         Job!Crash, Life!Crash, Job!enqueue, Life!enqueue, Job!delay, Life!delay,
         Job!delay_fails, Life!delay_fails, Job!delete, Life!delete, Job!cancel, Life!cancel,
         Job!mark_running, Life!mark_running, Job!log, Life!log, Job!mark_completed,
         Life!mark_completed, Job!mark_failed, Life!mark_failed, Job!except, Life!except,
         Job!Return, Life!Return, Job!raise, Life!raise, Job!handler_fetch, Life!handler_fetch,
         Job!handler_not_found, Life!handler_not_found, Job!mark_errored, Life!mark_errored,
         Job!save, Life!save, Job!set_status, Life!set_status, Job!mark, Life!mark, Job!Goto,
         Life!Goto, Job!Release, Life!Release, Job!Holds, Life!Holds, Job!Present, Life!Present,
         Job!is_over, Life!is_over, Job!Absent, Life!Absent, Job!Pending, Life!Pending,
         Job!Functions, Life!Functions, Job!Cancels, Life!Cancels, Job!Catches, Life!Catches,
         Job!Terminal, Life!Terminal
<1>3. [Next]_vars => [Life!Next]_(Life!jobVars)
  BY <1>2, StepsRefine DEF Job!jobVars, Life!jobVars
<1>4. Spec => Life!Spec
  BY <1>1, <1>3, PTL DEF Spec, Life!Spec
<1>5. Life!IdleAssumption /\ Life!PagesAssumption
  BY ModelAssumption DEF Life!IdleAssumption, ModelAssumption, Life!PagesAssumption
<1>6. Life!Spec => []Life!IInv
  BY <1>5, Life!Invariance
<1>7. Life!IInv => Life!EndedIsOver /\ Life!OneWorkerPerJob
  BY DEF Life!IInv, Life!RowInv, Life!RowInvOf, Life!EndedIsOver, Life!HoldInv
<1>8. QED
  BY <1>4, <1>6, <1>7, PTL

-----------------------------------------------------------------------------
(* Pushes *)

SyncStages == {"sync", "fetch", "list", "update", "delete", "create", "finish", "signal"}
Waiting    == {"idle", "asked", "queued", "read"}

\* Pushed, or refused by a host whose words the backend does not look for.
Published(a) == clone[a].text \in seen[PushPath] \/ a \in unnoticed

PushTypes ==
    /\ pc \in [Actors -> PCs]
    /\ remote \in [tree: Tree, rev: Nat]
    /\ seen \in [Paths -> SUBSET (Contents \cup {Missing})]
    /\ unnoticed \subseteq Actors
    /\ clone \in [Actors -> [tree: Tree, rev: Nat, text: Contents \cup {Missing}]]

\* The repository held what it holds, and what was cloned from it.
RepositoryInv ==
    /\ \A p \in Paths : remote.tree[p] \in seen[p]
    /\ \A a \in Actors : pc[a] \in {"write", "publish"} =>
           \A p \in Paths : clone[a].tree[p] \in seen[p]

\* An actor that has pushed, and a job about to say so, has put its text there, but for
\* the refusals that are not noticed; no job reaches that place by a synchronisation, or
\* was started before.
ReportInv ==
    /\ \A a \in Actors : pc[a] = "complete" => Published(a)
    /\ \A j \in Jobs :
        /\ pc[j] \in SyncStages => func[j] = "sync"
        /\ pc[j] = "synced" /\ func[j] = "push" => Published(j)
        /\ pc[j] \in Waiting => ~copy[j].started /\ ~row[j].started

PushInv == PushTypes /\ RepositoryInv /\ ReportInv /\ CompletedPushIsPublished

LEMMA InitPushInv == Init => PushInv
<1> SUFFICES ASSUME Init
             PROVE  PushInv
    OBVIOUS
<1>1. PushTypes
  BY DEF Init, PushTypes, PCs, NoClone, NoTree, Tree
<1>2. RepositoryInv
  BY DEF Init, RepositoryInv, Tree
<1>3. ReportInv
  BY DEF Init, ReportInv, SyncStages, Actors, Job!Init, Job!Absent
<1>4. CompletedPushIsPublished
  BY DEF Init, CompletedPushIsPublished, Job!Init, Job!Absent
<1>5. QED
  BY <1>1, <1>2, <1>3, <1>4 DEF PushInv

\* A push knows what it is to push before it has a clone.
LEMMA TextTypes ==
    ASSUME PushTypes, NEW a \in Actors, NEW text \in Contents
    PROVE  [clone[a] EXCEPT !.text = text] \in
               [tree: Tree, rev: Nat, text: Contents \cup {Missing}]
<1>1. clone[a] \in [tree: Tree, rev: Nat, text: Contents \cup {Missing}]
  BY DEF PushTypes
<1>2. QED
  BY <1>1

\* What an actor forgets is not its text.
LEMMA ForgetKeepsText ==
    ASSUME PushTypes, NEW a \in Actors, Forget(a)
    PROVE  /\ clone' \in [Actors -> [tree: Tree, rev: Nat, text: Contents \cup {Missing}]]
           /\ \A b \in Actors : clone'[b].text = clone[b].text
           /\ \A b \in Actors \ {a} : clone'[b] = clone[b]
<1> DEFINE kept == [tree: Tree, rev: Nat, text: Contents \cup {Missing}]
           left == [clone[a] EXCEPT !.tree = NoTree, !.rev = 0]
<1>1. clone \in [Actors -> kept] /\ clone[a] \in kept /\ NoTree \in Tree
  BY DEF PushTypes, NoTree, Tree
<1>2. left \in kept /\ left.text = clone[a].text
  BY <1>1
<1>3. clone' = [clone EXCEPT ![a] = left]
  BY <1>1 DEF Forget
<1> HIDE DEF kept, left
<1>4. QED
  BY <1>1, <1>2, <1>3 DEF kept

\* Requests, and the queue.
LEMMA RequestsKeepPushInv ==
    ASSUME Job!TypeOK, PushInv, NEW j \in Jobs,
           RequestSync(j) \/ EnqueuePush(j) \/ RequestStep(j) \/ LoseTask(j)
    PROVE  PushInv'
<1> USE DEF PushInv, PushTypes, RepositoryInv, ReportInv, CompletedPushIsPublished, Published,
        Job!TypeOK, Actors, PCs, SyncStages, Waiting, At, Goto, jobVars, fileVars, ownVars,
        Job!Row, Job!Pending
<1>1. CASE RequestSync(j)
  BY <1>1 DEF RequestSync
<1>2. CASE EnqueuePush(j)
  BY <1>2 DEF EnqueuePush, Job!enqueue, Job!save, Job!Goto
<1>3. CASE SaveQueued(j)
  BY <1>3 DEF SaveQueued
<1>4. CASE EnqueueSync(j)
  BY <1>4 DEF EnqueueSync, Job!enqueue, Job!save, Job!Goto
<1>5. CASE Delay(j)
  BY <1>5 DEF Delay, Job!delay, Job!Goto
<1>6. CASE LoseTask(j)
  BY <1>6 DEF LoseTask, Job!delay_fails, Job!Goto
<1>7. QED
  BY <1>1, <1>2, <1>3, <1>4, <1>5, <1>6 DEF RequestStep

\* The job functions around the methods of the source.
LEMMA FunctionsKeepPushInv ==
    ASSUME Job!TypeOK, PushInv, NEW w \in Workers, NEW j \in Jobs,
           Function(w, j) \/ Abort(w, j)
    PROVE  PushInv'
<1> USE DEF PushInv, PushTypes, RepositoryInv, ReportInv, CompletedPushIsPublished, Published,
        Job!TypeOK, Actors, PCs, SyncStages, Waiting, At, Goto, jobVars, fileVars, ownVars,
        Job!Row, Job!mark, Job!save, Job!set_status, Job!Goto
<1>1. CASE StartSync(w, j)
  BY <1>1 DEF StartSync, Job!mark_running
<1>2. CASE CancelPush(w, j)
  BY <1>2 DEF CancelPush, Job!cancel
<1>3. CASE ReadRouterSource(w, j)
  BY <1>3 DEF ReadRouterSource
<1>4. CASE StartPush(w, j)
  <2>1. PICK text \in Contents : clone' = [clone EXCEPT ![j].text = text]
    BY <1>4 DEF StartPush
  <2>2. /\ pc[j] = "read" /\ pc' = [pc EXCEPT ![j] = "push"]
        /\ row' = [row EXCEPT ![j] = Job!set_status(copy[j], "RUNNING")]
        /\ copy' = [copy EXCEPT ![j] = Job!set_status(copy[j], "RUNNING")]
        /\ UNCHANGED <<func, remote, seen, unnoticed>>
    BY <1>4 DEF StartPush, Job!mark_running
  <2>3. PushTypes'
    <3>1. [clone[j] EXCEPT !.text = text] \in [tree: Tree, rev: Nat, text: Contents \cup {Missing}]
      BY <2>1, TextTypes
    <3>2. clone' \in [Actors -> [tree: Tree, rev: Nat, text: Contents \cup {Missing}]]
      BY <2>1, <3>1
    <3>3. pc' \in [Actors -> PCs]
      BY <2>2
    <3>4. QED
      BY <2>2, <3>2, <3>3
  <2>4. RepositoryInv'
    BY <2>1, <2>2
  <2>5. \A a \in Actors \ {j} : clone'[a] = clone[a] /\ pc'[a] = pc[a]
    BY <2>1, <2>2
  <2>6. /\ pc'[j] = "push" /\ row'[j].status = "RUNNING"
        /\ \A i \in Jobs \ {j} : row'[i] = row[i] /\ copy'[i] = copy[i]
    BY <2>2
  <2>7. ReportInv'
    BY <2>2, <2>5, <2>6
  <2>8. CompletedPushIsPublished'
    BY <2>2, <2>5, <2>6
  <2>9. QED
    BY <2>3, <2>4, <2>7, <2>8
<1>5. CASE Succeed(w, j)
  BY <1>5 DEF Succeed, Job!mark_completed
<1>6. CASE Except(w, j)
  BY <1>6, ForgetKeepsText DEF Except, Job!except
<1>7. CASE Return(w, j)
  BY <1>7 DEF Return, Job!Return
<1>8. CASE Reraise(w, j)
  BY <1>8 DEF Reraise, Job!raise
<1>9. CASE Handle(w, j)
  <2>1. CASE Job!handler_fetch(w, j)
    BY <1>9, <2>1 DEF Handle, Job!handler_fetch
  <2>2. CASE Job!mark_errored(w, j)
    BY <1>9, <2>2 DEF Handle, Job!mark_errored
  <2>3. QED
    BY <1>9, <2>1, <2>2 DEF Handle
<1>10. CASE Abort(w, j)
  <2>1. /\ Forget(j) /\ j \in Actors
        /\ pc' = [pc EXCEPT ![j] = "done"]
        /\ UNCHANGED <<row, copy, func, queue, busy, remote, seen, unnoticed>>
    BY <1>10 DEF Abort, Job!raise
  <2>2. /\ clone' \in [Actors -> [tree: Tree, rev: Nat, text: Contents \cup {Missing}]]
        /\ \A b \in Actors : clone'[b].text = clone[b].text
        /\ \A b \in Actors \ {j} : clone'[b] = clone[b]
    BY ONLY <2>1, PushTypes, ForgetKeepsText
  <2>3. QED
    BY <2>1, <2>2
<1>11. QED
  <2>1. \/ StartSync(w, j) \/ CancelPush(w, j) \/ ReadRouterSource(w, j) \/ StartPush(w, j)
        \/ Succeed(w, j) \/ Except(w, j) \/ Return(w, j) \/ Reraise(w, j) \/ Handle(w, j)
        \/ Abort(w, j)
    BY DEF Function
  <2>2. QED
    BY ONLY <2>1, <1>1, <1>2, <1>3, <1>4, <1>5, <1>6, <1>7, <1>8, <1>9, <1>10

\* DataSource.synchronise() and push(), and what follows an exception in them.
LEMMA MethodsKeepPushInv ==
    ASSUME PushInv, NEW a \in Actors, Synchronise(a) \/ Push(a) \/ FailSource(a)
    PROVE  PushInv'
<1> USE DEF PushInv, PushTypes, RepositoryInv, ReportInv, CompletedPushIsPublished, Published,
        Actors, PCs, SyncStages, Waiting, At, Goto, jobVars, fileVars, ownVars, Step
<1>1. CASE BeginSync(a) \/ BeginPush(a) \/ FailSource(a)
  BY <1>1 DEF BeginSync, BeginPush, FailSource
<1>2. CASE FetchSync(a) \/ CloneForPush(a)
  BY <1>2 DEF FetchSync, CloneForPush
<1>3. CASE ListFiles(a) \/ UpdateFiles(a) \/ DeleteFiles(a) \/ CreateFiles(a) \/ WriteFile(a)
  BY <1>3 DEF ListFiles, UpdateFiles, DeleteFiles, CreateFiles, WriteFile
<1>4. CASE SignalSync(a)
  BY <1>4 DEF SignalSync
<1>5. CASE FinishSync(a) \/ FinishPush(a)
  <2>1. Forget(a) /\ UNCHANGED <<row, copy, func, remote, seen, unnoticed>>
    BY <1>5 DEF FinishSync, FinishPush, Complete
  <2>2. CASE FinishSync(a)
    BY <2>1, <2>2, ForgetKeepsText DEF FinishSync
  <2>3. CASE FinishPush(a)
    BY <2>1, <2>3, ForgetKeepsText DEF FinishPush
  <2>4. QED
    BY <1>5, <2>2, <2>3
<1>6. CASE Publish(a)
  <2>1. PushPath \in Paths
    BY ModelAssumption DEF ModelAssumption
  <2>2. CASE UNCHANGED <<remote, seen>> /\ unnoticed' = unnoticed \cup {a}
    BY <1>6, <2>1, <2>2 DEF Publish
  <2>3. CASE clone[a].tree[PushPath] = clone[a].text /\ UNCHANGED <<remote, seen, unnoticed>>
    BY <1>6, <2>1, <2>3 DEF Publish
  <2>4. CASE Accept(a) /\ UNCHANGED unnoticed
    BY <1>6, <2>1, <2>4 DEF Publish, Accept, Tree
  <2>5. QED
    BY <1>6, <2>2, <2>3, <2>4 DEF Publish
<1>7. QED
  BY <1>1, <1>2, <1>3, <1>4, <1>5, <1>6 DEF Synchronise, Push

\* Everybody else: workers that take jobs and die, commands, the repository, users.
LEMMA OthersKeepPushInv ==
    ASSUME Job!TypeOK, PushInv,
           \/ \E w \in Workers : TakeJob(w) \/ KillWorker(w)
           \/ \E c \in Commands : StartCommand(c) \/ ExceptCommand(c) \/ KillCommand(c)
           \/ \E p \in Paths, c \in Contents \cup {Missing} : Commit(p, c)
           \/ OpenEdit
           \/ \E enabled \in BOOLEAN : SaveEdit(enabled)
           \/ \E p \in Paths : DeleteFile(p)
           \/ UNCHANGED vars
    PROVE  PushInv'
<1> USE DEF PushInv, PushTypes, RepositoryInv, ReportInv, CompletedPushIsPublished, Published,
        Actors, PCs, SyncStages, Waiting, At, Goto, jobVars, fileVars, ownVars
<1>1. ASSUME NEW w \in Workers, TakeJob(w)
      PROVE  PushInv'
  BY <1>1 DEF TakeJob, Job!Take, Job!Goto
<1>2. ASSUME NEW w \in Workers, KillWorker(w)
      PROVE  PushInv'
  <2>1. busy[w] \in Jobs /\ Forget(busy[w])
    BY <1>2 DEF KillWorker, Job!Crash, Job!TypeOK
  <2>2. QED
    BY <1>2, <2>1, ForgetKeepsText DEF KillWorker, Job!Crash
<1>3. ASSUME NEW c \in Commands, StartCommand(c)
      PROVE  PushInv'
  BY <1>3, ModelAssumption DEF StartCommand, ModelAssumption
<1>4. ASSUME NEW c \in Commands, ExceptCommand(c) \/ KillCommand(c)
      PROVE  PushInv'
  <2>1. /\ c \in Actors /\ c \notin Jobs /\ Forget(c)
        /\ \E s \in {"failed", "done"} : pc' = [pc EXCEPT ![c] = s]
        /\ UNCHANGED <<row, copy, func, remote, seen, unnoticed>>
    BY <1>4, ModelAssumption DEF ExceptCommand, KillCommand, ModelAssumption
  <2>2. PICK s \in {"failed", "done"} : pc' = [pc EXCEPT ![c] = s]
    BY <2>1
  <2>3. /\ pc' \in [Actors -> PCs] /\ pc'[c] = s
        /\ \A a \in Actors \ {c} : pc'[a] = pc[a] /\ clone'[a] = clone[a]
        /\ \A a \in Actors : clone'[a].text = clone[a].text
    BY <2>1, <2>2, ForgetKeepsText
  <2>4. PushTypes'
    BY <2>1, <2>3, ForgetKeepsText
  <2>5. RepositoryInv'
    BY <2>1, <2>3
  <2>6. ReportInv' /\ CompletedPushIsPublished'
    BY <2>1, <2>3
  <2>7. QED
    BY <2>4, <2>5, <2>6
<1>5. ASSUME NEW p \in Paths, NEW c \in Contents \cup {Missing}, Commit(p, c)
      PROVE  PushInv'
  BY <1>5 DEF Commit, Tree
<1>6. CASE \/ OpenEdit
           \/ \E enabled \in BOOLEAN : SaveEdit(enabled)
           \/ \E p \in Paths : DeleteFile(p)
           \/ UNCHANGED vars
  BY <1>6 DEF OpenEdit, SaveEdit, DeleteFile, vars
<1>7. QED
  BY <1>1, <1>2, <1>3, <1>4, <1>5, <1>6

LEMMA NextPushInv == Job!TypeOK /\ PushInv /\ [Next]_vars => PushInv'
BY RequestsKeepPushInv, FunctionsKeepPushInv, MethodsKeepPushInv, OthersKeepPushInv
   DEF Next, JobStep, CommandStep, Actors

-----------------------------------------------------------------------------
(* The source and its files *)

LEMMA Bounds == MaxEdits \in Nat /\ MaxFaults \in Nat
BY ModelAssumption DEF ModelAssumption

\* A row that is saved with another status, or by a form.
LEMMA SavedTypes ==
    /\ \A r \in DataSource, s \in DataSourceStatus :
        [r EXCEPT !.status = s] \in DataSource /\ [r EXCEPT !.status = s].status = s
    /\ \A r \in DataSource, b \in BOOLEAN :
        [r EXCEPT !.enabled = b] \in DataSource /\ [r EXCEPT !.enabled = b].status = r.status
BY DEF DataSource

SourceTypes ==
    /\ source \in DataSource /\ mem \in [Actors -> DataSource]
    /\ edit \in [open: BOOLEAN, read: DataSource]
    /\ clock \in Nat /\ edits \in 0..MaxEdits /\ faults \in 0..MaxFaults

\* Saving an instance with a status that is one.
LEMMA SetStatusTypes ==
    ASSUME SourceTypes, NEW a \in Actors, NEW s \in DataSourceStatus, set_status(a, s)
    PROVE  /\ source' \in DataSource /\ mem' \in [Actors -> DataSource] /\ source'.status = s
<1>1. mem[a] \in DataSource
  BY DEF SourceTypes
<1>2. [mem[a] EXCEPT !.status = s] \in DataSource /\ [mem[a] EXCEPT !.status = s].status = s
  BY <1>1, SavedTypes
<1>3. QED
  BY <1>2 DEF set_status, save, SourceTypes

\* So does the end of a synchronisation or a push, with a newer timestamp.
LEMMA CompleteTypes ==
    ASSUME SourceTypes, NEW a \in Actors, Complete(a)
    PROVE  /\ source' \in DataSource /\ mem' \in [Actors -> DataSource]
           /\ source'.status = "COMPLETED" /\ clock' \in Nat
<1> DEFINE time == clock + 1
           done == [mem[a] EXCEPT !.status = "COMPLETED", !.last = time]
<1>1. mem[a] \in DataSource /\ time \in Nat /\ "COMPLETED" \in DataSourceStatus
  BY DEF SourceTypes, DataSourceStatus
<1>2. source' = done /\ mem' = [mem EXCEPT ![a] = done] /\ clock' = time
  BY DEF Complete, save
<1> HIDE DEF time
<1>3. done \in DataSource /\ done.status = "COMPLETED"
  BY <1>1 DEF DataSource
<1> HIDE DEF done
<1>4. QED
  BY <1>1, <1>2, <1>3 DEF SourceTypes

LEMMA InitSourceTypes == Init => SourceTypes
<1>1. NewSource \in DataSource
  BY DEF NewSource, DataSource, DataSourceStatus
<1>2. QED
  BY <1>1, Bounds DEF Init, SourceTypes, NoEdit

\* No step makes of the source, or of an instance of it, what no row can be.
LEMMA NextSourceTypes == SourceTypes /\ [Next]_vars => SourceTypes'
<1> SUFFICES ASSUME SourceTypes, [Next]_vars
             PROVE  SourceTypes'
    OBVIOUS
<1> USE DEF SourceTypes, userVars, faultVars
<1>1. ASSUME NEW j \in Jobs, RequestSync(j) \/ EnqueuePush(j) \/ RequestStep(j) \/ LoseTask(j)
      PROVE  SourceTypes'
  <2>1. CASE SaveQueued(j)
    BY <2>1, SetStatusTypes DEF SaveQueued, DataSourceStatus, Actors
  <2>2. CASE LoseTask(j)
    BY <2>2, Bounds DEF LoseTask
  <2>3. CASE RequestSync(j)
    BY <2>3 DEF RequestSync
  <2>4. QED
    BY <1>1, <2>1, <2>2, <2>3 DEF EnqueuePush, RequestStep, EnqueueSync, Delay
<1>2. ASSUME NEW w \in Workers, TakeJob(w) \/ KillWorker(w)
      PROVE  SourceTypes'
  BY <1>2, Bounds DEF TakeJob, KillWorker
<1>3. ASSUME NEW w \in Workers, NEW j \in Jobs, Function(w, j) \/ Abort(w, j)
      PROVE  SourceTypes'
  <2>1. CASE Abort(w, j)
    BY <2>1, Bounds DEF Abort
  <2>2. CASE ReadRouterSource(w, j)
    BY <2>2 DEF ReadRouterSource
  <2>3. QED
    BY <1>3, <2>1, <2>2 DEF Function, StartSync, CancelPush, StartPush, Succeed, Except, Return,
       Reraise, Handle
<1>4. ASSUME NEW a \in Actors, Synchronise(a) \/ Push(a) \/ FailSource(a)
      PROVE  SourceTypes'
  <2>1. CASE BeginSync(a) \/ BeginPush(a) \/ FailSource(a)
    BY <2>1, SetStatusTypes DEF BeginSync, BeginPush, FailSource, Step, DataSourceStatus
  <2>2. CASE FinishSync(a) \/ FinishPush(a)
    BY <2>2, CompleteTypes DEF FinishSync, FinishPush, Step
  <2>3. QED
    BY <1>4, <2>1, <2>2 DEF Synchronise, Push, FetchSync, ListFiles, UpdateFiles, DeleteFiles,
       CreateFiles, SignalSync, CloneForPush, WriteFile, Publish, Step
<1>5. ASSUME NEW c \in Commands, StartCommand(c) \/ ExceptCommand(c) \/ KillCommand(c)
      PROVE  SourceTypes'
  BY <1>5, Bounds DEF StartCommand, ExceptCommand, KillCommand
<1>6. ASSUME NEW enabled \in BOOLEAN, SaveEdit(enabled)
      PROVE  SourceTypes'
  BY <1>6, SavedTypes, Bounds DEF SaveEdit, NoEdit, NewSource, DataSource,
     DataSourceStatus
<1>7. ASSUME NEW p \in Paths, NEW c \in Contents \cup {Missing}, Commit(p, c)
      PROVE  SourceTypes'
  BY <1>7 DEF Commit
<1>8. CASE OpenEdit
  BY <1>8, Bounds DEF OpenEdit
<1>9. ASSUME NEW p \in Paths, DeleteFile(p)
      PROVE  SourceTypes'
  BY <1>9, Bounds DEF DeleteFile
<1>10. CASE UNCHANGED vars
  BY <1>10 DEF vars
<1>11. QED
  BY <1>1, <1>2, <1>3, <1>4, <1>5, <1>6, <1>7, <1>8, <1>9, <1>10
     DEF Next, JobStep, CommandStep, Actors

\* Where an actor that may have left the source queued, synchronising or pushing
\* still has a status to save.
Unfinished == {"queued", "sync", "fetch", "list", "update", "delete", "create", "finish",
               "clone", "write", "publish", "complete", "failed"}

OneIsUnfinished == \E a \in Actors : pc[a] \in Unfinished

\* A source that is not settled has somebody there to finish; who it is may change.
SettledInv == slips \/ Settled \/ OneIsUnfinished

\* An actor goes on and saves nothing: it stays unfinished, or was not.
LEMMA GoingOnKeepsSettledInv ==
    ASSUME PushTypes, SettledInv, NEW a \in Actors, NEW s \in PCs, Goto(a, s),
           s \in Unfinished \/ pc[a] \notin Unfinished,
           UNCHANGED source, UNCHANGED slips
    PROVE  SettledInv'
<1>1. pc'[a] = s /\ \A b \in Actors \ {a} : pc'[b] = pc[b]
  BY DEF Goto, PushTypes
<1>2. ASSUME OneIsUnfinished
      PROVE  OneIsUnfinished'
  <2>1. PICK b \in Actors : pc[b] \in Unfinished
    BY <1>2 DEF OneIsUnfinished
  <2>2. CASE b = a
    BY <1>1, <2>1, <2>2 DEF OneIsUnfinished
  <2>3. CASE b # a
    BY <1>1, <2>1, <2>3 DEF OneIsUnfinished
  <2>4. QED
    BY <2>2, <2>3
<1>3. QED
  BY Zenon, <1>2 DEF SettledInv, Settled

\* An actor saves, and is unfinished from now on.
LEMMA UnfinishedKeepsSettledInv ==
    ASSUME PushTypes, NEW a \in Actors, NEW s \in Unfinished, Goto(a, s)
    PROVE  SettledInv'
<1>1. pc'[a] = s
  BY DEF Goto, PushTypes
<1>2. QED
  BY <1>1 DEF SettledInv, OneIsUnfinished

\* Nobody moves, nobody saves.
LEMMA StillKeepsSettledInv ==
    ASSUME SettledInv, UNCHANGED <<pc, source, slips>>
    PROVE  SettledInv'
BY Zenon DEF SettledInv, OneIsUnfinished, Settled

LEMMA InitSettledInv == Init => SettledInv
BY DEF Init, SettledInv, Settled, NewSource

LEMMA NextSettledInv == PushTypes /\ SourceTypes /\ SettledInv /\ [Next]_vars => SettledInv'
<1> SUFFICES ASSUME PushTypes, SourceTypes, SettledInv, [Next]_vars
             PROVE  SettledInv'
    OBVIOUS
<1> USE DEF faultVars, At
<1>1. ASSUME NEW j \in Jobs, RequestSync(j) \/ EnqueuePush(j) \/ RequestStep(j) \/ LoseTask(j)
      PROVE  SettledInv'
  <2>1. j \in Actors
    BY DEF Actors
  <2>2. CASE RequestSync(j)
    BY <2>1, <2>2, GoingOnKeepsSettledInv DEF RequestSync, PCs, Unfinished
  <2>3. CASE SaveQueued(j)
    BY <2>1, <2>3, UnfinishedKeepsSettledInv DEF SaveQueued, Unfinished
  <2>4. CASE EnqueuePush(j) \/ EnqueueSync(j) \/ Delay(j)
    BY <2>4, StillKeepsSettledInv DEF EnqueuePush, EnqueueSync, Delay
  <2>5. CASE LoseTask(j)
    BY <2>5 DEF LoseTask, SettledInv
  <2>6. QED
    BY <1>1, <2>2, <2>3, <2>4, <2>5 DEF RequestStep
<1>2. ASSUME NEW w \in Workers, TakeJob(w) \/ KillWorker(w)
      PROVE  SettledInv'
  <2>1. CASE TakeJob(w)
    BY <2>1, StillKeepsSettledInv DEF TakeJob
  <2>2. CASE KillWorker(w)
    BY <2>2 DEF KillWorker, SettledInv
  <2>3. QED
    BY <1>2, <2>1, <2>2
<1>3. ASSUME NEW w \in Workers, NEW j \in Jobs, Function(w, j) \/ Abort(w, j)
      PROVE  SettledInv'
  <2>1. j \in Actors
    BY DEF Actors
  <2>2. CASE StartSync(w, j) \/ Except(w, j)
    BY <2>1, <2>2, GoingOnKeepsSettledInv DEF StartSync, Except, PCs, Unfinished
  <2>3. CASE CancelPush(w, j) \/ ReadRouterSource(w, j) \/ StartPush(w, j) \/ Succeed(w, j)
    BY <2>1, <2>3, GoingOnKeepsSettledInv
       DEF CancelPush, ReadRouterSource, StartPush, Succeed, PCs, Unfinished
  <2>4. CASE Return(w, j) \/ Reraise(w, j) \/ Handle(w, j)
    BY <2>4, StillKeepsSettledInv DEF Return, Reraise, Handle
  <2>5. CASE Abort(w, j)
    BY <2>5 DEF Abort, SettledInv
  <2>6. QED
    BY <1>3, <2>2, <2>3, <2>4, <2>5 DEF Function
<1>4. ASSUME NEW a \in Actors, Synchronise(a) \/ Push(a) \/ FailSource(a)
      PROVE  SettledInv'
  <2>1. CASE BeginSync(a) \/ BeginPush(a)
    BY <2>1, UnfinishedKeepsSettledInv DEF BeginSync, BeginPush, Step, Unfinished
  <2>2. CASE FetchSync(a) \/ ListFiles(a) \/ UpdateFiles(a) \/ DeleteFiles(a) \/ CreateFiles(a)
    BY <2>2, GoingOnKeepsSettledInv
       DEF FetchSync, ListFiles, UpdateFiles, DeleteFiles, CreateFiles, Step, PCs, Unfinished
  <2>3. CASE CloneForPush(a) \/ WriteFile(a) \/ Publish(a)
    BY <2>3, GoingOnKeepsSettledInv
       DEF CloneForPush, WriteFile, Publish, Step, PCs, Unfinished
  <2>4. CASE SignalSync(a)
    BY <2>4, GoingOnKeepsSettledInv DEF SignalSync, Step, PCs, Unfinished
  <2>5. CASE FinishSync(a) \/ FinishPush(a)
    BY <2>5, CompleteTypes DEF FinishSync, FinishPush, SettledInv, Settled
  <2>6. CASE FailSource(a)
    BY <2>6, SetStatusTypes DEF FailSource, DataSourceStatus, SettledInv, Settled
  <2>7. QED
    BY <1>4, <2>1, <2>2, <2>3, <2>4, <2>5, <2>6 DEF Synchronise, Push
<1>5. ASSUME NEW c \in Commands, StartCommand(c) \/ ExceptCommand(c) \/ KillCommand(c)
      PROVE  SettledInv'
  <2>1. c \in Actors
    BY DEF Actors
  <2>2. CASE StartCommand(c) \/ ExceptCommand(c)
    BY <2>1, <2>2, GoingOnKeepsSettledInv DEF StartCommand, ExceptCommand, PCs, Unfinished
  <2>3. CASE KillCommand(c)
    BY <2>3 DEF KillCommand, SettledInv
  <2>4. QED
    BY <1>5, <2>2, <2>3
<1>6. ASSUME NEW enabled \in BOOLEAN, SaveEdit(enabled)
      PROVE  SettledInv'
  <2>1. source'.status = edit.read.status /\ UNCHANGED pc
    BY <1>6, SavedTypes DEF SaveEdit, SourceTypes
  <2>2. slips' = (slips \/ edit.read.status # source.status)
    BY <1>6 DEF SaveEdit
  <2>3. QED
    BY Zenon, <2>1, <2>2 DEF SettledInv, Settled, OneIsUnfinished
<1>7. ASSUME NEW p \in Paths, NEW c \in Contents \cup {Missing}, Commit(p, c)
      PROVE  SettledInv'
  BY <1>7, StillKeepsSettledInv DEF Commit
<1>8. CASE OpenEdit
  BY <1>8, StillKeepsSettledInv DEF OpenEdit
<1>9. ASSUME NEW p \in Paths, DeleteFile(p)
      PROVE  SettledInv'
  BY <1>9, StillKeepsSettledInv DEF DeleteFile
<1>10. CASE UNCHANGED vars
  BY <1>10, StillKeepsSettledInv DEF vars
<1>11. QED
  BY <1>1, <1>2, <1>3, <1>4, <1>5, <1>6, <1>7, <1>8, <1>9, <1>10
     DEF Next, JobStep, CommandStep, Actors

FileTypes == files \in [Paths -> DataFile] /\ listing \in [Actors -> [Paths -> DataFile]]

\* Where a job has a text to push.
Pushing == {"push", "clone", "write", "publish", "complete"}

TextInv == \A a \in Actors : pc[a] \in Pushing => clone[a].text \in Contents

FilesInv == FileTypes /\ TextInv

\* There is a key that no row of the path has, as actors are finite in number.
LEMMA FreshType ==
    ASSUME NEW p \in Paths
    PROVE  Fresh(p) \in Nat \ {0} /\ Fresh(p) \notin Used(p)
<1> DEFINE ids == {listing[a][p].id : a \in Actors}
           id  == [a \in Actors |-> listing[a][p].id]
           n   == Cardinality(Used(p))
<1>1. IsFiniteSet(Actors)
  BY ModelAssumption, FS_Union DEF ModelAssumption, Actors
<1>2. id \in Surjection(Actors, ids)
  BY DEF Surjection
<1>3. IsFiniteSet(ids)
  BY ONLY <1>1, <1>2, FS_Surjection
<1>4. IsFiniteSet(Used(p)) /\ n \in Nat
  <2>1. Used(p) = ids \cup {files[p].id}
    BY DEF Used
  <2>2. IsFiniteSet(ids \cup {files[p].id})
    BY <1>3, FS_AddElement
  <2>3. QED
    BY <2>1, <2>2, FS_CardinalityType
<1>5. \E m \in 1..(n + 1) : m \notin Used(p)
  <2>1. SUFFICES ASSUME 1..(n + 1) \subseteq Used(p)
                 PROVE  FALSE
    OBVIOUS
  <2>2. Cardinality(1..(n + 1)) <= n
    BY <1>4, <2>1, FS_Subset
  <2>3. Cardinality(1..(n + 1)) = n + 1
    BY <1>4, FS_Interval
  <2>4. QED
    BY <1>4, <2>2, <2>3
<1> HIDE DEF n
<1>6. QED
  BY <1>4, <1>5 DEF Fresh, n

LEMMA NoFileType == NoFile \in DataFile /\ NoFiles \in [Paths -> DataFile]
BY DEF NoFile, NoFiles, DataFile

\* Only rows that are listed and still there are updated.
LEMMA UpdateTypes ==
    ASSUME FileTypes, PushTypes, NEW a \in Actors, NEW p \in Changed(a)
    PROVE  [files[p] EXCEPT !.content = clone[a].tree[p]] \in DataFile \ {NoFile}
<1>1. /\ p \in Paths /\ files[p] \in DataFile /\ listing[a][p] \in DataFile \ {NoFile}
      /\ files[p].id = listing[a][p].id
  BY DEF FileTypes, Changed, Listed, Known
<1>2. clone[a].tree[p] \in Contents
  BY <1>1 DEF PushTypes, Changed, Tree
<1>3. files[p] \in [id: Nat \ {0}, content: Contents]
  BY <1>1 DEF DataFile, NoFile
<1>4. QED
  BY <1>2, <1>3 DEF DataFile, NoFile

LEMMA CreateTypes ==
    ASSUME PushTypes, NEW a \in Actors, NEW p \in Created(a)
    PROVE  [id |-> Fresh(p), content |-> clone[a].tree[p]] \in DataFile \ {NoFile}
<1>1. p \in Paths /\ clone[a].tree[p] \in Contents
  BY DEF PushTypes, Created, Walk, Tree
<1>2. Fresh(p) \in Nat \ {0}
  BY <1>1, FreshType
<1> DEFINE key == Fresh(p)
<1>3. key \in Nat \ {0}
  BY <1>2
<1> HIDE DEF key
<1>4. [id |-> key, content |-> clone[a].tree[p]] \in DataFile \ {NoFile}
  BY <1>1, <1>3 DEF DataFile, NoFile
<1>5. QED
  BY <1>4 DEF key

LEMMA WriteTypes ==
    ASSUME FilesInv, NEW a \in Actors, WriteFile(a)
    PROVE  files' \in [Paths -> DataFile]
<1> DEFINE key  == IF files[PushPath] = NoFile THEN Fresh(PushPath) ELSE files[PushPath].id
           file == [id |-> key, content |-> clone[a].text]
<1>1. PushPath \in Paths /\ files[PushPath] \in DataFile
  BY ModelAssumption DEF ModelAssumption, FilesInv, FileTypes
<1>2. key \in Nat \ {0}
  BY <1>1, FreshType DEF DataFile
<1>3. clone[a].text \in Contents
  BY DEF WriteFile, Step, At, FilesInv, TextInv, Pushing
<1>4. files' = [files EXCEPT ![PushPath] = file]
  BY DEF WriteFile
<1> HIDE DEF key
<1>5. file \in DataFile
  BY <1>2, <1>3 DEF DataFile
<1> HIDE DEF file
<1>6. QED
  BY <1>4, <1>5 DEF FilesInv, FileTypes

LEMMA InitFilesInv == Init => FilesInv
BY NoFileType DEF Init, FilesInv, FileTypes, TextInv, Pushing

\* A step that writes no file, and none of which makes an actor push.
LEMMA OtherStepsKeepFilesInv ==
    ASSUME PushTypes, FilesInv, NEW a \in Actors, NEW s \in PCs \ Pushing, Goto(a, s),
           Forget(a) \/ UNCHANGED ownVars, UNCHANGED files
    PROVE  FilesInv'
<1>1. FileTypes'
  BY NoFileType DEF FilesInv, FileTypes, Forget, ownVars
<1>2. \A b \in Actors : clone'[b].text = clone[b].text
  BY ForgetKeepsText DEF ownVars
<1>3. \A b \in Actors : pc'[b] \in Pushing => pc[b] \in Pushing
  BY DEF Goto, PushTypes
<1>4. QED
  BY <1>1, <1>2, <1>3 DEF FilesInv, TextInv

LEMMA StillKeepsFilesInv ==
    ASSUME FilesInv, UNCHANGED <<files, pc, ownVars>>
    PROVE  FilesInv'
BY DEF FilesInv, FileTypes, TextInv, ownVars

\* What a synchronisation or a push does to the files.
LEMMA MethodsKeepFilesInv ==
    ASSUME PushTypes, FilesInv, NEW a \in Actors, Synchronise(a) \/ Push(a) \/ FailSource(a)
    PROVE  FilesInv'
<1> USE DEF Step, At
<1>1. CASE BeginSync(a) \/ SignalSync(a) \/ FailSource(a)
  BY <1>1, OtherStepsKeepFilesInv DEF BeginSync, SignalSync, FailSource, fileVars, PCs, Pushing
<1>2. CASE FinishSync(a) \/ FinishPush(a)
  BY <1>2, OtherStepsKeepFilesInv DEF FinishSync, FinishPush, Complete, fileVars, PCs, Pushing
<1>3. CASE BeginPush(a) \/ Publish(a)
  BY <1>3 DEF BeginPush, Publish, FilesInv, FileTypes, TextInv, Pushing, Goto, PushTypes,
     fileVars, ownVars
<1>4. CASE FetchSync(a) \/ CloneForPush(a)
  <2>1. \A b \in Actors : clone'[b].text = clone[b].text
    BY <1>4 DEF FetchSync, CloneForPush, PushTypes
  <2>2. pc'[a] \in Pushing => pc[a] \in Pushing
    BY <1>4 DEF FetchSync, CloneForPush, Pushing, Goto, PushTypes
  <2>3. FileTypes' /\ \A b \in Actors \ {a} : pc'[b] = pc[b]
    BY <1>4 DEF FetchSync, CloneForPush, FilesInv, FileTypes, Goto, PushTypes, fileVars
  <2>4. QED
    BY <2>1, <2>2, <2>3 DEF FilesInv, TextInv
<1>5. CASE ListFiles(a)
  BY <1>5 DEF ListFiles, FilesInv, FileTypes, TextInv, Pushing, Goto, PushTypes, fileVars
<1>6. CASE UpdateFiles(a) \/ DeleteFiles(a) \/ CreateFiles(a)
  <2>1. FileTypes'
    <3>1. CASE UpdateFiles(a)
      BY <3>1, UpdateTypes DEF UpdateFiles, FilesInv, FileTypes, ownVars
    <3>2. CASE DeleteFiles(a)
      BY <3>2, NoFileType DEF DeleteFiles, FilesInv, FileTypes, ownVars
    <3>3. CASE CreateFiles(a)
      BY <3>3, CreateTypes DEF CreateFiles, FilesInv, FileTypes, ownVars
    <3>4. QED
      BY <1>6, <3>1, <3>2, <3>3
  <2>2. TextInv'
    BY <1>6 DEF UpdateFiles, DeleteFiles, CreateFiles, FilesInv, TextInv, Pushing, Goto,
       PushTypes, ownVars
  <2>3. QED
    BY <2>1, <2>2 DEF FilesInv
<1>7. CASE WriteFile(a)
  BY <1>7, WriteTypes DEF WriteFile, FilesInv, FileTypes, TextInv, Pushing, Goto, PushTypes,
     ownVars
<1>8. QED
  BY <1>1, <1>2, <1>3, <1>4, <1>5, <1>6, <1>7 DEF Synchronise, Push

LEMMA NextFilesInv == Job!TypeOK /\ PushTypes /\ FilesInv /\ [Next]_vars => FilesInv'
<1> SUFFICES ASSUME Job!TypeOK, PushTypes, FilesInv, [Next]_vars
             PROVE  FilesInv'
    OBVIOUS
<1> USE DEF fileVars, At
<1>1. ASSUME NEW j \in Jobs, RequestSync(j) \/ EnqueuePush(j) \/ RequestStep(j) \/ LoseTask(j)
      PROVE  FilesInv'
  <2>1. j \in Actors
    BY DEF Actors
  <2>2. CASE RequestSync(j) \/ SaveQueued(j)
    BY <2>1, <2>2, OtherStepsKeepFilesInv DEF RequestSync, SaveQueued, PCs, Pushing
  <2>3. CASE EnqueuePush(j) \/ EnqueueSync(j) \/ Delay(j) \/ LoseTask(j)
    BY <2>3, StillKeepsFilesInv DEF EnqueuePush, EnqueueSync, Delay, LoseTask
  <2>4. QED
    BY <1>1, <2>2, <2>3 DEF RequestStep
<1>2. ASSUME NEW w \in Workers, TakeJob(w) \/ KillWorker(w)
      PROVE  FilesInv'
  <2>1. CASE TakeJob(w)
    BY <2>1, StillKeepsFilesInv DEF TakeJob
  <2>2. CASE KillWorker(w)
    <3>1. busy[w] \in Actors
      BY <2>2 DEF KillWorker, Job!Crash, Job!TypeOK, Actors
    <3>2. QED
      BY <2>2, <3>1, OtherStepsKeepFilesInv DEF KillWorker, PCs, Pushing
  <2>3. QED
    BY <1>2, <2>1, <2>2
<1>3. ASSUME NEW w \in Workers, NEW j \in Jobs, Function(w, j) \/ Abort(w, j)
      PROVE  FilesInv'
  <2>1. j \in Actors
    BY DEF Actors
  <2>2. CASE StartSync(w, j) \/ Except(w, j) \/ Abort(w, j)
    BY <2>1, <2>2, OtherStepsKeepFilesInv DEF StartSync, Except, Abort, PCs, Pushing
  <2>3. CASE CancelPush(w, j) \/ ReadRouterSource(w, j) \/ Succeed(w, j)
    BY <2>1, <2>3, OtherStepsKeepFilesInv
       DEF CancelPush, ReadRouterSource, Succeed, PCs, Pushing
  <2>4. CASE Return(w, j) \/ Reraise(w, j) \/ Handle(w, j)
    BY <2>4, StillKeepsFilesInv DEF Return, Reraise, Handle
  <2>5. CASE StartPush(w, j)
    <3>1. PICK text \in Contents : clone' = [clone EXCEPT ![j].text = text]
      BY <2>5 DEF StartPush
    <3>2. clone'[j].text = text /\ \A b \in Actors \ {j} : clone'[b] = clone[b]
      BY <2>1, <3>1 DEF PushTypes
    <3>3. pc' = [pc EXCEPT ![j] = "push"] /\ UNCHANGED <<files, listing>>
      BY <2>5 DEF StartPush, Goto
    <3>4. QED
      BY <3>2, <3>3 DEF FilesInv, FileTypes, TextInv, PushTypes
  <2>6. QED
    BY <1>3, <2>2, <2>3, <2>4, <2>5 DEF Function
<1>4. ASSUME NEW c \in Commands, StartCommand(c) \/ ExceptCommand(c) \/ KillCommand(c)
      PROVE  FilesInv'
  <2>1. c \in Actors
    BY DEF Actors
  <2>2. QED
    BY <1>4, <2>1, OtherStepsKeepFilesInv DEF StartCommand, ExceptCommand, KillCommand, PCs,
       Pushing
<1>5. ASSUME NEW p \in Paths, DeleteFile(p)
      PROVE  FilesInv'
  BY <1>5, NoFileType DEF DeleteFile, FilesInv, FileTypes, TextInv, ownVars
<1>6. CASE \/ \E p \in Paths, c \in Contents \cup {Missing} : Commit(p, c)
           \/ OpenEdit
           \/ \E enabled \in BOOLEAN : SaveEdit(enabled)
           \/ UNCHANGED vars
  <2>1. UNCHANGED <<files, pc, ownVars>>
    BY <1>6 DEF Commit, OpenEdit, SaveEdit, vars
  <2>2. QED
    BY <2>1, StillKeepsFilesInv
<1>7. QED
  BY <1>1, <1>2, <1>3, <1>4, <1>5, <1>6, MethodsKeepFilesInv
     DEF Next, JobStep, CommandStep, Actors

LEMMA NextSlips == slips \in BOOLEAN /\ [Next]_vars => slips' \in BOOLEAN
<1> SUFFICES ASSUME slips \in BOOLEAN, [Next]_vars
             PROVE  slips' \in BOOLEAN
    OBVIOUS
<1>1. CASE UNCHANGED slips
  BY <1>1
<1>2. CASE slips' = TRUE
  BY <1>2
<1>3. ASSUME NEW enabled \in BOOLEAN, SaveEdit(enabled)
      PROVE  slips' \in BOOLEAN
  <2>1. slips' = (slips \/ edit.read.status # source.status)
    BY <1>3 DEF SaveEdit
  <2>2. QED
    BY Zenon, <2>1
<1>4. ASSUME NEW a, Synchronise(a) \/ Push(a) \/ FailSource(a) \/ ExceptCommand(a)
      PROVE  UNCHANGED slips
  BY <1>4 DEF Synchronise, Push, BeginSync, FetchSync, ListFiles, UpdateFiles, DeleteFiles,
     CreateFiles, FinishSync, SignalSync, BeginPush, CloneForPush, WriteFile, Publish,
     FinishPush, FailSource, ExceptCommand, Step, faultVars
<1>5. ASSUME NEW w, NEW j, Function(w, j)
      PROVE  UNCHANGED slips
  BY <1>5 DEF Function, StartSync, CancelPush, ReadRouterSource, StartPush, Succeed, Except,
     Return, Reraise, Handle, faultVars
<1>6. CASE \E j \in Jobs : RequestSync(j) \/ EnqueuePush(j) \/ RequestStep(j) \/ LoseTask(j)
  BY <1>1, <1>2, <1>6 DEF RequestSync, EnqueuePush, RequestStep, SaveQueued, EnqueueSync, Delay,
     LoseTask, faultVars
<1>7. CASE \/ \E w \in Workers : TakeJob(w) \/ KillWorker(w)
           \/ \E c \in Commands : StartCommand(c) \/ KillCommand(c)
  BY <1>1, <1>2, <1>7 DEF TakeJob, KillWorker, StartCommand, KillCommand, faultVars
<1>8. CASE \E w \in Workers, j \in Jobs : Abort(w, j)
  BY <1>2, <1>8 DEF Abort
<1>9. CASE \/ \E p \in Paths, c \in Contents \cup {Missing} : Commit(p, c)
           \/ OpenEdit
           \/ \E p \in Paths : DeleteFile(p)
           \/ UNCHANGED vars
  BY <1>1, <1>9 DEF Commit, OpenEdit, DeleteFile, vars, faultVars
<1>10. QED
  BY <1>1, <1>3, <1>4, <1>5, <1>6, <1>7, <1>8, <1>9 DEF Next, JobStep, CommandStep

TheirTypes == theirs \in [Actors -> SUBSET Paths]

LEMMA NextTheirTypes == TheirTypes /\ [Next]_vars => TheirTypes'
<1> SUFFICES ASSUME TheirTypes, [Next]_vars
             PROVE  TheirTypes'
    OBVIOUS
<1>1. ASSUME UNCHANGED theirs \/ \E a : theirs' = [theirs EXCEPT ![a] = {}]
      PROVE  TheirTypes'
  BY <1>1 DEF TheirTypes
<1>2. ASSUME NEW others, Behind(others)
      PROVE  TheirTypes'
  BY <1>2 DEF TheirTypes, Behind
<1> USE DEF ownVars, Forget
<1>3. ASSUME NEW a, Synchronise(a) \/ Push(a) \/ FailSource(a) \/ ExceptCommand(a)
      PROVE  TheirTypes'
  <2>1. CASE UpdateFiles(a) \/ DeleteFiles(a) \/ CreateFiles(a) \/ WriteFile(a)
    BY <1>2, <2>1 DEF UpdateFiles, DeleteFiles, CreateFiles, WriteFile
  <2>2. CASE ListFiles(a) \/ FinishSync(a) \/ FinishPush(a) \/ ExceptCommand(a)
    BY <1>1, <2>2 DEF ListFiles, FinishSync, FinishPush, Complete, ExceptCommand
  <2>3. CASE BeginSync(a) \/ FetchSync(a) \/ SignalSync(a) \/ BeginPush(a) \/ CloneForPush(a)
             \/ Publish(a) \/ FailSource(a)
    BY <1>1, <2>3 DEF BeginSync, FetchSync, SignalSync, BeginPush, CloneForPush, Publish,
       FailSource
  <2>4. QED
    BY <1>3, <2>1, <2>2, <2>3 DEF Synchronise, Push
<1>4. ASSUME NEW w, NEW j, Function(w, j) \/ Abort(w, j)
      PROVE  TheirTypes'
  BY <1>1, <1>4 DEF Function, StartSync, CancelPush, ReadRouterSource, StartPush, Succeed, Except,
     Return, Reraise, Handle, Abort
<1>5. CASE \E j \in Jobs : RequestSync(j) \/ EnqueuePush(j) \/ RequestStep(j) \/ LoseTask(j)
  BY <1>1, <1>5 DEF RequestSync, EnqueuePush, RequestStep, SaveQueued, EnqueueSync, Delay,
     LoseTask
<1>6. CASE \/ \E w \in Workers : TakeJob(w) \/ KillWorker(w)
           \/ \E c \in Commands : StartCommand(c) \/ KillCommand(c)
  BY <1>1, <1>6 DEF TakeJob, KillWorker, StartCommand, KillCommand
<1>7. CASE \E p \in Paths : DeleteFile(p)
  BY <1>2, <1>7 DEF DeleteFile
<1>8. CASE \/ \E p \in Paths, c \in Contents \cup {Missing} : Commit(p, c)
           \/ OpenEdit
           \/ \E enabled \in BOOLEAN : SaveEdit(enabled)
           \/ UNCHANGED vars
  BY <1>1, <1>8 DEF Commit, OpenEdit, SaveEdit, vars
<1>9. QED
  BY <1>3, <1>4, <1>5, <1>6, <1>7, <1>8 DEF Next, JobStep, CommandStep

\* The inductive invariant of DataSourceSync, jobs aside.
IInv == PushInv /\ SourceTypes /\ slips \in BOOLEAN /\ SettledInv /\ FilesInv /\ TheirTypes

THEOREM SourceInvariance == Spec => [](Job!TypeOK /\ IInv)
<1>1. Life!IInv => Job!TypeOK
  BY DEF Life!IInv, Life!TypeOK, Job!TypeOK, Life!Row, Job!Row, Life!Status, Job!Status,
         Life!Functions, Job!Functions, Life!Stages, Job!Stages
<1>2. Init => IInv
  BY InitPushInv, InitSourceTypes, InitSettledInv, InitFilesInv DEF Init, IInv, TheirTypes
<1>3. Job!TypeOK /\ IInv /\ [Next]_vars => IInv'
  BY NextPushInv, NextSourceTypes, NextSettledInv, NextFilesInv, NextSlips, NextTheirTypes
     DEF IInv, PushInv
<1>4. QED
  BY SourceJobsAreSafe, <1>1, <1>2, <1>3, PTL DEF Spec

\* Every row of the source and of its files, and every instance of them that a job,
\* a command or a request holds, is one there can be: however listings age, no row
\* is without a key or a content.
THEOREM SourceTypeCorrect == Spec => []TypeOK
<1>1. Job!TypeOK /\ IInv => TypeOK
  BY DEF IInv, PushInv, PushTypes, SourceTypes, FilesInv, FileTypes, TheirTypes, TypeOK
<1>2. QED
  BY SourceInvariance, <1>1, PTL

\* Whatever overlaps, is refused or fails, the source is not left queued,
\* synchronising or pushing with nobody there to finish, slips aside: for any number
\* of jobs, workers and commands, with users who edit it meanwhile.
THEOREM QuietIsSettled == Spec => []QuietSourceIsSettled
<1>1. SettledInv => QuietSourceIsSettled
  <2>1. Quiet => ~OneIsUnfinished
    BY DEF Quiet, OneIsUnfinished, Unfinished
  <2>2. QED
    BY Zenon, <2>1 DEF SettledInv, QuietSourceIsSettled
<1>2. QED
  BY SourceInvariance, <1>1, PTL DEF IInv

\* For any jobs, commands and commits: a push job that is reported as completed has put
\* its text in the repository, unless the host refused the push in words that are not
\* among GIT_ERROR_MATCHES; one that raises, as when it finds the repository moved, never
\* ends as completed.
THEOREM CompletedPushesArePublished == Spec => []CompletedPushIsPublished
<1>1. IInv => CompletedPushIsPublished
  BY DEF IInv, PushInv
<1>2. QED
  BY SourceInvariance, <1>1, PTL

-----------------------------------------------------------------------------
(* What a synchronisation leaves in the files *)

\* What is done, and what is still as it was listed, at each place of a synchronisation,
\* of a file that nobody else changed.
MirrorInvOf(a, p) ==
    /\ pc[a] = "update" => files[p] = listing[a][p]
    /\ pc[a] = "delete" =>
        /\ files[p].id = listing[a][p].id
        /\ IF p \in Known(a) THEN files[p].content = clone[a].tree[p] \/ clone[a].tree[p] = Missing
                             ELSE files[p] = NoFile
    /\ pc[a] = "create" =>
        IF p \in Known(a) THEN files[p].content = clone[a].tree[p] ELSE files[p] = NoFile
    /\ pc[a] = "finish" => files[p].content = Mirror(a, p)

Mirrors(a) == \A p \in Paths \ theirs[a] : MirrorInvOf(a, p)

MirrorInv == \A a \in Actors : Mirrors(a)

\* An actor that others leave alone but for the files they change.
LEMMA FrameMirrors ==
    ASSUME NEW a \in Actors, Mirrors(a),
           pc'[a] = pc[a], listing'[a] = listing[a], clone'[a] = clone[a],
           \A p \in Paths \ theirs'[a] :
               p \notin theirs[a] /\ (pc[a] \in Mirroring => files'[p] = files[p])
    PROVE  Mirrors(a)'
<1>1. Known(a)' = Known(a) /\ \A p \in Paths : Mirror(a, p)' = Mirror(a, p)
  BY DEF Known, Mirror, Walk
<1>2. SUFFICES ASSUME NEW p \in Paths \ theirs'[a]
               PROVE  MirrorInvOf(a, p)'
  BY DEF Mirrors
<1>3. MirrorInvOf(a, p) /\ (pc[a] \in Mirroring => files'[p] = files[p])
  BY <1>2 DEF Mirrors
<1>4. QED
  BY <1>1, <1>3 DEF MirrorInvOf, Mirroring

\* A step of an actor that gets to no place of a synchronisation and changes no file.
LEMMA AsideKeepsMirrorInv ==
    ASSUME PushTypes, FileTypes, TheirTypes, MirrorInv, NEW a \in Actors,
           NEW s \in PCs \ Mirroring, Goto(a, s), UNCHANGED files,
           \A b \in Actors \ {a} :
               listing'[b] = listing[b] /\ clone'[b] = clone[b] /\ theirs'[b] = theirs[b]
    PROVE  MirrorInv'
<1>1. pc'[a] = s /\ \A b \in Actors \ {a} : pc'[b] = pc[b]
  BY DEF Goto, PushTypes
<1>2. Mirrors(a)'
  BY <1>1 DEF Mirrors, MirrorInvOf, Mirroring
<1>3. ASSUME NEW b \in Actors \ {a}
      PROVE  Mirrors(b)'
  BY <1>1, FrameMirrors DEF MirrorInv
<1>4. QED
  BY <1>2, <1>3 DEF MirrorInv

\* Nobody moves.
LEMMA StillKeepsMirrorInv ==
    ASSUME MirrorInv, UNCHANGED <<files, pc, ownVars>>
    PROVE  MirrorInv'
BY FrameMirrors DEF MirrorInv, ownVars

LEMMA ForgetKeepsOthers ==
    ASSUME PushTypes, FileTypes, TheirTypes, NEW a \in Actors, Forget(a)
    PROVE  \A b \in Actors \ {a} :
               listing'[b] = listing[b] /\ clone'[b] = clone[b] /\ theirs'[b] = theirs[b]
BY DEF Forget, PushTypes, FileTypes, TheirTypes

\* What others change is theirs.
LEMMA BehindKeepsMirrors ==
    ASSUME MirrorInv, TheirTypes, NEW others, Behind(others), NEW b \in Actors \cap others,
           pc'[b] = pc[b], UNCHANGED <<clone, listing>>
    PROVE  Mirrors(b)'
<1>1. theirs'[b] = IF pc[b] \in Mirroring THEN theirs[b] \cup {p \in Paths : files'[p] # files[p]}
                                          ELSE theirs[b]
  BY DEF Behind
<1>2. ASSUME NEW p \in Paths \ theirs'[b]
      PROVE  p \notin theirs[b] /\ (pc[b] \in Mirroring => files'[p] = files[p])
  BY <1>1, <1>2
<1>3. QED
  BY <1>2, FrameMirrors DEF MirrorInv

\* An actor that changes files does so behind the back of the others only.
LEMMA WriterKeepsMirrorInv ==
    ASSUME PushTypes, MirrorInv, TheirTypes, NEW a \in Actors, NEW s, Goto(a, s),
           Behind(Actors \ {a}), UNCHANGED <<clone, listing>>,
           \A p \in Paths \ theirs[a] : MirrorInvOf(a, p)'
    PROVE  MirrorInv'
<1>1. ASSUME NEW b \in Actors \ {a}
      PROVE  Mirrors(b)'
  <2>1. pc'[b] = pc[b] /\ b \in Actors \cap (Actors \ {a})
    BY DEF Goto, PushTypes
  <2>2. QED
    BY <2>1, BehindKeepsMirrors
<1>2. theirs'[a] = theirs[a]
  BY DEF Behind
<1>3. Mirrors(a)'
  BY <1>2 DEF Mirrors
<1>4. QED
  BY <1>1, <1>3 DEF MirrorInv

LEMMA UpdateMirrors ==
    ASSUME PushTypes, FileTypes, NEW a \in Actors, NEW p \in Paths, MirrorInvOf(a, p),
           UpdateFiles(a)
    PROVE  MirrorInvOf(a, p)'
<1>1. /\ pc'[a] = "delete" /\ pc[a] = "update" /\ UNCHANGED <<listing, clone>>
  BY DEF UpdateFiles, Step, At, Goto, PushTypes
<1>2. files[p] = listing[a][p] /\ files[p] \in DataFile
  BY <1>1 DEF MirrorInvOf, FileTypes
<1>3. /\ files'[p].id = listing[a][p].id
      /\ IF p \in Known(a)
         THEN files'[p].content = clone[a].tree[p] \/ clone[a].tree[p] = Missing
         ELSE files'[p] = NoFile
  <2>1. CASE p \in Changed(a)
    <3>1. files'[p] = [files[p] EXCEPT !.content = clone[a].tree[p]]
      BY <2>1 DEF UpdateFiles
    <3>2. p \in Known(a)
      BY <2>1 DEF Changed, Listed
    <3>3. QED
      BY <1>2, <3>1, <3>2 DEF DataFile, NoFile
  <2>2. CASE p \notin Changed(a)
    <3>1. files'[p] = files[p]
      BY <2>2 DEF UpdateFiles
    <3>2. p \in Known(a) => clone[a].tree[p] \in {Missing, listing[a][p].content}
      BY <1>2, <2>2 DEF Changed, Listed
    <3>3. QED
      BY <1>2, <3>1, <3>2 DEF Known
  <2>3. QED
    BY <2>1, <2>2
<1>4. Known(a)' = Known(a)
  BY <1>1 DEF Known
<1>5. QED
  BY <1>1, <1>3, <1>4 DEF MirrorInvOf

LEMMA DeleteMirrors ==
    ASSUME PushTypes, FileTypes, NEW a \in Actors, NEW p \in Paths, MirrorInvOf(a, p),
           DeleteFiles(a)
    PROVE  MirrorInvOf(a, p)'
<1>1. /\ pc'[a] = "create" /\ pc[a] = "delete" /\ UNCHANGED <<listing, clone>>
  BY DEF DeleteFiles, Step, At, Goto, PushTypes
<1>2. IF p \in Known(a) THEN files'[p].content = clone[a].tree[p] ELSE files'[p] = NoFile
  <2>1. /\ files[p].id = listing[a][p].id
        /\ IF p \in Known(a)
           THEN files[p].content = clone[a].tree[p] \/ clone[a].tree[p] = Missing
           ELSE files[p] = NoFile
    BY <1>1 DEF MirrorInvOf
  <2>2. files'[p] = IF p \in Deleted(a) THEN NoFile ELSE files[p]
    BY DEF DeleteFiles
  <2>3. p \in Deleted(a) <=> p \in Known(a) /\ clone[a].tree[p] = Missing
    BY <2>1 DEF Deleted, Listed
  <2>4. NoFile.content = Missing
    BY DEF NoFile
  <2>5. QED
    BY <2>1, <2>2, <2>3, <2>4
<1>3. Known(a)' = Known(a)
  BY <1>1 DEF Known
<1>4. QED
  BY <1>1, <1>2, <1>3 DEF MirrorInvOf

LEMMA CreateMirrors ==
    ASSUME PushTypes, FileTypes, NEW a \in Actors, NEW p \in Paths, MirrorInvOf(a, p),
           CreateFiles(a)
    PROVE  MirrorInvOf(a, p)'
<1>1. /\ pc'[a] = "finish" /\ pc[a] = "create" /\ UNCHANGED <<listing, clone>>
  BY DEF CreateFiles, Step, At, Goto, PushTypes
<1>2. files'[p].content = Mirror(a, p)
  <2>1. IF p \in Known(a) THEN files[p].content = clone[a].tree[p] ELSE files[p] = NoFile
    BY <1>1 DEF MirrorInvOf
  <2>2. files'[p] = IF p \in Created(a) THEN [id |-> Fresh(p), content |-> clone[a].tree[p]]
                                        ELSE files[p]
    BY DEF CreateFiles
  <2>3. NoFile.content = Missing
    BY DEF NoFile
  <2>4. CASE p \in Created(a)
    BY <2>2, <2>4 DEF Created, Mirror
  <2>5. CASE p \notin Created(a)
    BY <2>1, <2>2, <2>3, <2>5 DEF Created, Mirror
  <2>6. QED
    BY <2>4, <2>5
<1>3. Mirror(a, p)' = Mirror(a, p)
  BY <1>1 DEF Mirror, Known, Walk
<1>4. QED
  BY <1>1, <1>2, <1>3 DEF MirrorInvOf

\* What a synchronisation or a push does to the files.
LEMMA MethodsKeepMirrorInv ==
    ASSUME MirrorInv, PushTypes, FileTypes, TheirTypes, NEW a \in Actors,
           Synchronise(a) \/ Push(a) \/ FailSource(a)
    PROVE  MirrorInv'
<1>1. CASE BeginSync(a) \/ SignalSync(a) \/ FailSource(a) \/ BeginPush(a) \/ Publish(a)
  <2>1. UNCHANGED <<files, ownVars>>
    BY <1>1 DEF BeginSync, SignalSync, FailSource, BeginPush, Publish, fileVars
  <2>2. \E s \in PCs \ Mirroring : Goto(a, s)
    BY <1>1 DEF BeginSync, SignalSync, FailSource, BeginPush, Publish, Step, PCs, Mirroring
  <2>3. QED
    BY <2>1, <2>2, AsideKeepsMirrorInv DEF ownVars
<1>2. CASE FinishSync(a) \/ FinishPush(a)
  <2>1. Forget(a) /\ UNCHANGED files
    BY <1>2 DEF FinishSync, FinishPush, Complete, fileVars
  <2>2. \E s \in PCs \ Mirroring : Goto(a, s)
    BY <1>2 DEF FinishSync, FinishPush, Step, PCs, Mirroring
  <2>3. QED
    BY <2>1, <2>2, ForgetKeepsOthers, AsideKeepsMirrorInv
<1>3. CASE FetchSync(a) \/ CloneForPush(a)
  <2>1. \A b \in Actors \ {a} : clone'[b] = clone[b]
    BY <1>3 DEF FetchSync, CloneForPush, PushTypes
  <2>2. UNCHANGED <<files, listing, theirs>>
    BY <1>3 DEF FetchSync, CloneForPush, fileVars
  <2>3. \E s \in PCs \ Mirroring : Goto(a, s)
    BY <1>3 DEF FetchSync, CloneForPush, Step, PCs, Mirroring
  <2>4. QED
    BY <2>1, <2>2, <2>3, AsideKeepsMirrorInv
<1>4. CASE ListFiles(a)
  <2>1. /\ pc' = [pc EXCEPT ![a] = "update"] /\ listing' = [listing EXCEPT ![a] = files]
        /\ theirs' = [theirs EXCEPT ![a] = {}] /\ UNCHANGED <<files, clone>>
    BY <1>4 DEF ListFiles, Step, Goto, fileVars
  <2>2. ASSUME NEW b \in Actors \ {a}
        PROVE  Mirrors(b)'
    <3>1. pc'[b] = pc[b] /\ listing'[b] = listing[b] /\ theirs'[b] = theirs[b]
      BY <2>1 DEF PushTypes, FileTypes, TheirTypes
    <3>2. QED
      BY <2>1, <3>1, FrameMirrors DEF MirrorInv
  <2>3. pc'[a] = "update" /\ listing'[a] = files
    BY <2>1 DEF PushTypes, FileTypes
  <2>4. Mirrors(a)'
    BY <2>1, <2>3 DEF Mirrors, MirrorInvOf
  <2>5. QED
    BY <2>2, <2>4 DEF MirrorInv
<1>5. CASE UpdateFiles(a) \/ DeleteFiles(a) \/ CreateFiles(a) \/ WriteFile(a)
  <2>1. Behind(Actors \ {a}) /\ UNCHANGED <<clone, listing>>
    BY <1>5 DEF UpdateFiles, DeleteFiles, CreateFiles, WriteFile
  <2>2. \E s : Goto(a, s)
    BY <1>5 DEF UpdateFiles, DeleteFiles, CreateFiles, WriteFile, Step
  <2>3. ASSUME NEW p \in Paths \ theirs[a]
        PROVE  MirrorInvOf(a, p)'
    <3>1. MirrorInvOf(a, p)
      BY DEF MirrorInv, Mirrors
    <3>2. CASE WriteFile(a)
      <4>1. pc'[a] = "publish"
        BY <3>2 DEF WriteFile, Step, Goto, PushTypes
      <4>2. QED
        BY <4>1 DEF MirrorInvOf
    <3>3. QED
      BY <1>5, <3>1, <3>2, UpdateMirrors, DeleteMirrors, CreateMirrors
  <2>4. QED
    BY <2>1, <2>2, <2>3, WriterKeepsMirrorInv
<1>6. QED
  BY <1>1, <1>2, <1>3, <1>4, <1>5 DEF Synchronise, Push

LEMMA InitMirrorInv == Init => MirrorInv
BY DEF Init, MirrorInv, Mirrors, MirrorInvOf

LEMMA NextMirrorInv == Job!TypeOK /\ IInv /\ MirrorInv /\ [Next]_vars => MirrorInv'
<1> SUFFICES ASSUME Job!TypeOK, IInv, MirrorInv, [Next]_vars
             PROVE  MirrorInv'
    OBVIOUS
<1>1. PushTypes /\ FileTypes /\ TheirTypes /\ \A j \in Jobs : j \in Actors
  BY DEF IInv, PushInv, FilesInv, Actors
\* A step that leaves the files alone and takes an actor away from the passes.
<1>2. ASSUME NEW a \in Actors, NEW s \in PCs \ Mirroring, Goto(a, s), UNCHANGED files,
             Forget(a) \/ UNCHANGED ownVars
      PROVE  MirrorInv'
  <2>1. \A b \in Actors \ {a} :
            listing'[b] = listing[b] /\ clone'[b] = clone[b] /\ theirs'[b] = theirs[b]
    BY <1>1, <1>2, ForgetKeepsOthers DEF ownVars
  <2>2. QED
    BY <1>1, <1>2, <2>1, AsideKeepsMirrorInv
<1>3. ASSUME NEW j \in Jobs, RequestSync(j) \/ EnqueuePush(j) \/ RequestStep(j) \/ LoseTask(j)
      PROVE  MirrorInv'
  <2>1. CASE RequestSync(j) \/ SaveQueued(j)
    BY <1>1, <1>2, <2>1 DEF RequestSync, SaveQueued, fileVars, PCs, Mirroring
  <2>2. CASE EnqueuePush(j) \/ EnqueueSync(j) \/ Delay(j) \/ LoseTask(j)
    BY <2>2, StillKeepsMirrorInv DEF EnqueuePush, EnqueueSync, Delay, LoseTask, fileVars
  <2>3. QED
    BY <1>3, <2>1, <2>2 DEF RequestStep
<1>4. ASSUME NEW w \in Workers, TakeJob(w) \/ KillWorker(w)
      PROVE  MirrorInv'
  <2>1. CASE TakeJob(w)
    BY <2>1, StillKeepsMirrorInv DEF TakeJob, fileVars
  <2>2. CASE KillWorker(w)
    <3>1. busy[w] \in Actors
      BY <2>2 DEF KillWorker, Job!Crash, Job!TypeOK, Actors
    <3>2. QED
      BY <1>2, <2>2, <3>1 DEF KillWorker, fileVars, PCs, Mirroring
  <2>3. QED
    BY <1>4, <2>1, <2>2
<1>5. ASSUME NEW w \in Workers, NEW j \in Jobs, Function(w, j) \/ Abort(w, j)
      PROVE  MirrorInv'
  <2>1. CASE StartSync(w, j) \/ CancelPush(w, j) \/ ReadRouterSource(w, j) \/ Succeed(w, j)
    BY <1>1, <1>2, <2>1 DEF StartSync, CancelPush, ReadRouterSource, Succeed, fileVars, PCs,
       Mirroring
  <2>2. CASE Except(w, j) \/ Abort(w, j)
    BY <1>1, <1>2, <2>2 DEF Except, Abort, fileVars, PCs, Mirroring
  <2>3. CASE StartPush(w, j)
    <3>1. /\ Goto(j, "push") /\ UNCHANGED <<files, listing, theirs>>
          /\ \A b \in Actors \ {j} : clone'[b] = clone[b]
      BY <2>3 DEF StartPush, fileVars, PushTypes
    <3>2. QED
      BY <1>1, <3>1, AsideKeepsMirrorInv DEF PCs, Mirroring
  <2>4. CASE Return(w, j) \/ Reraise(w, j) \/ Handle(w, j)
    BY <2>4, StillKeepsMirrorInv DEF Return, Reraise, Handle, fileVars
  <2>5. QED
    BY <1>5, <2>1, <2>2, <2>3, <2>4 DEF Function
<1>6. ASSUME NEW c \in Commands, StartCommand(c) \/ ExceptCommand(c) \/ KillCommand(c)
      PROVE  MirrorInv'
  <2>1. c \in Actors
    BY DEF Actors
  <2>2. QED
    BY <1>2, <1>6, <2>1 DEF StartCommand, ExceptCommand, KillCommand, fileVars, PCs, Mirroring
<1>7. ASSUME NEW p \in Paths, DeleteFile(p)
      PROVE  MirrorInv'
  <2>1. Behind(Actors) /\ UNCHANGED <<pc, clone, listing>>
    BY <1>7 DEF DeleteFile
  <2>2. QED
    BY <1>1, <2>1, BehindKeepsMirrors DEF MirrorInv
<1>8. CASE \/ \E p \in Paths, c \in Contents \cup {Missing} : Commit(p, c)
           \/ OpenEdit
           \/ \E enabled \in BOOLEAN : SaveEdit(enabled)
           \/ UNCHANGED vars
  <2>1. UNCHANGED <<files, pc, ownVars>>
    BY <1>8 DEF Commit, OpenEdit, SaveEdit, vars, fileVars
  <2>2. QED
    BY <2>1, StillKeepsMirrorInv
<1>9. QED
  BY <1>1, <1>3, <1>4, <1>5, <1>6, <1>7, <1>8, MethodsKeepMirrorInv
     DEF Next, JobStep, CommandStep, Actors

LEMMA MirrorInvariance == Spec => []MirrorInv
<1>1. Init => MirrorInv
  BY InitMirrorInv
<1>2. QED
  BY SourceInvariance, <1>1, NextMirrorInv, PTL DEF Spec

\* However the passes of jobs and of the command take turns, with pushes, with users who
\* delete files, with exceptions and killed workers: a synchronisation leaves each file
\* that nobody else changed since it was listed as it is in the commit it fetched, for
\* any number of actors, files and rules.
THEOREM OtherFilesAreMirrored == Spec => []OtherFilesMirrorTheClone
<1>1. MirrorInv => OtherFilesMirrorTheClone
  BY DEF MirrorInv, Mirrors, MirrorInvOf, OtherFilesMirrorTheClone, At
<1>2. QED
  BY MirrorInvariance, <1>1, PTL

-----------------------------------------------------------------------------
(* One worker *)

\* Jobs run one after the other, and nobody else touches the files.
LoneWorker == Commands = {} /\ MaxEdits = 0 /\ \A v, w \in Workers : v = w

\* After refreshing, deleting and creating, and whatever the table held before,
\* the files of the source are those of the commit that was fetched.
FilesMirrorTheClone ==
    \A a \in Actors : At(a, "finish") => \A p \in Paths : files[p].content = Mirror(a, p)

\* A job whose function runs has a worker.
HolderInv == \A j \in Jobs : stage[j] \in Job!Held => \E w \in Workers : busy[w] = j

\* A worker gets a job from the queue, and is rid of it when it is over.
LEMMA NextHolderInv == Life!IInv /\ HolderInv /\ [Next]_vars => HolderInv'
<1> SUFFICES ASSUME Life!IInv, HolderInv, [Job!Next]_(Job!jobVars)
             PROVE  HolderInv'
    BY StepsRefine
<1>1. /\ stage \in [Jobs -> Job!Stages] /\ busy \in [Workers -> Jobs \cup {Idle}]
      /\ queue \in Seq(Jobs)
      /\ \A v, w \in Workers : busy[v] = busy[w] /\ busy[v] # Idle => v = w
  BY DEF Life!IInv, Life!TypeOK, Life!Stages, Job!Stages, Life!HoldInv, Life!OneWorkerPerJob
<1> USE DEF HolderInv, Job!Held
\* What is held goes on being held, by whom held it.
<1>2. ASSUME NEW j \in Jobs, NEW s \in Job!Stages, stage' = [stage EXCEPT ![j] = s],
             UNCHANGED busy, s \notin Job!Held \/ stage[j] \in Job!Held
      PROVE  HolderInv'
  BY <1>1, <1>2
\* A worker lets go of what it held.
<1>3. ASSUME NEW w \in Workers, NEW j \in Jobs, NEW s \in Job!Stages \ Job!Held, busy[w] = j,
             stage' = [stage EXCEPT ![j] = s], busy' = [busy EXCEPT ![w] = Idle]
      PROVE  HolderInv'
  <2> SUFFICES ASSUME NEW i \in Jobs, stage'[i] \in Job!Held
               PROVE  \E v \in Workers : busy'[v] = i
    OBVIOUS
  <2>1. i # j /\ stage[i] \in Job!Held
    BY <1>1, <1>3
  <2>2. PICK v \in Workers : busy[v] = i
    BY <2>1
  <2>3. busy'[v] = i
    BY <1>1, <1>3, <2>1, <2>2
  <2>4. QED
    BY <2>3
<1>4. ASSUME NEW j \in Jobs, Job!Request(j)
      PROVE  HolderInv'
  <2>1. CASE Job!delete(j)
    BY <2>1 DEF Job!delete
  <2>2. CASE ~Job!delete(j)
    BY <1>2, <1>4, <2>2 DEF Job!Request, Job!enqueue, Job!delay, Job!delay_fails, Job!Goto,
       Job!Stages
  <2>3. QED
    BY <2>1, <2>2
<1>5. ASSUME NEW w \in Workers, Job!Take(w)
      PROVE  HolderInv'
  <2>1. /\ busy[w] = Idle /\ Head(queue) \in Jobs
        /\ stage' = [stage EXCEPT ![Head(queue)] = "started"]
        /\ busy' = [busy EXCEPT ![w] = Head(queue)]
    BY <1>1, <1>5 DEF Job!Take, Job!Goto
  <2>2. QED
    BY <1>1, <2>1, ModelAssumption DEF ModelAssumption
<1>6. ASSUME NEW w \in Workers, Job!Crash(w)
      PROVE  HolderInv'
  BY <1>1, <1>3, <1>6 DEF Job!Crash, Job!Goto, Job!Release, Job!Stages
<1>7. ASSUME NEW w \in Workers, NEW j \in Jobs, Job!Run(w, j)
      PROVE  HolderInv'
  <2>1. CASE Job!Return(w, j) \/ Job!handler_not_found(w, j) \/ Job!mark_errored(w, j)
    BY <1>3, <2>1 DEF Job!Return, Job!handler_not_found, Job!mark_errored, Job!Goto,
       Job!Release, Job!Holds, Job!Stages
  <2>2. CASE Job!log(w, j)
    BY <2>2 DEF Job!log
  <2>3. CASE Job!cancel(w, j) \/ Job!mark_running(w, j) \/ Job!mark_completed(w, j)
    BY <1>2, <2>3 DEF Job!cancel, Job!mark_running, Job!mark_completed, Job!Goto,
       Job!Holds, Job!Stages
  <2>4. CASE Job!mark_failed(w, j) \/ Job!except(w, j) \/ Job!raise(w, j) \/ Job!handler_fetch(w, j)
    BY <1>2, <2>4 DEF Job!mark_failed, Job!except, Job!raise, Job!handler_fetch, Job!Goto,
       Job!Holds, Job!Stages
  <2>5. QED
    BY <1>7, <2>1, <2>2, <2>3, <2>4 DEF Job!Run
<1>8. CASE UNCHANGED Job!jobVars
  BY <1>8 DEF Job!jobVars
<1>9. QED
  BY <1>4, <1>5, <1>6, <1>7, <1>8 DEF Job!Next

\* Of two jobs that run, one is the other.
LEMMA OneRuns ==
    ASSUME LoneWorker, HolderInv, NEW i \in Jobs, NEW j \in Jobs, stage[i] = "body",
           stage[j] = "body"
    PROVE  i = j
<1>1. PICK v \in Workers : busy[v] = i
  BY DEF HolderInv, Job!Held
<1>2. PICK w \in Workers : busy[w] = j
  BY DEF HolderInv, Job!Held
<1>3. QED
  BY <1>1, <1>2 DEF LoneWorker

\* A job between listing and last file is in its function, and no file is another's.
LoneInvOf(j) == (pc[j] \in Mirroring => stage[j] = "body") /\ theirs[j] = {}

LoneInv == \A j \in Jobs : LoneInvOf(j)

\* A step of a job that gets to no place of a synchronisation.
LEMMA AsideKeepsLoneInv ==
    ASSUME PushTypes, TheirTypes, LoneInv, NEW a \in Jobs, NEW s \in PCs \ Mirroring, Goto(a, s),
           Forget(a) \/ UNCHANGED theirs,
           \A j \in Jobs \ {a} : stage'[j] = stage[j]
    PROVE  LoneInv'
<1>1. pc'[a] = s /\ \A j \in Jobs \ {a} : pc'[j] = pc[j]
  BY DEF Goto, PushTypes, Actors
<1>2. \A j \in Jobs : theirs'[j] = {}
  BY DEF Forget, LoneInv, LoneInvOf, TheirTypes, Actors
<1>3. QED
  BY <1>1, <1>2 DEF LoneInv, LoneInvOf

\* Nobody moves, and no function that runs is left.
LEMMA StillKeepsLoneInv ==
    ASSUME LoneInv, UNCHANGED <<pc, theirs>>,
           \A j \in Jobs : stage[j] = "body" => stage'[j] = "body"
    PROVE  LoneInv'
BY DEF LoneInv, LoneInvOf

\* The job that runs is the only one anywhere in a synchronisation.
LEMMA RunningKeepsLoneInv ==
    ASSUME LoneWorker, HolderInv, LoneInv, TheirTypes, NEW a \in Jobs, stage[a] = "body",
           UNCHANGED jobVars, \A j \in Jobs \ {a} : pc'[j] = pc[j],
           \/ UNCHANGED theirs \/ Behind(Actors \ {a})
           \/ theirs' = [theirs EXCEPT ![a] = {}]
    PROVE  LoneInv'
<1>1. \A j \in Jobs \ {a} : pc[j] \notin Mirroring
  BY OneRuns DEF LoneInv, LoneInvOf
<1>2. stage' = stage
  BY DEF jobVars
<1>3. ASSUME NEW j \in Jobs
      PROVE  theirs'[j] = {}
  <2>1. theirs[j] = {} /\ j \in Actors
    BY DEF LoneInv, LoneInvOf, Actors
  <2>2. CASE UNCHANGED theirs \/ theirs' = [theirs EXCEPT ![a] = {}]
    BY <2>1, <2>2 DEF TheirTypes
  <2>3. CASE Behind(Actors \ {a})
    BY <1>1, <2>1, <2>3 DEF Behind
  <2>4. QED
    BY <2>2, <2>3
<1>4. QED
  BY <1>1, <1>2, <1>3 DEF LoneInv, LoneInvOf

\* What a synchronisation or a push does.
LEMMA MethodsKeepLoneInv ==
    ASSUME LoneWorker, HolderInv, LoneInv, PushTypes, TheirTypes, NEW a \in Jobs,
           Synchronise(a) \/ Push(a) \/ FailSource(a)
    PROVE  LoneInv'
<1>1. a \in Actors
  BY DEF Actors
<1>2. CASE FailSource(a)
  BY <1>2, AsideKeepsLoneInv DEF FailSource, ownVars, jobVars, PCs, Mirroring
<1>3. CASE Synchronise(a) \/ Push(a)
  <2>1. \E s, t : Step(a, s, t)
    BY <1>3 DEF Synchronise, Push, BeginSync, FetchSync, ListFiles, UpdateFiles, DeleteFiles,
       CreateFiles, FinishSync, SignalSync, BeginPush, CloneForPush, WriteFile, Publish,
       FinishPush
  <2>2. stage[a] = "body" /\ UNCHANGED jobVars /\ \A j \in Jobs \ {a} : pc'[j] = pc[j]
    BY <2>1 DEF Step, Working, Goto, PushTypes, Actors
  <2>3. \/ UNCHANGED theirs \/ Behind(Actors \ {a})
        \/ theirs' = [theirs EXCEPT ![a] = {}]
    BY <1>3 DEF Synchronise, Push, BeginSync, FetchSync, ListFiles, UpdateFiles, DeleteFiles,
       CreateFiles, FinishSync, SignalSync, BeginPush, CloneForPush, WriteFile, Publish,
       FinishPush, Complete, Forget, ownVars
  <2>4. QED
    BY <2>2, <2>3, RunningKeepsLoneInv
<1>4. QED
  BY <1>2, <1>3

LEMMA FunctionsKeepLoneInv ==
    ASSUME Life!IInv, LoneInv, PushTypes, TheirTypes, NEW w \in Workers, NEW j \in Jobs,
           Function(w, j) \/ Abort(w, j)
    PROVE  LoneInv'
<1>1. stage \in [Jobs -> Job!Stages]
  BY DEF Life!IInv, Life!TypeOK, Life!Stages, Job!Stages
<1> DEFINE Aside(s) == /\ Goto(j, s) /\ \E t : stage' = [stage EXCEPT ![j] = t]
                       /\ Forget(j) \/ UNCHANGED theirs
<1>2. ASSUME NEW s \in PCs \ Mirroring, Aside(s)
      PROVE  LoneInv'
  BY <1>1, <1>2, AsideKeepsLoneInv
<1>3. CASE StartSync(w, j)
  <2>1. Aside("sync")
    BY <1>3 DEF StartSync, Job!mark_running, Job!Goto, ownVars
  <2>2. QED
    BY <1>2, <2>1 DEF PCs, Mirroring
<1>4. CASE CancelPush(w, j) \/ Succeed(w, j) \/ Abort(w, j)
  <2>1. Aside("done")
    BY <1>4 DEF CancelPush, Succeed, Abort, Job!cancel, Job!mark_completed, Job!raise, Job!Goto,
       ownVars
  <2>2. QED
    BY <1>2, <2>1 DEF PCs, Mirroring
<1>5. CASE ReadRouterSource(w, j)
  BY <1>5, AsideKeepsLoneInv DEF ReadRouterSource, jobVars, ownVars, PCs, Mirroring
<1>6. CASE StartPush(w, j)
  <2>1. Aside("push")
    BY <1>6 DEF StartPush, Job!mark_running, Job!Goto
  <2>2. QED
    BY <1>2, <2>1 DEF PCs, Mirroring
<1>7. CASE Except(w, j)
  <2>1. Aside("failed")
    BY <1>7 DEF Except, Job!except, Job!Goto
  <2>2. QED
    BY <1>2, <2>1 DEF PCs, Mirroring
<1>8. CASE Return(w, j) \/ Reraise(w, j) \/ Handle(w, j)
  <2>1. stage[j] # "body" /\ \E t : stage' = [stage EXCEPT ![j] = t]
    BY <1>8 DEF Return, Reraise, Handle, Job!Return, Job!raise, Job!handler_fetch,
       Job!mark_errored, Job!Holds, Job!Goto
  <2>2. UNCHANGED <<pc, theirs>>
    BY <1>8 DEF Return, Reraise, Handle, ownVars
  <2>3. QED
    BY <1>1, <2>1, <2>2, StillKeepsLoneInv
<1>9. QED
  BY <1>3, <1>4, <1>5, <1>6, <1>7, <1>8 DEF Function

LEMMA NextLoneInv ==
    LoneWorker /\ Life!IInv /\ IInv /\ HolderInv /\ LoneInv /\ [Next]_vars => LoneInv'
<1> SUFFICES ASSUME LoneWorker, Life!IInv, IInv, HolderInv, LoneInv, [Next]_vars
             PROVE  LoneInv'
    OBVIOUS
<1>1. /\ PushTypes /\ TheirTypes /\ edits = 0 /\ MaxEdits = 0 /\ Commands = {}
      /\ stage \in [Jobs -> Job!Stages] /\ busy \in [Workers -> Jobs \cup {Idle}]
      /\ queue \in Seq(Jobs)
      /\ \A i \in 1..Len(queue) : stage[queue[i]] = "queued"
  BY DEF IInv, PushInv, SourceTypes, LoneWorker, Life!IInv, Life!TypeOK, Life!Stages,
     Job!Stages, Life!QueueInv
<1>2. ASSUME NEW j \in Jobs, RequestSync(j) \/ EnqueuePush(j) \/ RequestStep(j) \/ LoseTask(j)
      PROVE  LoneInv'
  <2>1. CASE RequestSync(j) \/ SaveQueued(j)
    BY <1>1, <2>1, AsideKeepsLoneInv DEF RequestSync, SaveQueued, jobVars, ownVars, PCs, Mirroring
  <2>2. CASE EnqueuePush(j) \/ EnqueueSync(j) \/ Delay(j) \/ LoseTask(j)
    <3>1. stage[j] \in {"absent", "created"} /\ \E t : stage' = [stage EXCEPT ![j] = t]
      BY <2>2 DEF EnqueuePush, EnqueueSync, Delay, LoseTask, Job!enqueue, Job!delay,
         Job!delay_fails, Job!Goto
    <3>2. UNCHANGED <<pc, theirs>>
      BY <2>2 DEF EnqueuePush, EnqueueSync, Delay, LoseTask, ownVars
    <3>3. QED
      BY <1>1, <3>1, <3>2, StillKeepsLoneInv
  <2>3. QED
    BY <1>2, <2>1, <2>2 DEF RequestStep
<1>3. ASSUME NEW w \in Workers, TakeJob(w)
      PROVE  LoneInv'
  <2>1. Head(queue) = queue[1] /\ 1 \in 1..Len(queue)
    BY <1>1, <1>3 DEF TakeJob, Job!Take
  <2>2. stage[Head(queue)] = "queued" /\ stage' = [stage EXCEPT ![Head(queue)] = "started"]
    BY <1>1, <1>3, <2>1 DEF TakeJob, Job!Take, Job!Goto
  <2>3. UNCHANGED <<pc, theirs>>
    BY <1>3 DEF TakeJob, ownVars
  <2>4. QED
    BY <1>1, <2>2, <2>3, StillKeepsLoneInv
<1>4. ASSUME NEW w \in Workers, KillWorker(w)
      PROVE  LoneInv'
  <2>1. busy[w] \in Jobs /\ Forget(busy[w]) /\ Goto(busy[w], "done")
    BY <1>1, <1>4 DEF KillWorker, Job!Crash
  <2>2. \A j \in Jobs \ {busy[w]} : stage'[j] = stage[j]
    BY <1>1, <1>4 DEF KillWorker, Job!Crash, Job!Goto
  <2>3. QED
    BY <1>1, <2>1, <2>2, AsideKeepsLoneInv DEF PCs, Mirroring
<1>5. ASSUME NEW w \in Workers, NEW j \in Jobs, Function(w, j) \/ Abort(w, j)
      PROVE  LoneInv'
  BY <1>1, <1>5, FunctionsKeepLoneInv
<1>6. ASSUME NEW j \in Jobs, JobStep(j)
      PROVE  LoneInv'
  BY <1>1, <1>6, MethodsKeepLoneInv DEF JobStep
<1>7. CASE \/ \E p \in Paths, c \in Contents \cup {Missing} : Commit(p, c)
           \/ \E enabled \in BOOLEAN : SaveEdit(enabled)
           \/ UNCHANGED vars
  <2>1. UNCHANGED <<pc, theirs, stage>>
    BY <1>7 DEF Commit, SaveEdit, vars, jobVars, ownVars
  <2>2. QED
    BY <2>1, StillKeepsLoneInv
<1>8. ~OpenEdit /\ \A p \in Paths : ~DeleteFile(p)
  BY <1>1 DEF OpenEdit, DeleteFile
<1>9. QED
  BY <1>1, <1>2, <1>3, <1>4, <1>5, <1>6, <1>7, <1>8 DEF Next

LEMMA InitLoneInv == Init => HolderInv /\ LoneInv
BY DEF Init, Job!Init, HolderInv, Job!Held, LoneInv, LoneInvOf, Mirroring, Actors

\* With one worker, and nobody else at the files, a synchronisation leaves the files
\* of the commit it fetched, whatever the table held before, for any files, rules,
\* jobs, pushes, exceptions and killed workers.
THEOREM FilesAreMirrored == LoneWorker => (Spec => []FilesMirrorTheClone)
<1> SUFFICES ASSUME LoneWorker
             PROVE  Spec => []FilesMirrorTheClone
    OBVIOUS
<1>1. LoneInv /\ OtherFilesMirrorTheClone => FilesMirrorTheClone
  BY DEF LoneInv, LoneInvOf, OtherFilesMirrorTheClone, FilesMirrorTheClone, LoneWorker, Actors, At
<1>2. Life!IInv /\ IInv /\ HolderInv /\ LoneInv /\ [Next]_vars => LoneInv'
  BY NextLoneInv
<1>3. QED
  BY SourceJobsAreSafe, SourceInvariance, OtherFilesAreMirrored, InitLoneInv, NextHolderInv,
     <1>1, <1>2, PTL DEF Spec

-----------------------------------------------------------------------------
(* Objects *)

AutoP == INSTANCE AutoSyncProofs WITH
    Files <- DataFiles, None <- Missing, MaxEdits <- MaxSaves,
    files <- dataFiles, pc <- receiver, edits <- saves

\* What happens to objects is a behaviour of AutoSync.
LEMMA ObjectsFollowAutoSync == SourcesSpec => AutoP!Spec
<1>1. SourcesNext /\ part # "auto" => UNCHANGED autoVars
  BY DEF SourcesNext, Fetching, Following, Listing, Arranging
<1> USE DEF Sync!dataVars, AutoP!dataVars, Sync!syncVars, AutoP!syncVars, Sync!requestVars,
           AutoP!requestVars, Sync!historyVars, AutoP!historyVars, Sync!vars, AutoP!vars,
           Sync!Content, AutoP!Content, Sync!Link, AutoP!Link, Sync!Instance,
           AutoP!Instance, Sync!NoObject, AutoP!NoObject, Sync!Exists, AutoP!Exists,
           Sync!NoRequest, AutoP!NoRequest, Sync!Present, AutoP!Present,
           Sync!Synchronisable, AutoP!Synchronisable, Sync!synchronise, AutoP!synchronise,
           Sync!clean, AutoP!clean, Sync!saved_record, AutoP!saved_record, Sync!save_row,
           AutoP!save_row, Sync!save_record, AutoP!save_record, Sync!Cascade, AutoP!Cascade,
           Sync!RefreshFiles, AutoP!RefreshFiles, Sync!LoadRecords, AutoP!LoadRecords,
           Sync!SaveObject, AutoP!SaveObject, Sync!SaveRecord, AutoP!SaveRecord, Sync!Fail,
           AutoP!Fail, Sync!Complete, AutoP!Complete, Sync!Rest, AutoP!Rest, Sync!Ask,
           AutoP!Ask, Sync!SubmitForm, AutoP!SubmitForm, Sync!Patch, AutoP!Patch,
           Sync!Touch, AutoP!Touch, Sync!SaveRequest, AutoP!SaveRequest, Sync!DeleteObject,
           AutoP!DeleteObject, Sync!DeleteFile, AutoP!DeleteFile, Sync!Init, AutoP!Init
<1>2. SourcesInit => AutoP!Init
  BY DEF SourcesInit
<1>3. SourcesNext /\ part = "auto" => AutoP!Next
  BY DEF SourcesNext, Fetching, Following, Listing, Arranging, AutoP!Next, AutoP!Receiver
<1>4. UNCHANGED autoVars => UNCHANGED AutoP!vars
  BY DEF autoVars
<1>5. UNCHANGED allVars => UNCHANGED autoVars
  BY DEF allVars
<1>6. [SourcesNext]_allVars => [AutoP!Next]_(AutoP!vars)
  BY <1>1, <1>3, <1>4, <1>5
<1>7. QED
  BY <1>2, <1>6, PTL DEF SourcesSpec, AutoP!Spec

LEMMA PartsAssumed == AutoP!NoneAssumption
BY PartsAssumption DEF PartsAssumption, Sync!NoneAssumption, AutoP!NoneAssumption

\* A text that no user typed was, at some time, that of the file the object
\* links to, for any objects, files and contents: clean(), the receiver and the
\* requests never give an object the text of another file.
THEOREM TextIsTheFiles == SourcesSpec => []TextComesFromTheFile
<1>1. AutoP!Spec => []AutoP!TextComesFromTheFile
  BY PartsAssumed, AutoP!TextIsTheFiles
<1>2. AutoP!TextComesFromTheFile => TextComesFromTheFile
  BY DEF AutoP!TextComesFromTheFile, TextComesFromTheFile, Sync!TextComesFromTheFile,
         AutoP!Exists, Sync!Exists
<1>3. QED
  BY <1>1, <1>2, ObjectsFollowAutoSync, PTL

\* When the receiver is done, automatic objects have their files' texts, those
\* users touched meanwhile aside, however many objects it walks.
THEOREM AutomaticIsFresh == SourcesSpec => []AutomaticObjectsAreFresh
<1>1. AutoP!Spec => []AutoP!AutomaticObjectsAreFresh
  BY PartsAssumed, AutoP!AutomaticIsFresh
<1>2. AutoP!AutomaticObjectsAreFresh => AutomaticObjectsAreFresh
  BY DEF AutoP!AutomaticObjectsAreFresh, AutomaticObjectsAreFresh,
         Sync!AutomaticObjectsAreFresh, AutoP!Exists, Sync!Exists
<1>3. QED
  BY <1>1, <1>2, ObjectsFollowAutoSync, PTL

\* Between synchronisations every automatic object has the record by which the
\* next one finds it, requests saved during one aside.
THEOREM AutomaticIsRecorded == SourcesSpec => []AutomaticObjectsAreRecorded
<1>1. AutoP!Spec => []AutoP!AutomaticObjectsAreRecorded
  BY PartsAssumed, AutoP!AutomaticIsRecorded
<1>2. AutoP!AutomaticObjectsAreRecorded => AutomaticObjectsAreRecorded
  BY DEF AutoP!AutomaticObjectsAreRecorded, AutomaticObjectsAreRecorded,
         Sync!AutomaticObjectsAreRecorded, AutoP!Exists, Sync!Exists
<1>3. QED
  BY <1>1, <1>2, ObjectsFollowAutoSync, PTL

-----------------------------------------------------------------------------
(* Lists *)

\* Nothing unchecked is checked, by its own box, by "select all", or on the page
\* under review.
UncheckedInv ==
    /\ refused \cap ticked = {}
    /\ selectAll => refused = {}
    /\ refused \cap (pks \cup reviewed) = {}
    /\ page = "list" => queries = {} /\ pks = {} /\ reviewed = {}

\* Rows have been in the database; of those picked, the hidden fields name all
\* and the table lists all that exist now.
ReviewInv ==
    /\ \A o \in rows : matches[o] # "new"
    /\ page = "review" /\ ~selectAll =>
           /\ "fields" \notin queries => pks = ticked
           /\ "table" \notin queries => ticked \cap Bulk!Existing \subseteq reviewed

ListInv == Bulk!TypeOK /\ UncheckedInv /\ ReviewInv

-----------------------------------------------------------------------------
\* The list shows rows of the database, with nothing checked.
LEMMA ShowListKeepsListInv ==
    ASSUME matches' \in [Rows -> {"new", "matching", "other", "gone"}],
           changes' \in 0..MaxChanges, Bulk!ShowList
    PROVE  ListInv'
<1>1. Bulk!Matching' \subseteq Rows /\ \A o \in Bulk!Matching' : matches'[o] = "matching"
  BY DEF Bulk!Matching
<1>2. rows' \subseteq Bulk!Matching'
  BY DEF Bulk!ShowList, Bulk!FirstPages
<1>3. box' \in {"none", "hidden"}
  BY DEF Bulk!ShowList, Bulk!BoxFor
<1>4. Bulk!TypeOK'
  BY <1>1, <1>2, <1>3 DEF Bulk!ShowList, Bulk!TypeOK
<1>5. UncheckedInv' /\ ReviewInv'
  BY <1>1, <1>2 DEF Bulk!ShowList, UncheckedInv, ReviewInv
<1>6. QED
  BY <1>4, <1>5 DEF ListInv

LEMMA InitListInv == Bulk!SelectionAssumption /\ Bulk!Init => ListInv
<1> SUFFICES ASSUME Bulk!SelectionAssumption, Bulk!Init
             PROVE  ListInv
    OBVIOUS
<1>1. rows \subseteq Bulk!Matching /\ Bulk!Matching \subseteq Rows
  BY DEF Bulk!Init, Bulk!FirstPages, Bulk!Matching
<1>2. box \in {"none", "hidden"} /\ changes \in 0..MaxChanges
  BY DEF Bulk!Init, Bulk!BoxFor, Bulk!SelectionAssumption
<1>3. Bulk!TypeOK
  BY <1>1, <1>2 DEF Bulk!Init, Bulk!TypeOK
<1>4. UncheckedInv /\ ReviewInv
  BY <1>1 DEF Bulk!Init, UncheckedInv, ReviewInv, Bulk!Matching
<1>5. QED
  BY <1>3, <1>4 DEF ListInv

\* What is under review exists; what is picked is among the rows.
LEMMA PkListTypes ==
    ASSUME ListInv
    PROVE  /\ Bulk!pk_list \subseteq Rows /\ refused \cap Bulk!pk_list = {}
           /\ ~selectAll => Bulk!pk_list = ticked
BY DEF ListInv, Bulk!TypeOK, UncheckedInv, Bulk!pk_list, Bulk!Matching

\* The click handlers.
LEMMA ClicksKeepListInv ==
    ASSUME ListInv,
           \/ \E checked \in BOOLEAN : Bulk!Toggle(checked) \/ Bulk!SelectAll(checked)
           \/ \E o \in Rows : Bulk!Tick(o) \/ Bulk!Untick(o)
    PROVE  ListInv'
<1>1. UNCHANGED <<matches, page, rows, kind, queries, pks, reviewed, changes>> /\ page = "list"
  BY DEF Bulk!Toggle, Bulk!SelectAll, Bulk!Tick, Bulk!Untick, Bulk!review
<1>2. ASSUME NEW checked \in BOOLEAN, Bulk!Toggle(checked) \/ Bulk!SelectAll(checked)
      PROVE  Bulk!TypeOK'
  <2>1. CASE Bulk!Toggle(checked)
    BY <1>1, <2>1 DEF Bulk!Toggle, ListInv, Bulk!TypeOK
  <2>2. CASE Bulk!SelectAll(checked)
    BY <1>1, <2>2 DEF Bulk!SelectAll, ListInv, Bulk!TypeOK
  <2>3. QED
    BY <1>2, <2>1, <2>2
<1>3. ASSUME NEW o \in Rows, Bulk!Tick(o) \/ Bulk!Untick(o)
      PROVE  Bulk!TypeOK'
  <2>1. CASE Bulk!Tick(o)
    BY <1>1, <2>1 DEF Bulk!Tick, ListInv, Bulk!TypeOK
  <2>2. CASE Bulk!Untick(o)
    BY <1>1, <2>2 DEF Bulk!Untick, ListInv, Bulk!TypeOK
  <2>3. QED
    BY <1>3, <2>1, <2>2
<1>4. refused' \cap ticked' = {} /\ (selectAll' => refused' = {})
  BY DEF Bulk!Toggle, Bulk!SelectAll, Bulk!Tick, Bulk!Untick, ListInv, Bulk!TypeOK, UncheckedInv
<1>5. ReviewInv'
  BY <1>1 DEF ListInv, ReviewInv
<1>6. UncheckedInv'
  BY <1>1, <1>4 
     DEF Bulk!Toggle, Bulk!SelectAll, Bulk!Tick, Bulk!Untick, ListInv, UncheckedInv,
         Bulk!TypeOK, ReviewInv
<1>7. Bulk!TypeOK'
  BY <1>2, <1>3
<1>8. QED
  BY <1>5, <1>6, <1>7 DEF ListInv

LEMMA SubmitKeepsListInv ==
    ASSUME ListInv, NEW k \in {"edit", "delete"}, Bulk!Submit(k)
    PROVE  ListInv'
<1>1. CASE Bulk!pk_list \cap Bulk!Existing = {}
  BY <1>1, ShowListKeepsListInv DEF Bulk!Submit, ListInv, Bulk!TypeOK
<1>2. CASE Bulk!pk_list \cap Bulk!Existing # {}
  <2>1. /\ page' = "review" /\ kind' = k /\ queries' = {"table", "fields"}
        /\ UNCHANGED <<matches, changes, rows, ticked, toggle, selectAll, box, buttons, pks,
                       reviewed, refused>>
    BY <1>2 DEF Bulk!Submit, Bulk!boxes
  <2>2. QED
    BY <2>1 DEF ListInv, Bulk!TypeOK, UncheckedInv, ReviewInv
<1>3. QED
  BY <1>1, <1>2

LEMMA ReadsKeepListInv ==
    ASSUME ListInv, Bulk!ReadTable \/ Bulk!ReadFields
    PROVE  ListInv'
<1>0. page = "review"
  BY DEF Bulk!ReadTable, Bulk!ReadFields, ListInv, Bulk!TypeOK, UncheckedInv
<1>1. /\ queries' \in SUBSET queries
      /\ UNCHANGED <<matches, page, kind, rows, ticked, toggle, selectAll, box, buttons,
                     refused, changes>>
  BY DEF Bulk!ReadTable, Bulk!ReadFields, Bulk!boxes
<1>2. Bulk!Existing' = Bulk!Existing
  BY <1>1 DEF Bulk!Existing
<1>3. CASE Bulk!ReadTable
  <2>1. reviewed' = Bulk!pk_list \cap Bulk!Existing /\ queries' = queries \ {"table"} /\ pks' = pks
    BY <1>3 DEF Bulk!ReadTable
  <2>2. queries' \in {{}, {"table", "fields"}, {"table"}, {"fields"}}
    BY <2>1 DEF ListInv, Bulk!TypeOK
  <2>3. Bulk!TypeOK' /\ UncheckedInv'
    BY <1>0, <1>1, <2>1, <2>2, PkListTypes DEF ListInv, Bulk!TypeOK, UncheckedInv
  <2>4. ReviewInv'
    BY <1>1, <1>2, <2>1, PkListTypes DEF ListInv, ReviewInv
  <2>5. QED
    BY <2>3, <2>4 DEF ListInv
<1>4. CASE Bulk!ReadFields
  <2>1. pks' = Bulk!pk_list /\ queries' = queries \ {"fields"} /\ reviewed' = reviewed
    BY <1>4 DEF Bulk!ReadFields
  <2>2. queries' \in {{}, {"table", "fields"}, {"table"}, {"fields"}}
    BY <2>1 DEF ListInv, Bulk!TypeOK
  <2>3. Bulk!TypeOK' /\ UncheckedInv'
    BY <1>0, <1>1, <2>1, <2>2, PkListTypes DEF ListInv, Bulk!TypeOK, UncheckedInv
  <2>4. ReviewInv'
    BY <1>1, <1>2, <2>1, PkListTypes DEF ListInv, ReviewInv
  <2>5. QED
    BY <2>3, <2>4 DEF ListInv
<1>5. QED
  BY <1>3, <1>4

\* What a confirmation changes is among the hidden fields.
LEMMA AppliesToFields ==
    ASSUME ListInv, Bulk!Apply(pks), pks \subseteq Bulk!Existing
    PROVE  /\ matches' \in [Rows -> {"new", "matching", "other", "gone"}]
           /\ Bulk!Changed \subseteq pks
BY DEF Bulk!Apply, Bulk!Changed, ListInv, Bulk!TypeOK

LEMMA ConfirmKeepsListInv ==
    ASSUME ListInv, Bulk!Confirm
    PROVE  ListInv'
<1>1. changes' = changes /\ page = "review" /\ queries = {}
  BY DEF Bulk!Confirm
<1>2. CASE pks \subseteq Bulk!Existing /\ Bulk!Apply(pks)
  BY <1>1, <1>2, AppliesToFields, ShowListKeepsListInv DEF Bulk!Apply, ListInv, Bulk!TypeOK
<1>3. CASE Bulk!Redisplay
  <2>1. matches' = matches
    BY <1>3 DEF Bulk!Redisplay
  <2>2. CASE pks \cap Bulk!Existing = {}
    BY <1>1, <1>3, <2>1, <2>2, ShowListKeepsListInv DEF Bulk!Redisplay, ListInv, Bulk!TypeOK
  <2>3. CASE pks \cap Bulk!Existing # {}
    <3>1. /\ reviewed' = pks \cap Bulk!Existing
          /\ UNCHANGED <<page, kind, queries, rows, ticked, toggle, selectAll, box, buttons,
                         pks, refused>>
      BY <1>3, <2>3 DEF Bulk!Redisplay, Bulk!boxes
    <3>2. Bulk!Existing' = Bulk!Existing
      BY <2>1 DEF Bulk!Existing
    <3>3. QED
      BY <1>1, <2>1, <3>1, <3>2 DEF ListInv, Bulk!TypeOK, UncheckedInv, ReviewInv
  <2>4. QED
    BY <2>2, <2>3
<1>4. QED
  BY <1>2, <1>3 DEF Bulk!Confirm

\* Others create rows and delete them; none becomes new, and none comes back.
LEMMA EditKeepsListInv ==
    ASSUME Bulk!SelectionAssumption, ListInv, Bulk!Edit
    PROVE  ListInv'
<1>1. PICK o \in Rows, r \in {"matching", "other", "gone"} :
          /\ matches[o] # "gone" /\ (matches[o] = "new" => r # "gone")
          /\ matches' = [matches EXCEPT ![o] = r]
  BY DEF Bulk!Edit
<1>2. changes' \in 0..MaxChanges
  BY DEF Bulk!SelectionAssumption, ListInv, Bulk!TypeOK, Bulk!Edit
<1>3. UNCHANGED <<page, rows, ticked, toggle, selectAll, box, buttons, kind, queries, pks,
                  reviewed, refused>>
  BY DEF Bulk!Edit, Bulk!boxes, Bulk!review
<1>4. Bulk!TypeOK' /\ UncheckedInv'
  BY <1>1, <1>2, <1>3 DEF ListInv, Bulk!TypeOK, UncheckedInv
<1>5. \A p \in rows : matches'[p] # "new"
  BY <1>1 DEF ListInv, Bulk!TypeOK, ReviewInv
<1>6. \A p \in rows : p \in Bulk!Existing' => p \in Bulk!Existing
  BY <1>1 DEF Bulk!Existing, ListInv, Bulk!TypeOK, ReviewInv
<1>7. ReviewInv'
  BY <1>3, <1>5, <1>6 DEF ListInv, Bulk!TypeOK, ReviewInv
<1>8. QED
  BY <1>4, <1>7 DEF ListInv

LEMMA NextListInv == Bulk!SelectionAssumption /\ ListInv /\ [Bulk!Next]_(Bulk!vars) => ListInv'
<1> SUFFICES ASSUME Bulk!SelectionAssumption, ListInv, [Bulk!Next]_(Bulk!vars)
             PROVE  ListInv'
    OBVIOUS
<1>1. CASE UNCHANGED Bulk!vars
  BY <1>1
     DEF ListInv, Bulk!TypeOK, UncheckedInv, ReviewInv, Bulk!Existing, Bulk!vars, Bulk!boxes,
         Bulk!review
<1>2. CASE Bulk!Reload
  BY <1>2, ShowListKeepsListInv DEF Bulk!Reload, ListInv, Bulk!TypeOK
<1>3. QED
  BY <1>1, <1>2, ClicksKeepListInv, SubmitKeepsListInv, ReadsKeepListInv,
     ConfirmKeepsListInv, EditKeepsListInv
     DEF Bulk!Next

\* What happens to a list is a step of BulkSelection.
LEMMA ListSteps == [SourcesNext]_allVars => [Bulk!Next]_(Bulk!vars)
<1>1. SourcesNext /\ part = "bulk" => Bulk!Next
  BY DEF SourcesNext, Fetching, Following, Listing, Arranging, Bulk!Next
<1>2. SourcesNext /\ part # "bulk" => UNCHANGED bulkVars
  BY DEF SourcesNext, Fetching, Following, Listing, Arranging
<1>3. UNCHANGED allVars => UNCHANGED bulkVars
  BY DEF allVars
<1>4. UNCHANGED bulkVars => UNCHANGED Bulk!vars
  BY DEF bulkVars, Bulk!vars, Bulk!boxes, Bulk!review
<1>5. QED
  BY <1>1, <1>2, <1>3, <1>4

LEMMA ListInvariance == SourcesSpec => []ListInv
<1>1. SourcesInit => ListInv
  BY InitListInv, PartsAssumption DEF SourcesInit, PartsAssumption
<1>2. ListInv /\ [SourcesNext]_allVars => ListInv'
  BY NextListInv, ListSteps, PartsAssumption DEF PartsAssumption
<1>3. QED
  BY <1>1, <1>2, PTL DEF SourcesSpec

\* Rows a user has unchecked are not on the page under review, whatever boxes
\* were clicked in whatever order, for any number of rows and pages of any length.
THEOREM UncheckedIsLeftAlone == SourcesSpec => []UncheckedRowsAreLeftAlone
<1>1. ListInv => UncheckedRowsAreLeftAlone
  BY DEF ListInv, UncheckedInv, UncheckedRowsAreLeftAlone, Bulk!UncheckedRowsAreLeftAlone
<1>2. QED
  BY ListInvariance, <1>1, PTL

\* A step that changes rows, and is no change by others, changes listed ones.
LEMMA ChangesAreReviewed ==
    ASSUME ListInv, Bulk!Next, changes' = changes, ~selectAll
    PROVE  Bulk!Changed \subseteq reviewed
<1>1. CASE matches' = matches
  BY <1>1 DEF Bulk!Changed
<1>2. CASE Bulk!Confirm /\ pks \subseteq Bulk!Existing /\ Bulk!Apply(pks)
  <2>1. Bulk!Changed \subseteq pks
    BY <1>2, AppliesToFields
  <2>2. pks \subseteq reviewed
    BY <1>2 DEF Bulk!Confirm, ListInv, ReviewInv
  <2>3. QED
    BY <2>1, <2>2
<1>3. \/ matches' = matches
      \/ Bulk!Confirm /\ pks \subseteq Bulk!Existing /\ Bulk!Apply(pks)
      \/ Bulk!Edit
  BY DEF Bulk!Next, Bulk!Toggle, Bulk!SelectAll, Bulk!Tick, Bulk!Untick, Bulk!Submit,
         Bulk!ReadTable, Bulk!ReadFields, Bulk!Confirm, Bulk!Redisplay, Bulk!Reload
<1>4. ~Bulk!Edit
  BY DEF Bulk!Edit, ListInv, Bulk!TypeOK
<1>5. QED
  BY <1>1, <1>2, <1>3, <1>4

\* Objects that were picked, rather than all that match the filter, are changed
\* by a confirmation only if they were listed for review.
THEOREM PickedIsReviewed == SourcesSpec => PickedObjectsAreReviewed
<1> DEFINE Reviews == changes' = changes /\ ~selectAll => Bulk!Changed \subseteq reviewed
<1>1. ListInv /\ [Bulk!Next]_(Bulk!vars) => [Reviews]_(Bulk!vars)
  BY ChangesAreReviewed
<1>2. ListInv /\ [SourcesNext]_allVars => [Reviews]_(Bulk!vars)
  BY <1>1, ListSteps
<1>3. QED
  BY ListInvariance, <1>2, PTL
     DEF SourcesSpec, PickedObjectsAreReviewed, Bulk!PickedObjectsAreReviewed

-----------------------------------------------------------------------------
(* Sequences *)

\* What holds at 0 and from n - 1 to n holds up to N: there is no least exception.
LEMMA Upward ==
    ASSUME NEW N \in Nat, NEW S, 0 \in S, \A n \in 1..N : n - 1 \in S => n \in S
    PROVE  \A n \in 0..N : n \in S
<1> DEFINE less == {p \in Nat \X Nat : p[1] < p[2]}
           bad  == {n \in 0..N : n \notin S}
<1>1. IsWellFoundedOn(less, Nat)
  BY NatLessThanWellFounded DEF OpToRel
<1>2. bad \subseteq Nat
  OBVIOUS
<1>3. bad # {} => \E n \in bad : \A m \in bad : <<m, n>> \notin less
  <2> HIDE DEF less, bad
  <2>1. QED
    BY <1>1, <1>2, WFMin
<1>4. ASSUME NEW n \in bad, \A m \in bad : <<m, n>> \notin less
      PROVE  FALSE
  <2>1. n \in 1..N
    OBVIOUS
  <2>2. n - 1 \in bad
    BY <2>1
  <2>3. <<n - 1, n>> \in less
    BY <2>1
  <2>4. QED
    BY <1>4, <2>2, <2>3
<1>5. QED
  BY <1>3, <1>4

\* g[<<n, x>>] is what comes of x in the n-th of L steps; f[n] is what is there after n.
StaysIn(X, g, L)  == \A n \in 1..L, x \in X : g[<<n, x>>] \in X
Follows(f, s, g, L) == f[0] = s /\ \A n \in 1..L : f[n] = g[<<n, f[n - 1]>>]

\* There are intermediate results.
LEMMA Iterates ==
    ASSUME NEW X, NEW s \in X, NEW L \in Nat, NEW g, StaysIn(X, g, L)
    PROVE  \E f \in [0..L -> X] : Follows(f, s, g, L)
<1> USE DEF StaysIn, Follows
<1> DEFINE Runs(n) == {f \in [0..n -> X] : f[0] = s /\ \A m \in 1..n : f[m] = g[<<m, f[m - 1]>>]}
           S == {n \in 0..L : Runs(n) # {}}
<1>1. 0 \in S
  <2> DEFINE h == [m \in 0..0 |-> s]
  <2>1. h \in [0..0 -> X] /\ h[0] = s
    OBVIOUS
  <2> HIDE DEF h
  <2>2. h \in Runs(0)
    BY <2>1
  <2>3. QED
    BY <2>2
<1>2. ASSUME NEW n \in 1..L, n - 1 \in S
      PROVE  n \in S
  <2>1. PICK f \in Runs(n - 1) : TRUE
    BY <1>2
  <2> DEFINE h == [m \in 0..n |-> IF m = n THEN g[<<n, f[n - 1]>>] ELSE f[m]]
  <2>2. g[<<n, f[n - 1]>>] \in X
    OBVIOUS
  <2>3. h \in [0..n -> X]
    BY <2>2
  <2>4. h[n] = g[<<n, f[n - 1]>>] /\ \A m \in 0..(n - 1) : h[m] = f[m]
    OBVIOUS
  <2> HIDE DEF h
  <2>5. h[0] = s
    BY <2>4
  <2>6. ASSUME NEW m \in 1..n
        PROVE  h[m] = g[<<m, h[m - 1]>>]
    <3>1. m - 1 \in 0..(n - 1)
      OBVIOUS
    <3>2. CASE m = n
      BY <2>4, <3>1, <3>2
    <3>3. CASE m # n
      <4>1. m \in 1..(n - 1)
        BY <3>3
      <4>2. f[m] = g[<<m, f[m - 1]>>]
        BY <4>1
      <4>3. QED
        BY <2>4, <3>1, <4>1, <4>2
    <3>4. QED
      BY <3>2, <3>3
  <2>7. h \in Runs(n)
    BY <2>3, <2>5, <2>6
  <2>8. QED
    BY <2>7
<1>3. L \in S
  <2> HIDE DEF S
  <2>1. L \in 0..L
    OBVIOUS
  <2>2. QED
    BY <1>1, <1>2, <2>1, Upward
<1>4. QED
  BY <1>3

-----------------------------------------------------------------------------
\* Among() goes along the sequence as its definition says.
LEMMA AmongUnfolds ==
    ASSUME NEW A, NEW s \in Seq(A), NEW set
    PROVE  \E t \in [0..Len(s) -> Seq(A)] :
               /\ t[0] = <<>>
               /\ \A n \in 1..Len(s) :
                      t[n] = IF s[n] \in set THEN Append(t[n - 1], s[n]) ELSE t[n - 1]
               /\ Table!Among(s, set) = t[Len(s)]
<1> DEFINE L == Len(s)
           X == Seq(A)
           next(n, x) == IF s[n] \in set THEN Append(x, s[n]) ELSE x
           Is(f) == f = [n \in 0..L |-> IF n = 0 THEN <<>> ELSE next(n, f[n - 1])]
           u == CHOOSE f : Is(f)
           g == [p \in (1..L) \X X |-> next(p[1], p[2])]
<1>1. Table!Among(s, set) = u[L]
  BY DEF Table!Among
<1>2. L \in Nat /\ <<>> \in X
  OBVIOUS
<1>3. \A n \in 1..L, x \in X : next(n, x) \in X
  OBVIOUS
<1>4. \A n \in 1..L, x \in X : g[<<n, x>>] = next(n, x)
  <2> HIDE DEF L, X, next
  <2>1. QED
    OBVIOUS
<1>5. PICK t \in [0..L -> X] :
          t[0] = <<>> /\ \A n \in 1..L : t[n] = next(n, t[n - 1])
  <2> HIDE DEF g, L, X, next
  <2>1. StaysIn(X, g, L)
    BY <1>3, <1>4 DEF StaysIn
  <2>2. PICK t \in [0..L -> X] : Follows(t, <<>>, g, L)
    BY <1>2, <2>1, Iterates
  <2>3. ASSUME NEW n \in 1..L PROVE t[n] = next(n, t[n - 1])
    <3>1. t[n - 1] \in X
      BY <1>2
    <3>2. QED
      BY <1>4, <2>2, <3>1 DEF Follows
  <2>4. QED
    BY <2>2, <2>3 DEF Follows
<1>6. Is(t)
  <2> HIDE DEF L, X, next
  <2>1. \A n \in 0..L : t[n] = IF n = 0 THEN <<>> ELSE next(n, t[n - 1])
    BY <1>2, <1>5
  <2>2. t = [n \in 0..L |-> t[n]]
    OBVIOUS
  <2>3. QED
    BY <2>1, <2>2
<1>7. Is(u)
  <2> HIDE DEF Is
  <2>1. QED
    BY <1>6
<1> HIDE DEF u, L, X, next
<1>8. u = [n \in 0..L |-> u[n]]
  BY <1>7
<1>9. \A n \in 0..L : u[n] = IF n = 0 THEN <<>> ELSE next(n, u[n - 1])
  BY <1>7
<1>10. u[0] = <<>> /\ \A n \in 1..L : u[n] = next(n, u[n - 1])
  BY <1>2, <1>9
<1>11. u \in [0..L -> X]
  <2> DEFINE S == {n \in 0..L : u[n] \in X}
  <2>1. 0 \in S
    BY <1>2, <1>10
  <2>2. ASSUME NEW n \in 1..L, n - 1 \in S PROVE n \in S
    <3>1. n \in 0..L /\ u[n - 1] \in X
      BY <1>2, <2>2
    <3>2. QED
      BY <1>3, <1>10, <3>1
  <2>3. \A n \in 0..L : n \in S
    <3> HIDE DEF S
    <3>1. QED
      BY <1>2, <2>1, <2>2, Upward
  <2>4. QED
    BY <1>8, <2>3
<1>12. QED
  BY <1>1, <1>10, <1>11 DEF L, X, next

-----------------------------------------------------------------------------
\* Where the option comes from that is at k after one was moved from i to j.
Place(i, j, k) ==
    LET l == IF k < j THEN k ELSE k - 1
    IN  IF k = j THEN i ELSE IF l < i THEN l ELSE l + 1

\* The part of a sequence from a to b.
LEMMA Cut ==
    ASSUME NEW A, NEW s \in Seq(A), NEW a \in Int, NEW b \in Int,
           1 <= a, a <= b + 1, b <= Len(s)
    PROVE  /\ SubSeq(s, a, b) \in Seq(A) /\ Len(SubSeq(s, a, b)) = b - a + 1
           /\ \A k \in 1..(b - a + 1) : SubSeq(s, a, b)[k] = s[a + k - 1]
<1> DEFINE c == SubSeq(s, a, b)
<1>1. \A k \in a..b : s[k] \in A
  OBVIOUS
<1>2. /\ c \in Seq(A) /\ Len(c) = (IF a <= b THEN b - a + 1 ELSE 0)
      /\ \A k \in 1..(b - a + 1) : c[k] = s[a + k - 1]
  BY <1>1, SubSeqProperties
<1> HIDE DEF c
<1>3. Len(c) = b - a + 1
  BY <1>2
<1>4. QED
  BY <1>2, <1>3 DEF c

LEMMA MoveToPlaces ==
    ASSUME NEW A, NEW s \in Seq(A), NEW i \in 1..Len(s), NEW j \in 1..Len(s)
    PROVE  /\ Table!MoveTo(s, i, j) \in Seq(A)
           /\ Len(Table!MoveTo(s, i, j)) = Len(s)
           /\ \A k \in 1..Len(s) : Table!MoveTo(s, i, j)[k] = s[Place(i, j, k)]
<1> DEFINE L == Len(s)
           head == SubSeq(s, 1, i - 1)
           tail == SubSeq(s, i + 1, L)
           r == head \o tail
           left  == SubSeq(r, 1, j - 1)
           right == SubSeq(r, j, L - 1)
           one == <<s[i]>>
           mid == left \o one
           m == mid \o right
<1>1. /\ L \in Nat /\ i \in 1..L /\ j \in 1..L
      /\ s[i] \in A
  OBVIOUS
<1>2. /\ head \in Seq(A) /\ Len(head) = i - 1
      /\ \A k \in 1..(i - 1) : head[k] = s[k]
  <2>1. /\ head \in Seq(A) /\ Len(head) = i - 1 - 1 + 1
        /\ \A k \in 1..(i - 1 - 1 + 1) : head[k] = s[1 + k - 1]
    BY <1>1, Cut
  <2> HIDE DEF head
  <2>2. QED
    BY <1>1, <2>1
<1>3. /\ tail \in Seq(A) /\ Len(tail) = L - i
      /\ \A k \in 1..(L - i) : tail[k] = s[k + i]
  <2>1. /\ tail \in Seq(A) /\ Len(tail) = L - (i + 1) + 1
        /\ \A k \in 1..(L - (i + 1) + 1) : tail[k] = s[i + 1 + k - 1]
    BY <1>1, Cut
  <2> HIDE DEF tail, L
  <2>2. L - (i + 1) + 1 = L - i /\ \A k \in 1..(L - i) : i + 1 + k - 1 = k + i
    BY <1>1
  <2>3. QED
    BY <2>1, <2>2
<1> HIDE DEF L, head, tail
<1>4. /\ r \in Seq(A) /\ Len(r) = L - 1
      /\ \A k \in 1..(L - 1) : r[k] = s[IF k < i THEN k ELSE k + 1]
  <2>1. /\ r \in Seq(A) /\ Len(r) = Len(head) + Len(tail)
        /\ \A k \in 1..(Len(head) + Len(tail)) :
              r[k] = IF k <= Len(head) THEN head[k] ELSE tail[k - Len(head)]
    BY <1>2, <1>3, ConcatProperties
  <2> HIDE DEF r
  <2>2. QED
    BY <1>1, <1>2, <1>3, <2>1
<1> HIDE DEF r
<1>5. /\ left \in Seq(A) /\ Len(left) = j - 1
      /\ \A k \in 1..(j - 1) : left[k] = r[k]
  <2>1. /\ left \in Seq(A) /\ Len(left) = j - 1 - 1 + 1
        /\ \A k \in 1..(j - 1 - 1 + 1) : left[k] = r[1 + k - 1]
    BY <1>1, <1>4, Cut
  <2> HIDE DEF left
  <2>2. QED
    BY <1>1, <2>1
<1>6. /\ right \in Seq(A) /\ Len(right) = L - j
      /\ \A k \in 1..(L - j) : right[k] = r[k + (j - 1)]
  <2>1. /\ right \in Seq(A) /\ Len(right) = L - 1 - j + 1
        /\ \A k \in 1..(L - 1 - j + 1) : right[k] = r[j + k - 1]
    BY <1>1, <1>4, Cut
  <2> HIDE DEF right
  <2>2. L - 1 - j + 1 = L - j /\ \A k \in 1..(L - j) : j + k - 1 = k + (j - 1)
    BY <1>1
  <2>3. QED
    BY <2>1, <2>2
<1>7. one \in Seq(A) /\ Len(one) = 1 /\ one[1] = s[i]
  BY <1>1
<1> HIDE DEF left, right, one
<1>8. /\ mid \in Seq(A) /\ Len(mid) = j
      /\ \A k \in 1..j : mid[k] = IF k = j THEN s[i] ELSE r[k]
  <2>1. /\ mid \in Seq(A) /\ Len(mid) = Len(left) + Len(one)
        /\ \A k \in 1..(Len(left) + Len(one)) :
              mid[k] = IF k <= Len(left) THEN left[k] ELSE one[k - Len(left)]
    <3>1. left \in Seq(A) /\ one \in Seq(A)
      BY <1>5, <1>7
    <3>2. QED
      BY <3>1, ConcatProperties
  <2> HIDE DEF mid
  <2>2. Len(mid) = j
    BY <1>1, <1>5, <1>7, <2>1
  <2>3. ASSUME NEW k \in 1..j PROVE mid[k] = IF k = j THEN s[i] ELSE r[k]
    <3>1. CASE k = j
      BY <1>1, <1>5, <1>7, <2>1, <3>1
    <3>2. CASE k # j
      <4>1. k \in 1..(j - 1) /\ k \in 1..(Len(left) + Len(one)) /\ k <= Len(left)
        BY <1>1, <1>5, <1>7, <3>2
      <4>2. QED
        BY <1>5, <2>1, <3>2, <4>1
    <3>3. QED
      BY <3>1, <3>2
  <2>4. QED
    BY <2>1, <2>2, <2>3
<1> HIDE DEF mid
<1>9. /\ m \in Seq(A) /\ Len(m) = L
      /\ \A k \in 1..L :
            m[k] = IF k < j THEN r[k] ELSE IF k = j THEN s[i] ELSE r[k - 1]
  <2>1. /\ m \in Seq(A) /\ Len(m) = Len(mid) + Len(right)
        /\ \A k \in 1..(Len(mid) + Len(right)) :
              m[k] = IF k <= Len(mid) THEN mid[k] ELSE right[k - Len(mid)]
    <3>1. mid \in Seq(A) /\ right \in Seq(A)
      BY <1>6, <1>8
    <3>2. QED
      BY <3>1, ConcatProperties
  <2> HIDE DEF m
  <2>2. Len(m) = L
    BY <1>1, <1>6, <1>8, <2>1
  <2>3. ASSUME NEW k \in 1..L
        PROVE  m[k] = IF k < j THEN r[k] ELSE IF k = j THEN s[i] ELSE r[k - 1]
    <3>1. k \in 1..(Len(mid) + Len(right))
      BY <2>1, <2>2
    <3>2. CASE k <= j
      BY <1>1, <1>8, <2>1, <3>1, <3>2
    <3>3. CASE k > j
      <4>1. k - j \in 1..(L - j) /\ k - j + (j - 1) = k - 1
        BY <1>1, <3>3
      <4>2. right[k - j] = r[k - 1]
        BY <1>6, <4>1
      <4>3. QED
        BY <1>1, <1>8, <2>1, <3>1, <3>3, <4>2
    <3>4. QED
      BY <1>1, <3>2, <3>3
  <2>4. QED
    BY <2>1, <2>2, <2>3
<1>10. Table!MoveTo(s, i, j) = m
  <2>1. Table!RemoveAt(s, i) = r
    BY DEF Table!RemoveAt, r, head, tail, L
  <2>2. Table!MoveTo(s, i, j) = SubSeq(r, 1, j - 1) \o <<s[i]>> \o SubSeq(r, j, Len(r))
    BY <2>1 DEF Table!MoveTo, Table!InsertAt
  <2>3. QED
    BY <1>4, <2>2 DEF mid, left, right, one
<1> HIDE DEF m
<1>11. ASSUME NEW k \in 1..L PROVE m[k] = s[Place(i, j, k)]
  <2> DEFINE l == IF k < j THEN k ELSE k - 1
  <2>1. CASE k = j
    BY <1>1, <1>9, <2>1 DEF Place
  <2>2. CASE k # j
    <3>1. l \in 1..(L - 1) /\ m[k] = r[l]
      BY <1>1, <1>9, <2>2
    <3>2. Place(i, j, k) = IF l < i THEN l ELSE l + 1
      BY <2>2 DEF Place
    <3> HIDE DEF l
    <3>3. QED
      BY <1>4, <3>1, <3>2
  <2>3. QED
    BY <2>1, <2>2
<1>12. QED
  BY <1>9, <1>10, <1>11 DEF L

\* Nothing is lost or doubled.
LEMMA MoveToPermutes ==
    ASSUME NEW A, NEW s \in Seq(A), NEW i \in 1..Len(s), NEW j \in 1..Len(s)
    PROVE  /\ Table!Range(Table!MoveTo(s, i, j)) = Table!Range(s)
           /\ Table!IsInjective(s) => Table!IsInjective(Table!MoveTo(s, i, j))
<1> DEFINE m == Table!MoveTo(s, i, j)
<1>1. /\ m \in Seq(A) /\ Len(m) = Len(s)
      /\ \A k \in 1..Len(s) : m[k] = s[Place(i, j, k)]
  BY MoveToPlaces
<1> HIDE DEF m
<1> DEFINE L == Len(s)
<1>7. L \in Nat /\ i \in 1..L /\ j \in 1..L /\ DOMAIN s = 1..L /\ DOMAIN m = 1..L
  BY <1>1
<1> HIDE DEF L
<1>2. \A k \in 1..L : Place(i, j, k) \in 1..L
  BY <1>7 DEF Place
<1>3. \A k, l \in 1..L : Place(i, j, k) = Place(i, j, l) => k = l
  BY <1>7 DEF Place
<1>4. \A k \in 1..L : Place(i, j, Place(j, i, k)) = k /\ Place(j, i, k) \in 1..L
  BY <1>7 DEF Place
<1>5. Table!Range(m) = Table!Range(s)
  <2>1. \A k \in 1..L : m[k] = s[Place(i, j, k)] /\ m[Place(j, i, k)] = s[k]
    BY <1>1, <1>4 DEF L
  <2>2. ASSUME NEW k \in 1..L PROVE m[k] \in Table!Range(s) /\ s[k] \in Table!Range(m)
    BY <1>2, <1>4, <1>7, <2>1 DEF Table!Range
  <2>3. QED
    BY <1>7, <2>2 DEF Table!Range
<1>6. ASSUME Table!IsInjective(s) PROVE Table!IsInjective(m)
  BY <1>1, <1>2, <1>3, <1>6, <1>7 DEF Table!IsInjective, L
<1>8. QED
  BY <1>5, <1>6 DEF m

\* A step of Shift permutes the list.
LEMMA ShiftPermutes ==
    ASSUME NEW A, NEW s \in Seq(A), NEW option \in Table!Range(s), NEW by \in Int
    PROVE  /\ Table!Shift(s, option, by) \in Seq(A)
           /\ Table!Range(Table!Shift(s, option, by)) = Table!Range(s)
           /\ Table!IsInjective(s) => Table!IsInjective(Table!Shift(s, option, by))
<1> DEFINE i == CHOOSE k \in DOMAIN s : s[k] = option
<1>1. i \in 1..Len(s)
  BY DEF Table!Range
<1> HIDE DEF i
<1>2. CASE i + by \in DOMAIN s
  <2>1. i + by \in 1..Len(s)
    BY <1>2
  <2>2. Table!Shift(s, option, by) = Table!MoveTo(s, i, i + by)
    BY <1>2 DEF Table!Shift, i
  <2>3. QED
    BY <1>1, <2>1, <2>2, MoveToPlaces, MoveToPermutes
<1>3. CASE i + by \notin DOMAIN s
  BY <1>3 DEF Table!Shift, i
<1>4. QED
  BY <1>2, <1>3

\* The sequences of what is in s.
Reordered(s, A) == {x \in Seq(A) : Table!Range(x) = Table!Range(s)}

\* t[n] is what n options of those chosen have made of s.
Shifts(t, s, chosen, by) ==
    /\ t[0] = s
    /\ \A n \in 1..Len(chosen) : t[n] = Table!Shift(t[n - 1], chosen[n], by)

\* ShiftAll() goes along what is chosen as its definition says, and only permutes.
LEMMA ShiftAllUnfolds ==
    ASSUME NEW A, NEW s \in Seq(A), NEW chosen \in Seq(Table!Range(s)), NEW by \in Int
    PROVE  \E t \in [0..Len(chosen) -> Reordered(s, A)] :
               /\ Shifts(t, s, chosen, by)
               /\ Table!ShiftAll(s, chosen, by) = t[Len(chosen)]
<1> DEFINE L == Len(chosen)
           R == Table!Range(s)
           X == Reordered(s, A)
           next(n, x) == Table!Shift(x, chosen[n], by)
           Is(f) == f = [n \in 0..L |-> IF n = 0 THEN s ELSE next(n, f[n - 1])]
           u == CHOOSE f : Is(f)
           g == [p \in (1..L) \X X |-> next(p[1], p[2])]
<1>1. Table!ShiftAll(s, chosen, by) = u[L]
  BY DEF Table!ShiftAll
<1>2. L \in Nat /\ s \in X
  BY DEF Reordered
<1>3. ASSUME NEW n \in 1..L, NEW x \in X PROVE next(n, x) \in X
  <2> HIDE DEF R
  <2>1. chosen[n] \in R /\ x \in Seq(A) /\ Table!Range(x) = R
    BY DEF R, Reordered
  <2>2. next(n, x) \in Seq(A) /\ Table!Range(next(n, x)) = Table!Range(x)
    BY <2>1, ShiftPermutes
  <2> HIDE DEF next
  <2>3. QED
    BY <2>1, <2>2 DEF Reordered, R
<1>4. \A n \in 1..L, x \in X : g[<<n, x>>] = next(n, x)
  <2> HIDE DEF L, X, next
  <2>1. QED
    OBVIOUS
<1>5. PICK t \in [0..L -> X] :
          t[0] = s /\ \A n \in 1..L : t[n] = next(n, t[n - 1])
  <2> HIDE DEF g, L, X, next
  <2>1. StaysIn(X, g, L)
    BY <1>3, <1>4 DEF StaysIn
  <2>2. PICK t \in [0..L -> X] : Follows(t, s, g, L)
    BY <1>2, <2>1, Iterates
  <2>3. ASSUME NEW n \in 1..L PROVE t[n] = next(n, t[n - 1])
    <3>1. t[n - 1] \in X
      BY <1>2
    <3>2. QED
      BY <1>4, <2>2, <3>1 DEF Follows
  <2>4. QED
    BY <2>2, <2>3 DEF Follows
<1>6. Is(t)
  <2> HIDE DEF L, X, next
  <2>1. \A n \in 0..L : t[n] = IF n = 0 THEN s ELSE next(n, t[n - 1])
    BY <1>2, <1>5
  <2>2. t = [n \in 0..L |-> t[n]]
    OBVIOUS
  <2>3. QED
    BY <2>1, <2>2
<1>7. Is(u)
  <2> HIDE DEF Is
  <2>1. QED
    BY <1>6
<1> HIDE DEF u, L, X, next
<1>8. u = [n \in 0..L |-> u[n]]
  BY <1>7
<1>9. \A n \in 0..L : u[n] = IF n = 0 THEN s ELSE next(n, u[n - 1])
  BY <1>7
<1>10. u[0] = s /\ \A n \in 1..L : u[n] = next(n, u[n - 1])
  BY <1>2, <1>9
<1>11. u \in [0..L -> X]
  <2> DEFINE S == {n \in 0..L : u[n] \in X}
  <2>1. 0 \in S
    BY <1>2, <1>10
  <2>2. ASSUME NEW n \in 1..L, n - 1 \in S PROVE n \in S
    <3>1. n \in 0..L /\ u[n - 1] \in X
      BY <1>2, <2>2
    <3>2. QED
      BY <1>3, <1>10, <3>1
  <2>3. \A n \in 0..L : n \in S
    <3> HIDE DEF S
    <3>1. QED
      BY <1>2, <2>1, <2>2, Upward
  <2>4. QED
    BY <1>8, <2>3
<1>12. QED
  BY <1>1, <1>10, <1>11 DEF L, X, next, Shifts

\* What the buttons do: they lose and double no option.
LEMMA ShiftAllPermutes ==
    ASSUME NEW A, NEW s \in Seq(A), NEW chosen \in Seq(Table!Range(s)), NEW by \in Int,
           Table!IsInjective(s)
    PROVE  /\ Table!ShiftAll(s, chosen, by) \in Seq(A)
           /\ Table!IsInjective(Table!ShiftAll(s, chosen, by))
           /\ Table!Range(Table!ShiftAll(s, chosen, by)) = Table!Range(s)
<1> DEFINE L == Len(chosen)
           R == Table!Range(s)
           X == Reordered(s, A)
<1>1. PICK t \in [0..L -> X] :
          Shifts(t, s, chosen, by) /\ Table!ShiftAll(s, chosen, by) = t[L]
  BY ShiftAllUnfolds
<1>2. L \in Nat /\ \A n \in 1..L : chosen[n] \in R
  OBVIOUS
<1> DEFINE S == {n \in 0..L : Table!IsInjective(t[n])}
<1> HIDE DEF L, R
<1>3. 0 \in S
  BY <1>1, <1>2 DEF Shifts
<1>4. ASSUME NEW n \in 1..L, n - 1 \in S PROVE n \in S
  <2>1. n \in 0..L /\ n - 1 \in 0..L /\ Table!IsInjective(t[n - 1])
    BY <1>2, <1>4
  <2>2. t[n - 1] \in Seq(A) /\ Table!Range(t[n - 1]) = R
    BY <2>1 DEF Reordered, R
  <2>3. Table!IsInjective(Table!Shift(t[n - 1], chosen[n], by))
    BY <1>2, <2>1, <2>2, ShiftPermutes
  <2>4. QED
    BY <1>1, <2>1, <2>3 DEF Shifts, L
<1>5. L \in S
  <2>1. L \in 0..L
    BY <1>2
  <2> HIDE DEF S
  <2>2. QED
    BY <1>2, <1>3, <1>4, <2>1, Upward
<1>6. t[L] \in X
  BY <1>2
<1>7. QED
  BY <1>1, <1>5, <1>6 DEF R, Reordered

-----------------------------------------------------------------------------
\* What is taken from a list keeps its order (of two, the one before is before), and is
\* just what is in the set.
LEMMA AmongTakes ==
    ASSUME NEW A, NEW s \in Seq(A), NEW set, Table!IsInjective(s)
    PROVE  /\ Table!Among(s, set) \in Seq(A)
           /\ Table!IsInjective(Table!Among(s, set))
           /\ Table!Range(Table!Among(s, set)) = Table!Range(s) \cap set
<1> DEFINE L == Len(s)
           X == Seq(A)
<1>1. PICK t \in [0..L -> X] :
          /\ t[0] = <<>>
          /\ \A n \in 1..L : t[n] = IF s[n] \in set THEN Append(t[n - 1], s[n]) ELSE t[n - 1]
          /\ Table!Among(s, set) = t[L]
  BY AmongUnfolds
<1>2. L \in Nat /\ s \in [1..L -> A]
  OBVIOUS
<1> DEFINE Taken(n) == {s[k] : k \in {k \in 1..n : s[k] \in set}}
           S == {n \in 0..L : Table!IsInjective(t[n]) /\ Table!Range(t[n]) = Taken(n)}
<1> HIDE DEF L
<1>3. 0 \in S
  BY <1>1, <1>2 DEF Table!IsInjective, Table!Range
<1>4. ASSUME NEW n \in 1..L, n - 1 \in S PROVE n \in S
  <2>1. n \in 0..L /\ n - 1 \in 0..L /\ Table!IsInjective(t[n - 1])
        /\ Table!Range(t[n - 1]) = Taken(n - 1)
    BY <1>2, <1>4
  <2> DEFINE x == t[n - 1]
             y == Append(x, s[n])
  <2>2. x \in Seq(A) /\ s[n] \in A
    BY <1>2, <2>1
  <2>3. s[n] \notin Taken(n - 1)
    BY <1>2 DEF Table!IsInjective
  <2>4. CASE s[n] \notin set
    <3>1. Taken(n) = Taken(n - 1)
      BY <1>2, <2>1, <2>4
    <3>2. t[n] = x
      BY <1>1, <2>4
    <3>3. QED
      BY <2>1, <3>1, <3>2
  <2>5. CASE s[n] \in set
    <3>1. Taken(n) = Taken(n - 1) \cup {s[n]}
      BY <1>2, <2>1, <2>5
    <3>2. t[n] = y
      BY <1>1, <2>5
    <3> HIDE DEF x, Taken
    <3>3. Len(y) = Len(x) + 1 /\ DOMAIN y = 1..(Len(x) + 1) /\ DOMAIN x = 1..Len(x)
          /\ y[Len(x) + 1] = s[n] /\ \A k \in 1..Len(x) : y[k] = x[k]
      BY <2>2
    <3>4. Table!Range(x) = Taken(n - 1) /\ Table!IsInjective(x)
      BY <2>1 DEF x
    <3>5. Len(x) \in Nat
      BY <2>2
    <3> HIDE DEF y
    <3>6. \A k \in DOMAIN y : k \in 1..Len(x) \/ k = Len(x) + 1
      BY <3>3, <3>5
    <3>7. Table!Range(y) = Table!Range(x) \cup {s[n]}
      BY <3>3, <3>5, <3>6 DEF Table!Range
    <3>8. Table!IsInjective(y)
      BY <2>3, <3>3, <3>4, <3>5, <3>6 DEF Table!IsInjective, Table!Range
    <3>9. QED
      BY <2>1, <3>1, <3>2, <3>4, <3>7, <3>8
  <2>6. QED
    BY <2>4, <2>5
<1>5. L \in S
  <2>1. L \in 0..L
    BY <1>2
  <2> HIDE DEF S
  <2>2. QED
    BY <1>2, <1>3, <1>4, <2>1, Upward
<1>6. Taken(L) = Table!Range(s) \cap set
  BY <1>2 DEF Table!Range
<1>7. t[L] \in X
  BY <1>2
<1>8. QED
  BY <1>1, <1>5, <1>6, <1>7

\* Of two lists, the first is taken if just what it has is in the set.
LEMMA AmongTakesTheFirst ==
    ASSUME NEW A, NEW a \in Seq(A), NEW b \in Seq(A), NEW set,
           Table!Range(a) \subseteq set, Table!Range(b) \cap set = {}
    PROVE  Table!Among(a \o b, set) = a
<1> DEFINE s == a \o b
           F == Len(a)
           L == Len(s)
           Length(n) == IF n <= F THEN n ELSE F
<1>1. /\ s \in Seq(A) /\ L = F + Len(b)
      /\ \A k \in 1..(F + Len(b)) : s[k] = IF k <= F THEN a[k] ELSE b[k - F]
  BY ConcatProperties
<1>2. /\ F \in Nat /\ Len(b) \in Nat
      /\ \A k \in 1..F : a[k] \in set
      /\ \A k \in 1..Len(b) : b[k] \notin set
  BY DEF Table!Range
<1> HIDE DEF s, F, L
<1>3. PICK t \in [0..L -> Seq(A)] :
          /\ t[0] = <<>>
          /\ \A n \in 1..L : t[n] = IF s[n] \in set THEN Append(t[n - 1], s[n]) ELSE t[n - 1]
          /\ Table!Among(s, set) = t[L]
  BY <1>1, AmongUnfolds DEF L
<1> DEFINE S == {n \in 0..L : Len(t[n]) = Length(n) /\ \A k \in 1..Length(n) : t[n][k] = a[k]}
<1>4. L \in Nat
  BY <1>1, <1>2
<1>5. 0 \in S
  BY <1>2, <1>3, <1>4
<1>6. ASSUME NEW n \in 1..L, n - 1 \in S PROVE n \in S
  <2> DEFINE x == t[n - 1]
  <2>1. /\ n \in 0..L /\ n - 1 \in 0..L /\ Len(x) = Length(n - 1)
        /\ \A k \in 1..Length(n - 1) : x[k] = a[k]
    BY <1>4, <1>6
  <2>2. x \in Seq(A) /\ t[n] = IF s[n] \in set THEN Append(x, s[n]) ELSE x
    BY <1>3, <2>1
  <2> HIDE DEF x
  <2>3. CASE n <= F
    <3>1. n \in 1..F /\ n \in 1..(F + Len(b))
      BY <1>2, <1>4, <2>3
    <3>2. s[n] = a[n] /\ s[n] \in set
      BY <1>1, <1>2, <2>3, <3>1
    <3>3. t[n] = Append(x, a[n]) /\ Len(x) = n - 1
      BY <1>2, <2>1, <2>2, <2>3, <3>2
    <3>4. Len(t[n]) = n /\ t[n][n] = a[n] /\ \A k \in 1..(n - 1) : t[n][k] = x[k]
      <4>1. a[n] \in A /\ x \in Seq(A)
        BY <2>2, <3>1 DEF F
      <4>2. QED
        BY <3>3, <4>1, AppendProperties
    <3>5. \A k \in 1..n : t[n][k] = a[k]
      <4>1. \A k \in 1..n : k = n \/ k \in 1..(n - 1)
        OBVIOUS
      <4>2. Length(n - 1) = n - 1
        BY <1>2, <2>3
      <4>3. \A k \in 1..(n - 1) : x[k] = a[k]
        BY <2>1, <4>2
      <4>4. QED
        BY <3>4, <4>1, <4>3
    <3>6. QED
      BY <2>1, <2>3, <3>4, <3>5
  <2>4. CASE n > F
    <3>1. n - F \in 1..Len(b) /\ n \in 1..(F + Len(b)) /\ ~(n <= F)
      BY <1>1, <1>2, <1>4, <2>4
    <3>2. s[n] = b[n - F]
      BY <1>1, <3>1
    <3>3. t[n] = x
      BY <1>2, <2>2, <3>1, <3>2
    <3>4. Length(n) = F /\ Length(n - 1) = F
      BY <1>2, <2>4
    <3>5. QED
      BY <2>1, <3>3, <3>4
  <2>5. QED
    BY <1>2, <2>3, <2>4
<1>7. L \in S
  <2>1. L \in 0..L
    BY <1>4
  <2> HIDE DEF S
  <2>2. QED
    BY <1>4, <1>5, <1>6, <2>1, Upward
<1>8. Length(L) = F
  BY <1>1, <1>2
<1>9. Len(t[L]) = F /\ t[L] \in Seq(A) /\ \A k \in 1..F : t[L][k] = a[k]
  BY <1>4, <1>7, <1>8
<1>10. t[L] = a
  BY <1>9, SeqEqual DEF F
<1>11. QED
  BY <1>3, <1>10 DEF s

-----------------------------------------------------------------------------
(* Blocks of options *)

\* An option is found where it is, and moves from there.
LEMMA ShiftMoves ==
    ASSUME NEW A, NEW x \in Seq(A), Table!IsInjective(x), NEW by \in Int,
           NEW p \in 1..Len(x), p + by \in 1..Len(x)
    PROVE  Table!Shift(x, x[p], by) = Table!MoveTo(x, p, p + by)
<1> DEFINE i == CHOOSE k \in DOMAIN x : x[k] = x[p]
<1>1. i \in DOMAIN x /\ x[i] = x[p]
  OBVIOUS
<1>2. i = p
  BY <1>1 DEF Table!IsInjective
<1> HIDE DEF i
<1>3. p + by \in DOMAIN x
  OBVIOUS
<1>4. QED
  BY <1>2, <1>3 DEF Table!Shift, i

\* What n moves up make of the list: the option above the block has moved n down.
LEMMA BlockGoesUp ==
    ASSUME NEW A, NEW s \in Seq(A), Table!IsInjective(s),
           NEW i \in 2..Len(s), NEW j \in i..Len(s)
    PROVE  Table!move_up(s, SubSeq(s, i, j)) = Table!MoveTo(s, i - 1, j)
<1> DEFINE N == Len(s)
           b == SubSeq(s, i, j)
           L == Len(b)
<1>1. N \in Nat /\ i \in 2..N /\ j \in i..N /\ \A k \in 1..N : s[k] \in Table!Range(s)
  BY DEF Table!Range
<1>2. b \in Seq(A) /\ L = j - i + 1 /\ \A k \in 1..(j - i + 1) : b[k] = s[i + k - 1]
  <2> HIDE DEF N
  <2>1. i \in Int /\ j \in Int /\ 1 <= i /\ i <= j + 1 /\ j <= N
    BY <1>1
  <2>2. QED
    BY <2>1, Cut DEF N
<1> HIDE DEF b, L, N
<1>3. \A k \in 1..L : i + k - 1 \in 1..N /\ b[k] = s[i + k - 1]
  BY <1>1, <1>2
<1>4. b \in Seq(Table!Range(s)) /\ L \in Nat
  <2>1. L \in Nat /\ b = [k \in 1..L |-> b[k]]
    BY <1>1, <1>2 DEF L
  <2>2. \A k \in 1..L : b[k] \in Table!Range(s)
    BY <1>1, <1>3
  <2>3. QED
    BY <2>1, <2>2, IsASeq
<1>5. PICK t \in [0..L -> Reordered(s, A)] :
          Shifts(t, s, b, -1) /\ Table!ShiftAll(s, b, -1) = t[L]
  BY <1>4, ShiftAllUnfolds DEF L
<1>6. t[0] = s /\ \A n \in 1..L : t[n] = Table!Shift(t[n - 1], b[n], -1)
  BY <1>5 DEF Shifts, L
<1>7. \A n \in 0..L : t[n] \in Seq(A) /\ Table!Range(t[n]) = Table!Range(s)
  BY <1>5 DEF Reordered
<1> DEFINE Is(n) == /\ Table!IsInjective(t[n]) /\ Len(t[n]) = N
                    /\ \A k \in 1..N : t[n][k] = s[Place(i - 1, i - 1 + n, k)]
           S == {n \in 0..L : Is(n)}
<1>8. 0 \in S
  <2>1. \A k \in 1..N : Place(i - 1, i - 1 + 0, k) = k
    BY <1>1 DEF Place
  <2>2. QED
    BY <1>1, <1>4, <1>6, <2>1 DEF N
<1>9. ASSUME NEW n \in 1..L, n - 1 \in S PROVE n \in S
  <2> DEFINE x == t[n - 1]
             p == i + n - 1
  <2>1. /\ n \in 0..L /\ n - 1 \in 0..L /\ Table!IsInjective(x) /\ Len(x) = N
        /\ \A k \in 1..N : x[k] = s[Place(i - 1, i - 1 + (n - 1), k)]
    BY <1>4, <1>9
  <2>2. x \in Seq(A) /\ Table!Range(x) = Table!Range(s)
    BY <1>7, <2>1
  <2>3. p \in 1..N /\ p + -1 \in 1..N /\ p \in Int
    BY <1>1, <1>2, <1>4
  <2>4. b[n] = s[p]
    BY <1>3
  <2>5. Place(i - 1, i - 1 + (n - 1), p) = p
    BY <1>1 DEF Place
  <2>6. x[p] = b[n]
    BY <2>1, <2>3, <2>4, <2>5
  <2> HIDE DEF x, p
  <2>7. t[n] = Table!Shift(x, x[p], -1)
    BY <1>6, <2>6 DEF x
  <2>8. t[n] = Table!MoveTo(x, p, p + -1)
    BY <2>1, <2>2, <2>3, <2>7, ShiftMoves
  <2>9. /\ Len(t[n]) = N
        /\ \A k \in 1..N : t[n][k] = x[Place(p, p + -1, k)]
    BY <2>1, <2>2, <2>3, <2>8, MoveToPlaces
  <2>10. Table!IsInjective(t[n])
    BY <2>1, <2>2, <2>3, <2>8, MoveToPermutes
  <2>11. ASSUME NEW k \in 1..N PROVE t[n][k] = s[Place(i - 1, i - 1 + n, k)]
    <3>1. Place(p, p + -1, k) \in 1..N
      BY <1>1, <2>3 DEF Place
    <3>2. Place(i - 1, i - 1 + (n - 1), Place(p, p + -1, k)) = Place(i - 1, i - 1 + n, k)
      BY <1>1 DEF Place, p
    <3>3. QED
      BY <2>1, <2>9, <3>1, <3>2
  <2>12. QED
    BY <2>1, <2>9, <2>10, <2>11
<1>10. L \in S
  <2>1. L \in 0..L
    BY <1>4
  <2> HIDE DEF S
  <2>2. QED
    BY <1>4, <1>8, <1>9, <2>1, Upward
<1>11. i - 1 + L = j
  BY <1>1, <1>2
<1>12. Len(t[L]) = N /\ t[L] \in Seq(A) /\ \A k \in 1..N : t[L][k] = s[Place(i - 1, j, k)]
  BY <1>4, <1>7, <1>10, <1>11
<1>13. /\ Table!MoveTo(s, i - 1, j) \in Seq(A) /\ Len(Table!MoveTo(s, i - 1, j)) = N
       /\ \A k \in 1..N : Table!MoveTo(s, i - 1, j)[k] = s[Place(i - 1, j, k)]
  <2>1. i - 1 \in 1..Len(s) /\ j \in 1..Len(s)
    BY <1>1 DEF N
  <2>2. QED
    BY <2>1, MoveToPlaces DEF N
<1>14. t[L] = Table!MoveTo(s, i - 1, j)
  <2> DEFINE u == t[L]
             v == Table!MoveTo(s, i - 1, j)
  <2> HIDE DEF u, v
  <2>1. u \in Seq(A) /\ v \in Seq(A) /\ Len(u) = Len(v) /\ \A k \in 1..Len(u) : u[k] = v[k]
    BY <1>12, <1>13 DEF u, v
  <2>2. u = v
    BY <2>1, SeqEqual
  <2>3. QED
    BY <2>2 DEF u, v
<1>15. QED
  BY <1>5, <1>14 DEF Table!move_up, b

\* Where the option comes from that is at k after n moves down of the block from i to j:
\* the places from i to j + 1 turn round.
Turn(i, j, n, k) ==
    IF k < i \/ k > j + 1 THEN k ELSE IF k + n <= j + 1 THEN k + n ELSE k + n - (j + 2 - i)

LEMMA BlockGoesDown ==
    ASSUME NEW A, NEW s \in Seq(A), Table!IsInjective(s),
           NEW i \in 1..Len(s), NEW j \in i..(Len(s) - 1)
    PROVE  Table!move_down(s, SubSeq(s, i, j)) = Table!MoveTo(s, j + 1, i)
<1> DEFINE N == Len(s)
           b == SubSeq(s, i, j)
           L == Len(b)
<1>1. N \in Nat /\ i \in 1..N /\ j \in i..(N - 1) /\ \A k \in 1..N : s[k] \in Table!Range(s)
  BY DEF Table!Range
<1>2. b \in Seq(A) /\ L = j - i + 1 /\ \A k \in 1..(j - i + 1) : b[k] = s[i + k - 1]
  <2> HIDE DEF N
  <2>1. i \in Int /\ j \in Int /\ 1 <= i /\ i <= j + 1 /\ j <= N
    BY <1>1
  <2>2. QED
    BY <2>1, Cut DEF N
<1> HIDE DEF b, L, N
<1>3. \A k \in 1..L : i + k - 1 \in 1..N /\ b[k] = s[i + k - 1]
  BY <1>1, <1>2
<1>4. b \in Seq(Table!Range(s)) /\ L \in Nat
  <2>1. L \in Nat /\ b = [k \in 1..L |-> b[k]]
    BY <1>1, <1>2 DEF L
  <2>2. \A k \in 1..L : b[k] \in Table!Range(s)
    BY <1>1, <1>3
  <2>3. QED
    BY <2>1, <2>2, IsASeq
<1>16. /\ i \in Int /\ j \in Int /\ N \in Int /\ L \in Int
       /\ 1 <= i /\ i <= j /\ j + 1 <= N /\ L = j - i + 1
  BY <1>1, <1>2, <1>4
<1>5. PICK t \in [0..L -> Reordered(s, A)] :
          Shifts(t, s, b, L) /\ Table!ShiftAll(s, b, L) = t[L]
  <2>1. L \in Int
    BY <1>4
  <2>2. QED
    BY <1>4, <2>1, ShiftAllUnfolds DEF L
<1>6. t[0] = s /\ \A n \in 1..L : t[n] = Table!Shift(t[n - 1], b[n], L)
  BY <1>5 DEF Shifts, L
<1>7. \A n \in 0..L : t[n] \in Seq(A) /\ Table!Range(t[n]) = Table!Range(s)
  BY <1>5 DEF Reordered
<1> DEFINE Is(n) == /\ Table!IsInjective(t[n]) /\ Len(t[n]) = N
                    /\ \A k \in 1..N : t[n][k] = s[Turn(i, j, n, k)]
           S == {n \in 0..L : Is(n)}
<1>8. 0 \in S
  <2>1. \A k \in 1..N : Turn(i, j, 0, k) = k
    BY <1>1 DEF Turn
  <2>2. QED
    BY <1>1, <1>4, <1>6, <2>1 DEF N
<1>9. ASSUME NEW n \in 1..L, n - 1 \in S PROVE n \in S
  <2> DEFINE x == t[n - 1]
  <2>1. /\ n \in 0..L /\ n - 1 \in 0..L /\ Table!IsInjective(x) /\ Len(x) = N
        /\ \A k \in 1..N : x[k] = s[Turn(i, j, n - 1, k)]
    BY <1>4, <1>9
  <2>2. x \in Seq(A) /\ Table!Range(x) = Table!Range(s)
    BY <1>7, <2>1
  <2>3. i + L = j + 1 /\ i + L \in 1..N
    BY <1>16
  <2>4. b[n] = s[i + n - 1]
    BY <1>3
  <2>5. Turn(i, j, n - 1, i) = i + n - 1
    BY <1>1, <1>2 DEF Turn
  <2>6. x[i] = b[n]
    BY <1>1, <2>1, <2>4, <2>5
  <2> HIDE DEF x
  <2>7. t[n] = Table!Shift(x, x[i], L)
    BY <1>6, <2>6 DEF x
  <2>8. t[n] = Table!MoveTo(x, i, i + L)
    <3>1. i \in 1..Len(x) /\ i + L \in 1..Len(x) /\ L \in Int
      BY <1>1, <1>16, <2>1, <2>3
    <3>2. QED
      BY <2>1, <2>2, <2>7, <3>1, ShiftMoves
  <2>9. /\ Len(t[n]) = N
        /\ \A k \in 1..N : t[n][k] = x[Place(i, i + L, k)]
    <3>1. i \in 1..Len(x) /\ i + L \in 1..Len(x)
      BY <1>1, <2>1, <2>3
    <3>2. QED
      BY <2>1, <2>2, <2>8, <3>1, MoveToPlaces
  <2>10. Table!IsInjective(t[n])
    BY <1>1, <2>1, <2>2, <2>3, <2>8, MoveToPermutes
  <2>11. ASSUME NEW k \in 1..N PROVE t[n][k] = s[Turn(i, j, n, k)]
    <3>1. Place(i, i + L, k) \in 1..N
      BY <1>1, <2>3 DEF Place
    <3>2. Turn(i, j, n - 1, Place(i, i + L, k)) = Turn(i, j, n, k)
      BY <1>1, <1>2, <2>3 DEF Place, Turn
    <3>3. QED
      BY <2>1, <2>9, <3>1, <3>2
  <2>12. QED
    BY <2>1, <2>9, <2>10, <2>11
<1>10. L \in S
  <2>1. L \in 0..L
    BY <1>4
  <2> HIDE DEF S
  <2>2. QED
    BY <1>4, <1>8, <1>9, <2>1, Upward
<1>11. \A k \in 1..N : Turn(i, j, L, k) = Place(j + 1, i, k)
  BY <1>16 DEF Place, Turn
<1>12. Len(t[L]) = N /\ t[L] \in Seq(A) /\ \A k \in 1..N : t[L][k] = s[Place(j + 1, i, k)]
  BY <1>4, <1>7, <1>10, <1>11
<1>13. /\ Table!MoveTo(s, j + 1, i) \in Seq(A) /\ Len(Table!MoveTo(s, j + 1, i)) = N
       /\ \A k \in 1..N : Table!MoveTo(s, j + 1, i)[k] = s[Place(j + 1, i, k)]
  <2>1. j + 1 \in 1..Len(s) /\ i \in 1..Len(s)
    BY <1>1 DEF N
  <2>2. QED
    BY <2>1, MoveToPlaces DEF N
<1>14. t[L] = Table!MoveTo(s, j + 1, i)
  <2> DEFINE u == t[L]
             v == Table!MoveTo(s, j + 1, i)
  <2> HIDE DEF u, v
  <2>1. u \in Seq(A) /\ v \in Seq(A) /\ Len(u) = Len(v) /\ \A k \in 1..Len(u) : u[k] = v[k]
    BY <1>12, <1>13 DEF u, v
  <2>2. u = v
    BY <2>1, SeqEqual
  <2>3. QED
    BY <2>2 DEF u, v
<1>15. QED
  BY <1>5, <1>14 DEF Table!move_down, b, L

\* Four lists, one after the other.
Parts(w, a, b, c, d, la, lb, lc, ld) ==
    /\ Len(w) = la + lb + lc + ld
    /\ \A k \in 1..la : w[k] = a[k]
    /\ \A k \in 1..lb : w[la + k] = b[k]
    /\ \A k \in 1..lc : w[la + lb + k] = c[k]
    /\ \A k \in 1..ld : w[la + lb + lc + k] = d[k]

LEMMA FourParts ==
    ASSUME NEW A, NEW a \in Seq(A), NEW b \in Seq(A), NEW c \in Seq(A), NEW d \in Seq(A),
           NEW la, NEW lb, NEW lc, NEW ld,
           la = Len(a), lb = Len(b), lc = Len(c), ld = Len(d)
    PROVE  /\ a \o b \o c \o d \in Seq(A)
           /\ Parts(a \o b \o c \o d, a, b, c, d, la, lb, lc, ld)
<1> DEFINE ab  == a \o b
           abc == ab \o c
           w   == abc \o d
<1>1. la \in Nat /\ lb \in Nat /\ lc \in Nat /\ ld \in Nat
  OBVIOUS
<1>2. /\ ab \in Seq(A) /\ Len(ab) = la + lb
      /\ \A k \in 1..(la + lb) : ab[k] = IF k <= la THEN a[k] ELSE b[k - la]
  BY ConcatProperties
<1> HIDE DEF ab
<1>3. /\ abc \in Seq(A) /\ Len(abc) = la + lb + lc
      /\ \A k \in 1..(la + lb + lc) : abc[k] = IF k <= la + lb THEN ab[k] ELSE c[k - (la + lb)]
  <2>1. /\ abc \in Seq(A) /\ Len(abc) = Len(ab) + Len(c)
        /\ \A k \in 1..(Len(ab) + Len(c)) : abc[k] = IF k <= Len(ab) THEN ab[k] ELSE c[k - Len(ab)]
    <3>1. ab \in Seq(A)
      BY <1>2
    <3>2. QED
      BY <3>1, ConcatProperties
  <2>2. QED
    BY <1>2, <2>1
<1> HIDE DEF abc
<1>4. /\ w \in Seq(A) /\ Len(w) = la + lb + lc + ld
      /\ \A k \in 1..(la + lb + lc + ld) :
            w[k] = IF k <= la + lb + lc THEN abc[k] ELSE d[k - (la + lb + lc)]
  <2>1. /\ w \in Seq(A) /\ Len(w) = Len(abc) + Len(d)
        /\ \A k \in 1..(Len(abc) + Len(d)) : w[k] = IF k <= Len(abc) THEN abc[k] ELSE d[k - Len(abc)]
    <3>1. abc \in Seq(A)
      BY <1>3
    <3>2. QED
      BY <3>1, ConcatProperties
  <2>2. QED
    BY <1>3, <2>1
<1> HIDE DEF w
<1>5. ASSUME NEW k \in 1..la PROVE w[k] = a[k]
  <2>1. /\ k \in 1..(la + lb) /\ k \in 1..(la + lb + lc) /\ k \in 1..(la + lb + lc + ld)
        /\ k <= la + lb /\ k <= la + lb + lc /\ k <= la
    BY <1>1
  <2>2. QED
    BY <1>2, <1>3, <1>4, <2>1
<1>6. ASSUME NEW k \in 1..lb PROVE w[la + k] = b[k]
  <2>1. /\ la + k \in 1..(la + lb) /\ la + k \in 1..(la + lb + lc)
        /\ la + k \in 1..(la + lb + lc + ld)
        /\ la + k <= la + lb /\ la + k <= la + lb + lc /\ ~(la + k <= la) /\ la + k - la = k
    BY <1>1
  <2>2. QED
    BY <1>2, <1>3, <1>4, <2>1
<1>7. ASSUME NEW k \in 1..lc PROVE w[la + lb + k] = c[k]
  <2>1. /\ la + lb + k \in 1..(la + lb + lc) /\ la + lb + k \in 1..(la + lb + lc + ld)
        /\ ~(la + lb + k <= la + lb) /\ la + lb + k <= la + lb + lc
        /\ la + lb + k - (la + lb) = k
    BY <1>1
  <2>2. QED
    BY <1>3, <1>4, <2>1
<1>8. ASSUME NEW k \in 1..ld PROVE w[la + lb + lc + k] = d[k]
  <2>1. /\ la + lb + lc + k \in 1..(la + lb + lc + ld)
        /\ ~(la + lb + lc + k <= la + lb + lc) /\ la + lb + lc + k - (la + lb + lc) = k
    BY <1>1
  <2> DEFINE n == la + lb + lc + k
  <2> HIDE DEF n
  <2>2. w[n] = d[n - (la + lb + lc)]
    BY <1>4, <2>1 DEF n
  <2>3. QED
    BY <2>1, <2>2 DEF n
<1>9. QED
  BY <1>4, <1>5, <1>6, <1>7, <1>8 DEF w, abc, ab, Parts

\* A block that went up is before what was above it,
LEMMA UpShape ==
    ASSUME NEW A, NEW s \in Seq(A), NEW i \in 2..Len(s), NEW j \in i..Len(s)
    PROVE  LET above == SubSeq(s, 1, i - 1)
               block == SubSeq(s, i, j)
               below == SubSeq(s, j + 1, Len(s))
           IN  Table!MoveTo(s, i - 1, j)
                   = Table!Front(above) \o block \o <<Table!Last(above)>> \o below
<1> DEFINE N == Len(s)
           above == SubSeq(s, 1, i - 1)
           block == SubSeq(s, i, j)
           below == SubSeq(s, j + 1, N)
           front == SubSeq(above, 1, i - 2)
           one == <<above[i - 1]>>
           w == front \o block \o one \o below
           m == Table!MoveTo(s, i - 1, j)
<1>1. /\ N \in Int /\ i \in Int /\ j \in Int /\ 2 <= i /\ i <= j /\ j <= N
  OBVIOUS
<1>2. /\ m \in Seq(A) /\ Len(m) = N /\ \A k \in 1..N : m[k] = s[Place(i - 1, j, k)]
  BY MoveToPlaces
<1>3. /\ above \in Seq(A) /\ Len(above) = i - 1 - 1 + 1
      /\ \A k \in 1..(i - 1 - 1 + 1) : above[k] = s[1 + k - 1]
  BY Cut
<1>4. /\ block \in Seq(A) /\ Len(block) = j - i + 1
      /\ \A k \in 1..(j - i + 1) : block[k] = s[i + k - 1]
  BY Cut
<1>5. /\ below \in Seq(A) /\ Len(below) = N - (j + 1) + 1
      /\ \A k \in 1..(N - (j + 1) + 1) : below[k] = s[j + 1 + k - 1]
  BY Cut
<1> HIDE DEF N, above, block, below, m
<1>6. Len(above) = i - 1 /\ \A k \in 1..(i - 1) : above[k] = s[k]
  BY <1>1, <1>3
<1>7. /\ front \in Seq(A) /\ Len(front) = i - 2 - 1 + 1
      /\ \A k \in 1..(i - 2 - 1 + 1) : front[k] = above[1 + k - 1]
  BY <1>1, <1>3, <1>6, Cut
<1> HIDE DEF front
<1>8. Len(front) = i - 2 /\ \A k \in 1..(i - 2) : front[k] = s[k]
  <2>1. i - 2 - 1 + 1 = i - 2 /\ \A k \in 1..(i - 2) : 1 + k - 1 = k /\ k \in 1..(i - 1)
    BY <1>1
  <2>2. QED
    BY <1>6, <1>7, <2>1
<1>9. one \in Seq(A) /\ Len(one) = 1 /\ one[1] = s[i - 1]
  <2>1. i - 1 \in 1..(i - 1) /\ i - 1 \in 1..Len(above)
    BY <1>1, <1>6
  <2>2. above[i - 1] = s[i - 1] /\ above[i - 1] \in A
    BY <1>3, <1>6, <2>1
  <2>3. QED
    BY <2>2
<1> HIDE DEF one
<1>10. Len(below) = N - j /\ \A k \in 1..(N - j) : below[k] = s[j + k]
  <2>1. N - (j + 1) + 1 = N - j /\ \A k \in 1..(N - j) : j + 1 + k - 1 = j + k
    BY <1>1
  <2>2. QED
    BY <1>5, <2>1
<1>11. /\ w \in Seq(A) /\ Len(w) = i - 2 + (j - i + 1) + 1 + (N - j)
       /\ \A k \in 1..(i - 2) : w[k] = front[k]
       /\ \A k \in 1..(j - i + 1) : w[i - 2 + k] = block[k]
       /\ \A k \in 1..1 : w[i - 2 + (j - i + 1) + k] = one[k]
       /\ \A k \in 1..(N - j) : w[i - 2 + (j - i + 1) + 1 + k] = below[k]
  <2>1. /\ front \in Seq(A) /\ block \in Seq(A) /\ one \in Seq(A) /\ below \in Seq(A)
        /\ i - 2 = Len(front) /\ j - i + 1 = Len(block) /\ 1 = Len(one) /\ N - j = Len(below)
    BY <1>4, <1>5, <1>7, <1>8, <1>9, <1>10
  <2>2. w \in Seq(A) /\ Parts(w, front, block, one, below, i - 2, j - i + 1, 1, N - j)
    BY <2>1, FourParts
  <2> HIDE DEF w
  <2>3. QED
    BY <2>2 DEF Parts
<1> HIDE DEF w
<1>12. Len(w) = N
  BY <1>1, <1>11
<1>13. ASSUME NEW k \in 1..N PROVE w[k] = s[Place(i - 1, j, k)]
  <2>1. CASE k <= i - 2
    <3>1. k \in 1..(i - 2) /\ Place(i - 1, j, k) = k
      BY <1>1, <2>1 DEF Place
    <3>2. QED
      BY <1>8, <1>11, <3>1
  <2>2. CASE i - 1 <= k /\ k <= j - 1
    <3> DEFINE l == k - (i - 2)
    <3>1. l \in 1..(j - i + 1) /\ i - 2 + l = k /\ i + l - 1 = k + 1
          /\ Place(i - 1, j, k) = k + 1
      BY <1>1, <2>2 DEF Place
    <3> HIDE DEF l
    <3>2. w[i - 2 + l] = block[l] /\ block[l] = s[i + l - 1]
      BY <1>4, <1>11, <3>1
    <3>3. QED
      BY <3>1, <3>2
  <2>3. CASE k = j
    <3>1. i - 2 + (j - i + 1) + 1 = j /\ Place(i - 1, j, j) = i - 1 /\ 1 \in 1..1
      BY <1>1 DEF Place
    <3>2. w[i - 2 + (j - i + 1) + 1] = one[1]
      BY <1>11, <3>1
    <3>3. QED
      BY <1>9, <2>3, <3>1, <3>2
  <2>4. CASE k > j
    <3> DEFINE l == k - j
    <3>1. l \in 1..(N - j) /\ i - 2 + (j - i + 1) + 1 + l = k /\ j + l = k
          /\ Place(i - 1, j, k) = k
      BY <1>1, <2>4 DEF Place
    <3> HIDE DEF l
    <3>2. w[i - 2 + (j - i + 1) + 1 + l] = below[l] /\ below[l] = s[j + l]
      BY <1>10, <1>11, <3>1
    <3>3. QED
      BY <3>1, <3>2
  <2>5. QED
    BY <1>1, <2>1, <2>2, <2>3, <2>4
<1>14. m = w
  <2>1. m \in Seq(A) /\ w \in Seq(A) /\ Len(m) = Len(w) /\ \A k \in 1..Len(m) : m[k] = w[k]
    BY <1>2, <1>11, <1>12, <1>13
  <2>2. QED
    BY <2>1, SeqEqual
<1>15. Table!Front(above) = front /\ Table!Last(above) = above[i - 1]
  <2>1. Len(above) - 1 = i - 2
    BY <1>1, <1>6
  <2>2. QED
    BY <1>6, <2>1 DEF Table!Front, Table!Last, front
<1>16. QED
  BY <1>14, <1>15 DEF m, w, one, above, block, below, N

\* and one that went down after what was below it.
LEMMA DownShape ==
    ASSUME NEW A, NEW s \in Seq(A), NEW i \in 1..Len(s), NEW j \in i..(Len(s) - 1)
    PROVE  LET above == SubSeq(s, 1, i - 1)
               block == SubSeq(s, i, j)
               below == SubSeq(s, j + 1, Len(s))
           IN  Table!MoveTo(s, j + 1, i) = above \o <<Head(below)>> \o block \o Tail(below)
<1> DEFINE N == Len(s)
           above == SubSeq(s, 1, i - 1)
           block == SubSeq(s, i, j)
           below == SubSeq(s, j + 1, N)
           one == <<below[1]>>
           tail == Tail(below)
           w == above \o one \o block \o tail
           m == Table!MoveTo(s, j + 1, i)
<1>1. /\ N \in Int /\ i \in Int /\ j \in Int /\ 1 <= i /\ i <= j /\ j + 1 <= N
  OBVIOUS
<1>2. /\ m \in Seq(A) /\ Len(m) = N /\ \A k \in 1..N : m[k] = s[Place(j + 1, i, k)]
  <2>1. j + 1 \in 1..Len(s)
    BY <1>1
  <2>2. QED
    BY <2>1, MoveToPlaces
<1>3. /\ above \in Seq(A) /\ Len(above) = i - 1 - 1 + 1
      /\ \A k \in 1..(i - 1 - 1 + 1) : above[k] = s[1 + k - 1]
  BY Cut
<1>4. /\ block \in Seq(A) /\ Len(block) = j - i + 1
      /\ \A k \in 1..(j - i + 1) : block[k] = s[i + k - 1]
  BY Cut
<1>5. /\ below \in Seq(A) /\ Len(below) = N - (j + 1) + 1
      /\ \A k \in 1..(N - (j + 1) + 1) : below[k] = s[j + 1 + k - 1]
  BY Cut
<1> HIDE DEF N, above, block, below, m
<1>6. Len(above) = i - 1 /\ \A k \in 1..(i - 1) : above[k] = s[k]
  BY <1>1, <1>3
<1>7. Len(below) = N - j /\ \A k \in 1..(N - j) : below[k] = s[j + k]
  <2>1. N - (j + 1) + 1 = N - j /\ \A k \in 1..(N - j) : j + 1 + k - 1 = j + k
    BY <1>1
  <2>2. QED
    BY <1>5, <2>1
<1>8. below # <<>> /\ 1 \in 1..(N - j) /\ 1 \in 1..Len(below)
  BY <1>1, <1>5, <1>7
<1>9. one \in Seq(A) /\ Len(one) = 1 /\ one[1] = s[j + 1]
  <2>1. below[1] = s[j + 1] /\ below[1] \in A
    BY <1>5, <1>7, <1>8
  <2>2. QED
    BY <2>1
<1>10. /\ tail \in Seq(A) /\ Len(tail) = N - j - 1
       /\ \A k \in 1..(N - j - 1) : tail[k] = s[j + 1 + k]
  <2>1. /\ tail \in Seq(A) /\ Len(tail) = Len(below) - 1
        /\ \A k \in 1..(Len(below) - 1) : tail[k] = below[k + 1]
    BY <1>5, <1>8, HeadTailProperties
  <2>2. \A k \in 1..(N - j - 1) : k + 1 \in 1..(N - j) /\ j + (k + 1) = j + 1 + k
    BY <1>1
  <2> HIDE DEF tail
  <2>3. QED
    BY <1>7, <2>1, <2>2
<1> HIDE DEF one, tail
<1>11. /\ w \in Seq(A) /\ Len(w) = i - 1 + 1 + (j - i + 1) + (N - j - 1)
       /\ \A k \in 1..(i - 1) : w[k] = above[k]
       /\ \A k \in 1..1 : w[i - 1 + k] = one[k]
       /\ \A k \in 1..(j - i + 1) : w[i - 1 + 1 + k] = block[k]
       /\ \A k \in 1..(N - j - 1) : w[i - 1 + 1 + (j - i + 1) + k] = tail[k]
  <2>1. /\ above \in Seq(A) /\ one \in Seq(A) /\ block \in Seq(A) /\ tail \in Seq(A)
        /\ i - 1 = Len(above) /\ 1 = Len(one) /\ j - i + 1 = Len(block) /\ N - j - 1 = Len(tail)
    BY <1>3, <1>4, <1>6, <1>9, <1>10
  <2>2. w \in Seq(A) /\ Parts(w, above, one, block, tail, i - 1, 1, j - i + 1, N - j - 1)
    BY <2>1, FourParts
  <2> HIDE DEF w
  <2>3. QED
    BY <2>2 DEF Parts
<1> HIDE DEF w
<1>12. Len(w) = N
  BY <1>1, <1>11
<1>13. ASSUME NEW k \in 1..N PROVE w[k] = s[Place(j + 1, i, k)]
  <2>1. CASE k <= i - 1
    <3>1. k \in 1..(i - 1) /\ Place(j + 1, i, k) = k
      BY <1>1, <2>1 DEF Place
    <3>2. QED
      BY <1>6, <1>11, <3>1
  <2>2. CASE k = i
    <3>1. i - 1 + 1 = i /\ Place(j + 1, i, i) = j + 1 /\ 1 \in 1..1
      BY <1>1 DEF Place
    <3>2. w[i - 1 + 1] = one[1]
      BY <1>11, <3>1
    <3>3. QED
      BY <1>9, <2>2, <3>1, <3>2
  <2>3. CASE i < k /\ k <= j + 1
    <3> DEFINE l == k - i
    <3>1. l \in 1..(j - i + 1) /\ i - 1 + 1 + l = k /\ i + l - 1 = k - 1
          /\ Place(j + 1, i, k) = k - 1
      BY <1>1, <2>3 DEF Place
    <3> HIDE DEF l
    <3>2. w[i - 1 + 1 + l] = block[l] /\ block[l] = s[i + l - 1]
      BY <1>4, <1>11, <3>1
    <3>3. QED
      BY <3>1, <3>2
  <2>4. CASE k > j + 1
    <3> DEFINE l == k - (j + 1)
    <3>1. l \in 1..(N - j - 1) /\ i - 1 + 1 + (j - i + 1) + l = k /\ j + 1 + l = k
          /\ Place(j + 1, i, k) = k
      BY <1>1, <2>4 DEF Place
    <3> HIDE DEF l
    <3>2. w[i - 1 + 1 + (j - i + 1) + l] = tail[l] /\ tail[l] = s[j + 1 + l]
      BY <1>10, <1>11, <3>1
    <3>3. QED
      BY <3>1, <3>2
  <2>5. QED
    BY <1>1, <2>1, <2>2, <2>3, <2>4
<1>14. m = w
  <2>1. m \in Seq(A) /\ w \in Seq(A) /\ Len(m) = Len(w) /\ \A k \in 1..Len(m) : m[k] = w[k]
    BY <1>2, <1>11, <1>12, <1>13
  <2>2. QED
    BY <2>1, SeqEqual
<1>15. Head(below) = below[1]
  BY <1>5, <1>8
<1>16. QED
  BY <1>14, <1>15 DEF m, w, one, tail, above, block, below, N

\* What is selected of a list, when it is a block, is the block in its order.
LEMMA AmongTakesABlock ==
    ASSUME NEW A, NEW s \in Seq(A), Table!IsInjective(s),
           NEW i \in 1..Len(s), NEW j \in i..Len(s)
    PROVE  Table!Among(s, {s[k] : k \in i..j}) = SubSeq(s, i, j)
<1> DEFINE L == Len(s)
           set == {s[k] : k \in i..j}
           b == SubSeq(s, i, j)
           Length(n) == IF n < i THEN 0 ELSE IF n <= j THEN n - i + 1 ELSE j - i + 1
<1>1. /\ L \in Nat /\ i \in Int /\ j \in Int /\ 1 <= i /\ i <= j /\ j <= L
      /\ \A k \in 1..L : s[k] \in A
  OBVIOUS
<1>2. \A n \in 1..L : s[n] \in set <=> n \in i..j
  BY DEF Table!IsInjective
<1>3. b \in Seq(A) /\ Len(b) = j - i + 1 /\ \A k \in 1..(j - i + 1) : b[k] = s[i + k - 1]
  BY Cut
<1>4. PICK t \in [0..L -> Seq(A)] :
          /\ t[0] = <<>>
          /\ \A n \in 1..L : t[n] = IF s[n] \in set THEN Append(t[n - 1], s[n]) ELSE t[n - 1]
          /\ Table!Among(s, set) = t[L]
  <2> HIDE DEF set
  <2>1. QED
    BY AmongUnfolds
<1> HIDE DEF L, set, b
<1> DEFINE S == {n \in 0..L : /\ Len(t[n]) = Length(n)
                              /\ \A k \in 1..Length(n) : t[n][k] = s[i + k - 1]}
<1>5. 0 \in S
  <2>1. Length(0) = 0 /\ 0 \in 0..L
    BY <1>1
  <2>2. Len(t[0]) = 0
    BY <1>4
  <2> HIDE DEF Length
  <2>3. \A k \in 1..Length(0) : t[0][k] = s[i + k - 1]
    BY <2>1
  <2>4. QED
    BY <2>1, <2>2, <2>3
<1>6. ASSUME NEW n \in 1..L, n - 1 \in S PROVE n \in S
  <2> DEFINE x == t[n - 1]
  <2>1. /\ n \in 0..L /\ n - 1 \in 0..L /\ Len(x) = Length(n - 1)
        /\ \A k \in 1..Length(n - 1) : x[k] = s[i + k - 1]
    <3>1. n \in 0..L /\ n - 1 \in 0..L
      BY <1>1
    <3> HIDE DEF Length
    <3>2. QED
      BY <1>6, <3>1
  <2>2. x \in Seq(A) /\ t[n] = IF s[n] \in set THEN Append(x, s[n]) ELSE x
    BY <1>4, <2>1
  <2> HIDE DEF x
  <2>3. CASE n \in i..j
    <3>1. /\ Length(n - 1) = n - i /\ Length(n) = n - i + 1 /\ i + (n - i + 1) - 1 = n
          /\ n - i \in Nat
      BY <1>1, <2>3
    <3>2. t[n] = Append(x, s[n]) /\ s[n] \in A /\ Len(x) = n - i
      <4> HIDE DEF Length
      <4>1. Len(x) = n - i
        BY <2>1, <3>1
      <4>2. s[n] \in set /\ s[n] \in A
        BY <1>1, <1>2, <2>3
      <4>3. t[n] = Append(x, s[n])
        BY <2>2, <4>2
      <4>4. QED
        BY <4>1, <4>2, <4>3
    <3>3. /\ Len(t[n]) = n - i + 1 /\ t[n][n - i + 1] = s[n]
          /\ \A k \in 1..(n - i) : t[n][k] = x[k]
      <4> DEFINE e == s[n]
      <4>1. x \in Seq(A) /\ e \in A
        BY <2>2, <3>2
      <4>2. t[n] = Append(x, e) /\ Len(x) = n - i
        BY <3>2
      <4> HIDE DEF Length, S, e
      <4>3. /\ Len(Append(x, e)) = Len(x) + 1 /\ Append(x, e)[Len(x) + 1] = e
            /\ \A k \in 1..Len(x) : Append(x, e)[k] = x[k]
        BY <4>1, AppendProperties
      <4>4. QED
        BY <4>2, <4>3 DEF e
    <3>4. ASSUME NEW k \in 1..(n - i + 1) PROVE t[n][k] = s[i + k - 1]
      <4>1. CASE k = n - i + 1
        BY <3>1, <3>3, <4>1
      <4>2. CASE k # n - i + 1
        <5>1. k \in 1..(n - i)
          BY <1>1, <2>3, <4>2
        <5>2. QED
          BY <2>1, <3>1, <3>3, <5>1
      <4>3. QED
        BY <4>1, <4>2
    <3>5. QED
      BY <2>1, <3>1, <3>3, <3>4
  <2>4. CASE n \notin i..j
    <3>1. t[n] = x
      BY <1>2, <2>2, <2>4
    <3>2. Length(n) = Length(n - 1)
      <4>1. CASE n < i
        BY <1>1, <4>1
      <4>2. CASE n > j
        BY <1>1, <4>2
      <4>3. QED
        BY <1>1, <2>4, <4>1, <4>2
    <3>3. QED
      BY <2>1, <3>1, <3>2
  <2>5. QED
    BY <2>3, <2>4
<1>7. L \in S
  <2>1. L \in 0..L
    BY <1>1
  <2> HIDE DEF S
  <2>2. QED
    BY <1>1, <1>5, <1>6, <2>1, Upward
<1>8. Length(L) = j - i + 1
  BY <1>1
<1>9. t[L] \in Seq(A) /\ Len(t[L]) = j - i + 1 /\ \A k \in 1..(j - i + 1) : t[L][k] = s[i + k - 1]
  <2> HIDE DEF Length
  <2>1. QED
    BY <1>1, <1>7, <1>8
<1>10. t[L] = b
  <2> DEFINE u == t[L]
  <2> HIDE DEF u
  <2>1. u \in Seq(A) /\ Len(u) = Len(b) /\ \A k \in 1..Len(u) : u[k] = b[k]
    BY <1>3, <1>9 DEF u
  <2>2. u = b
    BY <1>3, <2>1, SeqEqual
  <2>3. QED
    BY <2>2 DEF u
<1>11. QED
  BY <1>4, <1>10 DEF set, b

\* Down again is where it was.
LEMMA UpAndDown ==
    ASSUME NEW A, NEW s \in Seq(A), Table!IsInjective(s),
           NEW i \in 2..Len(s), NEW j \in i..Len(s)
    PROVE  Table!move_down(Table!MoveTo(s, i - 1, j), SubSeq(s, i, j)) = s
<1> DEFINE N == Len(s)
           r == Table!MoveTo(s, i - 1, j)
           b == SubSeq(s, i, j)
           c == SubSeq(r, i - 1, j - 1)
           m == Table!MoveTo(r, j, i - 1)
<1>1. N \in Int /\ i \in Int /\ j \in Int /\ 2 <= i /\ i <= j /\ j <= N
  OBVIOUS
<1>2. i - 1 \in 1..Len(s) /\ j \in 1..Len(s)
  BY <1>1
<1>3. /\ r \in Seq(A) /\ Len(r) = N /\ \A k \in 1..N : r[k] = s[Place(i - 1, j, k)]
      /\ Table!IsInjective(r)
  <2> SUFFICES ASSUME NEW p \in 1..Len(s), NEW q \in 1..Len(s), p = i - 1, q = j
               PROVE  /\ Table!MoveTo(s, p, q) \in Seq(A) /\ Len(Table!MoveTo(s, p, q)) = Len(s)
                      /\ \A k \in 1..Len(s) : Table!MoveTo(s, p, q)[k] = s[Place(p, q, k)]
                      /\ Table!IsInjective(Table!MoveTo(s, p, q))
    BY <1>2
  <2>1. QED
    BY ONLY MoveToPlaces, MoveToPermutes, s \in Seq(A), Table!IsInjective(s), p \in 1..Len(s),
            q \in 1..Len(s)
<1>4. b \in Seq(A) /\ Len(b) = j - i + 1 /\ \A k \in 1..(j - i + 1) : b[k] = s[i + k - 1]
  BY Cut
<1> HIDE DEF r, b, N
<1>5. /\ c \in Seq(A) /\ Len(c) = j - 1 - (i - 1) + 1
      /\ \A k \in 1..(j - 1 - (i - 1) + 1) : c[k] = r[i - 1 + k - 1]
  BY <1>1, <1>3, Cut
<1> HIDE DEF c
<1>6. j - 1 - (i - 1) + 1 = j - i + 1
  BY <1>1
<1>7. ASSUME NEW k \in 1..(j - i + 1) PROVE c[k] = b[k]
  <2> DEFINE l == i - 1 + k - 1
  <2>1. l \in 1..N /\ Place(i - 1, j, l) = i + k - 1
    BY <1>1 DEF Place
  <2> HIDE DEF l
  <2>2. c[k] = r[l]
    BY <1>5, <1>6 DEF l
  <2>3. QED
    BY <1>3, <1>4, <2>1, <2>2
<1>8. b = c
  <2>1. Len(b) = Len(c) /\ \A k \in 1..Len(b) : b[k] = c[k]
    BY <1>4, <1>5, <1>6, <1>7
  <2>2. QED
    BY <1>4, <1>5, <2>1, SeqEqual
<1>9. Table!move_down(r, c) = m
  <2>1. i - 1 \in 1..Len(r) /\ j - 1 \in (i - 1)..(Len(r) - 1) /\ j - 1 + 1 = j
    BY <1>1, <1>3
  <2>2. Table!move_down(r, SubSeq(r, i - 1, j - 1)) = Table!MoveTo(r, j - 1 + 1, i - 1)
    BY <1>3, <2>1, BlockGoesDown
  <2>3. QED
    BY <2>1, <2>2 DEF c
<1>10. /\ m \in Seq(A) /\ Len(m) = N /\ \A k \in 1..N : m[k] = r[Place(j, i - 1, k)]
  <2>1. i - 1 \in 1..Len(r) /\ j \in 1..Len(r)
    BY <1>1, <1>3
  <2>2. QED
    BY <1>3, <2>1, MoveToPlaces
<1> HIDE DEF m
<1>11. ASSUME NEW k \in 1..N PROVE m[k] = s[k]
  <2>1. Place(j, i - 1, k) \in 1..N /\ Place(i - 1, j, Place(j, i - 1, k)) = k
    BY <1>1 DEF Place
  <2>2. QED
    BY <1>3, <1>10, <2>1
<1>12. m = s
  <2>1. Len(m) = Len(s) /\ \A k \in 1..Len(m) : m[k] = s[k]
    BY <1>10, <1>11 DEF N
  <2>2. QED
    BY <1>10, <2>1, SeqEqual
<1>13. QED
  BY <1>8, <1>9, <1>12 DEF r, b

-----------------------------------------------------------------------------
(* Preferences keep to their values *)

Keys == {"columns", "ordering", "per_page"}
ColumnLists == {c \in Seq(Table!Names) : Table!IsInjective(c)}
Meant(k) == IF k = "columns" THEN ColumnLists ELSE Table!Value

\* What the row holds, and what a request may change of it.
Stored == {p \in [Keys -> ColumnLists \cup Table!Value] : \A k \in Keys : p[k] \in Meant(k)}
Legal  == {c \in UNION {[D -> ColumnLists \cup Table!Value] : D \in SUBSET Keys} :
              \A k \in DOMAIN c : k \in Keys /\ c[k] \in Meant(k)}

Asking == [stage : {"idle", "sent", "read"}, changes : Seq(Legal), instance : Stored,
           shows : BOOLEAN]

\* Requests and rows are such, too, and the dialog has every option once.
TableInv ==
    /\ {preferences, asked} \subseteq Stored
    /\ url \in Table!Links
    /\ request \in [Tabs -> Asking]
    /\ options \in ColumnLists /\ Table!Range(options) = Table!Names
    /\ selected \in SUBSET Table!Names
    /\ moves \in 0..MaxMoves /\ requests \in 0..MaxRequests /\ overlapped \in BOOLEAN

LEMMA PreferencesParameters ==
    /\ List \in Tabs
    /\ Columns \in ColumnLists /\ Table!Range(Columns) = Table!Names
    /\ Default \in ColumnLists /\ Default # <<>>
    /\ MaxRequests \in Nat /\ MaxMoves \in Nat
<1>1. Columns \in Seq(STRING) /\ Default \in Seq(Table!Names)
  BY PartsAssumption DEF PartsAssumption, Table!PreferencesAssumption, Table!Names
<1>2. Columns \in Seq(Table!Names)
  <2>1. Len(Columns) \in Nat /\ Columns = [k \in 1..Len(Columns) |-> Columns[k]]
    BY <1>1
  <2>2. \A k \in 1..Len(Columns) : Columns[k] \in Table!Names
    BY <1>1 DEF Table!Names, Table!Range
  <2>3. QED
    BY <2>1, <2>2, IsASeq
<1>3. QED
  BY <1>1, <1>2, PartsAssumption
     DEF PartsAssumption, Table!PreferencesAssumption, ColumnLists, Table!Names

\* The row before anybody chose anything.
LEMMA NothingIsStored == Table!NoPreferences \in Stored
<1>1. <<>> \in ColumnLists
  BY DEF ColumnLists, Table!IsInjective
<1>2. QED
  BY <1>1 DEF Stored, Table!NoPreferences, Keys, Meant, Table!Value

\* A change sets keys to values they may have.
LEMMA UpdatedIsStored ==
    ASSUME NEW p \in Stored, NEW c \in Legal
    PROVE  Table!Updated(p, c) \in Stored
BY DEF Table!Updated, Stored, Legal

\* The columns in the order of a table: each once.
LEMMA SequenceArranges ==
    ASSUME NEW first \in ColumnLists
    PROVE  LET all == first \o Table!Among(Columns, Table!Names \ Table!Range(first))
           IN  all \in ColumnLists /\ Table!Range(all) = Table!Names
<1> DEFINE others == Table!Among(Columns, Table!Names \ Table!Range(first))
           all == first \o others
<1>1. /\ first \in Seq(Table!Names) /\ Table!IsInjective(first)
      /\ Columns \in Seq(Table!Names) /\ Table!IsInjective(Columns)
      /\ Table!Range(Columns) = Table!Names
  BY PreferencesParameters DEF ColumnLists
<1>2. /\ others \in Seq(Table!Names) /\ Table!IsInjective(others)
      /\ Table!Range(others) = Table!Names \cap (Table!Names \ Table!Range(first))
  BY <1>1, AmongTakes
<1> HIDE DEF others
<1>3. /\ all \in Seq(Table!Names) /\ Len(all) = Len(first) + Len(others)
      /\ \A k \in 1..(Len(first) + Len(others)) :
            all[k] = IF k <= Len(first) THEN first[k] ELSE others[k - Len(first)]
  BY <1>1, <1>2, ConcatProperties
<1> DEFINE F == Len(first)
           O == Len(others)
<1>4. /\ F \in Nat /\ O \in Nat
      /\ DOMAIN first = 1..F /\ DOMAIN others = 1..O /\ DOMAIN all = 1..(F + O)
  BY <1>1, <1>2, <1>3
<1>5. /\ \A k \in 1..F : all[k] = first[k]
      /\ \A k \in 1..O : all[k + F] = others[k]
  BY <1>3, <1>4
<1> HIDE DEF all, F, O
<1>6. \A k \in 1..(F + O) : k \in 1..F \/ \E l \in 1..O : k = l + F
  <2>1. \A k \in 1..(F + O) : k \in 1..F \/ (k - F \in 1..O /\ k = (k - F) + F)
    BY <1>4
  <2>2. QED
    BY <2>1
<1>7. Table!Range(first) \subseteq Table!Names
  BY <1>1 DEF Table!Range
<1>8. Table!Range(all) = Table!Range(first) \cup Table!Range(others)
  <2>1. \A k \in 1..F : k \in 1..(F + O)
    BY <1>4
  <2>2. \A k \in 1..O : k + F \in 1..(F + O)
    BY <1>4
  <2>3. ASSUME NEW k \in 1..(F + O) PROVE all[k] \in Table!Range(first) \cup Table!Range(others)
    <3>1. CASE k \in 1..F
      BY <1>4, <1>5, <3>1 DEF Table!Range
    <3>2. CASE \E l \in 1..O : k = l + F
      BY <1>4, <1>5, <3>2 DEF Table!Range
    <3>3. QED
      BY <1>6, <3>1, <3>2
  <2>4. \A k \in 1..F : first[k] \in Table!Range(all)
    BY <1>4, <1>5, <2>1 DEF Table!Range
  <2>5. ASSUME NEW k \in 1..O PROVE others[k] \in Table!Range(all)
    BY <1>4, <1>5, <2>2 DEF Table!Range
  <2>6. QED
    BY <1>4, <2>3, <2>4, <2>5 DEF Table!Range
<1>9. Table!IsInjective(all)
  <2>1. ASSUME NEW k \in 1..(F + O), NEW l \in 1..(F + O), all[k] = all[l]
        PROVE  k = l
    <3>1. CASE k \in 1..F /\ l \in 1..F
      BY <1>1, <1>4, <1>5, <2>1, <3>1 DEF Table!IsInjective
    <3>2. ASSUME NEW a \in 1..O, NEW b \in 1..O, k = a + F, l = b + F
          PROVE  k = l
      BY <1>2, <1>4, <1>5, <2>1, <3>2 DEF Table!IsInjective
    <3>3. \A a \in 1..F, b \in 1..O : first[a] # others[b]
      BY <1>2, <1>4 DEF Table!Range
    <3>4. QED
      BY <1>5, <1>6, <2>1, <3>1, <3>2, <3>3
  <2>2. QED
    BY <1>4, <2>1 DEF Table!IsInjective
<1>10. QED
  BY <1>2, <1>3, <1>7, <1>8, <1>9 DEF all, ColumnLists, others

LEMMA InitTableInv == SourcesInit => TableInv
<1> SUFFICES ASSUME Table!Init PROVE TableInv
    BY DEF SourcesInit
<1>1. Table!AtRest \in Asking
  BY NothingIsStored DEF Table!AtRest, Asking
<1>2. /\ Default \in ColumnLists /\ Table!Range(Default) \subseteq Table!Names
      /\ MaxRequests \in Nat /\ MaxMoves \in Nat
  BY PreferencesParameters DEF ColumnLists, Table!Range
<1>3. options \in ColumnLists /\ Table!Range(options) = Table!Names
  BY <1>2, SequenceArranges DEF Table!Init, Table!sequence
<1>4. url \in Table!Links
  BY DEF Table!Init, Table!Links
<1>5. request \in [Tabs -> Asking]
  BY <1>1 DEF Table!Init
<1>6. {preferences, asked} \subseteq Stored /\ selected \in SUBSET Table!Names
  BY <1>2, NothingIsStored DEF Table!Init
<1>7. moves \in 0..MaxMoves /\ requests \in 0..MaxRequests /\ overlapped \in BOOLEAN
  <2>1. moves \in 0..MaxMoves /\ requests \in 0..MaxRequests
    BY <1>2 DEF Table!Init
  <2>2. overlapped \in BOOLEAN
    BY DEF Table!Init
  <2>3. QED
    BY <2>1, <2>2
<1>8. QED
  BY <1>3, <1>4, <1>5, <1>6, <1>7 DEF TableInv

\* What is selected, in the order of the dialog.
LEMMA SelectedIsTaken ==
    ASSUME TableInv
    PROVE  /\ Table!Selected \in ColumnLists /\ Table!Range(Table!Selected) = selected
           /\ Table!Selected \in Seq(Table!Range(options))
<1>1. /\ options \in Seq(Table!Names) /\ Table!IsInjective(options)
      /\ Table!Range(options) = Table!Names /\ selected \subseteq Table!Names
  BY DEF TableInv, ColumnLists
<1> DEFINE s == Table!Selected
<1>2. /\ s \in Seq(Table!Names) /\ Table!IsInjective(s)
      /\ Table!Range(s) = Table!Range(options) \cap selected
  BY <1>1, AmongTakes DEF Table!Selected
<1> HIDE DEF s
<1>3. Table!Range(s) = selected
  BY <1>1, <1>2
<1>4. s \in Seq(Table!Range(options))
  BY <1>1, <1>2
<1>5. QED
  BY <1>2, <1>3, <1>4 DEF s, ColumnLists

\* The buttons permute the options.
LEMMA MovesKeepTableInv ==
    ASSUME TableInv, Table!MoveUp \/ Table!MoveDown
    PROVE  TableInv'
<1>1. /\ options \in Seq(Table!Names) /\ Table!IsInjective(options)
      /\ Table!Range(options) = Table!Names
  BY DEF TableInv, ColumnLists
<1>2. Table!Selected \in Seq(Table!Range(options)) /\ Len(Table!Selected) \in Int
  BY SelectedIsTaken
<1>3. ASSUME NEW by \in Int PROVE /\ Table!ShiftAll(options, Table!Selected, by) \in ColumnLists
                                  /\ Table!Range(Table!ShiftAll(options, Table!Selected, by)) = Table!Names
  BY <1>1, <1>2, ShiftAllPermutes DEF ColumnLists
<1>4. PICK by \in Int : options' = Table!ShiftAll(options, Table!Selected, by)
  BY <1>2 DEF Table!MoveUp, Table!MoveDown, Table!move_up, Table!move_down
<1>5. options' \in ColumnLists /\ Table!Range(options') = Table!Names
  BY <1>3, <1>4
<1>6. moves' \in 0..MaxMoves
  BY PreferencesParameters DEF TableInv, Table!MoveUp, Table!MoveDown, Table!Click
<1>7. QED
  BY <1>5, <1>6 DEF TableInv, Table!MoveUp, Table!MoveDown

\* A request is sent.
LEMMA SendKeepsTableInv ==
    ASSUME TableInv, NEW t \in Tabs, NEW sent \in Seq(Legal), NEW shows \in BOOLEAN,
           Table!Send(t, sent, shows), url' \in Table!Links
    PROVE  TableInv'
<1>1. requests' \in 0..MaxRequests
  BY PreferencesParameters DEF TableInv, Table!Send
<1>2. request' \in [Tabs -> Asking]
  <2> DEFINE asking == [request[t] EXCEPT !.stage = "sent", !.changes = sent, !.shows = shows]
  <2>1. request' = [request EXCEPT ![t] = asking] /\ request \in [Tabs -> Asking]
    BY DEF TableInv, Table!Send
  <2>2. asking \in Asking
    BY <2>1 DEF Asking
  <2> HIDE DEF asking
  <2>3. QED
    BY <2>1, <2>2
<1>3. QED
  BY <1>1, <1>2 DEF TableInv, Table!Send, Table!dialog

\* What is sent are legal changes.
LEMMA SentIsLegal ==
    ASSUME TableInv
    PROVE  /\ Table!Links \subseteq Seq(Legal)
           /\ <<Table!OfColumns(Table!Selected)>> \in Seq(Legal)
           /\ <<Table!OfColumns(<<>>)>> \in Seq(Legal)
           /\ \A v \in Table!Value, cleared \in SUBSET {"columns", "ordering"} :
                 <<Table!AllOf(v, cleared)>> \in Seq(Legal)
<1>1. \A c \in ColumnLists : Table!OfColumns(c) \in Legal
  BY DEF Legal, Table!OfColumns, Keys, Meant
<1>2. \A v \in Table!Value : Table!Ordering(v) \in Legal /\ Table!PerPage(v) \in Legal
  BY DEF Legal, Table!Ordering, Table!PerPage, Keys, Meant
<1>3. <<>> \in ColumnLists
  BY DEF ColumnLists, Table!IsInjective
<1>4. ASSUME NEW v \in Table!Value, NEW cleared \in SUBSET {"columns", "ordering"}
      PROVE  Table!AllOf(v, cleared) \in Legal
  <2> DEFINE D == {"per_page"} \cup cleared
             c == Table!AllOf(v, cleared)
             All == ColumnLists \cup Table!Value
  <2>1. D \in SUBSET Keys /\ c = [k \in D |-> c[k]]
    BY DEF Keys, Table!AllOf
  <2>2. /\ Table!NoPreferences["columns"] = <<>> /\ Table!NoPreferences["ordering"] = "none"
        /\ "none" \in Table!Value
    BY DEF Table!NoPreferences, Table!Value
  <2>3. \A k \in D : c[k] = IF k = "per_page" THEN v ELSE Table!NoPreferences[k]
    BY DEF Table!AllOf
  <2> HIDE DEF c
  <2>4. ASSUME NEW k \in D PROVE k \in Keys /\ c[k] \in All /\ c[k] \in Meant(k)
    <3>1. CASE k = "per_page"
      BY <2>3, <3>1 DEF Keys, Meant
    <3>2. CASE k = "columns"
      BY <1>3, <2>2, <2>3, <3>2 DEF Keys, Meant
    <3>3. CASE k = "ordering"
      BY <2>2, <2>3, <3>3 DEF Keys, Meant
    <3>4. QED
      BY <3>1, <3>2, <3>3
  <2> HIDE DEF D, All
  <2>5. c \in [D -> All] /\ DOMAIN c = D
    BY <2>1, <2>4
  <2>6. c \in UNION {[E -> All] : E \in SUBSET Keys}
    BY <2>1, <2>5
  <2>7. QED
    BY <2>4, <2>5, <2>6 DEF Legal, c, All
<1>5. "none" \in Table!Value /\ "set" \in Table!Value
  BY DEF Table!Value
<1>6. Table!Links \subseteq Seq(Legal)
  BY <1>2, <1>5 DEF Table!Links
<1>7. QED
  BY <1>1, <1>3, <1>4, <1>6, SelectedIsTaken

\* A request reads the row, or saves a change of it.
LEMMA WorkKeepsTableInv ==
    ASSUME TableInv, NEW t \in Tabs, Table!Read(t) \/ Table!Change(t)
    PROVE  TableInv'
<1>1. CASE Table!Read(t)
  <2>1. request' \in [Tabs -> Asking]
    BY <1>1 DEF TableInv, Table!Read, Asking
  <2>2. QED
    BY <1>1, <2>1 DEF TableInv, Table!Read, Table!dialog
<1>2. CASE Table!Change(t)
  <2> DEFINE left == request[t].changes
             next == Table!Updated(request[t].instance, Head(left))
  <2>1. left \in Seq(Legal) /\ request[t].instance \in Stored /\ left # <<>>
    BY <1>2 DEF TableInv, Table!Change, Asking
  <2>2. Head(left) \in Legal /\ Tail(left) \in Seq(Legal)
    BY <2>1
  <2>3. next \in Stored /\ Table!Updated(asked, Head(left)) \in Stored
    BY <2>1, <2>2, UpdatedIsStored DEF TableInv
  <2>4. request' = [request EXCEPT ![t].instance = next, ![t].changes = Tail(left)]
    BY <1>2 DEF Table!Change
  <2> HIDE DEF next, left
  <2>5. request' \in [Tabs -> Asking]
    BY <2>2, <2>3, <2>4 DEF TableInv, Asking
  <2>6. preferences' \in Stored
    BY <2>5, <1>2 DEF Table!Change, Asking
  <2>7. asked' \in Stored /\ overlapped' \in BOOLEAN
    BY <1>2, <2>3 DEF Table!Change, TableInv, left
  <2>8. QED
    BY <1>2, <2>5, <2>6, <2>7 DEF TableInv, Table!Change, Table!dialog
<1>3. QED
  BY <1>1, <1>2

\* A request is answered; the list has its columns.
LEMMA AnswerKeepsTableInv ==
    ASSUME TableInv, NEW t \in Tabs, Table!Answer(t)
    PROVE  TableInv'
<1> DEFINE columns == request[t].instance.columns
           first == IF columns = <<>> THEN Default ELSE columns
           dialogs == /\ options' \in ColumnLists /\ Table!Range(options') = Table!Names
                      /\ selected' \in SUBSET Table!Names /\ moves' \in 0..MaxMoves
           requested == request' \in [Tabs -> Asking]
<1>1. Table!AtRest \in Asking
  BY NothingIsStored DEF Table!AtRest, Asking
<1>2. columns \in ColumnLists
  BY DEF TableInv, Stored, Keys, Meant, Asking
<1>3. first \in ColumnLists /\ Table!Range(first) \subseteq Table!Names
  BY <1>2, PreferencesParameters DEF ColumnLists, Table!Range
<1>4. CASE t = List /\ ~request[t].shows
  <2>1. dialogs
    BY <1>4 DEF Table!Answer, Table!dialog, TableInv
  <2>2. url \in Seq(Legal)
    BY SentIsLegal DEF TableInv
  <2> DEFINE next == [Table!AtRest EXCEPT !.stage = "sent", !.changes = url, !.shows = TRUE]
  <2>5. next \in Asking
    BY <1>1, <2>2 DEF Asking
  <2>6. request' = [request EXCEPT ![t] = next] /\ request \in [Tabs -> Asking]
    BY <1>4 DEF Table!Answer, TableInv
  <2> HIDE DEF next
  <2>3. requested
    BY <2>5, <2>6
  <2>4. QED
    BY <2>1, <2>3 DEF Table!Answer, TableInv
<1>5. CASE ~(t = List /\ ~request[t].shows)
  <2>1. requested
    BY <1>1, <1>5 DEF Table!Answer, TableInv
  <2>2. CASE t = List
    <3>1. /\ options' = Table!sequence(columns) /\ selected' = Table!Range(first) /\ moves' = 0
      BY <1>5, <2>2 DEF Table!Answer
    <3>2. Table!sequence(columns) \in ColumnLists /\ Table!Range(Table!sequence(columns)) = Table!Names
      BY <1>3, SequenceArranges DEF Table!sequence
    <3>3. dialogs
      BY <1>3, <3>1, <3>2, PreferencesParameters
    <3>4. QED
      BY <2>1, <3>3 DEF Table!Answer, TableInv
  <2>3. CASE t # List
    BY <1>5, <2>1, <2>3 DEF Table!Answer, TableInv, Table!dialog
  <2>4. QED
    BY <2>2, <2>3
<1>6. QED
  BY <1>4, <1>5

LEMMA NextTableInv == TableInv /\ [SourcesNext]_allVars => TableInv'
<1> SUFFICES ASSUME TableInv, [SourcesNext]_allVars
             PROVE  TableInv'
    OBVIOUS
<1>1. CASE Table!MoveUp \/ Table!MoveDown
  BY <1>1, MovesKeepTableInv
<1>2. CASE \E set \in SUBSET Table!Names : Table!Select(set)
  BY <1>2, PreferencesParameters DEF Table!Select, Table!Click, TableInv
<1>3. CASE \E link \in Table!Links : Table!Follow(link)
  BY <1>3, PreferencesParameters, SentIsLegal, SendKeepsTableInv DEF Table!Follow
<1>4. CASE Table!Save \/ Table!Reset
  <2>1. url' \in Table!Links
    BY <1>4 DEF Table!Save, Table!Reset, TableInv
  <2>2. QED
    BY <1>4, <2>1, PreferencesParameters, SentIsLegal, SendKeepsTableInv
       DEF Table!Save, Table!Reset
<1>5. ASSUME NEW t \in Tabs, NEW v \in Table!Value, NEW cleared \in SUBSET {"columns", "ordering"},
             Table!SaveAll(t, v, cleared)
      PROVE  TableInv'
  <2>1. url' \in Table!Links
    BY <1>5 DEF Table!SaveAll, TableInv
  <2>2. QED
    BY <1>5, <2>1, SentIsLegal, SendKeepsTableInv DEF Table!SaveAll
<1>6. CASE \E t \in Tabs : Table!Read(t) \/ Table!Change(t) \/ Table!Answer(t)
  BY <1>6, WorkKeepsTableInv, AnswerKeepsTableInv
<1>7. CASE UNCHANGED tableVars
  BY <1>7 DEF tableVars, TableInv
<1>8. QED
  BY <1>1, <1>2, <1>3, <1>4, <1>5, <1>6, <1>7
     DEF SourcesNext, Fetching, Following, Listing, Arranging, allVars

LEMMA TableInvTypes == TableInv => Table!TypeOK
<1> SUFFICES ASSUME TableInv PROVE Table!TypeOK
    OBVIOUS
<1>1. ASSUME NEW p \in Stored
      PROVE  /\ DOMAIN p = DOMAIN Table!NoPreferences
             /\ {p.ordering, p.per_page} \subseteq Table!Value
             /\ Table!IsInjective(p.columns) /\ Table!Range(p.columns) \subseteq Table!Names
  <2>1. /\ DOMAIN p = Keys /\ p.columns \in ColumnLists
        /\ p.ordering \in Table!Value /\ p.per_page \in Table!Value
    BY DEF Stored, Keys, Meant
  <2>2. DOMAIN Table!NoPreferences = Keys
    BY DEF Table!NoPreferences, Keys
  <2>3. QED
    BY <2>1, <2>2 DEF ColumnLists, Table!Range
<1>2. \A p \in {preferences, asked} \cup {request[t].instance : t \in Tabs} : p \in Stored
  BY DEF TableInv, Asking
<1>3. \A t \in Tabs : request[t].stage \in {"idle", "sent", "read"}
  BY DEF TableInv, Asking
<1>4. Table!IsInjective(options) /\ Table!Range(options) = Table!Names
  BY DEF TableInv, ColumnLists
<1>5. QED
  BY <1>1, <1>2, <1>3, <1>4 DEF TableInv, Table!TypeOK

-----------------------------------------------------------------------------
(* Preferences *)

\* As long as no request saves while another works, each works on what is stored.
PreferencesInv ==
    /\ DOMAIN request = Tabs
    /\ \A t \in Tabs : DOMAIN request[t] = DOMAIN Table!AtRest
    /\ ~overlapped =>
        /\ preferences = asked
        /\ \A t \in Tabs : request[t].stage = "read" => request[t].instance = preferences

LEMMA InitPreferencesInv == SourcesInit => PreferencesInv
BY DEF SourcesInit, Table!Init, PreferencesInv, Table!AtRest

\* A request is sent.
LEMMA SendKeepsPreferencesInv ==
    ASSUME PreferencesInv, NEW t \in Tabs, NEW sent, NEW shows, Table!Send(t, sent, shows)
    PROVE  PreferencesInv'
BY DEF Table!Send, PreferencesInv, Table!AtRest

\* A request reads the row.
LEMMA ReadKeepsPreferencesInv ==
    ASSUME PreferencesInv, NEW t \in Tabs, Table!Read(t)
    PROVE  PreferencesInv'
BY DEF Table!Read, PreferencesInv, Table!AtRest

\* A request saves the row: any other that works on an older instance overlaps.
LEMMA ChangeKeepsPreferencesInv ==
    ASSUME PreferencesInv, NEW t \in Tabs, Table!Change(t)
    PROVE  PreferencesInv'
BY DEF Table!Change, PreferencesInv, Table!AtRest

\* A request is answered.
LEMMA AnswerKeepsPreferencesInv ==
    ASSUME PreferencesInv, NEW t \in Tabs, Table!Answer(t)
    PROVE  PreferencesInv'
<1> DEFINE next == [Table!AtRest EXCEPT !.stage = "sent", !.changes = url, !.shows = TRUE]
<1>1. /\ DOMAIN next = DOMAIN Table!AtRest /\ next.stage = "sent"
      /\ Table!AtRest.stage = "idle"
  BY DEF Table!AtRest
<1>2. /\ UNCHANGED <<preferences, asked, overlapped>>
      /\ \E r \in {next, Table!AtRest} : request' = [request EXCEPT ![t] = r]
  BY DEF Table!Answer
<1> HIDE DEF next
<1>3. QED
  BY <1>1, <1>2 DEF PreferencesInv

LEMMA NextPreferencesInv == PreferencesInv /\ [SourcesNext]_allVars => PreferencesInv'
<1> SUFFICES ASSUME PreferencesInv, [SourcesNext]_allVars
             PROVE  PreferencesInv'
    OBVIOUS
<1>1. CASE \/ Table!MoveUp \/ Table!MoveDown
           \/ \E set \in SUBSET Table!Names : Table!Select(set)
  BY <1>1 DEF Table!MoveUp, Table!MoveDown, Table!Select, PreferencesInv
<1>2. CASE \/ \E link \in Table!Links : Table!Follow(link)
           \/ Table!Save \/ Table!Reset
           \/ \E t \in Tabs, v \in Table!Value, cleared \in SUBSET {"columns", "ordering"} :
                Table!SaveAll(t, v, cleared)
  BY <1>2, PartsAssumption, SendKeepsPreferencesInv
     DEF Table!Follow, Table!Save, Table!Reset, Table!SaveAll, PartsAssumption,
         Table!PreferencesAssumption
<1>3. CASE \E t \in Tabs : Table!Read(t) \/ Table!Change(t) \/ Table!Answer(t)
  BY <1>3, ReadKeepsPreferencesInv, ChangeKeepsPreferencesInv, AnswerKeepsPreferencesInv
<1>4. CASE UNCHANGED tableVars
  BY <1>4 DEF tableVars, PreferencesInv
<1>5. QED
  BY <1>1, <1>2, <1>3, <1>4 DEF SourcesNext, Fetching, Following, Listing, Arranging, allVars

\* Each preference is what was last asked for, though every request saves all of
\* them, and some more than once, unless requests overlapped: for any number of
\* tabs and requests.
THEOREM PreferencesFollow == SourcesSpec => []PreferencesAreAsAsked
<1>1. PreferencesInv => PreferencesAreAsAsked
  BY DEF PreferencesInv, PreferencesAreAsAsked, Table!PreferencesAreAsAsked
<1>2. QED
  BY <1>1, InitPreferencesInv, NextPreferencesInv, PTL DEF SourcesSpec

\* The list and the dialog show the columns preferred, in their order.
LEMMA PreferredAreShown ==
    ASSUME NEW first \in ColumnLists
    PROVE  Table!Among(first \o Table!Among(Columns, Table!Names \ Table!Range(first)),
                       Table!Range(first)) = first
<1> DEFINE others == Table!Among(Columns, Table!Names \ Table!Range(first))
<1>1. /\ first \in Seq(Table!Names)
      /\ Columns \in Seq(Table!Names) /\ Table!IsInjective(Columns)
      /\ Table!Range(Columns) = Table!Names
  BY PreferencesParameters DEF ColumnLists
<1>2. /\ others \in Seq(Table!Names)
      /\ Table!Range(others) = Table!Names \cap (Table!Names \ Table!Range(first))
  BY <1>1, AmongTakes
<1> HIDE DEF others
<1>3. Table!Range(others) \cap Table!Range(first) = {}
  BY <1>2
<1>4. QED
  BY <1>1, <1>2, <1>3, AmongTakesTheFirst DEF others

\* Only the answer to a request for the list ends one there, and it shows the row.
LEMMA ListAnswered ==
    ASSUME PreferencesInv, TableInv, [SourcesNext]_allVars,
           request[List].stage = "read", request'[List].stage = "idle"
    PROVE  Table!Answer(List) /\ ~(~request[List].shows)
<1>1. List \in Tabs /\ DOMAIN request = Tabs /\ \A t \in Tabs : request[t] \in Asking
  BY PreferencesParameters DEF TableInv
<1>2. request' # request
  OBVIOUS
<1>3. \A sent, shows : ~Table!Send(List, sent, shows)
  BY DEF Table!Send, Table!AtRest
<1>4. ASSUME NEW t \in Tabs, t # List, request'[List] # request[List]
      PROVE  /\ \A sent, shows : ~Table!Send(t, sent, shows)
             /\ ~Table!Read(t) /\ ~Table!Change(t) /\ ~Table!Answer(t)
  BY <1>1, <1>4 DEF Table!Send, Table!Read, Table!Change, Table!Answer
<1>5. request'[List] # request[List]
  OBVIOUS
<1>6. ~Table!Read(List)
  BY DEF Table!Read
<1>7. ~Table!Change(List)
  BY <1>1 DEF Table!Change, Asking
<1>8. ASSUME Table!Answer(List), ~request[List].shows PROVE FALSE
  BY <1>1, <1>8 DEF Table!Answer, Table!AtRest
<1>9. ~Table!MoveUp /\ ~Table!MoveDown /\ \A set : ~Table!Select(set)
  BY <1>2 DEF Table!MoveUp, Table!MoveDown, Table!Select
<1>10. ~Table!Save /\ ~Table!Reset /\ \A link : ~Table!Follow(link)
  BY <1>1, <1>3 DEF Table!Save, Table!Reset, Table!Follow
<1>11. \A t \in Tabs : \A v, cleared : ~Table!SaveAll(t, v, cleared)
  BY <1>4, <1>5 DEF Table!SaveAll
<1>12. ~UNCHANGED tableVars
  BY <1>2 DEF tableVars
<1>13. \E t \in Tabs : Table!Read(t) \/ Table!Change(t) \/ Table!Answer(t)
  BY <1>9, <1>10, <1>11, <1>12
     DEF SourcesNext, Fetching, Following, Listing, Arranging, allVars
<1>14. QED
  BY <1>4, <1>5, <1>6, <1>7, <1>8, <1>13

\* A list that is loaded while nothing overlaps shows what was last asked for: the
\* columns selected when the dialog was saved, in the order they had there, or the
\* default ones, for any columns, tabs and requests.
THEOREM SavedIsShown == SourcesSpec => SavedColumnsAreShown
<1> DEFINE Shows == request[List].stage = "read" /\ request'[List].stage = "idle" /\ ~overlapped =>
                       Table!Among(options', selected') =
                           (IF asked.columns = <<>> THEN Default ELSE asked.columns)
<1>1. ASSUME PreferencesInv, TableInv, [SourcesNext]_allVars,
             request[List].stage = "read", request'[List].stage = "idle", ~overlapped
      PROVE  Table!Among(options', selected') =
                 (IF asked.columns = <<>> THEN Default ELSE asked.columns)
  <2> DEFINE columns == request[List].instance.columns
             first == IF columns = <<>> THEN Default ELSE columns
  <2>1. Table!Answer(List) /\ ~(~request[List].shows)
    BY <1>1, ListAnswered
  <2>2. options' = Table!sequence(columns) /\ selected' = Table!Range(first)
    BY <2>1 DEF Table!Answer
  <2>3. request[List].instance = asked
    BY <1>1, PreferencesParameters DEF PreferencesInv
  <2>4. columns \in ColumnLists
    BY <1>1, <2>3 DEF TableInv, Stored, Keys, Meant
  <2>5. first \in ColumnLists
    BY <2>4, PreferencesParameters
  <2> HIDE DEF columns
  <2>6. options' = first \o Table!Among(Columns, Table!Names \ Table!Range(first))
    BY <2>2, Zenon DEF Table!sequence
  <2> HIDE DEF first
  <2>7. Table!Among(options', selected') = first
    BY <2>2, <2>5, <2>6, PreferredAreShown
  <2>8. QED
    BY <2>3, <2>7 DEF columns, first
<1>2. PreferencesInv /\ TableInv /\ [SourcesNext]_allVars => [Shows]_(Table!vars)
  BY <1>1
<1>3. QED
  BY <1>2, InitPreferencesInv, NextPreferencesInv, InitTableInv, NextTableInv, PTL
     DEF SourcesSpec, SavedColumnsAreShown, Table!SavedColumnsAreShown

\* A block of selected options moves as a whole, by one place, in the order it has,
\* up and down, and down again is where it was, for any columns and any block of them.
THEOREM BlocksAreMoved == SourcesSpec => []BlocksMoveTogether
<1>1. ASSUME TableInv PROVE Table!BlocksMoveTogether
  <2> SUFFICES ASSUME NEW i \in DOMAIN options, NEW j \in DOMAIN options,
                      i <= j, selected = {options[k] : k \in i..j}
               PROVE  LET block == SubSeq(options, i, j)
                          above == SubSeq(options, 1, i - 1)
                          below == SubSeq(options, j + 1, Len(options))
                          up    == Table!move_up(options, Table!Selected)
                      IN  /\ above # <<>> =>
                              /\ up = Table!Front(above) \o block \o <<Table!Last(above)>> \o below
                              /\ Table!move_down(up, Table!Selected) = options
                          /\ below # <<>> =>
                              Table!move_down(options, Table!Selected)
                                  = above \o <<Head(below)>> \o block \o Tail(below)
    BY DEF Table!BlocksMoveTogether
  <2> DEFINE A == Table!Names
             N == Len(options)
             block == SubSeq(options, i, j)
             above == SubSeq(options, 1, i - 1)
             below == SubSeq(options, j + 1, N)
             up    == Table!move_up(options, Table!Selected)
  <2>1. options \in Seq(A) /\ Table!IsInjective(options)
    BY <1>1 DEF TableInv, ColumnLists
  <2>2. /\ N \in Nat /\ i \in Int /\ j \in Int /\ 1 <= i /\ i <= j /\ j <= N
        /\ i \in 1..Len(options) /\ j \in i..Len(options)
    BY <2>1
  <2>3. Table!Selected = block
    BY <2>1, <2>2, AmongTakesABlock DEF Table!Selected
  <2>4. ASSUME above # <<>>
        PROVE  /\ up = Table!Front(above) \o block \o <<Table!Last(above)>> \o below
               /\ Table!move_down(up, Table!Selected) = options
    <3>1. i \in 2..Len(options)
      <4>1. i = 1 => above = <<>>
        BY <2>1, SubSeqEmpty
      <4>2. QED
        BY <2>2, <2>4, <4>1
    <3>2. up = Table!MoveTo(options, i - 1, j)
      BY <2>1, <2>2, <2>3, <3>1, BlockGoesUp
    <3>3. Table!MoveTo(options, i - 1, j)
              = Table!Front(above) \o block \o <<Table!Last(above)>> \o below
      BY <2>1, <2>2, <3>1, UpShape
    <3>4. Table!move_down(Table!MoveTo(options, i - 1, j), block) = options
      BY <2>1, <2>2, <3>1, UpAndDown
    <3>5. QED
      BY <2>3, <3>2, <3>3, <3>4
  <2>5. ASSUME below # <<>>
        PROVE  Table!move_down(options, Table!Selected)
                   = above \o <<Head(below)>> \o block \o Tail(below)
    <3>1. j \in i..(Len(options) - 1)
      <4>1. j = N => below = <<>>
        BY <2>2, SubSeqEmpty
      <4>2. QED
        BY <2>2, <2>5, <4>1
    <3>2. Table!move_down(options, block) = Table!MoveTo(options, j + 1, i)
      BY <2>1, <2>2, <3>1, BlockGoesDown
    <3>3. Table!MoveTo(options, j + 1, i) = above \o <<Head(below)>> \o block \o Tail(below)
      BY <2>1, <2>2, <3>1, DownShape
    <3>4. QED
      BY <2>3, <3>2, <3>3
  <2>6. QED
    BY <2>4, <2>5
<1>2. TableInv => BlocksMoveTogether
  BY <1>1 DEF BlocksMoveTogether
<1>3. QED
  BY InitTableInv, NextTableInv, <1>2, PTL DEF SourcesSpec

\* Every variable of each part keeps to its values: rows link to files that exist,
\* only rows of a page are checked, the buttons lose and double no option, for any
\* columns and any number of everything.
THEOREM TypesCorrect == SourcesSpec => []TypesOK
<1>1. Spec => []TypeOK
  BY SourceTypeCorrect
<1>2. AutoP!Spec => []AutoP!IInv
  BY PartsAssumed, AutoP!Invariance
<1>3. AutoP!IInv => Sync!TypeOK
  BY DEF AutoP!IInv, AutoP!TypeOK, Sync!TypeOK, AutoP!Content, Sync!Content, AutoP!Instance,
         Sync!Instance, AutoP!Link, Sync!Link, AutoP!Present, Sync!Present
<1>4. TypeOK /\ Sync!TypeOK /\ ListInv /\ TableInv => TypesOK
  BY TableInvTypes DEF TypesOK, ListInv
<1>5. QED
  BY SourcesAreSynchronised, ObjectsFollowAutoSync, ListInvariance, InitTableInv, NextTableInv,
     <1>1, <1>2, <1>3, <1>4, PTL DEF SourcesSpec

=============================================================================
