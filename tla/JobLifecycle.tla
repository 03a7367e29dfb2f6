--------------------------- MODULE JobLifecycle ---------------------------
(***************************************************************************)
(* Background jobs: the Job row kept in the database, the RQ queue that    *)
(* carries a pickled copy of it, the worker that runs the job function on  *)
(* that copy, and the exception handler RQ calls when the function raises. *)
(*                                                                         *)
(* A worker never re-reads the row: every `job.log(...)` saves the whole   *)
(* row from its own copy.  Only core.exceptions.exception_handler fetches  *)
(* the row afresh.  Nothing cancels the queued task when the row is        *)
(* deleted, and Django's save() re-inserts a row it cannot update, so a    *)
(* deleted row can come back.                                              *)
(*                                                                         *)
(* The log kept in Job.data is left out: no property depends on it.        *)
(***************************************************************************)
EXTENDS Naturals, Sequences

CONSTANTS
    Jobs,     \* identifiers of Job rows (and of their RQ tasks)
    Workers,  \* processes serving the "default" queue
    Idle      \* what a worker that holds no job is holding

ASSUME IdleAssumption == Idle \notin Jobs

VARIABLES
    row,    \* row[j]: the Job row in the database
    copy,   \* copy[j]: the Job instance pickled with the task, then the worker's
    func,   \* func[j]: the shape of the function the job runs
    stage,  \* stage[j]: how far the job's execution has come
    queue,  \* the RQ queue
    busy    \* busy[w]: the job worker w holds, or Idle

jobVars == <<row, copy, func, stage, queue, busy>>

Status == {"PENDING", "RUNNING", "COMPLETED", "FAILED", "ERRORED"}

Terminal == {"COMPLETED", "FAILED", "ERRORED"}

\* A row; the timestamps are kept as "has been set".
Row == [status: Status \cup {"absent"}, started: BOOLEAN, completed: BOOLEAN]

Absent  == [status |-> "absent",  started |-> FALSE, completed |-> FALSE]
Pending == [status |-> "PENDING", started |-> FALSE, completed |-> FALSE]

Present(r) == r.status # "absent"

is_over(r) == r.status \in Terminal

(***************************************************************************)
(* The shapes of the job functions:                                        *)
(*   plain  mark running, work (an exception escapes), mark completed      *)
(*   router like plain, but may cancel before starting and may report a    *)
(*          failure without raising                                        *)
(*   sync   catches what its work raises, marks the job failed, and        *)
(*          re-raises unless it is a SynchronisationError                  *)
(*   push   like sync, but may cancel, and marks completed inside the try  *)
(***************************************************************************)
Functions == {"plain", "router", "sync", "push"}

Cancels  == {"router", "push"}
Catches  == {"sync", "push"}

Stages == {"absent", "created", "dropped", "queued", "started", "body", "marked",
           "caught", "raised", "handling", "ended", "lost"}

\* The stages in which a worker holds the job.
Held == {"started", "body", "marked", "caught", "raised", "handling"}

-----------------------------------------------------------------------------
set_status(r, status) ==
    [status    |-> status,
     started   |-> r.started \/ status = "RUNNING",
     completed |-> r.completed \/ status \in Terminal]

\* Job.log(..., save=True): the whole row is written from the copy at hand.
save(j, r) ==
    /\ row'  = [row  EXCEPT ![j] = r]
    /\ copy' = [copy EXCEPT ![j] = r]

mark(j, status) == save(j, set_status(copy[j], status))

Goto(j, s) == stage' = [stage EXCEPT ![j] = s]

Release(w) == busy' = [busy EXCEPT ![w] = Idle]

Holds(w, j, S) == busy[w] = j /\ stage[j] \in S

-----------------------------------------------------------------------------
(* Job.enqueue: the row is committed first, the task is queued second. *)

enqueue(j, f) ==
    /\ stage[j] = "absent"
    /\ save(j, Pending)
    /\ func' = [func EXCEPT ![j] = f]
    /\ Goto(j, "created")
    /\ UNCHANGED <<queue, busy>>

delay(j) ==
    /\ stage[j] = "created"
    /\ queue' = Append(queue, j)
    /\ Goto(j, "queued")
    /\ UNCHANGED <<row, copy, func, busy>>

\* Redis cannot be reached: the request fails, the PENDING row stays.
delay_fails(j) ==
    /\ stage[j] = "created"
    /\ Goto(j, "dropped")
    /\ UNCHANGED <<row, copy, func, queue, busy>>

-----------------------------------------------------------------------------
(* The worker. *)

Take_keeps_the_task(w) ==
    /\ busy[w] = Idle
    /\ queue # <<>>
    /\ busy'  = [busy EXCEPT ![w] = Head(queue)]
    /\ Goto(Head(queue), "started")
    /\ UNCHANGED <<row, copy, func, queue>>

Take(w) ==
    /\ busy[w] = Idle
    /\ queue # <<>>
    /\ busy'  = [busy EXCEPT ![w] = Head(queue)]
    /\ queue' = Tail(queue)
    /\ Goto(Head(queue), "started")
    /\ UNCHANGED <<row, copy, func>>

\* "Task cancelled", "No data source and file to push configuration to".
cancel(w, j) ==
    /\ Holds(w, j, {"started"})
    /\ func[j] \in Cancels
    /\ mark(j, "COMPLETED")
    /\ Goto(j, "marked")
    /\ UNCHANGED <<func, queue, busy>>

mark_running(w, j) ==
    /\ Holds(w, j, {"started"})
    /\ mark(j, "RUNNING")
    /\ Goto(j, "body")
    /\ UNCHANGED <<func, queue, busy>>

\* A progress message in the middle of the work.
log(w, j) ==
    /\ Holds(w, j, {"body"})
    /\ func[j] = "plain"
    /\ save(j, copy[j])
    /\ UNCHANGED <<func, stage, queue, busy>>

mark_completed(w, j) ==
    /\ Holds(w, j, {"body"})
    /\ mark(j, "COMPLETED")
    /\ Goto(j, "marked")
    /\ UNCHANGED <<func, queue, busy>>

\* The work reported a failure without raising.
mark_failed(w, j) ==
    /\ Holds(w, j, {"body"})
    /\ func[j] = "router"
    /\ mark(j, "FAILED")
    /\ Goto(j, "marked")
    /\ UNCHANGED <<func, queue, busy>>

\* `except Exception as e`: whatever the try block raised, RQ's timeout
\* included.  The push function also marks completed inside its try block.
except(w, j) ==
    /\ func[j] \in Catches
    /\ \/ Holds(w, j, {"body"})
       \/ Holds(w, j, {"marked"}) /\ func[j] = "push" /\ copy[j].started
    /\ mark(j, "FAILED")
    /\ Goto(j, "caught")
    /\ UNCHANGED <<func, queue, busy>>

Return(w, j) ==
    /\ Holds(w, j, {"marked", "caught"})
    /\ Goto(j, "ended")
    /\ Release(w)
    /\ UNCHANGED <<row, copy, func, queue>>

\* The exception leaves the function: re-raised after being caught, not
\* caught at all, or RQ's timeout hitting outside the try block.
raise(w, j) ==
    /\ \/ Holds(w, j, {"started", "marked", "caught"})
       \/ Holds(w, j, {"body"}) /\ func[j] \notin Catches
    /\ Goto(j, "raised")
    /\ UNCHANGED <<row, copy, func, queue, busy>>

(* core.exceptions.exception_handler *)

handler_fetch(w, j) ==
    /\ Holds(w, j, {"raised"})
    /\ Present(row[j])
    /\ copy' = [copy EXCEPT ![j] = row[j]]
    /\ Goto(j, "handling")
    /\ UNCHANGED <<row, func, queue, busy>>

\* Job.DoesNotExist: the handler itself fails on the unbound name.
handler_not_found(w, j) ==
    /\ Holds(w, j, {"raised"})
    /\ ~Present(row[j])
    /\ Goto(j, "ended")
    /\ Release(w)
    /\ UNCHANGED <<row, copy, func, queue>>

mark_errored_log_only(w, j) ==
    /\ Holds(w, j, {"handling"})
    /\ save(j, copy[j])
    /\ Goto(j, "ended")
    /\ Release(w)
    /\ UNCHANGED <<func, queue>>

mark_errored(w, j) ==
    /\ Holds(w, j, {"handling"})
    /\ mark(j, "ERRORED")
    /\ Goto(j, "ended")
    /\ Release(w)
    /\ UNCHANGED <<func, queue>>

\* The worker process is killed; RQ does not run the job again.
Crash_requeues(w) ==
    /\ busy[w] # Idle
    /\ queue' = Append(queue, busy[w])
    /\ Goto(busy[w], "queued")
    /\ Release(w)
    /\ UNCHANGED <<row, copy, func>>

Crash(w) ==
    /\ busy[w] # Idle
    /\ Goto(busy[w], "lost")
    /\ Release(w)
    /\ UNCHANGED <<row, copy, func, queue>>

-----------------------------------------------------------------------------
\* JobDeleteView, JobBulkDeleteView and the housekeeping command.
delete(j) ==
    /\ Present(row[j])
    /\ row' = [row EXCEPT ![j] = Absent]
    /\ UNCHANGED <<copy, func, stage, queue, busy>>

-----------------------------------------------------------------------------
Init ==
    /\ row   = [j \in Jobs |-> Absent]
    /\ copy  = [j \in Jobs |-> Absent]
    /\ func  = [j \in Jobs |-> "plain"]
    /\ stage = [j \in Jobs |-> "absent"]
    /\ queue = <<>>
    /\ busy  = [w \in Workers |-> Idle]

\* What a worker does with the job it holds.
Run(w, j) ==
    \/ cancel(w, j)
    \/ mark_running(w, j)
    \/ log(w, j)
    \/ mark_completed(w, j)
    \/ mark_failed(w, j)
    \/ except(w, j)
    \/ Return(w, j)
    \/ raise(w, j)
    \/ handler_fetch(w, j)
    \/ handler_not_found(w, j)
    \/ mark_errored(w, j)

Request(j) ==
    \/ \E f \in Functions : enqueue(j, f)
    \/ delay(j)
    \/ delay_fails(j)
    \/ delete(j)

Next ==
    \/ \E j \in Jobs : Request(j)
    \/ \E w \in Workers : Take(w) \/ Crash(w)
    \/ \E w \in Workers, j \in Jobs : Run(w, j)

Spec == Init /\ [][Next]_jobVars

\* A worker that is alive takes the next job and finishes the function it
\* runs: a progress message is not progress, and the function's work ends.
Progress(w) == Take(w) \/ \E j \in Jobs : Run(w, j) /\ stage' # stage

FairSpec ==
    /\ Spec
    /\ \A j \in Jobs : WF_jobVars(delay(j) \/ delay_fails(j))
    /\ \A w \in Workers : WF_jobVars(Progress(w))

-----------------------------------------------------------------------------
(* Properties *)

TypeOK ==
    /\ row   \in [Jobs -> Row]
    /\ copy  \in [Jobs -> Row]
    /\ func  \in [Jobs -> Functions]
    /\ stage \in [Jobs -> Stages]
    /\ queue \in Seq(Jobs)
    /\ busy  \in [Workers -> Jobs \cup {Idle}]

\* <<s, t>>: status t may replace status s.
Onward ==
    ({"PENDING"}           \X Status)                          \cup
    ({"RUNNING"}           \X (Status \ {"PENDING"}))          \cup
    ({"COMPLETED"}         \X Terminal)                        \cup
    ({"FAILED"}            \X {"FAILED", "ERRORED"})           \cup
    ({"ERRORED"}           \X {"ERRORED"})

\* A job that reached some status never falls back to an earlier or a milder
\* one: what a worker saves from its own copy, and what the exception handler
\* saves from the row it fetched, never undoes a status saved before.
StatusOnlyEscalates ==
    [][\A j \in Jobs : Present(row[j]) /\ Present(row'[j])
                            => <<row[j].status, row'[j].status>> \in Onward]_jobVars

\* However the function ended (it returned, raised, timed out, was caught) the
\* row is left in a terminal state: `Job.is_over` holds of it, or it is gone.
EndedIsOver ==
    \A j \in Jobs : stage[j] = "ended" => is_over(row[j]) \/ ~Present(row[j])

\* Two workers never run the same job.
OneWorkerPerJob ==
    \A w1, w2 \in Workers : busy[w1] = busy[w2] /\ busy[w1] # Idle => w1 = w2

\* A queued job is eventually over, unless its row was deleted or its worker
\* was killed: nothing in this code corrects the row of a job
\* whose worker died.
QueuedJobsSettle ==
    \A j \in Jobs :
        stage[j] = "queued"
            ~> is_over(row[j]) \/ ~Present(row[j]) \/ stage[j] = "lost"

=============================================================================
