--------------------------- MODULE JobPageProofs ---------------------------
(***************************************************************************)
(* Safety of jobs and of the pages that follow them, for any number of     *)
(* jobs and workers.                                                       *)
(*                                                                         *)
(* Jobs: the inductive invariant IInv adds to TypeOK what each stage of a  *)
(* job says about its row and its worker's copy (RowInv), and that the     *)
(* queue and the workers partition the jobs they hold (QueueInv, HoldInv). *)
(*                                                                         *)
(* Pages: a step of a page is a step of JobLifecycle or leaves the jobs    *)
(* alone, so what is proved of jobs holds here.  What a page has seen is   *)
(* then related to the row through the worker's copy (PageInv): the row is *)
(* the copy, unless it was deleted, and the copy only moves onward, also   *)
(* while the row is gone and about to come back.  A button that says       *)
(* Working follows a job that was asked for (ButtonInv).                   *)
(***************************************************************************)
EXTENDS JobPage, TLAPS


RowInvOf(j) ==
    /\ stage[j] = "absent" => row[j] = Absent
    /\ stage[j] \in {"created", "queued", "started"} =>
           copy[j] = Pending /\ row[j] \in {Absent, Pending}
    /\ stage[j] \in Held   => row[j] \in {Absent, copy[j]}
    /\ stage[j] = "body"   => copy[j].status = "RUNNING"
    /\ stage[j] = "marked" => copy[j].status \in {"COMPLETED", "FAILED"}
    /\ stage[j] = "caught" => copy[j].status = "FAILED"
    /\ stage[j] = "ended"  => is_over(row[j]) \/ ~Present(row[j])

RowInv == \A j \in Jobs : RowInvOf(j)

QueueInv ==
    /\ \A i \in 1 .. Len(queue) : stage[queue[i]] = "queued"
    /\ \A i, k \in 1 .. Len(queue) : queue[i] = queue[k] => i = k

HoldInv ==
    /\ \A w \in Workers : busy[w] # Idle => stage[busy[w]] \in Held
    /\ OneWorkerPerJob

IInv == TypeOK /\ RowInv /\ QueueInv /\ HoldInv

-----------------------------------------------------------------------------
LEMMA SetStatusType ==
    ASSUME NEW r \in Row, NEW s \in Status
    PROVE  /\ set_status(r, s) \in Row
           /\ set_status(r, s).status = s
BY DEF set_status, Row, Status, Terminal

LEMMA RowTypes ==
    /\ Absent \in Row
    /\ Pending \in Row
    /\ \A r \in Row : is_over(r) <=> r.status \in {"COMPLETED", "FAILED", "ERRORED"}
    /\ ~Present(Absent)
BY DEF Absent, Pending, Row, Status, is_over, Terminal, Present

\* The initial states satisfy the inductive invariant.
LEMMA InitIInv == Init => IInv
BY RowTypes DEF Init, IInv, TypeOK, RowInv, RowInvOf, QueueInv, HoldInv, OneWorkerPerJob,
   Functions, Stages, Held, is_over, Present, Absent, Terminal

\* Every step preserves the type invariant.
LEMMA TypeOKInductive == TypeOK /\ [Next]_jobVars => TypeOK'
<1> SUFFICES ASSUME TypeOK, [Next]_jobVars
             PROVE  TypeOK'
    OBVIOUS
<1> USE DEF TypeOK, Goto, save, mark, Release, Holds, Functions, Stages, Held
<1>1. ASSUME NEW j \in Jobs, Request(j)
      PROVE  TypeOK'
  <2>1. ASSUME NEW f \in Functions, enqueue(j, f)
        PROVE  TypeOK'
    BY <2>1, RowTypes DEF enqueue
  <2>2. CASE delay(j)
    BY <2>2 DEF delay
  <2>3. CASE delay_fails(j)
    BY <2>3 DEF delay_fails
  <2>4. CASE delete(j)
    BY <2>4, RowTypes DEF delete
  <2>5. QED
    BY <1>1, <2>1, <2>2, <2>3, <2>4 DEF Request
<1>2. ASSUME NEW w \in Workers, Take(w)
      PROVE  TypeOK'
  <2>1. Head(queue) \in Jobs /\ Tail(queue) \in Seq(Jobs)
    BY <1>2 DEF Take
  <2>2. QED
    BY <1>2, <2>1 DEF Take
<1>3. ASSUME NEW w \in Workers, Crash(w)
      PROVE  TypeOK'
  BY <1>3 DEF Crash
<1>4. ASSUME NEW w \in Workers, NEW j \in Jobs, Run(w, j)
      PROVE  TypeOK'
  <2>1. /\ set_status(copy[j], "RUNNING")   \in Row
        /\ set_status(copy[j], "COMPLETED") \in Row
        /\ set_status(copy[j], "FAILED")    \in Row
        /\ set_status(copy[j], "ERRORED")   \in Row
    BY SetStatusType DEF Status
  <2>2. CASE cancel(w, j)            BY <2>1, <2>2 DEF cancel
  <2>3. CASE mark_running(w, j)      BY <2>1, <2>3 DEF mark_running
  <2>4. CASE log(w, j)               BY <2>4 DEF log
  <2>5. CASE mark_completed(w, j)    BY <2>1, <2>5 DEF mark_completed
  <2>6. CASE mark_failed(w, j)       BY <2>1, <2>6 DEF mark_failed
  <2>7. CASE except(w, j)            BY <2>1, <2>7 DEF except
  <2>8. CASE Return(w, j)            BY <2>8 DEF Return
  <2>9. CASE raise(w, j)             BY <2>9 DEF raise
  <2>10. CASE handler_fetch(w, j)     BY <2>10 DEF handler_fetch
  <2>11. CASE handler_not_found(w, j) BY <2>11 DEF handler_not_found
  <2>12. CASE mark_errored(w, j)      BY <2>1, <2>12 DEF mark_errored
  <2>13. QED
    BY <1>4, <2>2, <2>3, <2>4, <2>5, <2>6, <2>7, <2>8, <2>9, <2>10, <2>11, <2>12 DEF Run
<1>5. CASE UNCHANGED jobVars
  BY <1>5 DEF jobVars
<1>6. QED
  BY <1>1, <1>2, <1>3, <1>4, <1>5 DEF Next

\* Every state of every behaviour is well-typed.
THEOREM TypeCorrect == Spec => []TypeOK
<1>1. Init => TypeOK
  BY InitIInv DEF IInv
<1>2. QED
  BY <1>1, TypeOKInductive, PTL DEF Spec

-----------------------------------------------------------------------------
\* What each stage says of a job's row is preserved by every step.
LEMMA RowInvInductive == TypeOK /\ RowInv /\ QueueInv /\ HoldInv /\ [Next]_jobVars => RowInv'
<1> SUFFICES ASSUME TypeOK, RowInv, QueueInv, HoldInv, [Next]_jobVars, NEW i \in Jobs
             PROVE  RowInvOf(i)'
    BY DEF RowInv
<1> USE RowTypes DEF TypeOK, RowInv, RowInvOf, Goto, save, mark, Release, Holds, Held
<1>1. ASSUME NEW j \in Jobs, Request(j)
      PROVE  RowInvOf(i)'
  <2>1. ASSUME NEW f \in Functions, enqueue(j, f)
        PROVE  RowInvOf(i)'
    BY <2>1 DEF enqueue
  <2>2. CASE delay(j)
    BY <2>2 DEF delay
  <2>3. CASE delay_fails(j)
    BY <2>3 DEF delay_fails
  <2>4. CASE delete(j)
    BY <2>4 DEF delete
  <2>5. QED
    BY <1>1, <2>1, <2>2, <2>3, <2>4 DEF Request
<1>2. ASSUME NEW w \in Workers, Take(w)
      PROVE  RowInvOf(i)'
  <2>1. Head(queue) \in Jobs /\ stage[Head(queue)] = "queued"
    BY <1>2 DEF Take, QueueInv
  <2>2. QED
    BY <1>2, <2>1 DEF Take, Pending
<1>3. ASSUME NEW w \in Workers, Crash(w)
      PROVE  RowInvOf(i)'
  BY <1>3 DEF Crash
<1>4. ASSUME NEW w \in Workers, NEW j \in Jobs, Run(w, j)
      PROVE  RowInvOf(i)'
  <2>1. \A s \in Status : set_status(copy[j], s) \in Row /\ set_status(copy[j], s).status = s
    BY SetStatusType
  <2>2. CASE cancel(w, j)            BY <2>1, <2>2 DEF cancel, Status
  <2>3. CASE mark_running(w, j)      BY <2>1, <2>3 DEF mark_running, Status
  <2>4. CASE log(w, j)               BY <2>4 DEF log
  <2>5. CASE mark_completed(w, j)    BY <2>1, <2>5 DEF mark_completed, Status
  <2>6. CASE mark_failed(w, j)       BY <2>1, <2>6 DEF mark_failed, Status
  <2>7. CASE except(w, j)            BY <2>1, <2>7 DEF except, Status
  <2>8. CASE Return(w, j)            BY <2>8 DEF Return
  <2>9. CASE raise(w, j)             BY <2>9 DEF raise
  <2>10. CASE handler_fetch(w, j)     BY <2>10 DEF handler_fetch
  <2>11. CASE handler_not_found(w, j) BY <2>11 DEF handler_not_found
  <2>12. CASE mark_errored(w, j)      BY <2>1, <2>12 DEF mark_errored, Status
  <2>13. QED
    BY <1>4, <2>2, <2>3, <2>4, <2>5, <2>6, <2>7, <2>8, <2>9, <2>10, <2>11, <2>12 DEF Run
<1>5. CASE UNCHANGED jobVars
  BY <1>5 DEF jobVars, Present, is_over
<1>6. QED
  BY <1>1, <1>2, <1>3, <1>4, <1>5 DEF Next

\* A step of a worker on the job it holds leaves the queue alone and changes
\* the stage of no other job.
LEMMA RunIsLocal ==
    ASSUME TypeOK, HoldInv, NEW w \in Workers, NEW j \in Jobs, Run(w, j)
    PROVE  /\ queue' = queue
           /\ busy[w] = j
           /\ stage[j] \in Held
           /\ \A i \in Jobs \ {j} : stage'[i] = stage[i]
           /\ \/ busy' = busy /\ stage'[j] \in Held
              \/ busy' = [busy EXCEPT ![w] = Idle]
BY DEF Run, cancel, mark_running, log, mark_completed, mark_failed, except, Return, raise,
       handler_fetch, handler_not_found, mark_errored, Holds, Held, Goto, Release, TypeOK

\* The queue holds each queued job once, whatever step is taken.
LEMMA QueueInvInductive == TypeOK /\ QueueInv /\ HoldInv /\ [Next]_jobVars => QueueInv'
<1> SUFFICES ASSUME TypeOK, QueueInv, HoldInv, [Next]_jobVars
             PROVE  QueueInv'
    OBVIOUS
<1> USE DEF TypeOK, Goto
<1>1. ASSUME NEW j \in Jobs, Request(j)
      PROVE  QueueInv'
  <2>1. ASSUME NEW f \in Functions, enqueue(j, f)
        PROVE  QueueInv'
    BY <2>1 DEF enqueue, QueueInv
  <2>2. CASE delay(j)
    <3>1. /\ Len(queue') = Len(queue) + 1
          /\ \A i \in 1 .. Len(queue) : queue'[i] = queue[i]
          /\ queue'[Len(queue) + 1] = j
      BY <2>2 DEF delay
    <3>2. \A i \in 1 .. Len(queue) : queue[i] # j /\ queue[i] \in Jobs
      BY <2>2 DEF delay, QueueInv
    <3>3. \A i \in 1 .. Len(queue') : i \in 1 .. Len(queue) \/ i = Len(queue) + 1
      BY <3>1
    <3>4. QED
      BY <2>2, <3>1, <3>2, <3>3 DEF delay, QueueInv
  <2>3. CASE delay_fails(j)
    BY <2>3 DEF delay_fails, QueueInv
  <2>4. CASE delete(j)
    BY <2>4 DEF delete, QueueInv
  <2>5. QED
    BY <1>1, <2>1, <2>2, <2>3, <2>4 DEF Request
<1>2. ASSUME NEW w \in Workers, Take(w)
      PROVE  QueueInv'
  <2>1. /\ Len(queue') = Len(queue) - 1
        /\ \A i \in 1 .. Len(queue') : queue'[i] = queue[i + 1]
        /\ Head(queue) = queue[1]
        /\ 1 \in 1 .. Len(queue)
    BY <1>2 DEF Take
  <2>2. \A i \in 1 .. Len(queue') : i + 1 \in 1 .. Len(queue) /\ i + 1 # 1
    BY <2>1
  <2>3. ASSUME NEW i \in 1 .. Len(queue')
        PROVE  queue'[i] # Head(queue) /\ queue'[i] \in Jobs
    <3>1. queue'[i] = queue[i + 1] /\ i + 1 \in 1 .. Len(queue) /\ i + 1 # 1
      BY <2>1, <2>2
    <3>2. queue[i + 1] # queue[1] /\ queue[i + 1] \in Jobs
      BY <2>1, <3>1 DEF QueueInv
    <3>3. QED
      BY <2>1, <3>1, <3>2
  <2>4. QED
    BY <1>2, <2>1, <2>2, <2>3 DEF Take, QueueInv
<1>3. ASSUME NEW w \in Workers, Crash(w)
      PROVE  QueueInv'
  BY <1>3 DEF Crash, QueueInv, HoldInv, Held
<1>4. ASSUME NEW w \in Workers, NEW j \in Jobs, Run(w, j)
      PROVE  QueueInv'
  BY <1>4, RunIsLocal DEF QueueInv, Held
<1>5. CASE UNCHANGED jobVars
  BY <1>5 DEF jobVars, QueueInv
<1>6. QED
  BY <1>1, <1>2, <1>3, <1>4, <1>5 DEF Next

\* No job is ever held by two workers.
LEMMA HoldInvInductive == TypeOK /\ QueueInv /\ HoldInv /\ [Next]_jobVars => HoldInv'
<1> SUFFICES ASSUME TypeOK, QueueInv, HoldInv, [Next]_jobVars
             PROVE  HoldInv'
    OBVIOUS
<1> USE IdleAssumption DEF TypeOK, Goto, Release, HoldInv, OneWorkerPerJob
<1>1. ASSUME NEW j \in Jobs, Request(j)
      PROVE  HoldInv'
  BY <1>1 DEF Request, enqueue, delay, delay_fails, delete, Held
<1>2. ASSUME NEW w \in Workers, Take(w)
      PROVE  HoldInv'
  <2>1. Head(queue) \in Jobs /\ stage[Head(queue)] = "queued"
    BY <1>2 DEF Take, QueueInv
  <2>2. \A v \in Workers : busy[v] # Head(queue)
    BY <2>1 DEF Held
  <2>3. QED
    BY <1>2, <2>1, <2>2 DEF Take, Held
<1>3. ASSUME NEW w \in Workers, Crash(w)
      PROVE  HoldInv'
  BY <1>3 DEF Crash
<1>4. ASSUME NEW w \in Workers, NEW j \in Jobs, Run(w, j)
      PROVE  HoldInv'
  BY <1>4, RunIsLocal
<1>5. CASE UNCHANGED jobVars
  BY <1>5 DEF jobVars
<1>6. QED
  BY <1>1, <1>2, <1>3, <1>4, <1>5 DEF Next

\* IInv holds in every reachable state.
THEOREM Invariance == Spec => []IInv
<1>1. IInv /\ [Next]_jobVars => IInv'
  BY TypeOKInductive, RowInvInductive, QueueInvInductive, HoldInvInductive DEF IInv
<1>2. QED
  BY <1>1, InitIInv, PTL DEF Spec

-----------------------------------------------------------------------------
\* However a job's function ended, its row is terminal or deleted.
THEOREM EndedJobsAreOver == Spec => []EndedIsOver
<1>1. IInv => EndedIsOver
  BY DEF IInv, RowInv, RowInvOf, EndedIsOver
<1>2. QED
  BY <1>1, Invariance, PTL

\* No two workers run one job.
THEOREM JobsAreNotShared == Spec => []OneWorkerPerJob
<1>1. IInv => OneWorkerPerJob
  BY DEF IInv, HoldInv
<1>2. QED
  BY <1>1, Invariance, PTL

\* One step only moves a row's status onward.
LEMMA StepEscalates ==
    ASSUME IInv, Next, NEW i \in Jobs, Present(row[i]), Present(row'[i])
    PROVE  <<row[i].status, row'[i].status>> \in Onward
<1> USE RowTypes DEF IInv, TypeOK, RowInv, RowInvOf, Goto, save, mark, Release, Holds, Held
<1> DEFINE Unmoved == row'[i] = row[i]
<1>0. row[i] \in Row /\ row[i].status \in Status
  BY DEF Row, Present
<1>1. Unmoved => <<row[i].status, row'[i].status>> \in Onward
  BY <1>0 DEF Onward, Status, Terminal
<1>2. ASSUME NEW j \in Jobs, Request(j)
      PROVE  Unmoved
  BY <1>2 DEF Request, enqueue, delay, delay_fails, delete
<1>3. ASSUME NEW w \in Workers, Take(w) \/ Crash(w)
      PROVE  Unmoved
  BY <1>3 DEF Take, Crash
<1>4. ASSUME NEW w \in Workers, NEW j \in Jobs, Run(w, j), ~Unmoved
      PROVE  <<row[i].status, row'[i].status>> \in Onward
  <2>1. i = j /\ row[i] = copy[i] /\ copy[i] \in Row
    BY <1>4 DEF Run, cancel, mark_running, log, mark_completed, mark_failed, except, Return,
       raise, handler_fetch, handler_not_found, mark_errored
  <2>2. \A s \in Status : set_status(copy[j], s) \in Row /\ set_status(copy[j], s).status = s
    BY <2>1, SetStatusType
  <2>3. CASE cancel(w, j)
    BY <2>1, <2>2, <2>3 DEF cancel, Pending, Status, Terminal, Onward
  <2>4. CASE mark_running(w, j)
    BY <2>1, <2>2, <2>4 DEF mark_running, Pending, Status, Terminal, Onward
  <2>5. CASE mark_completed(w, j)
    BY <2>1, <2>2, <2>5 DEF mark_completed, Status, Terminal, Onward
  <2>6. CASE mark_failed(w, j)
    BY <2>1, <2>2, <2>6 DEF mark_failed, Status, Terminal, Onward
  <2>7. CASE except(w, j)
    BY <2>1, <2>2, <2>7 DEF except, Status, Terminal, Onward
  <2>8. CASE mark_errored(w, j)
    <3>1. row'[i].status = "ERRORED"
      BY <2>1, <2>2, <2>8 DEF mark_errored, Status
    <3>2. QED
      BY <3>1, <1>0 DEF Onward, Status, Terminal
  <2>9. CASE log(w, j) \/ Return(w, j) \/ raise(w, j) \/ handler_fetch(w, j)
               \/ handler_not_found(w, j)
    BY <1>4, <2>1, <2>9 DEF log, Return, raise, handler_fetch, handler_not_found
  <2>10. QED
    BY <1>4, <2>3, <2>4, <2>5, <2>6, <2>7, <2>8, <2>9 DEF Run
<1>5. QED
  BY <1>1, <1>2, <1>3, <1>4 DEF Next

\* A job's status is never overwritten by an earlier or a milder one.
THEOREM StatusEscalates == Spec => StatusOnlyEscalates
<1>1. IInv /\ [Next]_jobVars
        => [\A j \in Jobs : Present(row[j]) /\ Present(row'[j])
                                => <<row[j].status, row'[j].status>> \in Onward]_jobVars
  BY StepEscalates
<1>2. QED
  BY <1>1, Invariance, PTL DEF Spec, StatusOnlyEscalates

-----------------------------------------------------------------------------
(* Pages *)

\* What the page last saw of job j, if it saw anything, is behind the copy.
PageInvOf(j) ==
    /\ row[j] \in {Absent, copy[j]}
    /\ stage[j] # "absent" => Present(copy[j])
    /\ loop[j] \in {"answered", "over"} =>
           /\ stage[j] # "absent"
           /\ Present(seen[j])
           /\ <<seen[j].status, copy[j].status>> \in Onward
    /\ loop[j] = "over" => is_over(seen[j])

PageTypes == loop \in [Jobs -> Loops] /\ seen \in [Jobs -> Row]

PageInv == PageTypes /\ \A j \in Jobs : PageInvOf(j)

LEMMA ScriptsType ==
    \A p \in DOMAIN Scripts :
        /\ Scripts[p].shape \in Functions
        /\ Scripts[p].refused \in {"nothing", "alert", "failed"}
        /\ Scripts[p].cut \in {"nothing", "reset", "alert", "failed"}
        /\ Scripts[p].ends \in {"alert", "label"}
BY DEF Scripts, Script, Functions

LEMMA OnwardIsAnOrder ==
    /\ \A s \in Status : <<s, s>> \in Onward
    /\ \A s, t, u : <<s, t>> \in Onward /\ <<t, u>> \in Onward => <<s, u>> \in Onward
BY DEF Onward, Status, Terminal

\* No step of a page does to the jobs what JobLifecycle does not do.
LEMMA PageStepIsJobStep ==
    ASSUME [PageNext]_pageVars, page \in Pages
    PROVE  [Next]_jobVars
<1>1. ASSUME NEW j \in Jobs, Press(j) \/ PressDeploy(j)
      PROVE  Next
  <2>1. Scripts[page].shape \in Functions
    BY ScriptsType, PagesAssumption
  <2>2. enqueue(j, Scripts[page].shape)
    BY <1>1 DEF Press, PressDeploy, Post
  <2>3. QED
    BY <2>1, <2>2 DEF Next, Request
<1>2. ASSUME NEW j \in Jobs, Browser(j)
      PROVE  UNCHANGED jobVars
  BY <1>2 DEF Browser, Posted, PostFails, Poll, PollFails, Handle
<1>3. CloseDialog => UNCHANGED jobVars
  BY DEF CloseDialog
<1>4. UNCHANGED pageVars => UNCHANGED jobVars
  BY DEF pageVars
<1>5. QED
  BY <1>1, <1>2, <1>3, <1>4 DEF PageNext

-----------------------------------------------------------------------------
\* One step of the jobs moves a copy onward, or leaves it.
LEMMA CopyEscalates ==
    ASSUME IInv, Next, NEW i \in Jobs, stage[i] # "absent", Present(copy[i])
    PROVE  copy'[i] = copy[i] \/ <<copy[i].status, copy'[i].status>> \in Onward
<1> USE RowTypes DEF IInv, TypeOK, RowInv, RowInvOf, Goto, save, mark, Release, Holds, Held
<1>1. ASSUME NEW j \in Jobs, Request(j)
      PROVE  copy'[i] = copy[i]
  BY <1>1 DEF Request, enqueue, delay, delay_fails, delete
<1>2. ASSUME NEW w \in Workers, Take(w) \/ Crash(w)
      PROVE  copy'[i] = copy[i]
  BY <1>2 DEF Take, Crash
<1>3. ASSUME NEW w \in Workers, NEW j \in Jobs, Run(w, j), copy'[i] # copy[i]
      PROVE  <<copy[i].status, copy'[i].status>> \in Onward
  <2>1. i = j /\ copy[i] \in Row
    BY <1>3 DEF Run, cancel, mark_running, log, mark_completed, mark_failed, except, Return,
       raise, handler_fetch, handler_not_found, mark_errored
  <2>2. \A s \in Status : set_status(copy[j], s) \in Row /\ set_status(copy[j], s).status = s
    BY <2>1, SetStatusType
  <2>3. CASE cancel(w, j)
    BY <2>1, <2>2, <2>3 DEF cancel, Pending, Status, Terminal, Onward
  <2>4. CASE mark_running(w, j)
    BY <2>1, <2>2, <2>4 DEF mark_running, Pending, Status, Terminal, Onward
  <2>5. CASE mark_completed(w, j)
    BY <2>1, <2>2, <2>5 DEF mark_completed, Status, Terminal, Onward
  <2>6. CASE mark_failed(w, j)
    BY <2>1, <2>2, <2>6 DEF mark_failed, Status, Terminal, Onward
  <2>7. CASE except(w, j)
    BY <2>1, <2>2, <2>7 DEF except, Status, Terminal, Onward
  <2>8. CASE mark_errored(w, j)
    <3>1. copy'[i].status = "ERRORED"
      BY <2>1, <2>2, <2>8 DEF mark_errored, Status
    <3>2. copy[i].status \in Status
      BY <2>1 DEF Row, Present
    <3>3. QED
      BY <3>1, <3>2 DEF Onward, Status, Terminal
  <2>9. ~(log(w, j) \/ Return(w, j) \/ raise(w, j) \/ handler_fetch(w, j)
             \/ handler_not_found(w, j))
    BY <1>3, <2>1 DEF log, Return, raise, handler_fetch, handler_not_found, Present, Absent
  <2>10. QED
    BY <1>3, <2>3, <2>4, <2>5, <2>6, <2>7, <2>8, <2>9 DEF Run
<1>4. QED
  BY <1>1, <1>2, <1>3 DEF Next

\* A job that was asked for stays so, and one that is asked for starts as PENDING.
LEMMA StagesStay ==
    ASSUME IInv, Next, NEW i \in Jobs
    PROVE  /\ stage[i] # "absent" => stage'[i] # "absent"
           /\ stage[i] = "absent" /\ stage'[i] # "absent" => copy'[i] = Pending
<1> USE DEF IInv, TypeOK, Goto, save, mark, Release, Holds, Held
<1>1. ASSUME NEW j \in Jobs, Request(j)
      PROVE  /\ stage[i] # "absent" => stage'[i] # "absent"
             /\ stage[i] = "absent" /\ stage'[i] # "absent" => copy'[i] = Pending
  BY <1>1 DEF Request, enqueue, delay, delay_fails, delete
<1>2. ASSUME NEW w \in Workers, Take(w) \/ Crash(w)
      PROVE  (stage[i] = "absent") <=> (stage'[i] = "absent")
  BY <1>2 DEF Take, Crash, QueueInv, HoldInv
<1>3. ASSUME NEW w \in Workers, NEW j \in Jobs, Run(w, j)
      PROVE  (stage[i] = "absent") <=> (stage'[i] = "absent")
  BY <1>3 DEF Run, cancel, mark_running, log, mark_completed, mark_failed, except, Return,
     raise, handler_fetch, handler_not_found, mark_errored
<1>4. QED
  BY <1>1, <1>2, <1>3 DEF Next

-----------------------------------------------------------------------------
LEMMA InitPageInv == PageInit => PageInv
BY RowTypes DEF PageInit, Init, PageInv, PageTypes, PageInvOf, Loops

LEMMA PageTypesInductive ==
    ASSUME PageTypes, IInv, [PageNext]_pageVars
    PROVE  PageTypes'
<1> USE DEF PageTypes, Loops, Goes
<1>1. ASSUME NEW j \in Jobs, Press(j) \/ PressDeploy(j)
      PROVE  PageTypes'
  BY <1>1 DEF Press, PressDeploy, Post
<1>2. ASSUME NEW j \in Jobs, Posted(j) \/ PostFails(j) \/ PollFails(j)
      PROVE  PageTypes'
  BY <1>2 DEF Posted, PostFails, PollFails
<1>3. ASSUME NEW j \in Jobs, Poll(j)
      PROVE  PageTypes'
  BY <1>3 DEF Poll, IInv, TypeOK
<1>4. ASSUME NEW j \in Jobs, Handle(j)
      PROVE  PageTypes'
  BY <1>4, RowTypes DEF Handle
<1>5. CASE CloseDialog \/ UNCHANGED scriptVars
  BY <1>5 DEF CloseDialog, scriptVars
<1>6. QED
  BY <1>1, <1>2, <1>3, <1>4, <1>5 DEF PageNext, Browser, pageVars

\* A step of the jobs, while the page does nothing with job i.
LEMMA JobStepKeepsPageInv ==
    ASSUME IInv, [Next]_jobVars, NEW i \in Jobs, PageInvOf(i),
           seen'[i] = seen[i], loop'[i] = loop[i] \/ loop'[i] \notin {"answered", "over"}
    PROVE  PageInvOf(i)'
<1>1. row'[i] \in {Absent, copy'[i]}
  <2>1. ASSUME NEW j \in Jobs, Request(j)
        PROVE  row'[i] \in {Absent, copy'[i]}
    BY <2>1 DEF Request, enqueue, delay, delay_fails, delete, save, PageInvOf, IInv, TypeOK
  <2>2. ASSUME NEW w \in Workers, Take(w) \/ Crash(w)
        PROVE  row'[i] \in {Absent, copy'[i]}
    BY <2>2 DEF Take, Crash, PageInvOf
  <2>3. ASSUME NEW w \in Workers, NEW j \in Jobs, Run(w, j)
        PROVE  row'[i] \in {Absent, copy'[i]}
    BY <2>3 DEF Run, cancel, mark_running, log, mark_completed, mark_failed, except, Return,
       raise, handler_fetch, handler_not_found, mark_errored, mark, save, PageInvOf, IInv,
       TypeOK
  <2>4. QED
    BY <2>1, <2>2, <2>3 DEF Next, jobVars, PageInvOf
<1>2. stage[i] # "absent" => stage'[i] # "absent"
  BY StagesStay DEF jobVars
<1>3. stage[i] # "absent" =>
          copy'[i] = copy[i] \/ <<copy[i].status, copy'[i].status>> \in Onward
  BY CopyEscalates DEF PageInvOf, jobVars
<1>4. stage'[i] # "absent" => Present(copy'[i])
  <2>1. CASE stage[i] # "absent"
    BY <2>1, <1>3 DEF PageInvOf, Present, Onward, Status, Terminal
  <2>2. CASE stage[i] = "absent" /\ stage'[i] # "absent"
    BY <2>2, StagesStay DEF Present, Pending, jobVars
  <2>3. QED
    BY <2>1, <2>2
<1>5. loop'[i] \in {"answered", "over"} =>
          stage'[i] # "absent" /\ <<seen'[i].status, copy'[i].status>> \in Onward
  BY <1>2, <1>3, OnwardIsAnOrder DEF PageInvOf
<1>6. QED
  BY <1>1, <1>4, <1>5 DEF PageInvOf

LEMMA PageInvInductive ==
    ASSUME IInv, PageInv, page \in Pages, [PageNext]_pageVars
    PROVE  PageInv'
<1>1. PageTypes' /\ [Next]_jobVars
  BY PageTypesInductive, PageStepIsJobStep DEF PageInv
<1> SUFFICES ASSUME NEW i \in Jobs
             PROVE  PageInvOf(i)'
  BY <1>1 DEF PageInv
<1>2. PageInvOf(i) /\ PageTypes
  BY DEF PageInv
<1>3. ASSUME NEW j \in Jobs, Poll(j)
      PROVE  PageInvOf(i)'
  <2>1. UNCHANGED <<row, copy, stage>>
    BY <1>3 DEF Poll, jobVars
  <2>2. CASE i = j
    <3>1. Present(row[j]) /\ row[j] \in Row /\ row[j] = copy[j] /\ stage[j] # "absent"
      BY <1>2, <1>3, <2>2, RowTypes DEF Poll, PageInvOf, IInv, TypeOK, RowInv, RowInvOf
    <3>2. seen'[j] = row[j] /\ loop'[j] = "answered"
      BY <1>2, <1>3 DEF Poll, Goes, PageTypes
    <3>3. row[j].status \in Status
      BY <3>1 DEF Row, Present
    <3>4. QED
      BY <1>2, <2>1, <2>2, <3>1, <3>2, <3>3, OnwardIsAnOrder DEF PageInvOf
  <2>3. CASE i # j
    <3>1. seen'[i] = seen[i] /\ loop'[i] = loop[i]
      BY <1>2, <1>3, <2>3 DEF Poll, Goes, PageTypes
    <3>2. QED
      BY <1>2, <2>1, <3>1 DEF PageInvOf
  <2>4. QED
    BY <2>2, <2>3
<1>4. ASSUME NEW j \in Jobs, Handle(j)
      PROVE  PageInvOf(i)'
  <2>1. UNCHANGED <<row, copy, stage>>
    BY <1>4 DEF Handle, jobVars
  <2>2. CASE i = j /\ seen[j].status \in {"PENDING", "RUNNING"}
    <3>1. loop'[i] = "polling"
      BY <1>2, <1>4, <2>2 DEF Handle, Goes, PageTypes
    <3>2. QED
      BY <1>2, <2>1, <3>1 DEF PageInvOf
  <2>3. CASE i = j /\ seen[j].status \notin {"PENDING", "RUNNING"}
    <3>1. loop[j] = "answered" /\ loop'[j] = "over" /\ seen'[j] = seen[j] /\ seen[j] \in Row
      BY <1>2, <1>4, <2>3 DEF Handle, Goes, PageTypes
    <3>2. is_over(seen[j])
      BY <1>2, <2>3, <3>1 DEF PageInvOf, Present, is_over, Row, Status, Terminal
    <3>3. QED
      BY <1>2, <2>1, <2>3, <3>1, <3>2 DEF PageInvOf
  <2>4. CASE i # j
    <3>1. seen'[i] = seen[i] /\ loop'[i] = loop[i]
      BY <1>2, <1>4, <2>4 DEF Handle, Goes, PageTypes
    <3>2. QED
      BY <1>2, <2>1, <3>1 DEF PageInvOf
  <2>5. QED
    BY <2>2, <2>3, <2>4
<1>5. ASSUME NEW j \in Jobs,
             Press(j) \/ PressDeploy(j) \/ Posted(j) \/ PostFails(j) \/ PollFails(j)
      PROVE  PageInvOf(i)'
  <2>1. seen'[i] = seen[i]
    BY <1>5 DEF Press, PressDeploy, Post, Posted, PostFails, PollFails
  <2>2. loop'[i] = loop[i] \/ loop'[i] \in {"posting", "polling", "lost"}
    BY <1>2, <1>5 DEF Press, PressDeploy, Post, Posted, PostFails, PollFails, Goes, PageTypes
  <2>3. QED
    BY <1>1, <1>2, <2>1, <2>2, JobStepKeepsPageInv
<1>6. CASE CloseDialog \/ UNCHANGED scriptVars
  <2>1. seen'[i] = seen[i] /\ loop'[i] = loop[i]
    BY <1>6 DEF CloseDialog, scriptVars
  <2>2. QED
    BY <1>1, <1>2, <2>1, JobStepKeepsPageInv
<1>7. QED
  BY <1>3, <1>4, <1>5, <1>6 DEF PageNext, Browser, pageVars

-----------------------------------------------------------------------------
\* Looking at jobs does nothing to them: a page and its jobs are a behaviour of
\* JobLifecycle, with all that is proved of it.
THEOREM PagesFollowTheLifecycle == PageSpec => Spec /\ [](page \in Pages)
<1>1. PageInit => Init /\ page \in Pages
  BY DEF PageInit
<1>2. page \in Pages /\ [PageNext]_pageVars => [Next]_jobVars /\ (page \in Pages)'
  <2> SUFFICES ASSUME page \in Pages, [PageNext]_pageVars
               PROVE  [Next]_jobVars /\ page' = page
    OBVIOUS
  <2>1. page' = page
    BY DEF PageNext, Press, PressDeploy, Post, Browser, Posted, PostFails, Poll, PollFails,
       Handle, CloseDialog, scriptVars, pageVars
  <2>2. QED
    BY <2>1, PageStepIsJobStep
<1>3. QED
  BY <1>1, <1>2, PTL DEF PageSpec, Spec

\* PageInv holds in every reachable state.
THEOREM PageInvariance == PageSpec => []PageInv
<1>1. PageSpec => []IInv /\ [](page \in Pages)
  BY PagesFollowTheLifecycle, Invariance, PTL
<1>2. PageInv /\ IInv /\ page \in Pages /\ [PageNext]_pageVars => PageInv'
  BY PageInvInductive
<1>3. QED
  BY <1>1, <1>2, InitPageInv, PTL DEF PageSpec

\* A page stops at a terminal status, and the row stays at that or a worse one.
THEOREM PagesStopAtTheEnd == PageSpec => []StopsAtTheEnd
<1>1. PageInv => StopsAtTheEnd
  BY RowTypes DEF PageInv, PageInvOf, StopsAtTheEnd
<1>2. QED
  BY <1>1, PageInvariance, PTL

-----------------------------------------------------------------------------
(* The button *)

\* What a page follows was asked for.
ButtonInv ==
    /\ label \in Labels
    /\ follows \in [Jobs -> {"nothing", "button", "check"}]
    /\ \A j \in Jobs : loop[j] # "none" => stage[j] # "absent"
    /\ WorkingFollowsAJob

\* Job k is a reason for the button to say Working.
Works(k) == Button(k) /\ \/ loop[k] \in Following
                         \/ loop[k] = "lost" /\ Scripts[page].cut = "nothing"

LEMMA AnnounceType ==
    ASSUME NEW h \in {"nothing", "reset", "alert", "failed"}, Announce(h), label \in Labels
    PROVE  label' \in Labels /\ (label' = "working" => label = "working" /\ h = "nothing")
BY DEF Announce, Show, Labels

LEMMA AnnounceEndType ==
    ASSUME NEW news \in {"success", "failed"}, AnnounceEnd(news)
    PROVE  label' \in Labels /\ label' # "working"
BY DEF AnnounceEnd, Show, Labels

\* Nothing happens to the button that the jobs' steps would take back.
LEMMA ButtonStep ==
    ASSUME IInv, PageInv, ButtonInv, page \in Pages, [PageNext]_pageVars
    PROVE  ButtonInv'
<1> USE DEF ButtonInv, PageInv, PageTypes, Goes
<1>1. [Next]_jobVars /\ \A k \in Jobs : stage[k] # "absent" => stage'[k] # "absent"
  BY PageStepIsJobStep, StagesStay DEF jobVars
<1>2. label = "working" => \E k \in Jobs : Works(k)
  BY DEF WorkingFollowsAJob, Works
<1>3. ASSUME label' \in Labels, follows' \in [Jobs -> {"nothing", "button", "check"}],
             \A k \in Jobs : loop'[k] # "none" => stage'[k] # "absent",
             label' = "working" => \E k \in Jobs : Works(k)'
      PROVE  ButtonInv'
  BY <1>3 DEF WorkingFollowsAJob, Works
<1>4. ASSUME NEW j \in Jobs, Press(j) \/ PressDeploy(j)
      PROVE  ButtonInv'
  <2> PICK h \in {"button", "check"} : Post(j, h)
    BY <1>4 DEF Press, PressDeploy
  <2>1. /\ stage[j] = "absent" /\ stage'[j] # "absent"
        /\ follows' = [follows EXCEPT ![j] = h]
        /\ loop' = [loop EXCEPT ![j] = "posting"] /\ UNCHANGED <<page, label>>
    BY DEF Post, enqueue, Goto, buttonVars, IInv, TypeOK
  <2>2. ASSUME NEW k \in Jobs, Works(k)
        PROVE  Works(k)'
    <3>1. k # j
      BY <2>1, <2>2 DEF Works, Following
    <3>2. QED
      BY <2>1, <2>2, <3>1 DEF Works, Button
  <2>3. QED
    BY <1>1, <1>2, <1>3, <2>1, <2>2
<1>5. ASSUME NEW j \in Jobs, Browser(j)
      PROVE  UNCHANGED <<follows, page, stage>> /\ \A k \in Jobs \ {j} : loop'[k] = loop[k]
  BY <1>5 DEF Browser, Posted, PostFails, Poll, PollFails, Handle, jobVars
<1>6. ASSUME NEW j \in Jobs, Browser(j)
      PROVE  \A k \in Jobs : loop'[k] # "none" => stage'[k] # "absent"
  BY <1>5, <1>6 DEF Browser, Posted, PostFails, Poll, PollFails, Handle, Following
<1>7. ASSUME NEW j \in Jobs, Browser(j), label' \in Labels,
             label' = "working" => Works(j)' \/ (label = "working" /\ ~Works(j))
      PROVE  ButtonInv'
  <2>1. ASSUME NEW k \in Jobs, Works(k), k # j
        PROVE  Works(k)'
    BY <1>5, <1>7, <2>1 DEF Works, Button
  <2>2. label' = "working" => \E k \in Jobs : Works(k)'
    BY <1>2, <1>7, <2>1
  <2>3. QED
    BY <1>3, <1>5, <1>6, <1>7, <2>2
<1>8. ASSUME NEW j \in Jobs, Posted(j)
      PROVE  ButtonInv'
  <2>1. CASE Button(j)
    BY <1>7, <1>8, <2>1 DEF Browser, Posted, Show, Works, Button, Following, Labels
  <2>2. CASE ~Button(j)
    BY <1>7, <1>8, <2>2 DEF Browser, Posted, Works
  <2>3. QED
    BY <2>1, <2>2
<1>9. ASSUME NEW j \in Jobs, PostFails(j)
      PROVE  ButtonInv'
  <2>1. loop[j] = "posting" /\ ~Works(j)
    BY <1>9 DEF PostFails, Works, Following
  <2>2. Scripts[page].refused \in {"nothing", "reset", "alert", "failed"}
    BY ScriptsType, PagesAssumption
  <2>3. label' \in Labels /\ (label' = "working" => label = "working")
    BY <1>9, <2>2, AnnounceType DEF PostFails, Show
  <2>4. QED
    BY <1>7, <1>9, <2>1, <2>3 DEF Browser
<1>10. ASSUME NEW j \in Jobs, Poll(j)
       PROVE  ButtonInv'
  <2>1. UNCHANGED <<label, follows, page>> /\ loop[j] = "polling" /\ loop'[j] = "answered"
    BY <1>10 DEF Poll, buttonVars
  <2>2. Works(j) => Works(j)'
    BY <2>1 DEF Works, Button, Following
  <2>3. QED
    BY <1>7, <1>10, <2>1, <2>2 DEF Browser
<1>11. ASSUME NEW j \in Jobs, PollFails(j)
       PROVE  ButtonInv'
  <2>1. Scripts[page].cut \in {"nothing", "reset", "alert", "failed"}
    BY ScriptsType, PagesAssumption
  <2>2. /\ label' \in Labels
        /\ label' = "working" => /\ label = "working"
                                 /\ Button(j) => Scripts[page].cut = "nothing"
    BY <1>11, <2>1, AnnounceType DEF PollFails
  <2>3. loop'[j] = "lost" /\ UNCHANGED <<follows, page>>
    BY <1>11 DEF PollFails
  <2>4. Button(j) /\ Scripts[page].cut = "nothing" => Works(j)'
    BY <2>3 DEF Works, Button
  <2>5. ~Button(j) => ~Works(j)
    BY DEF Works
  <2>6. QED
    BY <1>7, <1>11, <2>2, <2>4, <2>5 DEF Browser
<1>12. ASSUME NEW j \in Jobs, Handle(j)
       PROVE  ButtonInv'
  <2>1. CASE seen[j].status \in {"PENDING", "RUNNING"}
    <3>1. /\ UNCHANGED <<label, follows, page>>
          /\ loop[j] = "answered" /\ loop'[j] = "polling"
      BY <1>12, <2>1 DEF Handle
    <3>2. Works(j) => Works(j)'
      BY <3>1 DEF Works, Button, Following
    <3>3. QED
      BY <1>7, <1>12, <3>1, <3>2 DEF Browser
  <2>2. CASE seen[j].status \notin {"PENDING", "RUNNING"}
    <3>1. Ended(j)
      BY <1>12, <2>2 DEF Handle
    <3>2. Button(j) => label' \in Labels /\ label' # "working"
      BY <3>1, AnnounceEndType DEF Ended
    <3>3. ~Button(j) => label' = label /\ ~Works(j)
      BY <3>1 DEF Ended, Show, Works
    <3>4. QED
      BY <1>7, <1>12, <3>2, <3>3 DEF Browser
  <2>3. QED
    BY <2>1, <2>2
<1>13. CASE CloseDialog
  <2>1. label' = "ready" /\ UNCHANGED <<follows, loop, stage>>
    BY <1>13 DEF CloseDialog, jobVars
  <2>2. QED
    BY <1>3, <2>1 DEF Labels
<1>14. CASE UNCHANGED scriptVars
  <2>1. UNCHANGED <<label, follows, loop, page>>
    BY <1>14 DEF scriptVars, buttonVars
  <2>2. \A k \in Jobs : Works(k) => Works(k)'
    BY <2>1 DEF Works, Button
  <2>3. QED
    BY <1>1, <1>2, <1>3, <2>1, <2>2
<1>15. QED
  BY <1>4, <1>8, <1>9, <1>10, <1>11, <1>12, <1>13, <1>14 DEF PageNext, Browser, pageVars

\* A button says Working only while its page still follows a job, or has lost it and
\* has no failHandler to say so.
THEOREM WorkingButtonsFollowAJob == PageSpec => []WorkingFollowsAJob
<1>1. PageSpec => []IInv /\ []PageInv /\ [](page \in Pages)
  BY PagesFollowTheLifecycle, Invariance, PageInvariance, PTL
<1>2. PageInit => ButtonInv
  BY DEF PageInit, ButtonInv, Labels, WorkingFollowsAJob
<1>3. ButtonInv /\ IInv /\ PageInv /\ page \in Pages /\ [PageNext]_pageVars => ButtonInv'
  BY ButtonStep
<1>4. ButtonInv => WorkingFollowsAJob
  BY DEF ButtonInv
<1>5. QED
  BY <1>1, <1>2, <1>3, <1>4, PTL DEF PageSpec

=============================================================================
