------------------------------ MODULE JobPage ------------------------------
(***************************************************************************)
(* The pages that ask for a background job and follow it: the scripts of   *)
(* the templates, with the buttons and PeeringManager.pollJob() of         *)
(* base.js, on top of the jobs of JobLifecycle.                            *)
(*                                                                         *)
(* A page posts its request and, from the answer on, polls the row every   *)
(* two seconds: the server reads the row, and its answer is handled later, *)
(* when the row may have moved on.  A request may be cut off, and the row  *)
(* may be gone: then a page calls the handler it has for that, if it has   *)
(* one.  Until the answer to the post has come a button can be pressed     *)
(* again: one page may follow several jobs.                                *)
(*                                                                         *)
(* On the page of a configuration #deploy posts a check of the changes and *)
(* opens a dialog; the button modelled is #commit in it, which appears     *)
(* when a check finds differences and which closing the dialog resets.     *)
(*                                                                         *)
(* Colours and wording are left out.  With page = "closed" nobody looks,   *)
(* and the behaviours are those of JobLifecycle.                           *)
(***************************************************************************)
EXTENDS JobLifecycle

CONSTANTS
    Pages,       \* the pages looked at, of Scripts
    PageWorkers, \* bound: the workers that run while a page is open
    MaxCuts      \* bound: requests that are cut off

VARIABLES
    page,    \* the page that is open
    label,   \* what its button says; only a ready one can be pressed
    shown,   \* is the button visible
    dialog,  \* is the dialog of the configuration page open
    alerts,  \* what alerts have told: "success", "failed"
    follows, \* follows[j]: the handler job j is followed with, or "nothing"
    loop,    \* loop[j]: how far the page has come with job j
    seen,    \* seen[j]: the answer the page is handling, or stopped at
    cuts

buttonVars == <<label, shown, dialog, alerts>>
scriptVars == <<page, buttonVars, follows, loop, seen, cuts>>
pageVars   == <<jobVars, scriptVars>>

(***************************************************************************)
(* shape    of the job function that is asked for                          *)
(* refused  what the .fail() of the post does                              *)
(* cut      what the failHandler of pollJob() does: nothing, reset the     *)
(*          button, reset it and raise an alert, or say failed             *)
(* ends     how the end of a job is announced: in an alert, with the       *)
(*          button reset, or on the button, which stays disabled           *)
(***************************************************************************)
Script(s, r, c, e) == [shape |-> s, refused |-> r, cut |-> c, ends |-> e]

Scripts ==
    [synchronise |-> Script("sync",   "nothing", "reset",   "alert"),
     ping        |-> Script("router", "nothing", "reset",   "alert"),
     poll        |-> Script("router", "alert",   "alert",   "alert"),
     import      |-> Script("plain",  "failed",  "failed",  "label"),
     push        |-> Script("push",   "nothing", "nothing", "label"),
     render      |-> Script("plain",  "failed",  "nothing", "label"),
     closed      |-> Script("plain",  "nothing", "nothing", "label"),
     deploy      |-> Script("router", "nothing", "failed",  "label")]

ASSUME PagesAssumption ==
    Pages \subseteq DOMAIN Scripts /\ PageWorkers \subseteq Workers /\ MaxCuts \in Nat

Labels == {"ready", "working", "success", "failed"}
Loops  == {"none", "posting", "polling", "answered", "over", "lost"}
Following == {"polling", "answered"}

Button(j) == follows[j] = "button"
Check(j)  == follows[j] = "check"

-----------------------------------------------------------------------------
(* The buttons *)

\* setWorkingButton(), setFailedButton(), setSuccessButton() and their outlined
\* forms, the reset...Button() functions and the alerts of the templates.
Show(l, news) == label' = l /\ alerts' = alerts \cup news

Announce(handler) ==
    CASE handler = "nothing" -> Show(label, {})
      [] handler = "reset"   -> Show("ready", {})
      [] handler = "alert"   -> Show("ready", {"failed"})
      [] handler = "failed"  -> Show("failed", {})

AnnounceEnd(news) ==
    IF Scripts[page].ends = "alert" THEN Show("ready", {news}) ELSE Show(news, {})

Goes(j, l) == loop' = [loop EXCEPT ![j] = l]

-----------------------------------------------------------------------------
(* Asking *)

Post(j, handler) ==
    /\ enqueue(j, Scripts[page].shape)
    /\ follows' = [follows EXCEPT ![j] = handler]
    /\ Goes(j, "posting")
    /\ UNCHANGED <<page, buttonVars, seen, cuts>>

\* A configuration is rendered once, when its page is loaded.
Press(j) ==
    /\ label = "ready" /\ shown /\ page # "closed"
    /\ page = "deploy" => dialog
    /\ page = "render" => \A k \in Jobs : loop[k] = "none"
    /\ Post(j, "button")

PressDeploy(j) ==
    /\ page = "deploy" /\ ~dialog
    /\ Post(j, "check")

Posted(j) ==
    /\ loop[j] = "posting" /\ stage[j] \notin {"created", "dropped"}
    /\ IF Button(j)
       THEN Show("working", {}) /\ UNCHANGED dialog
       ELSE dialog' = TRUE /\ UNCHANGED <<label, alerts>>
    /\ Goes(j, "polling")
    /\ UNCHANGED <<jobVars, page, shown, follows, seen, cuts>>

\* The task could not be queued, or the answer is lost.
Cut(reason) ==
    \/ reason /\ UNCHANGED cuts
    \/ ~reason /\ cuts < MaxCuts /\ cuts' = cuts + 1

PostFails(j) ==
    /\ loop[j] = "posting"
    /\ Cut(stage[j] = "dropped")
    /\ IF Button(j)
       THEN Announce(Scripts[page].refused) /\ UNCHANGED dialog
       ELSE Show(label, {}) /\ dialog' = TRUE
    /\ Goes(j, "lost")
    /\ UNCHANGED <<jobVars, page, shown, follows, seen>>

-----------------------------------------------------------------------------
(* Following *)

\* pollJob(): the server reads the row.
Poll(j) ==
    /\ loop[j] = "polling"
    /\ Present(row[j])
    /\ seen' = [seen EXCEPT ![j] = row[j]]
    /\ Goes(j, "answered")
    /\ UNCHANGED <<jobVars, page, buttonVars, follows, cuts>>

PollFails_keeps_the_button(j) ==
    /\ loop[j] \in Following
    /\ Cut(loop[j] = "polling" /\ ~Present(row[j]))
    /\ Goes(j, "lost")
    /\ UNCHANGED <<jobVars, page, buttonVars, follows, seen>>

\* The row is gone, or the answer is lost; a check has no failHandler.
PollFails(j) ==
    /\ loop[j] \in Following
    /\ Cut(loop[j] = "polling" /\ ~Present(row[j]))
    /\ Announce(IF Button(j) THEN Scripts[page].cut ELSE "nothing")
    /\ Goes(j, "lost")
    /\ UNCHANGED <<jobVars, page, shown, dialog, follows, seen>>

\* The doneHandler of a button, and checkDoneHandler(): differences, which a job
\* that ran may have found, uncover the button.
Ended(j) ==
    IF seen[j].status = "COMPLETED"
    THEN IF Button(j)
         THEN AnnounceEnd("success") /\ UNCHANGED shown
         ELSE shown' \in {shown, shown \/ seen[j].started} /\ Show(label, {})
    ELSE /\ IF Button(j) THEN AnnounceEnd("failed") ELSE Show(label, {})
         /\ UNCHANGED shown

Handle_pending_only(j) ==
    /\ loop[j] = "answered"
    /\ IF seen[j].status = "PENDING"
       THEN /\ Goes(j, "polling")
            /\ seen' = [seen EXCEPT ![j] = Absent]
            /\ UNCHANGED <<label, shown, alerts>>
       ELSE Ended(j) /\ Goes(j, "over") /\ UNCHANGED seen
    /\ UNCHANGED <<jobVars, page, dialog, follows, cuts>>

Handle(j) ==
    /\ loop[j] = "answered"
    /\ IF seen[j].status \in {"PENDING", "RUNNING"}
       THEN /\ Goes(j, "polling")
            /\ seen' = [seen EXCEPT ![j] = Absent]
            /\ UNCHANGED <<label, shown, alerts>>
       ELSE Ended(j) /\ Goes(j, "over") /\ UNCHANGED seen
    /\ UNCHANGED <<jobVars, page, dialog, follows, cuts>>

\* "When the modal is closed, reset the button back to its defaults"
CloseDialog ==
    /\ dialog
    /\ dialog' = FALSE
    /\ label' = "ready" /\ shown' = FALSE
    /\ UNCHANGED <<jobVars, page, alerts, follows, loop, seen, cuts>>

-----------------------------------------------------------------------------
PageInit ==
    /\ Init
    /\ page \in Pages
    /\ label = "ready" /\ shown = (page # "deploy") /\ dialog = FALSE
    /\ alerts = {}
    /\ follows = [j \in Jobs |-> "nothing"]
    /\ loop = [j \in Jobs |-> "none"]
    /\ seen = [j \in Jobs |-> Absent]
    /\ cuts = 0

\* What the browser does by itself.
Browser(j) == Posted(j) \/ PostFails(j) \/ Poll(j) \/ PollFails(j) \/ Handle(j)

Runs(w) == page = "closed" \/ w \in PageWorkers

\* Bound: while a page is open the jobs are its own, and PageWorkers run them.
InBounds ==
    /\ page # "closed" => \A j \in Jobs : stage'[j] = "absent" <=> stage[j] = "absent"
    /\ \A w \in Workers : Runs(w) \/ busy'[w] = busy[w]

PageNext ==
    \/ \E j \in Jobs : Press(j) \/ PressDeploy(j) \/ Browser(j)
    \/ CloseDialog
    \/ Next /\ UNCHANGED scriptVars /\ InBounds

\* Requests are answered and timers fire while the page is open; the jobs are
\* scheduled as in FairSpec of JobLifecycle.
PageSpec ==
    /\ PageInit /\ [][PageNext]_pageVars
    /\ \A j \in Jobs : WF_jobVars(delay(j) \/ delay_fails(j)) /\ WF_pageVars(Browser(j))
    /\ \A w \in Workers : WF_jobVars(Progress(w) /\ Runs(w))

-----------------------------------------------------------------------------
(* Properties *)

\* Every variable of the page keeps to its values, only a page with the dialog
\* follows a check, and what is handled is a row that was there.
PageTypeOK ==
    /\ page \in Pages /\ label \in Labels /\ shown \in BOOLEAN /\ dialog \in BOOLEAN
    /\ alerts \subseteq {"success", "failed"}
    /\ follows \in [Jobs -> {"nothing", "button", "check"}] /\ loop \in [Jobs -> Loops]
    /\ seen \in [Jobs -> Row] /\ cuts \in 0..MaxCuts
    /\ \A j \in Jobs :
        /\ Check(j) => page = "deploy"
        /\ loop[j] \in {"answered", "over"} => Present(seen[j])

\* A button says Working, and refuses to be pressed, only while the page still
\* follows one of its jobs, whatever was pressed twice, cut off, deleted or closed
\* before; a page whose pollJob() has no failHandler may have lost it instead.
WorkingFollowsAJob ==
    label = "working" =>
        \E j \in Jobs : Button(j) /\ \/ loop[j] \in Following
                                     \/ loop[j] = "lost" /\ Scripts[page].cut = "nothing"

\* A page stops following a job at a status that nobody takes back: its row is
\* over, at that status or at a worse one, whatever workers and the exception
\* handler write after the server has read it.
StopsAtTheEnd ==
    \A j \in Jobs : loop[j] = "over" =>
        /\ is_over(seen[j])
        /\ Present(row[j]) => <<seen[j].status, row[j].status>> \in Onward

\* A button that says Working comes to say something else, unless the worker of
\* a job was killed or a page without failHandler lost the job it follows.
ButtonSettles ==
    label = "working" ~>
        \/ label # "working"
        \/ \E j \in Jobs : \/ stage[j] = "lost"
                           \/ loop[j] = "lost" /\ Scripts[page].cut = "nothing"

\* "Configuration saved", "Successfully connected to the router.": what a page
\* announces as a success was done by a job it asked for by that button, that ran.
SuccessMeansItRan ==
    label = "success" \/ "success" \in alerts =>
        \E j \in Jobs : Button(j) /\ loop[j] = "over"
                        /\ seen[j].status = "COMPLETED" /\ seen[j].started

=============================================================================
