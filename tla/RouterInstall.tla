--------------------------- MODULE RouterInstall ---------------------------
(***************************************************************************)
(* Installing a configuration on a router: Router.render_configuration()   *)
(* and Router.set_napalm_configuration(), called by the job of the same    *)
(* name and by the command configure_routers, on one router.               *)
(*                                                                         *)
(* A task works on the Router instance it was given: a job on the one      *)
(* pickled when it was enqueued, the command on the one its query          *)
(* returned.  The template is read when it is rendered.  Tasks run at the  *)
(* same time as each other, as users and as whoever else configures the    *)
(* device.                                                                 *)
(*                                                                         *)
(* The device and its NAPALM driver are external: a rendered text is taken *)
(* to be all of the configuration, so that merging the text that runs      *)
(* changes nothing and merging another one replaces it.                    *)
(***************************************************************************)
EXTENDS Naturals

CONSTANTS
    Tasks,       \* the jobs and commands
    Texts,       \* what render_jinja2() returns: configurations and error messages
    None,        \* an empty rendering, no text
    MaxEdits,    \* bound: changes of the template, of the status, of the device
    MaxTroubles  \* bound: exceptions and dead processes

ASSUME TextsAssumption == None \notin Texts

ASSUME BoundsAssumption == MaxEdits \in Nat /\ MaxTroubles \in Nat

VARIABLES
    usable,     \* the router row passes is_usable_for_task()
    rendering,  \* what the router's template renders now
    running,    \* the configuration of the device
    kind,       \* kind[t]: what task t was asked to do
    copy,       \* copy[t]: is_usable_for_task() of the instance it was given
    pc,         \* pc[t]: what it is about to do
    text,       \* text[t]: the configuration it rendered
    commit,     \* commit[t]: the argument of the call it is in
    changes,    \* changes[t]: are there any
    error,      \* error[t]: "no", "text", or "empty" for str(e) = ""
    outcome,    \* outcome[t]: what it reported
    candidate,  \* candidate[t]: the text its session on the device has yet to drop or commit
    edits, troubles,
    checked,    \* checked[t]: the text whose changes it last looked at (history)
    matched,    \* the tasks that then found the device running their text (history)
    committed,  \* committed[t]: the text it made the device run (history)
    late,       \* the tasks whose commit raised (history)
    undiscarded \* the tasks whose discard_config() raised as well (history)

userVars == <<usable, rendering>>
callVars == <<text, commit, changes, error>>
taskVars == <<kind, copy, pc, callVars, outcome>>
history  == <<checked, matched, committed, late, undiscarded>>
vars == <<userVars, running, taskVars, candidate, edits, troubles, history>>

\* The job with commit=True and commit=False; the command, and the command with
\* --no-commit-check.
Jobs     == {"install", "dry_run"}
Kinds    == Jobs \cup {"deploy", "deploy_unchecked"}
Stages   == {"none", "render", "open", "load", "compare", "commit", "discard", "close",
             "report", "done", "dead"}
Outcomes == {"none", "cancelled", "failed", "nothing", "installed", "differences",
             "success"}
Configuration == Texts \cup {None}

Goto(t, s)   == pc' = [pc EXCEPT ![t] = s]
InCall(t)    == pc[t] \in {"load", "compare", "commit", "discard"}
End(t, o)    == Goto(t, "done") /\ outcome' = [outcome EXCEPT ![t] = o]
Fail(t)      == /\ error' = [error EXCEPT ![t] = "text"]
                /\ Goto(t, "report")
                /\ UNCHANGED outcome

-----------------------------------------------------------------------------
(* Tasks *)

\* enqueue(), or the query of the command, which no template is left out of.  With
\* --no-commit-check the only call commits.
Ask(t, k) ==
    /\ pc[t] = "none"
    /\ kind'   = [kind   EXCEPT ![t] = k]
    /\ copy'   = [copy   EXCEPT ![t] = usable]
    /\ commit' = [commit EXCEPT ![t] = k \in {"install", "deploy_unchecked"}]
    /\ Goto(t, "render")
    /\ UNCHANGED <<userVars, running, text, changes, error, outcome, candidate, edits, troubles,
                   history>>

Render_unchecked(t) ==
    /\ pc[t] = "render"
    /\ text' = [text EXCEPT ![t] = rendering]
    /\ Goto(t, "open")
    /\ UNCHANGED <<userVars, running, kind, copy, commit, changes, error, outcome, candidate,
                   edits, troubles, history>>

\* The job looks at the router before it renders; set_napalm_configuration()
\* looks at it again, and at the text.
Render(t) ==
    /\ pc[t] = "render"
    /\ IF ~copy[t] /\ kind[t] \in Jobs
       THEN End(t, "cancelled") /\ UNCHANGED <<text, error>>
       ELSE /\ text' = [text EXCEPT ![t] = rendering]
            /\ IF ~copy[t] \/ rendering = None
               THEN Fail(t)
               ELSE Goto(t, "open") /\ UNCHANGED <<error, outcome>>
    /\ UNCHANGED <<userVars, running, kind, copy, commit, changes, candidate, edits, troubles,
                   history>>

\* open_napalm_device() swallows whatever is raised.
Open(t) ==
    /\ pc[t] = "open"
    /\ \/ Goto(t, "load") /\ UNCHANGED <<error, outcome, troubles>>
       \/ /\ troubles < MaxTroubles
          /\ troubles' = troubles + 1
          /\ Fail(t)
    /\ UNCHANGED <<userVars, running, kind, copy, text, commit, changes, candidate, edits,
                   history>>

\* load_merge_candidate(): the candidate is the text.
Load(t) ==
    /\ pc[t] = "load"
    /\ Goto(t, "compare")
    /\ candidate' = [candidate EXCEPT ![t] = text[t]]
    /\ UNCHANGED <<userVars, running, kind, copy, callVars, outcome, edits, troubles, history>>

\* compare_config().  A text that merges to what runs leaves nothing in the session.
Compare(t) ==
    /\ pc[t] = "compare"
    /\ changes'   = [changes EXCEPT ![t] = running # text[t]]
    /\ checked'   = [checked EXCEPT ![t] = text[t]]
    /\ matched'   = IF running = text[t] THEN matched \cup {t} ELSE matched \ {t}
    /\ candidate' = [candidate EXCEPT ![t] = IF running = text[t] THEN None ELSE @]
    /\ Goto(t, IF ~changes'[t] THEN "close" ELSE IF commit[t] THEN "commit" ELSE "discard")
    /\ UNCHANGED <<userVars, running, kind, copy, text, commit, error, outcome, edits,
                   troubles, committed, late, undiscarded>>

\* Nothing is left to drop or commit in the session.
Drop(t) == candidate' = [candidate EXCEPT ![t] = None]

\* commit_config() succeeds.
Apply(t) ==
    /\ running'   = text[t]
    /\ committed' = [committed EXCEPT ![t] = text[t]]

Commit(t) ==
    /\ pc[t] = "commit"
    /\ Apply(t)
    /\ Drop(t)
    /\ Goto(t, "close")
    /\ UNCHANGED <<userVars, kind, copy, callVars, outcome, edits, troubles, checked, matched,
                   late, undiscarded>>

Discard_keeps_candidate(t) ==
    /\ pc[t] = "discard"
    /\ Goto(t, "close")
    /\ UNCHANGED <<userVars, running, kind, copy, callVars, outcome, candidate, edits, troubles,
                   history>>

\* discard_config()
Discard(t) ==
    /\ pc[t] = "discard"
    /\ Drop(t)
    /\ Goto(t, "close")
    /\ UNCHANGED <<userVars, running, kind, copy, callVars, outcome, edits, troubles, history>>

\* The `except Exception`: nothing has changed, whatever the exception, which may
\* have no text; a timeout of RQ is one too.  discard_config() drops the candidate
\* unless it raises as well: then what the call left there stays.
Restore_nothing(t, left) ==
    /\ Drop(t)
    /\ Goto(t, "close")
    /\ UNCHANGED <<error, changes, undiscarded>>

Restore(t, left) ==
    /\ \E e \in {"text", "empty"} : error' = [error EXCEPT ![t] = e]
    /\ changes' = [changes EXCEPT ![t] = FALSE]
    /\ \/ Drop(t) /\ UNCHANGED undiscarded
       \/ /\ \E c \in left : candidate' = [candidate EXCEPT ![t] = c]
          /\ undiscarded' = undiscarded \cup {t}
    /\ Goto(t, "close")

\* A call on the device raises.  So may commit_config() when the device has
\* applied the candidate, or a receiver of post_device_configuration.
Raise(t) ==
    /\ InCall(t)
    /\ troubles < MaxTroubles
    /\ troubles' = troubles + 1
    /\ \/ Restore(t, {candidate[t], text[t]}) /\ UNCHANGED <<running, committed>>
       \/ pc[t] = "commit" /\ Apply(t) /\ Restore(t, {None})
    /\ late' = IF pc[t] = "commit" THEN late \cup {t} ELSE late
    /\ UNCHANGED <<userVars, kind, copy, text, commit, outcome, edits, checked, matched>>

\* The call returns.  The command calls again, with commit=True and the same
\* text, when it found changes.
Close_commits_what_renders_now(t) ==
    /\ pc[t] = "close"
    /\ IF kind[t] = "deploy" /\ ~commit[t] /\ error[t] # "text" /\ changes[t]
       THEN /\ commit'  = [commit EXCEPT ![t] = TRUE]
            /\ changes' = [changes EXCEPT ![t] = FALSE]
            /\ text'    = [text EXCEPT ![t] = rendering]
            /\ Goto(t, "commit")
       ELSE Goto(t, "report") /\ UNCHANGED <<commit, changes, text>>
    /\ UNCHANGED <<userVars, running, kind, copy, error, outcome, candidate, edits, troubles,
                   history>>

Close_calls_once_more(t) ==
    /\ pc[t] = "close"
    /\ IF kind[t] = "deploy" /\ error[t] # "text" /\ changes[t]
       THEN /\ commit'  = [commit EXCEPT ![t] = TRUE]
            /\ changes' = [changes EXCEPT ![t] = FALSE]
            /\ Goto(t, "open")
       ELSE Goto(t, "report") /\ UNCHANGED <<commit, changes>>
    /\ UNCHANGED <<userVars, running, kind, copy, text, error, outcome, candidate, edits, troubles,
                   history>>

Close(t) ==
    /\ pc[t] = "close"
    /\ IF kind[t] = "deploy" /\ ~commit[t] /\ error[t] # "text" /\ changes[t]
       THEN /\ commit'  = [commit EXCEPT ![t] = TRUE]
            /\ changes' = [changes EXCEPT ![t] = FALSE]
            /\ Goto(t, "open")
       ELSE Goto(t, "report") /\ UNCHANGED <<commit, changes>>
    /\ UNCHANGED <<userVars, running, kind, copy, text, error, outcome, candidate, edits, troubles,
                   history>>

\* `if error`: an error without text is none.  The job tells of the changes it was
\* given, the command of errors alone.
Report(t) ==
    /\ pc[t] = "report"
    /\ End(t, IF error[t] = "text" THEN "failed"
              ELSE IF kind[t] \notin Jobs THEN "success"
              ELSE IF ~changes[t] THEN "nothing"
              ELSE IF commit[t] THEN "installed" ELSE "differences")
    /\ UNCHANGED <<userVars, running, kind, copy, callVars, candidate, edits, troubles, history>>

\* The process dies; the device drops the candidate with the connection.
Die(t) ==
    /\ pc[t] \notin {"none", "done", "dead"}
    /\ troubles < MaxTroubles
    /\ troubles' = troubles + 1
    /\ Goto(t, "dead")
    /\ Drop(t)
    /\ UNCHANGED <<userVars, running, kind, copy, callVars, outcome, edits, history>>

-----------------------------------------------------------------------------
(* Everybody else *)

Edit ==
    /\ edits < MaxEdits
    /\ edits' = edits + 1
    /\ UNCHANGED <<taskVars, candidate, troubles, history>>

SetStatus      == Edit /\ usable' = ~usable /\ UNCHANGED <<rendering, running>>
EditTemplate   == /\ Edit /\ \E c \in Configuration \ {rendering} : rendering' = c
                  /\ UNCHANGED <<usable, running>>
ConfigureDevice == /\ Edit /\ \E c \in Texts \ {running} : running' = c
                   /\ UNCHANGED userVars

-----------------------------------------------------------------------------
Init ==
    /\ usable = TRUE
    /\ rendering \in Texts /\ running \in Texts
    /\ kind      = [t \in Tasks |-> "dry_run"]
    /\ copy      = [t \in Tasks |-> TRUE]
    /\ pc        = [t \in Tasks |-> "none"]
    /\ text      = [t \in Tasks |-> None]
    /\ commit    = [t \in Tasks |-> FALSE]
    /\ changes   = [t \in Tasks |-> FALSE]
    /\ error     = [t \in Tasks |-> "no"]
    /\ outcome   = [t \in Tasks |-> "none"]
    /\ candidate = [t \in Tasks |-> None]
    /\ edits = 0 /\ troubles = 0
    /\ checked   = [t \in Tasks |-> None]
    /\ committed = [t \in Tasks |-> None]
    /\ matched = {} /\ late = {} /\ undiscarded = {}

Task(t) ==
    \/ \E k \in Kinds : Ask(t, k)
    \/ Render(t) \/ Open(t) \/ Load(t) \/ Compare(t) \/ Commit(t) \/ Discard(t)
    \/ Raise(t) \/ Close(t) \/ Report(t) \/ Die(t)

Next ==
    \/ \E t \in Tasks : Task(t)
    \/ SetStatus \/ EditTemplate \/ ConfigureDevice

Spec == Init /\ [][Next]_vars

-----------------------------------------------------------------------------
(* Properties *)

Types ==
    /\ usable \in BOOLEAN /\ rendering \in Configuration /\ running \in Texts
    /\ kind \in [Tasks -> Kinds] /\ copy \in [Tasks -> BOOLEAN]
    /\ pc \in [Tasks -> Stages] /\ text \in [Tasks -> Configuration]
    /\ commit \in [Tasks -> BOOLEAN] /\ changes \in [Tasks -> BOOLEAN]
    /\ error \in [Tasks -> {"no", "text", "empty"}] /\ outcome \in [Tasks -> Outcomes]
    /\ candidate \in [Tasks -> Configuration]
    /\ edits \in 0..MaxEdits /\ troubles \in 0..MaxTroubles
    /\ checked \in [Tasks -> Configuration] /\ committed \in [Tasks -> Configuration]
    /\ matched \subseteq Tasks /\ late \subseteq Tasks /\ undiscarded \subseteq Tasks

\* Every variable keeps to its values, and a task waits at a call on the device
\* only with a router that was usable and a text.
TypeOK == Types /\ \A t \in Tasks : InCall(t) => copy[t] /\ text[t] # None

\* What task t reported, if anything, is what happened.
ReportIsTrue(t) ==
    /\ outcome[t] = "installed" => committed[t] # None /\ committed[t] = text[t]
    /\ outcome[t] = "success" => committed[t] = text[t] \/ t \in matched \/ error[t] = "empty"
    /\ outcome[t] # "none" /\ committed[t] # None =>
           outcome[t] \in {"installed", "success"} \/ t \in late

\* What set_napalm_configuration() and its callers report is what happened.  A job
\* reports an installation only when it made the device run its text.  The command,
\* which is not told of changes, prints success only when it did or found the device
\* running the text, or when an exception without a message passed for no error.  And
\* who made the device run a text says so, unless it is the commit itself that raised.
ReportsAreTrue == \A t \in Tasks : ReportIsTrue(t)

\* Whatever raises, and in whichever call, set_napalm_configuration() closes no session
\* with a text that is neither committed nor discarded, which the next one to commit
\* there would install: unless it is discard_config() that raises in the handler.
CandidatesAreDiscarded ==
    \A t \in Tasks :
        candidate[t] # None => pc[t] \in {"compare", "commit", "discard"} \/ t \in undiscarded

\* configure_routers compares a text with the device before it commits it, in
\* the first call and in the second one, whatever users do to the template meanwhile.
CheckedBeforeCommitted ==
    \A t \in Tasks : committed[t] # None => committed[t] = checked[t]

-----------------------------------------------------------------------------
(* What the steps above are to the one who asked: see AtomicInstall. *)

AskedOf(t) ==
    IF pc[t] = "none" THEN "nothing"
    ELSE IF kind[t] \notin Jobs THEN "deploy"
    ELSE IF kind[t] = "install" THEN "install" ELSE "compare"

ToldBy(t) ==
    IF outcome[t] = "none" THEN "nothing"
    ELSE IF outcome[t] \in {"installed", "success"} THEN outcome[t]
    ELSE IF kind[t] \in Jobs THEN "not_installed" ELSE "failed"

Device == INSTANCE AtomicInstall WITH
    asked     <- [t \in Tasks |-> AskedOf(t)],
    installed <- committed,
    doubtful  <- late,
    told      <- [t \in Tasks |-> ToldBy(t)]

\* Rendering, opening, loading, comparing, committing, the second call of
\* configure_routers and every exception between them amount to one installation
\* per task, made at most once and by a task that was asked for it.  A job tells it as
\* it was; the command says failed only when it installed nothing or its commit raised.
InstallsAtomically == Device!Spec

=============================================================================
