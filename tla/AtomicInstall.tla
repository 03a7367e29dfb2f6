--------------------------- MODULE AtomicInstall ---------------------------
(***************************************************************************)
(* What Router.set_napalm_configuration() and its callers promise whoever  *)
(* asks for a configuration, without sessions, candidates, comparisons and *)
(* second calls: a task makes the device run a text in one step, at most   *)
(* once, only if it was asked to, and before it tells.  A job tells        *)
(* whether it did; the command, asked to deploy, says that it failed only  *)
(* if it did not, and success otherwise or even then.  What no task knows  *)
(* is what became of a commit that raised.                                 *)
(*                                                                         *)
(* RouterInstall implements this specification.                            *)
(***************************************************************************)
CONSTANTS
    Tasks,  \* the jobs and commands
    Texts,  \* configurations
    None    \* no text

VARIABLES
    running,    \* the configuration of the device
    asked,      \* asked[t]: what task t was asked to do
    installed,  \* installed[t]: the text it made the device run
    doubtful,   \* the tasks whose commit raised
    told        \* told[t]: what it reported

installVars == <<running, asked, installed, doubtful, told>>

\* Jobs compare or install, the command deploys.
Asks == {"compare", "install", "deploy"}

Ask(t, a) ==
    /\ asked[t] = "nothing"
    /\ asked' = [asked EXCEPT ![t] = a]
    /\ UNCHANGED <<running, installed, doubtful, told>>

\* Task t has yet to commit.
Pending(t) == asked[t] \in {"install", "deploy"} /\ installed[t] = None /\ told[t] = "nothing"

Install(t, c) ==
    /\ Pending(t)
    /\ running'   = c
    /\ installed' = [installed EXCEPT ![t] = c]
    /\ doubtful' \in {doubtful, doubtful \cup {t}}
    /\ UNCHANGED <<asked, told>>

\* The commit raises and had no effect.
Doubt(t) ==
    /\ Pending(t)
    /\ doubtful' = doubtful \cup {t}
    /\ UNCHANGED <<running, asked, installed, told>>

Installed(t) == installed[t] # None /\ t \notin doubtful

\* What task t may say of it.
Words(t) ==
    IF asked[t] = "deploy"
    THEN {"success"} \cup {w \in {"failed"} : ~Installed(t)}
    ELSE {IF Installed(t) THEN "installed" ELSE "not_installed"}

Tell(t) ==
    /\ asked[t] # "nothing" /\ told[t] = "nothing"
    /\ \E w \in Words(t) : told' = [told EXCEPT ![t] = w]
    /\ UNCHANGED <<running, asked, installed, doubtful>>

\* Somebody else configures the device.
Elsewhere ==
    /\ running' \in Texts
    /\ UNCHANGED <<asked, installed, doubtful, told>>

Init ==
    /\ running \in Texts
    /\ asked     = [t \in Tasks |-> "nothing"]
    /\ installed = [t \in Tasks |-> None]
    /\ doubtful  = {}
    /\ told      = [t \in Tasks |-> "nothing"]

Next ==
    \/ \E t \in Tasks :
        \/ \E a \in Asks : Ask(t, a)
        \/ \E c \in Texts : Install(t, c)
        \/ Doubt(t)
        \/ Tell(t)
    \/ Elsewhere

Spec == Init /\ [][Next]_installVars
=============================================================================
