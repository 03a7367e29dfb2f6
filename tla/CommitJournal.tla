--------------------------- MODULE CommitJournal ---------------------------
(***************************************************************************)
(* What change logging promises: the change log and RQ hear of what was    *)
(* committed.  The rows of a request change when it commits, and with them *)
(* the log, which then has at most one entry for each of them, of its new  *)
(* value.  RQ is told once, when the request is over: of each committed    *)
(* row, once, what was committed and what the log says, and of nothing     *)
(* else unless the view failed.  If Redis is gone, some of it is missing.  *)
(*                                                                         *)
(* Saves, tags, locks, snapshots and the queue in memory are no concern of *)
(* it.  ChangeLogging implements this specification.                       *)
(***************************************************************************)
CONSTANTS
    Objects, Requests,
    Rows,      \* what a row may be, or that there is none
    Untouched  \* no row

VARIABLES
    db,      \* db[o]: the committed row
    log,     \* the entries of the change log
    rq,      \* the webhooks RQ was given
    state,   \* state[r]: whether request r is at work, and how it ended
    pending  \* pending[r][o]: the row r committed, and nobody was told yet

journalVars == <<db, log, rq, state, pending>>

Nothing == [o \in Objects |-> Untouched]

Touched(w) == {o \in Objects : w[o] # Untouched}

\* What is said of an object is what became of it.
True(x, w) == x.post.value = w[x.object].value

OnePerObject(S) == \A x, y \in S : x.object = y.object => x = y

\* Rows that r had not committed; it may have committed others before.
Commit(r) ==
    LET new  == pending'[r]
        rows == Touched(new) \ Touched(pending[r])
    IN  /\ state[r] = "open"
        /\ state'[r] = "done" \/ new # pending[r]
        /\ \A o \in Touched(pending[r]) : new[o] = pending[r][o]
        /\ \A o \in rows : new[o] \in Rows
        /\ pending' = [pending EXCEPT ![r] = new]
        /\ db' = [o \in Objects |-> IF o \in rows THEN new[o] ELSE db[o]]
        /\ log \subseteq log'
        /\ OnePerObject(log' \ log)
        /\ \A c \in log' \ log : c.request = r /\ c.object \in rows /\ True(c, new)
        /\ state' \in {state, [state EXCEPT ![r] = "done"]}
        /\ UNCHANGED rq

\* The view ends with an error; a transaction that is open is rolled back.
Fail(r) ==
    /\ state[r] = "open"
    /\ state' = [state EXCEPT ![r] = "failed"]
    /\ UNCHANGED <<db, log, rq, pending>>

\* What RQ may be given of a request; webhooks of what was not committed only if
\* its view failed.
Told(r, hooks) ==
    /\ OnePerObject(hooks)
    /\ \A e \in hooks :
        /\ e.request = r
        /\ e.object \in Touched(pending[r]) => True(e, pending[r])
        /\ state[r] = "done" => e.object \in Touched(pending[r])
        /\ \A c \in log : c.request = r /\ c.object = e.object => c.post = e.post

Tell(r, s) ==
    /\ state[r] \in {"done", "failed"}
    /\ rq \subseteq rq' /\ Told(r, rq' \ rq)
    /\ state'   = [state   EXCEPT ![r] = s]
    /\ pending' = [pending EXCEPT ![r] = Nothing]
    /\ UNCHANGED <<db, log>>

TellAll(r) ==
    /\ \A o \in Touched(pending[r]) : \E e \in rq' \ rq : e.object = o
    /\ Tell(r, "told")

\* Redis is gone.
TellSome(r) == Tell(r, "lost")

Init ==
    /\ db \in [Objects -> Rows]
    /\ log = {} /\ rq = {}
    /\ state   = [r \in Requests |-> "open"]
    /\ pending = [r \in Requests |-> Nothing]

Next ==
    \E r \in Requests :
        \/ Commit(r)
        \/ Fail(r)
        \/ TellAll(r) \/ TellSome(r)

Spec == Init /\ [][Next]_journalVars

\* The webhooks and the change log never disagree about an object of a request.
LogAndWebhooksAgree ==
    \A c \in log, e \in rq : c.request = e.request /\ c.object = e.object => c.post = e.post

=============================================================================
