---------------------------- MODULE RouterPoll ----------------------------
(***************************************************************************)
(* Polling the state of BGP sessions: Router.poll_bgp_sessions(), which a  *)
(* job or the command poll_bgp_sessions calls for every session of a       *)
(* router, and the poll() of one session, which its API endpoint calls.    *)
(* The neighbours are asked from the device and cached, all of them under  *)
(* one key and each one asked alone under its own.                         *)
(*                                                                         *)
(* A poll works on the Router instance pickled when its job was enqueued   *)
(* (or loaded by the command) and saves all of it.  It finds each session  *)
(* again before it saves it.  The sessions of a poll are written in one    *)
(* transaction, which ends it.  A session that does not validate, a row    *)
(* older than a validator, is passed over by the poll of all.              *)
(*                                                                         *)
(* The device is external.  It may add words to the state of a session.    *)
(* The rest of a session, prefix counts and times are left out, as are     *)
(* addresses that match two sessions or none.                              *)
(***************************************************************************)
EXTENDS Naturals

CONSTANTS
    Polls,       \* jobs and commands that poll the router
    Singles,     \* requests that poll one session
    Sessions,    \* the sessions of the router
    States,      \* members of BGPState
    Wordy,       \* what a device may say for the state Said(Wordy)
    Idle,        \* the state that Wordy begins with
    None,        \* no state, no answer, no session
    MaxChanges,  \* bound: changes of the device
    MaxEdits,    \* bound: users' changes
    MaxTroubles  \* bound: devices that do not answer, dead processes

ASSUME StatesAssumption ==
    /\ Idle \in States /\ Wordy \notin States /\ None \notin States \cup {Wordy}
    /\ Polls \cap Singles = {}
    /\ MaxChanges \in Nat /\ MaxEdits \in Nat /\ MaxTroubles \in Nat

VARIABLES
    router,    \* the row: is_usable_for_task(), poll_bgp_sessions_state, and
               \* whether poll_bgp_sessions_last_updated is set
    session,   \* session[s]: the bgp_state of the row
    device,    \* device[s]: what the device says of the session
    all,       \* the cached neighbours, Nothing if there are none
    one,       \* one[s]: the cached neighbour, or None
    pc,        \* pc[t]: what task t is about to do
    copy,      \* copy[t]: its Router instance
    target,    \* target[q]: the session request q polls
    answer,    \* answer[t]: the neighbours it was given
    refused,   \* the sessions whose rows clean_fields() refuses
    wanted,    \* what the last user left of the row (history)
    behind,    \* the polls under way whose router is older than that (history)
    lost,      \* whether one of them has been recorded since (history)
    changes, edits, troubles

edited    == <<refused, wanted, lost>>
rowVars   == <<router, session, edited>>
cacheVars == <<all, one>>
taskVars  == <<pc, copy, target, answer, behind>>
bounds    == <<changes, edits, troubles>>
vars == <<rowVars, device, cacheVars, taskVars, bounds>>

Tasks   == Polls \cup Singles
Router  == [usable: BOOLEAN, polled: BOOLEAN, stamped: BOOLEAN]
Answer  == [Sessions -> States \cup {Wordy, None}]
Nothing == [s \in Sessions |-> None]
NewRouter == [usable |-> TRUE, polled |-> TRUE, stamped |-> FALSE]

\* What a user may change of a router.
Wishes     == [usable: BOOLEAN, polled: BOOLEAN]
Choices(r) == [usable |-> r.usable, polled |-> r.polled]

\* The member of BGPState that what the device says begins with.
Said(w) == IF w = Wordy THEN Idle ELSE w

Goto(t, s) == pc' = [pc EXCEPT ![t] = s]

Done(t) ==
    /\ Goto(t, "idle")
    /\ copy'   = [copy   EXCEPT ![t] = NewRouter]
    /\ answer' = [answer EXCEPT ![t] = Nothing]
    /\ target' = [q \in Singles |-> IF q = t THEN None ELSE target[q]]
    /\ behind' = behind \ {t}

saved_without_polling(r) == [r EXCEPT !.polled = @ /\ r.stamped]

\* Router.save(): alter_router() before it.
saved(r) == [r EXCEPT !.stamped = @ /\ r.polled]

save(r) == router' = saved(r)

-----------------------------------------------------------------------------
(* Router.poll_bgp_sessions() *)

Ask(t) ==
    /\ t \in Polls /\ pc[t] = "idle"
    /\ copy' = [copy EXCEPT ![t] = router]
    /\ Goto(t, "check")
    /\ UNCHANGED <<rowVars, device, cacheVars, target, answer, behind, bounds>>

AskOne(q, s) ==
    /\ q \in Singles /\ pc[q] = "idle"
    /\ copy'   = [copy   EXCEPT ![q] = router]
    /\ target' = [target EXCEPT ![q] = s]
    /\ Goto(q, "check")
    /\ UNCHANGED <<rowVars, device, cacheVars, answer, behind, bounds>>

\* Polling is not asked for, or not possible: the task has failed, or is cancelled.
Refuse(t) ==
    /\ pc[t] = "check"
    /\ ~(copy[t].usable /\ copy[t].polled)
    /\ Done(t)
    /\ UNCHANGED <<rowVars, device, cacheVars, bounds>>

cached(t) == IF t \in Polls THEN all
             ELSE [s \in Sessions |-> IF s = target[t] THEN one[s] ELSE None]

\* get_bgp_neighbors_detail(): an answer without neighbours is not found in the cache.
ReadCache(t) ==
    /\ pc[t] = "check"
    /\ copy[t].usable /\ copy[t].polled
    /\ answer' = [answer EXCEPT ![t] = cached(t)]
    /\ Goto(t, IF cached(t) = Nothing THEN "get" ELSE "record")
    /\ UNCHANGED <<rowVars, device, cacheVars, copy, target, behind, bounds>>

\* get_napalm_bgp_neighbors_detail(); the request keeps the neighbour it looks for.
Get(t) ==
    /\ pc[t] = "get"
    /\ answer' = [answer EXCEPT ![t] = [s \in Sessions |->
            IF t \in Polls \/ s = target[t] THEN device[s] ELSE None]]
    /\ Goto(t, "store")
    /\ UNCHANGED <<rowVars, device, cacheVars, copy, target, behind, bounds>>

\* The device is not reached: that is an answer without neighbours.
Unreachable(t) ==
    /\ pc[t] = "get"
    /\ troubles < MaxTroubles
    /\ troubles' = troubles + 1
    /\ answer' = [answer EXCEPT ![t] = Nothing]
    /\ Goto(t, "store")
    /\ UNCHANGED <<rowVars, device, cacheVars, copy, target, behind, changes, edits>>

\* cache.set(), but dict(None) raises when one neighbour was looked for and is not there.
Store(t) ==
    /\ pc[t] = "store"
    /\ IF t \in Polls
       THEN all' = answer[t] /\ UNCHANGED one
       ELSE one' = [one EXCEPT ![target[t]] =
                       IF answer[t] = Nothing THEN @ ELSE answer[t][target[t]]] /\ UNCHANGED all
    /\ IF answer[t] = Nothing
       THEN Done(t)
       ELSE Goto(t, "record") /\ UNCHANGED <<copy, target, answer, behind>>
    /\ UNCHANGED <<rowVars, device, bounds>>

\* The neighbours' sessions are saved, but for those that do not validate, then the
\* router, all of it.
Record_as_told(t) ==
    /\ t \in Polls /\ pc[t] = "record"
    /\ session' = [s \in Sessions |-> IF answer[t][s] = None \/ s \in refused THEN session[s]
                                      ELSE answer[t][s]]
    /\ save([copy[t] EXCEPT !.stamped = TRUE])
    /\ lost' = (lost \/ t \in behind)
    /\ Done(t)
    /\ UNCHANGED <<refused, wanted, device, cacheVars, bounds>>

Record(t) ==
    /\ t \in Polls /\ pc[t] = "record"
    /\ session' = [s \in Sessions |-> IF answer[t][s] = None \/ s \in refused THEN session[s]
                                      ELSE Said(answer[t][s])]
    /\ save([copy[t] EXCEPT !.stamped = TRUE])
    /\ lost' = (lost \/ t \in behind)
    /\ Done(t)
    /\ UNCHANGED <<refused, wanted, device, cacheVars, bounds>>

\* poll() of the session: what the device says, in lower case; the session is not
\* validated.
RecordOne(q) ==
    /\ q \in Singles /\ pc[q] = "record"
    /\ session' = [session EXCEPT ![target[q]] = answer[q][target[q]]]
    /\ Done(q)
    /\ UNCHANGED <<router, edited, device, cacheVars, bounds>>

\* The device raises, RQ gives up, the process dies: the transaction is undone.
Abort(t) ==
    /\ pc[t] # "idle"
    /\ troubles < MaxTroubles
    /\ troubles' = troubles + 1
    /\ Done(t)
    /\ UNCHANGED <<rowVars, device, cacheVars, changes, edits>>

-----------------------------------------------------------------------------
(* Everybody else *)

\* CACHE_BGP_DETAIL_TIMEOUT has passed.
ExpireAll_never == FALSE /\ UNCHANGED vars

ExpireAll ==
    /\ all # Nothing
    /\ all' = Nothing
    /\ UNCHANGED <<rowVars, device, one, taskVars, bounds>>

ExpireOne(s) ==
    /\ one[s] # None
    /\ one' = [one EXCEPT ![s] = None]
    /\ UNCHANGED <<rowVars, device, all, taskVars, bounds>>

DeviceChanges(s, w) ==
    /\ changes < MaxChanges
    /\ changes' = changes + 1
    /\ w # device[s]
    /\ device' = [device EXCEPT ![s] = w]
    /\ UNCHANGED <<rowVars, cacheVars, taskVars, edits, troubles>>

\* A form that is loaded and saved at once.
EditRouter ==
    /\ edits < MaxEdits
    /\ edits' = edits + 1
    /\ \/ wanted' = [Choices(router) EXCEPT !.usable = ~@]
       \/ wanted' = [Choices(router) EXCEPT !.polled = ~@]
    /\ save([router EXCEPT !.usable = wanted'.usable, !.polled = wanted'.polled])
    /\ behind' = {t \in Polls : pc[t] # "idle"}
    /\ lost' = FALSE
    /\ UNCHANGED <<session, refused, device, cacheVars, pc, copy, target, answer, changes, troubles>>

\* A session whose form is saved is one that validates.
EditSession(s) ==
    /\ edits < MaxEdits
    /\ edits' = edits + 1
    /\ s \in refused
    /\ refused' = refused \ {s}
    /\ UNCHANGED <<router, session, wanted, lost, device, cacheVars, taskVars, changes, troubles>>

-----------------------------------------------------------------------------
Init ==
    /\ router   = NewRouter
    /\ session  = Nothing
    /\ device   \in [Sessions -> States]
    /\ all      = Nothing
    /\ one      = Nothing
    /\ pc       = [t \in Tasks |-> "idle"]
    /\ copy     = [t \in Tasks |-> NewRouter]
    /\ target   = [q \in Singles |-> None]
    /\ answer   = [t \in Tasks |-> Nothing]
    /\ refused  \in SUBSET Sessions
    /\ wanted = Choices(NewRouter) /\ behind = {} /\ lost = FALSE
    /\ changes = 0 /\ edits = 0 /\ troubles = 0

Poll(t) ==
    \/ Refuse(t) \/ ReadCache(t) \/ Get(t) \/ Store(t) \/ Record(t) \/ RecordOne(t)

Next ==
    \/ \E t \in Polls : Ask(t)
    \/ \E q \in Singles, s \in Sessions : AskOne(q, s)
    \/ \E t \in Tasks : Poll(t) \/ Unreachable(t) \/ Abort(t)
    \/ ExpireAll
    \/ \E s \in Sessions : EditSession(s)
    \/ \E s \in Sessions : ExpireOne(s) \/ \E w \in States \cup {Wordy, None} : DeviceChanges(s, w)
    \/ EditRouter

Spec == Init /\ [][Next]_vars

\* The router is polled again and again, a task that runs goes on, and what is
\* cached expires.
Fairness ==
    /\ \A t \in Polls : WF_vars(Ask(t))
    /\ \A t \in Tasks : WF_vars(Poll(t))
    /\ WF_vars(ExpireAll) /\ \A s \in Sessions : WF_vars(ExpireOne(s))

-----------------------------------------------------------------------------
(* Properties *)

\* Every variable keeps to its values.
TypeOK ==
    /\ router \in Router /\ session \in Answer
    /\ device \in Answer /\ all \in Answer /\ one \in Answer
    /\ pc \in [Tasks -> {"idle", "check", "get", "store", "record"}]
    /\ copy \in [Tasks -> Router] /\ target \in [Singles -> Sessions \cup {None}]
    /\ answer \in [Tasks -> Answer]
    /\ refused \subseteq Sessions /\ wanted \in Wishes /\ behind \subseteq Polls /\ lost \in BOOLEAN
    /\ changes \in 0..MaxChanges /\ edits \in 0..MaxEdits /\ troubles \in 0..MaxTroubles
    /\ \A t \in Tasks : pc[t] = "record" => answer[t] # Nothing

\* The router is as the last user left it, polls write back whole routers though: what
\* a user changed is undone only by a poll that read the router before the change and
\* is recorded after it, never by one asked for later.
EditsOutlivePolls ==
    ~lost => Choices(router) = wanted

\* What is recorded of a session the device lists becomes, and stays, what
\* the device says, once the device stops changing, for a router that is
\* polled and a session that validates: no cached answer and no poll of one session
\* stands in the way for good.
PolledStatesConverge ==
    <>[](router.usable /\ router.polled =>
            \A s \in Sessions \ refused : device[s] # None => Said(session[s]) = Said(device[s]))

\* The words that the poll of one session saves for a state are not there for good: the
\* poll of all sessions puts the member of BGPState in their place, again and again.
WordsAreReplaced ==
    []<>(router.usable /\ router.polled =>
            \A s \in Sessions \ refused : device[s] # None => session[s] = Said(device[s]))

=============================================================================
