------------------------- MODULE RouterPollProofs -------------------------
(***************************************************************************)
(* Safety of RouterPoll for any number of polls, sessions and states.      *)
(*                                                                         *)
(* Polls save the routers they read earlier.  That a user's change is      *)
(* undone only by a poll that is older than it rests on what the other     *)
(* polls under way hold: a router with the user's choices (CopyInv).  The  *)
(* types need to know that a request that polls one session has a session  *)
(* to poll.                                                                *)
(***************************************************************************)
EXTENDS RouterPoll, TLAPS

\* A request under way polls a session, a row: what it looks up, caches and
\* writes is about a session of the router.
TargetInv == \A q \in Singles : pc[q] # "idle" => target[q] \in Sessions

IInv == TypeOK /\ TargetInv

\* The steps of a task that is polling.
Working(t) == Poll(t) \/ Unreachable(t) \/ Abort(t)

-----------------------------------------------------------------------------
\* A word of a device stands for a member of BGPState, or for nothing.
LEMMA SaidTypes ==
    ASSUME NEW w \in States \cup {Wordy, None}
    PROVE  Said(w) \in States \cup {Wordy, None}
BY StatesAssumption DEF StatesAssumption, Said

\* Router.save() saves a router.
LEMMA SavedRouters ==
    ASSUME NEW r \in Router
    PROVE  saved(r) \in Router
BY DEF saved, Router

\* alter_router() changes the time of the last poll alone.
LEMMA SavedChoices ==
    ASSUME NEW r \in Router
    PROVE  Choices(saved(r)) = Choices(r)
BY DEF saved, Choices, Router

LEMMA NothingIsAnAnswer == Nothing \in Answer
BY DEF Nothing, Answer

LEMMA InitIInv == Init => IInv
<1> SUFFICES ASSUME Init
             PROVE  IInv
    OBVIOUS
<1>1. NewRouter \in Router
  BY DEF NewRouter, Router
<1>2. changes \in 0..MaxChanges /\ edits \in 0..MaxEdits /\ troubles \in 0..MaxTroubles
  BY StatesAssumption DEF StatesAssumption, Init
<1>3. device \in Answer
  BY DEF Init, Answer
<1>4. TypeOK
  BY <1>1, <1>2, <1>3, NothingIsAnAnswer DEF Init, TypeOK, Choices, NewRouter, Wishes
<1>5. TargetInv
  BY DEF Init, TargetInv, Tasks
<1>6. QED
  BY <1>4, <1>5 DEF IInv

\* A task that is done gives back all it held.
LEMMA DoneKeepsTypes ==
    ASSUME IInv, NEW t \in Tasks, Done(t)
    PROVE  /\ pc' \in [Tasks -> {"idle", "check", "get", "store", "record"}]
           /\ copy' \in [Tasks -> Router]
           /\ answer' \in [Tasks -> Answer]
           /\ target' \in [Singles -> Sessions \cup {None}]
           /\ behind' \subseteq Polls
           /\ \A u \in Tasks : pc'[u] = "record" => answer'[u] # Nothing
           /\ TargetInv'
<1>1. NewRouter \in Router
  BY DEF NewRouter, Router
<1>2. pc' = [pc EXCEPT ![t] = "idle"]
  BY DEF Done, Goto
<1>3. TargetInv'
  BY <1>2 DEF Done, IInv, TypeOK, TargetInv, Tasks
<1>4. QED
  BY <1>1, <1>2, <1>3, NothingIsAnAnswer DEF Done, IInv, TypeOK

LEMMA AskKeeps ==
    ASSUME IInv, NEW t \in Polls, Ask(t)
    PROVE  IInv'
<1>1. TypeOK'
  BY DEF IInv, TypeOK, Ask, Goto, rowVars, edited, cacheVars, bounds, Tasks
<1>2. TargetInv'
  BY StatesAssumption DEF StatesAssumption, IInv, TypeOK, TargetInv, Ask, Goto, Tasks
<1>3. QED
  BY <1>1, <1>2 DEF IInv

LEMMA AskOneKeeps ==
    ASSUME IInv, NEW q \in Singles, NEW s \in Sessions, AskOne(q, s)
    PROVE  IInv'
<1>1. TypeOK'
  BY DEF IInv, TypeOK, AskOne, Goto, rowVars, edited, cacheVars, bounds, Tasks
<1>2. TargetInv'
  BY DEF IInv, TypeOK, TargetInv, AskOne, Goto, Tasks
<1>3. QED
  BY <1>1, <1>2 DEF IInv

LEMMA ReadCacheKeeps ==
    ASSUME IInv, NEW t \in Tasks, ReadCache(t)
    PROVE  IInv'
<1>1. cached(t) \in Answer
  BY DEF IInv, TypeOK, cached, Answer
<1>2. TypeOK'
  BY <1>1 DEF IInv, TypeOK, ReadCache, Goto, rowVars, edited, cacheVars, bounds
<1>3. TargetInv'
  BY DEF IInv, TypeOK, TargetInv, ReadCache, Goto, Tasks
<1>4. QED
  BY <1>2, <1>3 DEF IInv

LEMMA GetKeeps ==
    ASSUME IInv, NEW t \in Tasks, Get(t)
    PROVE  IInv'
<1>1. [s \in Sessions |-> IF t \in Polls \/ s = target[t] THEN device[s] ELSE None] \in Answer
  BY DEF IInv, TypeOK, Answer
<1>2. TypeOK'
  BY <1>1 DEF IInv, TypeOK, Get, Goto, rowVars, edited, cacheVars, bounds
<1>3. TargetInv'
  BY DEF IInv, TypeOK, TargetInv, Get, Goto, Tasks
<1>4. QED
  BY <1>2, <1>3 DEF IInv

\* What is cached of one neighbour is about the session the request polls.
LEMMA StoreKeeps ==
    ASSUME IInv, NEW t \in Tasks, Store(t)
    PROVE  IInv'
<1>1. all' \in Answer /\ one' \in Answer
  <2>1. CASE t \in Polls
    BY <2>1 DEF IInv, TypeOK, Store
  <2>2. CASE t \notin Polls
    <3>1. t \in Singles /\ target[t] \in Sessions
      BY <2>2 DEF Store, IInv, TargetInv, Tasks
    <3>2. QED
      BY <2>2, <3>1 DEF IInv, TypeOK, Store, Answer
  <2>3. QED
    BY <2>1, <2>2
<1>2. UNCHANGED <<router, session, device, refused, wanted, lost, changes, edits, troubles>>
  BY DEF Store, rowVars, edited, bounds
<1>3. CASE answer[t] = Nothing
  <2>1. Done(t)
    BY <1>3 DEF Store
  <2>2. QED
    BY <1>1, <1>2, <2>1, DoneKeepsTypes DEF IInv, TypeOK
<1>4. CASE answer[t] # Nothing
  <2>1. pc' = [pc EXCEPT ![t] = "record"] /\ UNCHANGED <<copy, target, answer, behind>>
    BY <1>4 DEF Store, Goto
  <2>2. TypeOK'
    BY <1>1, <1>2, <1>4, <2>1 DEF IInv, TypeOK
  <2>3. TargetInv'
    BY <2>1 DEF Store, IInv, TypeOK, TargetInv, Tasks
  <2>4. QED
    BY <2>2, <2>3 DEF IInv
<1>5. QED
  BY <1>3, <1>4

LEMMA RecordKeeps ==
    ASSUME IInv, NEW t \in Tasks, Record(t)
    PROVE  IInv'
<1>1. [copy[t] EXCEPT !.stamped = TRUE] \in Router
  BY DEF IInv, TypeOK, Router
<1>2. router' \in Router
  BY <1>1, SavedRouters DEF Record, save
<1>3. ASSUME NEW s \in Sessions
      PROVE  (IF answer[t][s] = None \/ s \in refused THEN session[s] ELSE Said(answer[t][s]))
                 \in States \cup {Wordy, None}
  <2>1. answer[t][s] \in States \cup {Wordy, None} /\ session[s] \in States \cup {Wordy, None}
    BY DEF IInv, TypeOK, Answer
  <2>2. QED
    BY <2>1, SaidTypes
<1>4. session' \in Answer
  BY <1>3 DEF Record, Answer
<1>5. /\ UNCHANGED <<device, all, one, refused, wanted, changes, edits, troubles>>
      /\ Done(t) /\ lost' \in BOOLEAN
  BY DEF Record, cacheVars, bounds, IInv, TypeOK
<1>6. QED
  BY <1>2, <1>4, <1>5, DoneKeepsTypes DEF IInv, TypeOK

LEMMA RecordOneKeeps ==
    ASSUME IInv, NEW q \in Singles, RecordOne(q)
    PROVE  IInv'
<1>1. q \in Tasks /\ target[q] \in Sessions
  BY DEF RecordOne, IInv, TargetInv, Tasks
<1>2. answer[q][target[q]] \in States \cup {Wordy, None}
  BY <1>1 DEF IInv, TypeOK, Answer
<1>3. session' \in Answer
  BY <1>2 DEF RecordOne, IInv, TypeOK, Answer
<1>4. UNCHANGED <<router, device, all, one, edited, changes, edits, troubles>> /\ Done(q)
  BY DEF RecordOne, cacheVars, bounds
<1>5. QED
  BY <1>1, <1>3, <1>4, DoneKeepsTypes DEF IInv, TypeOK, edited

LEMMA UnreachableKeeps ==
    ASSUME IInv, NEW t \in Tasks, Unreachable(t)
    PROVE  IInv'
<1>1. troubles' \in 0..MaxTroubles
  BY StatesAssumption DEF StatesAssumption, IInv, TypeOK, Unreachable
<1>2. TypeOK'
  BY <1>1, NothingIsAnAnswer DEF IInv, TypeOK, Unreachable, Goto, rowVars, edited, cacheVars
<1>3. TargetInv'
  BY DEF IInv, TypeOK, TargetInv, Unreachable, Goto, Tasks
<1>4. QED
  BY <1>2, <1>3 DEF IInv

LEMMA AbortKeeps ==
    ASSUME IInv, NEW t \in Tasks, Abort(t)
    PROVE  IInv'
<1>1. troubles' \in 0..MaxTroubles
  BY StatesAssumption DEF StatesAssumption, IInv, TypeOK, Abort
<1>2. UNCHANGED <<router, session, edited, device, all, one, changes, edits>> /\ Done(t)
  BY DEF Abort, rowVars, edited, cacheVars
<1>3. QED
  BY <1>1, <1>2, DoneKeepsTypes DEF IInv, TypeOK, edited

LEMMA RefuseKeeps ==
    ASSUME IInv, NEW t \in Tasks, Refuse(t)
    PROVE  IInv'
<1>1. UNCHANGED <<router, session, edited, device, all, one, changes, edits, troubles>> /\ Done(t)
  BY DEF Refuse, rowVars, edited, cacheVars, bounds
<1>2. QED
  BY <1>1, DoneKeepsTypes DEF IInv, TypeOK, edited

LEMMA EditRouterKeeps ==
    ASSUME IInv, EditRouter
    PROVE  IInv'
<1>1. wanted' \in Wishes
  BY DEF EditRouter, Choices, Wishes, IInv, TypeOK, Router
<1>2. router' \in Router
  <2>1. [router EXCEPT !.usable = wanted'.usable, !.polled = wanted'.polled] \in Router
    BY <1>1 DEF IInv, TypeOK, Router, Wishes
  <2>2. QED
    BY <2>1, SavedRouters DEF EditRouter, save
<1>3. edits' \in 0..MaxEdits
  BY StatesAssumption DEF StatesAssumption, IInv, TypeOK, EditRouter
<1>4. behind' \subseteq Polls /\ lost' \in BOOLEAN
  BY DEF EditRouter
<1>5. UNCHANGED <<session, refused, device, all, one, pc, copy, target, answer, changes, troubles>>
  BY DEF EditRouter, cacheVars
<1>6. QED
  BY <1>1, <1>2, <1>3, <1>4, <1>5 DEF IInv, TypeOK, TargetInv

LEMMA EditSessionKeeps ==
    ASSUME IInv, NEW s \in Sessions, EditSession(s)
    PROVE  IInv'
<1>1. edits' \in 0..MaxEdits
  BY StatesAssumption DEF StatesAssumption, IInv, TypeOK, EditSession
<1>2. refused' \subseteq Sessions
  BY DEF EditSession, IInv, TypeOK
<1>3. QED
  BY <1>1, <1>2 DEF IInv, TypeOK, TargetInv, EditSession, cacheVars, taskVars

\* Nobody else touches a router, a task or a session.
LEMMA WorldKeeps ==
    ASSUME IInv,
           \/ ExpireAll
           \/ \E s \in Sessions :
                \/ ExpireOne(s)
                \/ \E w \in States \cup {Wordy, None} : DeviceChanges(s, w)
    PROVE  IInv'
<1>1. TargetInv'
  BY DEF IInv, TargetInv, ExpireAll, ExpireOne, DeviceChanges, taskVars
<1>2. CASE ExpireAll
  BY <1>1, <1>2, NothingIsAnAnswer DEF IInv, TypeOK, ExpireAll, rowVars, edited, taskVars, bounds
<1>3. ASSUME NEW s \in Sessions, ExpireOne(s)
      PROVE  IInv'
  <2>1. one' \in Answer
    BY <1>3 DEF IInv, TypeOK, ExpireOne, Answer
  <2>2. QED
    BY <1>1, <1>3, <2>1 DEF IInv, TypeOK, ExpireOne, rowVars, edited, taskVars, bounds
<1>4. ASSUME NEW s \in Sessions, NEW w \in States \cup {Wordy, None}, DeviceChanges(s, w)
      PROVE  IInv'
  <2>1. device' \in Answer
    BY <1>4 DEF IInv, TypeOK, DeviceChanges, Answer
  <2>2. changes' \in 0..MaxChanges
    BY <1>4, StatesAssumption DEF StatesAssumption, IInv, TypeOK, DeviceChanges
  <2>3. QED
    BY <1>1, <1>4, <2>1, <2>2 DEF IInv, TypeOK, DeviceChanges, rowVars, edited, cacheVars, taskVars
<1>5. QED
  BY <1>2, <1>3, <1>4

LEMMA NextIInv == IInv /\ [Next]_vars => IInv'
<1> SUFFICES ASSUME IInv, [Next]_vars
             PROVE  IInv'
    OBVIOUS
<1>1. CASE UNCHANGED vars
  BY <1>1 DEF IInv, TypeOK, TargetInv, vars, rowVars, edited, cacheVars, taskVars, bounds
<1>2. ASSUME NEW t \in Tasks, Working(t)
      PROVE  IInv'
  <2>1. CASE RecordOne(t)
    BY <2>1, RecordOneKeeps DEF RecordOne
  <2>2. QED
    BY <1>2, <2>1, RefuseKeeps, ReadCacheKeeps, GetKeeps, StoreKeeps, RecordKeeps,
       UnreachableKeeps, AbortKeeps DEF Working, Poll
<1>3. QED
  BY <1>1, <1>2, AskKeeps, AskOneKeeps, WorldKeeps, EditRouterKeeps, EditSessionKeeps
     DEF Next, Working

-----------------------------------------------------------------------------
\* Polls of any number of sessions, by any number of jobs, commands and
\* requests: every variable keeps to its values, and no request records or
\* caches an answer for a session it was not asked about.
THEOREM TypeCorrect == Spec => []TypeOK
<1>1. IInv => TypeOK
  BY DEF IInv
<1>2. QED
  BY InitIInv, NextIInv, <1>1, PTL DEF Spec

-----------------------------------------------------------------------------
(* Edits and polls *)

\* A poll under way that is not behind holds a router with what the last user chose,
\* unless a poll that was behind has been recorded since.
CopyInv ==
    ~lost => \A t \in Polls : pc[t] # "idle" /\ t \notin behind => Choices(copy[t]) = wanted

\* A poll that is recorded leaves the row and the other polls with the user's choices,
\* or the change is lost.
LEMMA RecordKeepsChoices ==
    ASSUME IInv, CopyInv, EditsOutlivePolls, NEW t \in Polls, Record(t)
    PROVE  CopyInv' /\ EditsOutlivePolls'
<1> SUFFICES ASSUME ~lost'
             PROVE  /\ \A u \in Polls : pc'[u] # "idle" /\ u \notin behind' =>
                                           Choices(copy[u])' = wanted'
                    /\ Choices(router)' = wanted'
    BY DEF CopyInv, EditsOutlivePolls
<1>1. ~lost /\ t \notin behind /\ pc[t] = "record" /\ wanted' = wanted
  BY DEF Record
<1>2. copy[t] \in Router /\ Choices(copy[t]) = wanted
  BY <1>1 DEF IInv, TypeOK, Tasks, CopyInv
<1>3. Choices(router)' = wanted'
  <2>1. [copy[t] EXCEPT !.stamped = TRUE] \in Router
    BY <1>2 DEF Router
  <2>2. Choices([copy[t] EXCEPT !.stamped = TRUE]) = Choices(copy[t])
    BY <1>2 DEF Choices, Router
  <2>3. router' = saved([copy[t] EXCEPT !.stamped = TRUE])
    BY DEF Record, save
  <2>4. Choices(router') = Choices(copy[t])
    BY <2>1, <2>2, <2>3, SavedChoices
  <2>5. QED
    BY <1>1, <1>2, <2>4 DEF Choices
<1>4. ASSUME NEW u \in Polls, pc'[u] # "idle", u \notin behind'
      PROVE  Choices(copy[u])' = wanted'
  <2>1. u # t /\ copy'[u] = copy[u] /\ pc'[u] = pc[u] /\ u \notin behind
    BY <1>4 DEF Record, Done, Goto, IInv, TypeOK, Tasks
  <2>2. QED
    BY <1>1, <1>4, <2>1 DEF CopyInv, Choices
<1>5. QED
  BY <1>3, <1>4

\* A user's change leaves every poll under way behind.
LEMMA EditRouterKeepsChoices ==
    ASSUME IInv, EditRouter
    PROVE  CopyInv' /\ EditsOutlivePolls'
<1>1. wanted' \in Wishes
  BY DEF EditRouter, Choices, Wishes, IInv, TypeOK, Router
<1>2. CopyInv'
  BY DEF EditRouter, CopyInv
<1>3. Choices(router)' = wanted'
  <2>1. [router EXCEPT !.usable = wanted'.usable, !.polled = wanted'.polled] \in Router
    BY <1>1 DEF IInv, TypeOK, Router, Wishes
  <2>2. Choices([router EXCEPT !.usable = wanted'.usable, !.polled = wanted'.polled]) = wanted'
    BY <1>1 DEF IInv, TypeOK, Router, Wishes, Choices
  <2>3. router' = saved([router EXCEPT !.usable = wanted'.usable, !.polled = wanted'.polled])
    BY DEF EditRouter, save
  <2>4. Choices(router') = wanted'
    BY <2>1, <2>2, <2>3, SavedChoices
  <2>5. QED
    BY <2>4 DEF Choices
<1>4. QED
  BY <1>2, <1>3 DEF EditsOutlivePolls

\* The other steps leave the row alone, and hand out or drop routers as they are.
LEMMA OthersKeepChoices ==
    ASSUME IInv, CopyInv, EditsOutlivePolls,
           UNCHANGED <<router, wanted, lost>>,
           \A u \in Polls : pc'[u] # "idle" /\ u \notin behind' =>
               \/ pc[u] # "idle" /\ u \notin behind /\ copy'[u] = copy[u]
               \/ copy'[u] = router
    PROVE  CopyInv' /\ EditsOutlivePolls'
<1>1. EditsOutlivePolls'
  BY DEF EditsOutlivePolls, Choices
<1>2. CopyInv'
  BY DEF CopyInv, EditsOutlivePolls, Choices
<1>3. QED
  BY <1>1, <1>2

\* What a user changes of a router is undone only by a poll that read the router before
\* and is recorded after: polls that are asked for later write back what the user chose.
THEOREM EditsLast == Spec => []EditsOutlivePolls
<1>1. Init => CopyInv /\ EditsOutlivePolls
  BY DEF Init, CopyInv, EditsOutlivePolls, Tasks
<1>2. ASSUME IInv, CopyInv, EditsOutlivePolls, [Next]_vars
      PROVE  CopyInv' /\ EditsOutlivePolls'
  <2> DEFINE Keeps == \A u \in Polls : pc'[u] # "idle" /\ u \notin behind' =>
                          \/ pc[u] # "idle" /\ u \notin behind /\ copy'[u] = copy[u]
                          \/ copy'[u] = router
  <2>1. CASE UNCHANGED vars
    <3>1. UNCHANGED <<router, wanted, lost>> /\ Keeps
      BY <2>1 DEF vars, rowVars, edited, taskVars
    <3>2. QED
      BY <1>2, <3>1, OthersKeepChoices
  <2>2. ASSUME NEW t \in Polls, Ask(t)
        PROVE  UNCHANGED <<router, wanted, lost>> /\ Keeps
    BY <1>2, <2>2 DEF Ask, Goto, rowVars, edited, IInv, TypeOK, Tasks
  <2>3. ASSUME NEW q \in Singles, NEW s \in Sessions, AskOne(q, s)
        PROVE  UNCHANGED <<router, wanted, lost>> /\ Keeps
    BY <1>2, <2>3 DEF AskOne, Goto, rowVars, edited, IInv, TypeOK, Tasks
  <2>4. ASSUME NEW t \in Tasks, ReadCache(t) \/ Get(t) \/ Unreachable(t)
        PROVE  UNCHANGED <<router, wanted, lost>> /\ Keeps
    BY <1>2, <2>4 DEF ReadCache, Get, Unreachable, Goto, rowVars, edited, IInv, TypeOK, Tasks
  <2>5. ASSUME NEW t \in Tasks, Done(t)
        PROVE  Keeps
    BY <1>2, <2>5 DEF Done, Goto, IInv, TypeOK, Tasks
  <2>6. ASSUME NEW t \in Tasks, Refuse(t) \/ RecordOne(t) \/ Abort(t)
        PROVE  UNCHANGED <<router, wanted, lost>> /\ Keeps
    BY <2>5, <2>6 DEF Refuse, RecordOne, Abort, rowVars, edited
  <2>7. ASSUME NEW t \in Tasks, Store(t)
        PROVE  UNCHANGED <<router, wanted, lost>> /\ Keeps
    <3>1. UNCHANGED <<router, wanted, lost>> /\ pc[t] = "store"
      BY <2>7 DEF Store, rowVars, edited
    <3>2. CASE Done(t)
      BY <2>5, <3>1, <3>2
    <3>3. CASE Goto(t, "record") /\ UNCHANGED <<copy, target, answer, behind>>
      BY <1>2, <3>1, <3>3 DEF Goto, IInv, TypeOK, Tasks
    <3>4. QED
      BY <2>7, <3>2, <3>3 DEF Store
  <2>8. ASSUME \/ ExpireAll
               \/ \E s \in Sessions :
                     \/ ExpireOne(s) \/ EditSession(s)
                     \/ \E w \in States \cup {Wordy, None} : DeviceChanges(s, w)
        PROVE  UNCHANGED <<router, wanted, lost>> /\ Keeps
    BY <2>8 DEF ExpireAll, ExpireOne, EditSession, DeviceChanges, rowVars, edited, taskVars
  <2>9. CASE EditRouter
    BY <1>2, <2>9, EditRouterKeepsChoices
  <2>10. ASSUME NEW t \in Tasks, Record(t)
         PROVE  CopyInv' /\ EditsOutlivePolls'
    BY <1>2, <2>10, RecordKeepsChoices DEF Record
  <2>11. CASE UNCHANGED <<router, wanted, lost>> /\ Keeps
    BY <1>2, <2>11, OthersKeepChoices
  <2>12. QED
    BY <1>2, <2>1, <2>2, <2>3, <2>4, <2>6, <2>7, <2>8, <2>9, <2>10, <2>11 DEF Next, Poll
<1>3. QED
  BY InitIInv, NextIInv, <1>1, <1>2, PTL DEF Spec

=============================================================================
