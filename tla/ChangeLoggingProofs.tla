------------------------ MODULE ChangeLoggingProofs ------------------------
(***************************************************************************)
(* Safety of ChangeLogging for any objects, requests and views, and that   *)
(* it implements CommitJournal.                                            *)
(*                                                                         *)
(* Requests share rows and locks; all the rest belongs to one of them      *)
(* (RequestInv), and a step of one leaves what belongs to the others alone *)
(* (OthersKeep).  Within a request, an object is between its row and its   *)
(* tags (AtInv), or its webhook and its log entry are as they should be    *)
(* (ToldInv, LoggedInv).  That there is one webhook for each object needs  *)
(* that those still to be saved have none, and that the last webhook is    *)
(* that of the object whose tags come next.                                *)
(*                                                                         *)
(* For the journal, a transaction has to hold the locks of all it wrote    *)
(* (HoldInv), to have logged what it wrote and nothing else (EntryInv,     *)
(* LogInv), in the words of its webhooks (SameInv), and RQ to have nothing *)
(* of it before its end (RqInv).                                           *)
(***************************************************************************)
EXTENDS ChangeLogging, TLAPS

Value      == State \cup {Gone}
Entries    == [request: Requests, object: Objects, data: Value, post: Value]
ChangeRows == [request: Requests, object: Objects, post: Value]
Errors     == {"PermissionsViolation", "IntegrityError", "ValidationError", "ProtectedError",
               "ObjectDoesNotExist"}

Types ==
    /\ db \in [Objects -> Value]
    /\ locked \in [Objects -> Requests \cup {None}]
    /\ log \subseteq ChangeRows
    /\ phase \in [Requests -> {"new", "view", "flush", "over", "crashed"}]
    /\ view \in [Requests -> Views \cup {"form"}]
    /\ todo \in [Requests -> SUBSET Objects]
    /\ mem \in [Requests -> [Objects -> Value]]
    /\ wrote \in [Requests -> [Objects -> Value \cup {Untouched}]]
    /\ changes \in [Requests -> SUBSET ChangeRows]
    /\ hooks \in [Requests -> Seq(Entries)]
    /\ at \in [Requests -> [object: Objects \cup {None}, step: {"keep", "change", "clear"}]]
    /\ outcome \in [Requests -> {"none", "done"} \cup Errors]
    /\ untold \in [Requests -> SUBSET Objects]

\* A row that is locked was written by a request whose transaction is open.
LockInv ==
    \A o \in Objects : locked[o] # None =>
        phase[locked[o]] = "view" /\ wrote[locked[o]][o] # Untouched

\* Outside its view a request has no transaction and nothing left to do; some
\* views never have one.
PhaseInv(r) ==
    /\ view[r] \notin Atomic => changes[r] = {}
    /\ phase[r] # "view" => todo[r] = {} /\ changes[r] = {} /\ at[r] = Nowhere
    /\ phase[r] \in {"new", "view"} => outcome[r] = "none"
    /\ phase[r] = "new" => hooks[r] = <<>> /\ wrote[r] = [o \in Objects |-> Untouched]

\* Its webhooks are about objects it is through with, one for each.
HookInv(r) ==
    /\ \A i \in DOMAIN hooks[r] : hooks[r][i].request = r /\ hooks[r][i].object \notin todo[r]
    /\ \A i, k \in DOMAIN hooks[r] : hooks[r][i].object = hooks[r][k].object => i = k

\* Between the row of an object and its tags, the last webhook is that of the row.
AtInv(r) ==
    LET o    == at[r].object
        post == Serialized(r, wrote[r][o], at[r].step)
    IN  o # None =>
            /\ phase[r] = "view" /\ view[r] \notin Deletes
            /\ wrote[r][o] \in State
            /\ hooks[r] # <<>> /\ hooks[r][Len(hooks[r])] = Entry(r, o, wrote[r][o], post)
            /\ post = mem[r][o] \/ Change(r, o, post) \in changes[r]

\* A request that still works, has committed or commits each object of its own.
Good(r) == phase[r] = "view" \/ outcome[r] = "done" \/ view[r] \notin Atomic

\* What a webhook says of its object, the one between row and tags aside.
Tells(r, e) ==
    /\ e.post.value = wrote[r][e.object].value
    /\ e.post # Gone => e.data.value = e.post.value
    /\ e.object \notin untold[r] /\ e.object # at[r].object =>
           e.post = wrote[r][e.object] /\ (e.post # Gone => e.data = e.post)

\* Each object written has a webhook, which tells what was written.
ToldInv(r) ==
    Good(r) =>
        /\ \A o \in Objects : wrote[r][o] # Untouched =>
               \E i \in DOMAIN hooks[r] : hooks[r][i].object = o
        /\ \A i \in DOMAIN hooks[r] :
               wrote[r][hooks[r][i].object] # Untouched /\ Tells(r, hooks[r][i])

Logs(r, o) ==
    wrote[r][o] \in {Untouched, mem[r][o]} \/ Change(r, o, wrote[r][o]) \in changes[r] \cup log

LoggedInv(r) ==
    Good(r) => \A o \in Objects \ untold[r] : o # at[r].object => Logs(r, o)

\* A queue that was cleared is empty.
SilentInv(r) == <<view[r], outcome[r]>> \in SendsClear => hooks[r] = <<>>

RequestInv(r) ==
    PhaseInv(r) /\ HookInv(r) /\ AtInv(r) /\ ToldInv(r) /\ LoggedInv(r) /\ SilentInv(r)

IInv == Types /\ LockInv /\ \A r \in Requests : RequestInv(r)

\* All that belongs to a request.
Own(r) == <<phase[r], view[r], todo[r], mem[r], wrote[r], changes[r], hooks[r], at[r],
            outcome[r], untold[r]>>

-----------------------------------------------------------------------------
LEMMA ValuesDiffer ==
    /\ Gone \notin State /\ Untouched \notin Value /\ Gone \in Value
    /\ \A s \in State : s.value \in {0, 1} /\ s.tags \in BOOLEAN
BY DEF State, Gone, Untouched, Value

\* A step of a request leaves what belongs to the others alone; that they were
\* logged stays true.
LEMMA OthersKeep ==
    ASSUME NEW r \in Requests, RequestInv(r), UNCHANGED Own(r), log \subseteq log'
    PROVE  RequestInv(r)'
<1> USE DEF Own
<1>1. PhaseInv(r)' /\ HookInv(r)' /\ SilentInv(r)'
  BY DEF RequestInv, PhaseInv, HookInv, SilentInv
<1>2. AtInv(r)'
  BY DEF RequestInv, AtInv, Serialized, Entry, Change
<1>3. ToldInv(r)'
  BY DEF RequestInv, ToldInv, Good, Tells
<1>4. LoggedInv(r)'
  BY DEF RequestInv, LoggedInv, Good, Logs, Change
<1>5. QED
  BY <1>1, <1>2, <1>3, <1>4 DEF RequestInv

LEMMA InitIInv == Init => IInv
<1> SUFFICES ASSUME Init
             PROVE  IInv
    OBVIOUS
<1>1. Types
  <2>1. db \in [Objects -> Value]
    BY DEF Init, Value
  <2>2. at \in [Requests -> [object: Objects \cup {None}, step: {"keep", "change", "clear"}]]
    BY DEF Init, Nowhere
  <2>3. hooks \in [Requests -> Seq(Entries)]
    BY DEF Init
  <2>4. QED
    BY <2>1, <2>2, <2>3 DEF Init, Types, Value
<1>2. LockInv
  BY DEF Init, LockInv
<1>3. ASSUME NEW r \in Requests
      PROVE  RequestInv(r)
  BY <1>3 DEF Init, RequestInv, PhaseInv, HookInv, AtInv, ToldInv, LoggedInv, SilentInv, Good,
     Logs, Nowhere, SendsClear
<1>4. QED
  BY <1>1, <1>2, <1>3 DEF IInv

\* The loading of objects.
LEMMA BeginKeeps ==
    ASSUME IInv, NEW r \in Requests, NEW v \in Views, NEW targets \in SUBSET Objects,
           Begin(r, v, targets)
    PROVE  IInv'
<1> USE DEF Begin, dbVars
<1>1. Types'
  BY DEF IInv, Types
<1>2. LockInv'
  BY DEF IInv, Types, LockInv
<1>3. ASSUME NEW q \in Requests \ {r}
      PROVE  RequestInv(q)'
  BY OthersKeep DEF IInv, Types, Own
<1>4. RequestInv(r)'
  <2>1. /\ phase[r] = "new" /\ phase'[r] = "view" /\ hooks'[r] = <<>> /\ at'[r] = Nowhere
        /\ wrote'[r] = [o \in Objects |-> Untouched] /\ outcome'[r] = "none" /\ changes'[r] = {}
    BY DEF IInv, Types, RequestInv, PhaseInv
  <2>2. QED
    BY <2>1 DEF RequestInv, PhaseInv, HookInv, AtInv, ToldInv, LoggedInv, SilentInv, Logs,
       Nowhere, SendsClear
<1>5. QED
  BY <1>1, <1>2, <1>3, <1>4 DEF IInv

\* What is appended to a queue, and what takes the place of its last element.
LEMMA AppendFacts ==
    ASSUME NEW S, NEW q \in Seq(S), NEW e \in S
    PROVE  /\ Append(q, e) \in Seq(S)
           /\ DOMAIN Append(q, e) = DOMAIN q \cup {Len(q) + 1}
           /\ Append(q, e)[Len(q) + 1] = e
           /\ Len(Append(q, e)) = Len(q) + 1 /\ Len(q) + 1 \notin DOMAIN q
           /\ \A i \in DOMAIN q : Append(q, e)[i] = q[i]
OBVIOUS

LEMMA ReplaceFacts ==
    ASSUME NEW S, NEW q \in Seq(S), NEW e \in S, q # <<>>
    PROVE  LET p == [q EXCEPT ![Len(q)] = e]
           IN  /\ p \in Seq(S) /\ DOMAIN p = DOMAIN q
               /\ Len(q) \in DOMAIN q /\ p[Len(q)] = e
               /\ \A i \in DOMAIN q \ {Len(q)} : p[i] = q[i]
OBVIOUS

LEMMA NowIsValue ==
    ASSUME Types, NEW r \in Requests, NEW o \in Objects
    PROVE  Now(r, o) \in Value /\ Now(r, o).tags \in BOOLEAN
<1>1. Now(r, o) \in Value
  BY DEF Types, Now
<1>2. ASSUME NEW s \in Value
      PROVE  s.tags \in BOOLEAN
  <2>1. CASE s \in State
    BY <2>1 DEF State
  <2>2. CASE s = Gone
    BY <2>2 DEF Gone
  <2>3. QED
    BY <2>1, <2>2 DEF Value
<1>3. QED
  BY <1>1, <1>2

LEMMA HooksAreEntries ==
    ASSUME Types, NEW r \in Requests, NEW i \in DOMAIN hooks[r]
    PROVE  hooks[r][i] \in Entries /\ hooks[r][i].object \in Objects
<1>1. hooks[r] \in Seq(Entries)
  BY DEF Types
<1>2. hooks[r][i] \in Entries
  BY <1>1
<1>3. QED
  BY <1>2 DEF Entries

LEMMA SavesAreAtomic ==
    ASSUME Types, NEW r \in Requests, view[r] \notin Deletes
    PROVE  view[r] \in Atomic
BY ViewsAssumption DEF Types, ViewsAssumption, KnownViews, Atomic, Deletes

LEMMA SerializedIsState ==
    ASSUME NEW r, NEW s \in State, NEW step
    PROVE  Serialized(r, s, step) \in State /\ Serialized(r, s, step).value = s.value
BY DEF Serialized, State

\* A save: a webhook more, and a row locked.
LEMMA SaveKeeps ==
    ASSUME IInv, NEW r \in Requests, NEW o \in Objects, NEW v \in {0, 1}, NEW step \in TagSteps,
           Save(r, o, v, step)
    PROVE  IInv'
<1> DEFINE new  == [value |-> v, tags |-> Now(r, o).tags]
           post == Serialized(r, new, step)
           e    == Entry(r, o, new, post)
<1>0. Types /\ LockInv /\ RequestInv(r)
  BY DEF IInv
<1>1. new \in State /\ post \in State /\ post.value = v
  <2>1. Now(r, o).tags \in BOOLEAN
    BY <1>0, NowIsValue
  <2>2. new \in State
    BY <2>1 DEF State
  <2>3. QED
    BY <2>2, SerializedIsState
<1>2. e \in Entries
  BY <1>1 DEF Entry, Entries, Value
<1>3. /\ phase[r] = "view" /\ view[r] \notin Deletes /\ at[r] = Nowhere /\ o \in todo[r]
      /\ Free(r, o) /\ step \in {"keep", "change", "clear"}
      /\ UNCHANGED <<db, log, rq, phase, view, mem, outcome, untold>>
  BY ViewsAssumption DEF Save, ViewsAssumption
<1>4. /\ wrote'   = [wrote   EXCEPT ![r][o] = new]
      /\ locked'  = [locked  EXCEPT ![o] = r]
      /\ changes' = [changes EXCEPT ![r] =
                        IF post = mem[r][o] THEN @ ELSE @ \cup {Change(r, o, post)}]
      /\ hooks'   = [hooks   EXCEPT ![r] = Append(@, e)]
      /\ at'      = [at      EXCEPT ![r] = [object |-> o, step |-> step]]
      /\ todo'    = [todo    EXCEPT ![r] = @ \ {o}]
  BY DEF Save, Put
<1> HIDE DEF new, post, e
<1>5. Append(hooks[r], e) \in Seq(Entries)
  BY <1>0, <1>2, AppendFacts DEF Types
<1>6. Types'
  <2>1. Change(r, o, post) \in ChangeRows
    BY <1>1 DEF Change, ChangeRows, Value
  <2>2. changes' \in [Requests -> SUBSET ChangeRows]
    BY <1>0, <1>4, <2>1 DEF Types
  <2>3. wrote' \in [Requests -> [Objects -> Value \cup {Untouched}]]
    <3>1. new \in Value \cup {Untouched}
      BY <1>1 DEF Value
    <3>2. QED
      BY <1>0, <1>4, <3>1 DEF Types
  <2>4. at' \in [Requests -> [object: Objects \cup {None}, step: {"keep", "change", "clear"}]]
    BY <1>0, <1>3, <1>4 DEF Types
  <2>5. hooks' \in [Requests -> Seq(Entries)]
    BY <1>0, <1>4, <1>5 DEF Types
  <2>6. locked' \in [Objects -> Requests \cup {None}] /\ todo' \in [Requests -> SUBSET Objects]
    BY <1>0, <1>4 DEF Types
  <2>7. QED
    BY <1>0, <1>3, <2>2, <2>3, <2>4, <2>5, <2>6 DEF Types
<1>7. /\ wrote'[r][o] = new /\ \A p \in Objects \ {o} : wrote'[r][p] = wrote[r][p]
      /\ hooks'[r] = Append(hooks[r], e) /\ at'[r] = [object |-> o, step |-> step]
      /\ todo'[r] = todo[r] \ {o}
      /\ changes[r] \subseteq changes'[r]
      /\ post = mem[r][o] \/ Change(r, o, post) \in changes'[r]
  BY <1>0, <1>4 DEF Types
<1>8. LockInv'
  <2>1. new # Untouched
    BY <1>1, ValuesDiffer DEF Value
  <2>2. QED
    BY <1>0, <1>3, <1>4, <2>1 DEF Types, LockInv
<1>9. ASSUME NEW q \in Requests \ {r}
      PROVE  RequestInv(q)'
  <2>1. UNCHANGED Own(q) /\ log \subseteq log'
    BY <1>0, <1>3, <1>4 DEF Own, Types
  <2>2. QED
    BY <2>1, OthersKeep DEF IInv
<1>10. DOMAIN hooks'[r] = DOMAIN hooks[r] \cup {Len(hooks[r]) + 1}
       /\ hooks'[r][Len(hooks[r]) + 1] = e /\ Len(hooks'[r]) = Len(hooks[r]) + 1
       /\ hooks'[r] # <<>>
       /\ \A i \in DOMAIN hooks[r] : hooks'[r][i] = hooks[r][i]
  <2>1. hooks[r] \in Seq(Entries)
    BY <1>0 DEF Types
  <2>2. QED
    BY <1>2, <1>7, <2>1, AppendFacts
<1>11. e.request = r /\ e.object = o /\ e.data = new /\ e.post = post
  BY DEF e, Entry
<1>12. PhaseInv(r)'
  BY <1>0, <1>3, SavesAreAtomic DEF RequestInv, PhaseInv
<1>13. HookInv(r)'
  BY <1>0, <1>3, <1>7, <1>10, <1>11 DEF RequestInv, HookInv
<1>14. AtInv(r)'
  <2>1. Serialized(r, wrote[r][o], step)' = post
    BY <1>3, <1>7 DEF Serialized, post
  <2>2. Entry(r, o, wrote[r][o], Serialized(r, wrote[r][o], step))' = e
    BY <1>7, <2>1 DEF Entry, e
  <2>3. QED
    BY <1>1, <1>3, <1>7, <1>10, <2>1, <2>2 DEF AtInv, Change
<1>15. ToldInv(r)'
  <2>1. new # Untouched /\ new # Gone /\ new.value = v /\ post # Gone
    BY <1>1, ValuesDiffer DEF Value, new
  <2>2. ASSUME NEW i \in DOMAIN hooks'[r], i = Len(hooks[r]) + 1
        PROVE  wrote'[r][hooks'[r][i].object] # Untouched /\ Tells(r, hooks[r][i])'
    BY <1>1, <1>7, <1>10, <1>11, <2>1, <2>2 DEF Tells
  <2>3. ASSUME NEW i \in DOMAIN hooks[r]
        PROVE  wrote'[r][hooks'[r][i].object] # Untouched /\ Tells(r, hooks[r][i])'
    <3>1. hooks[r][i].object \in Objects \ {o}
      BY <1>0, <1>3, HooksAreEntries DEF RequestInv, HookInv
    <3>2. wrote[r][hooks[r][i].object] # Untouched /\ Tells(r, hooks[r][i])
      BY <1>0, <1>3 DEF RequestInv, ToldInv, Good
    <3>3. hooks[r][i].object # at[r].object
      BY <1>3, <3>1, ViewsAssumption DEF Nowhere, ViewsAssumption
    <3>4. QED
      BY <1>3, <1>7, <1>10, <3>1, <3>2, <3>3 DEF Tells
  <2>4. \A p \in Objects : wrote'[r][p] # Untouched => \E i \in DOMAIN hooks'[r] : hooks'[r][i].object = p
    BY <1>0, <1>3, <1>7, <1>10, <1>11 DEF RequestInv, ToldInv, Good
  <2>5. QED
    BY <1>10, <2>2, <2>3, <2>4 DEF ToldInv
<1>16. LoggedInv(r)'
  <2>1. ASSUME NEW p \in Objects \ untold[r], p # o
        PROVE  Logs(r, p)'
    <3>1. p # at[r].object
      BY <1>3, ViewsAssumption DEF Nowhere, ViewsAssumption
    <3>2. Logs(r, p)
      BY <1>0, <1>3, <3>1 DEF RequestInv, LoggedInv, Good
    <3>3. QED
      BY <1>3, <1>7, <2>1, <3>2 DEF Logs, Change
  <2>2. QED
    BY <1>3, <1>7, <2>1 DEF LoggedInv
<1>17. SilentInv(r)'
  <2>1. outcome'[r] = "none"
    BY <1>0, <1>3 DEF RequestInv, PhaseInv
  <2>2. QED
    BY <2>1 DEF SilentInv, SendsClear
<1>18. RequestInv(r)'
  BY <1>12, <1>13, <1>14, <1>15, <1>16, <1>17 DEF RequestInv
<1>19. QED
  BY <1>6, <1>8, <1>9, <1>18 DEF IInv

\* The tags, in the terms of what the request has: those the object gets, its
\* new row, whether the receiver is told, whether the tags are hidden from it.
Tags(r) ==
    IF at[r].step = "keep" THEN wrote[r][at[r].object].tags
    ELSE IF at[r].step = "clear" THEN FALSE
    ELSE IF view[r] = "api_update" THEN TRUE ELSE ~wrote[r][at[r].object].tags

Tagged(r) == [wrote[r][at[r].object] EXCEPT !.tags = Tags(r)]

Told(r) == at[r].step = "change" /\ Tagged(r) # wrote[r][at[r].object]

Hidden(r) ==
    /\ wrote[r][at[r].object].tags
    /\ at[r].step = "clear" \/ (at[r].step = "keep" /\ view[r] = "api_update")

LEMMA SaveTagsDoes ==
    ASSUME NEW r \in Requests, SaveTags(r)
    PROVE  LET o == at[r].object
           IN  /\ o # None
               /\ wrote' = [wrote EXCEPT ![r][o] = Tagged(r)]
               /\ changes' = IF Told(r)
                             THEN [changes EXCEPT ![r] = LoggedAgain(r, o, Tagged(r))] ELSE changes
               /\ hooks' = IF Told(r) THEN [hooks EXCEPT ![r] = Enqueued(r, o, Tagged(r), @)]
                                      ELSE hooks
               /\ untold' = [untold EXCEPT ![r] = IF Hidden(r) THEN @ \cup {o} ELSE @]
               /\ at' = [at EXCEPT ![r] = Nowhere]
               /\ UNCHANGED <<dbVars, phase, view, todo, mem, outcome>>
BY DEF SaveTags, Tagged, Tags, Told, Hidden, Put

LEMMA WithTags ==
    ASSUME NEW s \in State, NEW t \in BOOLEAN
    PROVE  LET new == [s EXCEPT !.tags = t]
           IN  /\ new \in State /\ new.value = s.value /\ new.tags = t
               /\ t = s.tags => new = s
BY DEF State

\* Tags that are neither told nor hidden are those the save of the row told.
LEMMA TagsAsTold ==
    ASSUME NEW r \in Requests, wrote[r][at[r].object] \in State,
           at[r].step \in {"keep", "change", "clear"}
    PROVE  /\ Tagged(r) \in State /\ Tagged(r).value = wrote[r][at[r].object].value
           /\ ~Told(r) /\ ~Hidden(r) =>
                 /\ Tagged(r) = wrote[r][at[r].object]
                 /\ Tagged(r) = Serialized(r, wrote[r][at[r].object], at[r].step)
<1> DEFINE old == wrote[r][at[r].object]
<1>1. old.tags \in BOOLEAN
  BY DEF State
<1>2. Tags(r) \in BOOLEAN
  BY <1>1 DEF Tags
<1>3. Tagged(r) \in State /\ Tagged(r).value = old.value /\ (Tags(r) = old.tags => Tagged(r) = old)
      /\ Tagged(r).tags = Tags(r)
  BY <1>2, WithTags DEF Tagged
<1>4. ASSUME ~Told(r), ~Hidden(r)
      PROVE  Tags(r) = old.tags /\ Tagged(r) = Serialized(r, old, at[r].step)
  <2>1. CASE at[r].step = "keep"
    <3>1. Tags(r) = old.tags
      BY <2>1 DEF Tags
    <3>2. view[r] = "api_update" => old.tags = FALSE
      BY <1>1, <1>4, <2>1 DEF Hidden
    <3>3. Serialized(r, old, at[r].step) = old
      <4>1. CASE view[r] = "api_update"
        <5>1. Serialized(r, old, at[r].step) = [old EXCEPT !.tags = FALSE]
          BY <2>1, <4>1 DEF Serialized
        <5>2. QED
          BY <3>2, <4>1, <5>1, WithTags
      <4>2. CASE view[r] # "api_update"
        BY <4>2 DEF Serialized
      <4>3. QED
        BY <4>1, <4>2
    <3>4. QED
      BY <1>3, <3>1, <3>3
  <2>2. CASE at[r].step = "clear"
    <3>1. old.tags = FALSE /\ Tags(r) = FALSE
      BY <1>1, <1>4, <2>2 DEF Hidden, Tags
    <3>2. Serialized(r, old, at[r].step) = old
      <4>1. CASE view[r] = "api_update"
        <5>1. Serialized(r, old, at[r].step) = [old EXCEPT !.tags = FALSE]
          BY <2>2, <4>1 DEF Serialized
        <5>2. QED
          BY <3>1, <5>1, WithTags
      <4>2. CASE view[r] # "api_update"
        BY <4>2 DEF Serialized
      <4>3. QED
        BY <4>1, <4>2
    <3>3. QED
      BY <1>3, <3>1, <3>2
  <2>3. CASE at[r].step = "change"
    <3>1. Tagged(r) = old
      BY <1>4, <2>3 DEF Told
    <3>2. Tags(r) = old.tags
      BY <1>3, <3>1
    <3>3. view[r] = "api_update" /\ old.tags = TRUE
      <4>1. CASE view[r] = "api_update"
        <5>1. Tags(r) = TRUE
          BY <2>3, <4>1 DEF Tags
        <5>2. QED
          BY <3>2, <4>1, <5>1
      <4>2. CASE view[r] # "api_update"
        <5>1. Tags(r) = ~old.tags
          BY <2>3, <4>2 DEF Tags
        <5>2. QED
          BY <1>1, <3>2, <5>1
      <4>3. QED
        BY <4>1, <4>2
    <3>4. Serialized(r, old, at[r].step) = [old EXCEPT !.tags = TRUE]
      <4>1. Serialized(r, old, at[r].step) = [old EXCEPT !.tags = (at[r].step = "change")]
        BY <3>3 DEF Serialized
      <4>2. QED
        BY <2>3, <4>1
    <3>5. [old EXCEPT !.tags = TRUE] = old
      <4>1. \A t \in BOOLEAN : t = old.tags => [old EXCEPT !.tags = t] = old
        BY WithTags
      <4>2. TRUE = old.tags
        BY <3>3
      <4>3. QED
        BY <4>1, <4>2, Zenon
    <3>6. QED
      BY <3>1, <3>2, <3>4, <3>5
  <2>4. QED
    BY <2>1, <2>2, <2>3
<1>5. QED
  BY <1>3, <1>4

\* The last webhook takes the tags in, if they are told.
LEMMA SaveTagsQueues ==
    ASSUME Types, NEW r \in Requests, HookInv(r), AtInv(r), at[r].object # None, SaveTags(r)
    PROVE  LET o == at[r].object
               n == Len(hooks[r])
           IN  /\ hooks'[r] \in Seq(Entries) /\ DOMAIN hooks'[r] = DOMAIN hooks[r]
               /\ n \in DOMAIN hooks[r]
               /\ hooks'[r][n] = IF Told(r) THEN Entry(r, o, Tagged(r), Tagged(r)) ELSE hooks[r][n]
               /\ \A i \in DOMAIN hooks[r] \ {n} : hooks'[r][i] = hooks[r][i]
<1> DEFINE o == at[r].object
           q == hooks[r]
           e == Entry(r, o, Tagged(r), Tagged(r))
<1>1. o \in Objects /\ at[r].step \in {"keep", "change", "clear"}
  BY DEF Types
<1>2. /\ q \in Seq(Entries) /\ q # <<>>
      /\ q[Len(q)].object = o /\ wrote[r][o] \in State
  BY DEF Types, AtInv, Entry
<1>3. e \in Entries
  <2>1. Tagged(r) \in State
    BY <1>1, <1>2, TagsAsTold
  <2>2. QED
    BY <1>1, <2>1 DEF Entry, Entries, Value
<1>4. Enqueued(r, o, Tagged(r), q) = [q EXCEPT ![Len(q)] = e]
  BY <1>2 DEF Enqueued, is_same_object, Last
<1>5. hooks' = IF Told(r) THEN [hooks EXCEPT ![r] = [q EXCEPT ![Len(q)] = e]] ELSE hooks
  BY <1>4, SaveTagsDoes
<1> HIDE DEF e
<1>6. CASE Told(r)
  <2>1. hooks'[r] = [q EXCEPT ![Len(q)] = e]
    BY <1>5, <1>6 DEF Types
  <2>2. QED
    BY <1>2, <1>3, <1>6, <2>1, ReplaceFacts DEF e
<1>7. CASE ~Told(r)
  <2>1. hooks'[r] = q
    BY <1>5, <1>7
  <2>2. Len(q) \in DOMAIN q
    BY <1>2
  <2>3. QED
    BY <1>2, <1>7, <2>1, <2>2
<1>8. QED
  BY <1>6, <1>7

\* The tags of the object that was saved last.
LEMMA SaveTagsKeeps ==
    ASSUME IInv, NEW r \in Requests, SaveTags(r)
    PROVE  IInv'
<1>0. Types /\ LockInv /\ RequestInv(r)
  BY DEF IInv
<1>20. at[r].object \in Objects
  BY <1>0, SaveTagsDoes DEF Types
<1> SUFFICES ASSUME NEW o \in Objects, o = at[r].object,
                    NEW n, n = Len(hooks[r])
             PROVE  IInv'
  BY <1>20
<1>1. o = at[r].object /\ o # None /\ at[r].step \in {"keep", "change", "clear"}
  BY <1>0, SaveTagsDoes DEF Types
<1>2. /\ phase[r] = "view" /\ view[r] \notin Deletes /\ wrote[r][o] \in State
      /\ hooks[r][n] = Entry(r, o, wrote[r][o], Serialized(r, wrote[r][o], at[r].step))
      /\ \/ Serialized(r, wrote[r][o], at[r].step) = mem[r][o]
         \/ Change(r, o, Serialized(r, wrote[r][o], at[r].step)) \in changes[r]
  BY <1>0, <1>1 DEF RequestInv, AtInv
<1>3. /\ Tagged(r) \in State /\ Tagged(r).value = wrote[r][o].value
      /\ ~Told(r) /\ ~Hidden(r) =>
            Tagged(r) = wrote[r][o] /\ Tagged(r) = Serialized(r, wrote[r][o], at[r].step)
  BY <1>1, <1>2, TagsAsTold
<1>4. /\ wrote' = [wrote EXCEPT ![r][o] = Tagged(r)]
      /\ changes' = IF Told(r) THEN [changes EXCEPT ![r] = LoggedAgain(r, o, Tagged(r))] ELSE changes
      /\ hooks' = IF Told(r) THEN [hooks EXCEPT ![r] = Enqueued(r, o, Tagged(r), @)] ELSE hooks
      /\ untold' = [untold EXCEPT ![r] = IF Hidden(r) THEN @ \cup {o} ELSE @]
      /\ at' = [at EXCEPT ![r] = Nowhere]
      /\ UNCHANGED <<db, locked, log, phase, view, todo, mem, outcome>>
  BY SaveTagsDoes DEF dbVars
<1>5. /\ hooks'[r] \in Seq(Entries) /\ DOMAIN hooks'[r] = DOMAIN hooks[r] /\ n \in DOMAIN hooks[r]
      /\ hooks'[r][n] = IF Told(r) THEN Entry(r, o, Tagged(r), Tagged(r)) ELSE hooks[r][n]
      /\ \A i \in DOMAIN hooks[r] \ {n} : hooks'[r][i] = hooks[r][i]
  BY <1>0, <1>1, SaveTagsQueues DEF RequestInv
<1>6. Change(r, o, Tagged(r)) \in ChangeRows
  BY <1>1, <1>3 DEF Change, ChangeRows, Value
<1>7. /\ \A p \in Objects \ {o} : wrote'[r][p] = wrote[r][p] /\ (p \in untold'[r] <=> p \in untold[r])
      /\ wrote'[r][o] = Tagged(r) /\ at'[r] = Nowhere
      /\ Hidden(r) => o \in untold'[r]
      /\ changes'[r] = IF Told(r) THEN LoggedAgain(r, o, Tagged(r)) ELSE changes[r]
  BY <1>0, <1>1, <1>4 DEF Types
<1>8. Types'
  <2>1. LoggedAgain(r, o, Tagged(r)) \subseteq ChangeRows
    BY <1>0, <1>6 DEF Types, LoggedAgain
  <2>2. changes' \in [Requests -> SUBSET ChangeRows]
    BY <1>0, <1>4, <2>1 DEF Types
  <2>3. wrote' \in [Requests -> [Objects -> Value \cup {Untouched}]]
    <3>1. Tagged(r) \in Value \cup {Untouched}
      BY <1>3 DEF Value
    <3>2. QED
      BY <1>0, <1>4, <3>1 DEF Types
  <2>4. at' \in [Requests -> [object: Objects \cup {None}, step: {"keep", "change", "clear"}]]
    BY <1>0, <1>4 DEF Types, Nowhere
  <2>5. hooks' \in [Requests -> Seq(Entries)]
    <3>1. \A q \in Requests \ {r} : hooks'[q] = hooks[q]
      BY <1>0, <1>4 DEF Types
    <3>2. hooks' = [q \in Requests |-> hooks'[q]]
      BY <1>0, <1>4 DEF Types
    <3>3. QED
      BY <1>0, <1>5, <3>1, <3>2 DEF Types
  <2>6. untold' \in [Requests -> SUBSET Objects]
    BY <1>0, <1>1, <1>4 DEF Types
  <2>7. QED
    BY <1>0, <1>4, <2>2, <2>3, <2>4, <2>5, <2>6 DEF Types
<1>9. LockInv'
  <2>1. Tagged(r) # Untouched
    BY <1>3, ValuesDiffer DEF Value
  <2>2. QED
    BY <1>0, <1>4, <2>1 DEF Types, LockInv
<1>10. ASSUME NEW q \in Requests \ {r}
       PROVE  RequestInv(q)'
  <2>1. UNCHANGED Own(q) /\ log \subseteq log'
    BY <1>0, <1>4 DEF Own, Types
  <2>2. QED
    BY <2>1, OthersKeep DEF IInv
<1>11. /\ hooks'[r][n].request = r /\ hooks'[r][n].object = o
       /\ hooks'[r][n].data.value = wrote'[r][o].value /\ hooks'[r][n].post.value = wrote'[r][o].value
       /\ o \notin untold'[r] => hooks'[r][n].post = wrote'[r][o] /\ hooks'[r][n].data = wrote'[r][o]
  <2>1. CASE Told(r)
    BY <1>5, <1>7, <2>1 DEF Entry
  <2>2. CASE ~Told(r)
    <3>1. Serialized(r, wrote[r][o], at[r].step).value = wrote[r][o].value
      BY <1>2, SerializedIsState
    <3>2. QED
      BY <1>2, <1>3, <1>5, <1>7, <2>2, <3>1 DEF Entry
  <2>3. QED
    BY <2>1, <2>2
<1>12. PhaseInv(r)'
  BY <1>0, <1>2, <1>4, SavesAreAtomic DEF RequestInv, PhaseInv
<1>13. HookInv(r)'
  <2>1. hooks[r][n].object = o
    BY <1>2 DEF Entry
  <2>2. \A i \in DOMAIN hooks[r] : hooks'[r][i].request = r /\ hooks'[r][i].object = hooks[r][i].object
    BY <1>0, <1>5, <1>11, <2>1 DEF RequestInv, HookInv
  <2>3. QED
    BY <1>0, <1>4, <1>5, <2>2 DEF RequestInv, HookInv
<1>14. AtInv(r)'
  BY <1>7 DEF AtInv, Nowhere
<1>15. ToldInv(r)'
  <2>1. Tagged(r) # Untouched
    BY <1>3, ValuesDiffer DEF Value
  <2>2. hooks[r][n].object = o
    BY <1>2 DEF Entry
  <2>3. ASSUME NEW i \in DOMAIN hooks[r], i # n
        PROVE  wrote'[r][hooks'[r][i].object] # Untouched /\ Tells(r, hooks[r][i])'
    <3>1. hooks[r][i].object \in Objects \ {o} /\ hooks'[r][i] = hooks[r][i]
      BY <1>0, <1>5, <2>2, <2>3, HooksAreEntries DEF RequestInv, HookInv
    <3>2. wrote[r][hooks[r][i].object] # Untouched /\ Tells(r, hooks[r][i])
      BY <1>0, <1>2 DEF RequestInv, ToldInv, Good
    <3>3. QED
      BY <1>7, <3>1, <3>2 DEF Tells
  <2>4. wrote'[r][hooks'[r][n].object] # Untouched /\ Tells(r, hooks[r][n])'
    <3>1. Tells(r, hooks[r][n])' <=> 
             LET e == hooks'[r][n]
             IN  /\ e.post.value = wrote'[r][e.object].value
                 /\ e.post # Gone => e.data.value = e.post.value
                 /\ e.object \notin untold'[r] /\ e.object # at'[r].object =>
                        e.post = wrote'[r][e.object] /\ (e.post # Gone => e.data = e.post)
      BY DEF Tells
    <3>2. QED
      BY <1>7, <1>11, <2>1, <3>1
  <2>5. \A p \in Objects : wrote'[r][p] # Untouched => \E i \in DOMAIN hooks'[r] : hooks'[r][i].object = p
    <3>1. ASSUME NEW p \in Objects \ {o}, wrote'[r][p] # Untouched
          PROVE  \E i \in DOMAIN hooks'[r] : hooks'[r][i].object = p
      <4>1. PICK i \in DOMAIN hooks[r] : hooks[r][i].object = p
        BY <1>0, <1>2, <1>7, <3>1 DEF RequestInv, ToldInv, Good
      <4>2. i # n
        BY <2>2, <4>1
      <4>3. QED
        BY <1>5, <4>1, <4>2
    <3>2. QED
      BY <1>5, <1>11, <3>1
  <2>6. QED
    BY <1>5, <2>3, <2>4, <2>5 DEF ToldInv
<1>16. LoggedInv(r)'
  <2>1. ASSUME NEW p \in Objects, p # o, p \notin untold'[r]
        PROVE  Logs(r, p)'
    <3>1. Logs(r, p)
      BY <1>0, <1>2, <1>7, <2>1 DEF RequestInv, LoggedInv, Good
    <3>2. Change(r, p, wrote[r][p]) \in changes[r] => Change(r, p, wrote[r][p]) \in changes'[r]
      BY <1>7, <2>1 DEF LoggedAgain, Change
    <3>3. QED
      BY <1>4, <1>7, <2>1, <3>1, <3>2 DEF Logs, Change
  <2>2. o \notin untold'[r] => Logs(r, o)'
    <3>1. CASE Told(r)
      <4>1. Tagged(r) = mem[r][o] \/ Change(r, o, Tagged(r)) \in LoggedAgain(r, o, Tagged(r))
        BY DEF LoggedAgain
      <4>2. QED
        BY <1>4, <1>7, <3>1, <4>1 DEF Logs, Change
    <3>2. CASE ~Told(r)
      BY <1>2, <1>3, <1>4, <1>7, <3>2 DEF Logs, Change
    <3>3. QED
      BY <3>1, <3>2
  <2>3. \A p \in Objects : p \notin untold'[r] => Logs(r, p)'
    BY <2>1, <2>2
  <2>4. QED
    BY <2>3 DEF LoggedInv
<1>17. SilentInv(r)'
  <2>1. outcome'[r] = "none"
    BY <1>0, <1>2, <1>4 DEF RequestInv, PhaseInv
  <2>2. QED
    BY <2>1 DEF SilentInv, SendsClear
<1>18. RequestInv(r)'
  BY <1>12, <1>13, <1>14, <1>15, <1>16, <1>17 DEF RequestInv
<1>19. QED
  BY <1>8, <1>9, <1>10, <1>18 DEF IInv

\* A deletion: a webhook more, whether its transaction is that of the view or not.
LEMMA DestroyKeeps ==
    ASSUME IInv, NEW r \in Requests, NEW o \in Objects, Destroy(r, o)
    PROVE  IInv'
<1>0. Types /\ LockInv /\ RequestInv(r)
  BY DEF IInv
<1> SUFFICES ASSUME NEW e \in Entries, e = Entry(r, o, Now(r, o), Gone),
                    NEW c \in ChangeRows, c = Change(r, o, Gone)
             PROVE  IInv'
  <2>1. Entry(r, o, Now(r, o), Gone) \in Entries
    BY <1>0, NowIsValue, ValuesDiffer DEF Entry, Entries
  <2>2. Change(r, o, Gone) \in ChangeRows
    BY ValuesDiffer DEF Change, ChangeRows
  <2>3. QED
    BY <2>1, <2>2
<1>1. /\ phase[r] = "view" /\ view[r] \in Deletes /\ o \in todo[r] /\ Free(r, o)
      /\ wrote' = [wrote EXCEPT ![r][o] = Gone]
      /\ hooks' = [hooks EXCEPT ![r] = Append(@, e)]
      /\ todo'  = [todo  EXCEPT ![r] = @ \ {o}]
      /\ UNCHANGED <<phase, view, mem, at, outcome, untold>>
  BY DEF Destroy, Put
<1>2. \/ /\ view[r] \in Atomic
         /\ changes' = [changes EXCEPT ![r] = @ \cup {c}]
         /\ locked'  = [locked  EXCEPT ![o] = r]
         /\ UNCHANGED <<db, log>>
      \/ /\ db'  = [db EXCEPT ![o] = Gone]
         /\ log' = log \cup {c}
         /\ UNCHANGED <<changes, locked>>
  BY DEF Destroy
<1>3. at[r].object = None
  <2>1. at[r].object # None => view[r] \notin Deletes
    BY <1>0 DEF RequestInv, AtInv
  <2>2. QED
    BY <1>1, <2>1
<1>4. Append(hooks[r], e) \in Seq(Entries)
  BY <1>0, AppendFacts DEF Types
<1>5. Types'
  <2>1. db' \in [Objects -> Value] /\ log' \subseteq ChangeRows
        /\ changes' \in [Requests -> SUBSET ChangeRows]
        /\ locked' \in [Objects -> Requests \cup {None}]
    <3>1. Gone \in Value
      BY ValuesDiffer
    <3>2. db' \in [Objects -> Value] /\ log' \subseteq ChangeRows
      BY <1>0, <1>2, <3>1 DEF Types
    <3>3. changes' \in [Requests -> SUBSET ChangeRows]
      <4>1. CASE changes' = [changes EXCEPT ![r] = @ \cup {c}]
        BY <1>0, <4>1 DEF Types
      <4>2. CASE UNCHANGED changes
        BY <1>0, <4>2 DEF Types
      <4>3. QED
        BY <1>2, <4>1, <4>2
    <3>4. locked' \in [Objects -> Requests \cup {None}]
      BY <1>0, <1>2 DEF Types
    <3>5. QED
      BY <3>2, <3>3, <3>4
  <2>2. wrote' \in [Requests -> [Objects -> Value \cup {Untouched}]]
    BY <1>0, <1>1, ValuesDiffer DEF Types
  <2>3. hooks' \in [Requests -> Seq(Entries)] /\ todo' \in [Requests -> SUBSET Objects]
    BY <1>0, <1>1, <1>4 DEF Types
  <2>4. QED
    BY <1>0, <1>1, <2>1, <2>2, <2>3 DEF Types
<1>6. /\ wrote'[r][o] = Gone /\ \A p \in Objects \ {o} : wrote'[r][p] = wrote[r][p]
      /\ hooks'[r] = Append(hooks[r], e) /\ todo'[r] = todo[r] \ {o}
      /\ changes[r] \cup log \subseteq changes'[r] \cup log'
      /\ c \in changes'[r] \cup log' /\ log \subseteq log'
  BY <1>0, <1>1, <1>2 DEF Types
<1>7. LockInv'
  BY <1>0, <1>1, <1>2, ValuesDiffer DEF Types, LockInv
<1>8. ASSUME NEW q \in Requests \ {r}
      PROVE  RequestInv(q)'
  <2>1. UNCHANGED Own(q) /\ log \subseteq log'
    BY <1>0, <1>1, <1>2 DEF Own, Types
  <2>2. QED
    BY <2>1, OthersKeep DEF IInv
<1>9. DOMAIN hooks'[r] = DOMAIN hooks[r] \cup {Len(hooks[r]) + 1}
      /\ hooks'[r][Len(hooks[r]) + 1] = e
      /\ \A i \in DOMAIN hooks[r] : hooks'[r][i] = hooks[r][i]
  <2>1. hooks[r] \in Seq(Entries)
    BY <1>0 DEF Types
  <2>2. QED
    BY <1>6, <2>1, AppendFacts
<1>10. e.request = r /\ e.object = o /\ e.post = Gone
  BY DEF Entry
<1>11. PhaseInv(r)'
  BY <1>0, <1>1, <1>2 DEF RequestInv, PhaseInv
<1>12. HookInv(r)'
  BY <1>0, <1>1, <1>6, <1>9, <1>10 DEF RequestInv, HookInv
<1>13. AtInv(r)'
  BY <1>1, <1>3 DEF AtInv
<1>14. ToldInv(r)'
  <2>1. ASSUME NEW i \in DOMAIN hooks'[r], i = Len(hooks[r]) + 1
        PROVE  wrote'[r][hooks'[r][i].object] # Untouched /\ Tells(r, hooks[r][i])'
    BY <1>6, <1>9, <1>10, <2>1, ValuesDiffer DEF Tells
  <2>2. ASSUME NEW i \in DOMAIN hooks[r]
        PROVE  wrote'[r][hooks'[r][i].object] # Untouched /\ Tells(r, hooks[r][i])'
    <3>1. hooks[r][i].object \in Objects \ {o}
      BY <1>0, <1>1, HooksAreEntries DEF RequestInv, HookInv
    <3>2. wrote[r][hooks[r][i].object] # Untouched /\ Tells(r, hooks[r][i])
      BY <1>0, <1>1 DEF RequestInv, ToldInv, Good
    <3>3. QED
      BY <1>1, <1>6, <1>9, <3>1, <3>2 DEF Tells
  <2>3. \A p \in Objects : wrote'[r][p] # Untouched => \E i \in DOMAIN hooks'[r] : hooks'[r][i].object = p
    BY <1>0, <1>1, <1>6, <1>9, <1>10 DEF RequestInv, ToldInv, Good
  <2>4. QED
    BY <1>9, <2>1, <2>2, <2>3 DEF ToldInv
<1>15. LoggedInv(r)'
  <2>1. ASSUME NEW p \in Objects \ untold[r], p # o
        PROVE  Logs(r, p)'
    <3>1. Logs(r, p)
      BY <1>0, <1>1, <1>3, ViewsAssumption DEF RequestInv, LoggedInv, Good, ViewsAssumption
    <3>2. QED
      BY <1>1, <1>6, <2>1, <3>1 DEF Logs, Change
  <2>2. Logs(r, o)'
    BY <1>6 DEF Logs, Change
  <2>3. QED
    BY <1>1, <2>1, <2>2 DEF LoggedInv
<1>16. SilentInv(r)'
  <2>1. outcome'[r] = "none"
    BY <1>0, <1>1 DEF RequestInv, PhaseInv
  <2>2. QED
    BY <2>1 DEF SilentInv, SendsClear
<1>17. RequestInv(r)'
  BY <1>11, <1>12, <1>13, <1>14, <1>15, <1>16 DEF RequestInv
<1>18. QED
  BY <1>5, <1>7, <1>8, <1>17 DEF IInv

\* A commit: what was written is there, what was logged too.
LEMMA CommitKeeps ==
    ASSUME IInv, NEW r \in Requests, Commit(r)
    PROVE  IInv'
<1>0. Types /\ LockInv /\ RequestInv(r)
  BY DEF IInv
<1>1. /\ phase[r] = "view" /\ todo[r] = {} /\ at[r] = Nowhere
      /\ db'  = [p \in Objects |-> IF locked[p] = r THEN wrote[r][p] ELSE db[p]]
      /\ log' = log \cup changes[r]
      /\ locked' = [p \in Objects |-> IF locked[p] = r THEN None ELSE locked[p]]
      /\ changes' = [changes EXCEPT ![r] = {}]
      /\ phase'   = [phase   EXCEPT ![r] = "flush"]
      /\ outcome' = [outcome EXCEPT ![r] = "done"]
      /\ UNCHANGED <<view, todo, mem, wrote, hooks, at, untold>>
  BY DEF Commit, Unlock
<1>2. Types'
  <2>1. db' \in [Objects -> Value]
    <3>1. ASSUME NEW p \in Objects, locked[p] = r
          PROVE  wrote[r][p] \in Value
      <4>1. locked[p] # None
        BY <3>1, ViewsAssumption DEF ViewsAssumption
      <4>2. QED
        BY <1>0, <3>1, <4>1 DEF Types, LockInv
    <3>2. QED
      BY <1>0, <1>1, <3>1 DEF Types
  <2>2. QED
    BY <1>0, <1>1, <2>1 DEF Types
<1>3. LockInv'
  BY <1>0, <1>1 DEF Types, LockInv
<1>4. ASSUME NEW q \in Requests \ {r}
      PROVE  RequestInv(q)'
  <2>1. UNCHANGED Own(q) /\ log \subseteq log'
    BY <1>0, <1>1 DEF Own, Types
  <2>2. QED
    BY <2>1, OthersKeep DEF IInv
<1>5. phase'[r] = "flush" /\ outcome'[r] = "done" /\ changes'[r] = {}
  BY <1>0, <1>1 DEF Types
<1>6. PhaseInv(r)' /\ AtInv(r)' /\ SilentInv(r)'
  BY <1>1, <1>5 DEF PhaseInv, AtInv, SilentInv, SendsClear, Nowhere
<1>7. HookInv(r)'
  BY <1>0, <1>1 DEF RequestInv, HookInv
<1>8. ToldInv(r)'
  BY <1>0, <1>1, <1>5 DEF RequestInv, ToldInv, Good, Tells
<1>9. LoggedInv(r)'
  BY <1>0, <1>1, <1>5 DEF RequestInv, LoggedInv, Good, Logs, Change
<1>10. QED
  BY <1>2, <1>3, <1>4, <1>6, <1>7, <1>8, <1>9 DEF IInv, RequestInv

\* An abort: the queue is as it was, or cleared.
LEMMA AbortKeeps ==
    ASSUME IInv, NEW r \in Requests, NEW x \in MayRaise, Abort(r, x[2])
    PROVE  IInv'
<1>0. Types /\ LockInv /\ RequestInv(r)
  BY DEF IInv
<1> SUFFICES ASSUME NEW e \in Errors, e = x[2]
             PROVE  IInv'
  BY DEF MayRaise, Errors
<1>1. /\ locked' = [p \in Objects |-> IF locked[p] = r THEN None ELSE locked[p]]
      /\ hooks'   = [hooks   EXCEPT ![r] = IF <<view[r], e>> \in SendsClear THEN <<>> ELSE @]
      /\ at'      = [at      EXCEPT ![r] = Nowhere]
      /\ todo'    = [todo    EXCEPT ![r] = {}]
      /\ phase'   = [phase   EXCEPT ![r] = "flush"]
      /\ outcome' = [outcome EXCEPT ![r] = e]
      /\ phase[r] = "view" /\ <<view[r], e>> \in MayRaise
      /\ UNCHANGED <<db, log, view, mem, untold>>
  BY DEF Abort, Unlock
<1>2. \/ /\ view[r] \in Atomic
         /\ wrote'   = [wrote   EXCEPT ![r] = [p \in Objects |-> Untouched]]
         /\ changes' = [changes EXCEPT ![r] = {}]
      \/ view[r] \notin Atomic /\ UNCHANGED <<wrote, changes>>
  BY DEF Abort
<1>3. e # "done"
  BY DEF Errors
<1>4. Types'
  <2>1. hooks' \in [Requests -> Seq(Entries)]
    BY <1>0, <1>1 DEF Types
  <2>2. wrote' \in [Requests -> [Objects -> Value \cup {Untouched}]]
        /\ changes' \in [Requests -> SUBSET ChangeRows]
    <3>1. CASE UNCHANGED <<wrote, changes>>
      BY <1>0, <3>1 DEF Types
    <3>2. CASE /\ wrote'   = [wrote   EXCEPT ![r] = [p \in Objects |-> Untouched]]
               /\ changes' = [changes EXCEPT ![r] = {}]
      BY <1>0, <3>2 DEF Types
    <3>3. QED
      BY <1>2, <3>1, <3>2
  <2>3. locked' \in [Objects -> Requests \cup {None}] /\ todo' \in [Requests -> SUBSET Objects]
    BY <1>0, <1>1 DEF Types
  <2>4. at' \in [Requests -> [object: Objects \cup {None}, step: {"keep", "change", "clear"}]]
    BY <1>0, <1>1 DEF Types, Nowhere
  <2>5. QED
    BY <1>0, <1>1, <2>1, <2>2, <2>3, <2>4 DEF Types
<1>5. LockInv'
  BY <1>0, <1>1, <1>2 DEF Types, LockInv
<1>6. ASSUME NEW q \in Requests \ {r}
      PROVE  RequestInv(q)'
  <2>1. UNCHANGED Own(q) /\ log \subseteq log'
    BY <1>0, <1>1, <1>2 DEF Own, Types
  <2>2. QED
    BY <2>1, OthersKeep DEF IInv
<1>7. phase'[r] = "flush" /\ outcome'[r] = e /\ at'[r] = Nowhere /\ todo'[r] = {}
      /\ hooks'[r] = IF <<view[r], e>> \in SendsClear THEN <<>> ELSE hooks[r]
  BY <1>0, <1>1 DEF Types
<1>8. PhaseInv(r)'
  <2>1. changes'[r] = {}
    BY <1>0, <1>2 DEF Types, RequestInv, PhaseInv
  <2>2. QED
    BY <1>7, <2>1 DEF PhaseInv
<1>9. HookInv(r)'
  BY <1>0, <1>7 DEF RequestInv, HookInv
<1>10. AtInv(r)' /\ ToldInv(r)' /\ LoggedInv(r)'
  <2>1. AtInv(r)'
    BY <1>7 DEF AtInv, Nowhere
  <2>2. CASE view[r] \in Atomic
    <3>1. ~Good(r)'
      BY <1>1, <1>3, <1>7, <2>2 DEF Good
    <3>2. QED
      BY <2>1, <3>1 DEF ToldInv, LoggedInv
  <2>3. CASE view[r] \notin Atomic
    <3>0. <<view[r], e>> \notin SendsClear
      BY <2>3 DEF SendsClear, Atomic
    <3>1. hooks'[r] = hooks[r] /\ UNCHANGED <<wrote, changes>>
      BY <1>2, <1>7, <2>3, <3>0
    <3>2. at[r].object = None /\ at'[r].object = None
      <4>1. view[r] \in Deletes
        BY <1>0, <2>3, SavesAreAtomic
      <4>2. at[r].object = None
        BY <1>0, <4>1 DEF RequestInv, AtInv
      <4>3. QED
        BY <1>7, <4>2 DEF Nowhere
    <3>3. ToldInv(r)'
      BY <1>0, <1>1, <3>1, <3>2 DEF RequestInv, ToldInv, Good, Tells
    <3>4. LoggedInv(r)'
      BY <1>0, <1>1, <3>1, <3>2 DEF RequestInv, LoggedInv, Good, Logs, Change
    <3>5. QED
      BY <2>1, <3>3, <3>4
  <2>4. QED
    BY <2>2, <2>3
<1>11. SilentInv(r)'
  BY <1>1, <1>7 DEF SilentInv
<1>12. QED
  BY <1>4, <1>5, <1>6, <1>8, <1>9, <1>10, <1>11 DEF IInv, RequestInv

\* The end of a request.
LEMMA FlushKeeps ==
    ASSUME IInv, NEW r \in Requests, Flush(r) \/ FlushFails(r)
    PROVE  IInv'
<1>0. Types /\ LockInv /\ RequestInv(r)
  BY DEF IInv
<1>1. PICK p \in {"over", "crashed"} : phase' = [phase EXCEPT ![r] = p]
  BY DEF Flush, FlushFails
<1>2. /\ phase[r] = "flush" /\ Forget(r)
      /\ UNCHANGED <<db, locked, log, view, outcome, todo, changes, at>>
  BY DEF Flush, FlushFails, dbVars
<1>3. Types'
  <2>1. hooks' \in [Requests -> Seq(Entries)] /\ mem' \in [Requests -> [Objects -> Value]]
    BY <1>0, <1>2, ValuesDiffer DEF Types, Forget
  <2>2. QED
    BY <1>0, <1>1, <1>2, <2>1 DEF Types, Forget
<1>4. LockInv'
  BY <1>0, <1>1, <1>2 DEF Types, LockInv, Forget
<1>5. ASSUME NEW q \in Requests \ {r}
      PROVE  RequestInv(q)'
  <2>1. UNCHANGED Own(q) /\ log \subseteq log'
    BY <1>0, <1>1, <1>2 DEF Own, Types, Forget
  <2>2. QED
    BY <2>1, OthersKeep DEF IInv
<1>6. /\ phase'[r] = p /\ hooks'[r] = <<>> /\ wrote'[r] = [o \in Objects |-> Untouched]
      /\ todo[r] = {} /\ changes[r] = {} /\ at[r] = Nowhere
  BY <1>0, <1>1, <1>2 DEF Types, Forget, RequestInv, PhaseInv
<1>7. PhaseInv(r)' /\ HookInv(r)' /\ AtInv(r)' /\ ToldInv(r)' /\ LoggedInv(r)' /\ SilentInv(r)'
  BY <1>2, <1>6 DEF PhaseInv, HookInv, AtInv, ToldInv, LoggedInv, SilentInv, Logs, Nowhere
<1>8. QED
  BY <1>3, <1>4, <1>5, <1>7 DEF IInv, RequestInv

LEMMA NextIInv == IInv /\ [Next]_vars => IInv'
<1> SUFFICES ASSUME IInv, [Next]_vars
             PROVE  IInv'
    OBVIOUS
<1>1. CASE Next
  BY <1>1, BeginKeeps, SaveKeeps, SaveTagsKeeps, DestroyKeeps, CommitKeeps, AbortKeeps, FlushKeeps
     DEF Next
<1>2. CASE UNCHANGED vars
  <2>1. Types' /\ LockInv'
    BY <1>2 DEF IInv, Types, LockInv, vars, dbVars, reqVars, workVars
  <2>2. ASSUME NEW r \in Requests
        PROVE  RequestInv(r)'
    BY <1>2, OthersKeep DEF IInv, Own, vars, dbVars, reqVars, workVars
  <2>3. QED
    BY <2>1, <2>2 DEF IInv
<1>3. QED
  BY <1>1, <1>2

THEOREM Invariance == Spec => []IInv
BY InitIInv, NextIInv, PTL DEF Spec

-----------------------------------------------------------------------------
\* Types, and that rows and log entries are held only while a view runs.
THEOREM TypeCorrect == Spec => []TypeOK
<1>1. IInv => TypeOK
  BY DEF IInv, Types, LockInv, RequestInv, PhaseInv, TypeOK, Value
<1>2. QED
  BY Invariance, <1>1, PTL

\* "This check is used to avoid creating duplicate webhook entries": the tags
\* of an object, written after its row, do not make a second webhook.
OneWebhookPerObject ==
    \A r \in Requests : \A i, k \in DOMAIN hooks[r] :
        hooks[r][i].object = hooks[r][k].object => i = k

\* One webhook for each object, however its row and its tags are written.
THEOREM WebhooksAreUnique == Spec => []OneWebhookPerObject
<1>1. IInv => OneWebhookPerObject
  BY DEF IInv, RequestInv, HookInv, OneWebhookPerObject
<1>2. QED
  BY Invariance, <1>1, PTL

\* The webhooks of a request that is done tell what it committed, whatever
\* other requests do to the same objects.
THEOREM ChangesAreTold == Spec => []DoneChangesAreTold
<1>1. ASSUME IInv, NEW r \in Requests, outcome[r] = "done", phase[r] = "flush",
             NEW o \in Objects, wrote[r][o] # Untouched
      PROVE  \E e \in Announced(r) :
                /\ e.object = o
                /\ e.post.value = wrote[r][o].value
                /\ e.post # Gone => e.data.value = e.post.value
                /\ o \notin untold[r] =>
                      e.post = wrote[r][o] /\ (e.post # Gone => e.data = e.post)
                /\ \A d \in Announced(r) : d.object = o => d = e
  <2>1. HookInv(r) /\ ToldInv(r) /\ Good(r) /\ at[r] = Nowhere
    BY <1>1 DEF IInv, RequestInv, PhaseInv, Good
  <2>2. PICK i \in DOMAIN hooks[r] : hooks[r][i].object = o
    BY <1>1, <2>1 DEF ToldInv
  <2>3. Tells(r, hooks[r][i]) /\ o # at[r].object
    BY <2>1, ViewsAssumption DEF ToldInv, Nowhere, ViewsAssumption
  <2>4. hooks[r][i] \in Announced(r)
    BY DEF Announced, ToSet
  <2>5. \A d \in Announced(r) : d.object = o => d = hooks[r][i]
    BY <2>1, <2>2 DEF Announced, ToSet, HookInv
  <2>6. QED
    BY <2>2, <2>3, <2>4, <2>5 DEF Tells
<1>2. IInv => DoneChangesAreTold
  BY <1>1 DEF DoneChangesAreTold
<1>3. QED
  BY Invariance, <1>2, PTL

\* What a request changed is logged as it was committed.
THEOREM ChangesAreLogged == Spec => []DoneChangesAreLogged
<1>1. ASSUME IInv, NEW r \in Requests, outcome[r] = "done", phase[r] = "flush",
             NEW o \in Objects \ untold[r]
      PROVE  wrote[r][o] \in {Untouched, mem[r][o]} \/ Change(r, o, wrote[r][o]) \in log
  <2>1. LoggedInv(r) /\ Good(r) /\ changes[r] = {} /\ at[r] = Nowhere
    BY <1>1 DEF IInv, RequestInv, PhaseInv, Good
  <2>2. Logs(r, o)
    BY <2>1, ViewsAssumption DEF LoggedInv, Nowhere, ViewsAssumption
  <2>3. QED
    BY <2>1, <2>2 DEF Logs
<1>2. IInv => DoneChangesAreLogged
  BY <1>1 DEF DoneChangesAreLogged
<1>3. QED
  BY Invariance, <1>2, PTL

\* The webhooks of a change that a view rolled back, and said so, reach nobody.
THEOREM AbortsAreKeptSilent == Spec => HandledAbortsAreSilent
<1>1. ASSUME IInv, Next, NEW e \in rq' \ rq
      PROVE  <<view[e.request], outcome[e.request]>> \notin SendsClear
  <2>1. PICK r \in Requests : Flush(r) \/ FlushFails(r)
    <3>1. rq' # rq
      OBVIOUS
    <3>2. ASSUME NEW r \in Requests
          PROVE  /\ \A v \in Views, targets \in SUBSET Objects : ~Begin(r, v, targets)
                 /\ \A o \in Objects, v \in {0, 1}, step \in TagSteps : ~Save(r, o, v, step)
                 /\ ~SaveTags(r) /\ ~Commit(r)
                 /\ \A o \in Objects : ~Destroy(r, o)
                 /\ \A x \in MayRaise : ~Abort(r, x[2])
      BY <3>1 DEF Begin, Save, SaveTags, Destroy, Commit, Abort
    <3>3. QED
      BY <1>1, <3>2 DEF Next
  <2>2. PICK i \in DOMAIN hooks[r] : e = hooks[r][i]
    <3>1. hooks[r] \in Seq(Entries)
      BY <1>1 DEF IInv, Types
    <3>2. QED
      BY <1>1, <2>1, <3>1 DEF Flush, FlushFails, ToSet
  <2>3. e.request = r /\ SilentInv(r)
    BY <1>1, <2>2 DEF IInv, RequestInv, HookInv
  <2>4. hooks[r] # <<>>
    BY <2>2
  <2>5. QED
    BY <2>3, <2>4 DEF SilentInv
<1>2. IInv /\ [Next]_vars =>
        [\A e \in rq' \ rq :
            \/ wrote[e.request][e.object] # Untouched
            \/ <<view[e.request], outcome[e.request]>> \notin SendsClear]_vars
  BY <1>1
<1>3. QED
  BY Invariance, <1>2, PTL DEF Spec, HandledAbortsAreSilent


-----------------------------------------------------------------------------
(* The journal *)

\* A transaction has locked what it has written, and nobody else holds a lock.
HoldInv ==
    /\ \A r \in Requests, o \in Objects :
           phase[r] = "view" /\ view[r] \in Atomic /\ wrote[r][o] # Untouched => locked[o] = r
    /\ \A o \in Objects : locked[o] # None => view[locked[o]] \in Atomic

\* What is left to do is not written; what was rolled back neither.
WroteInv(r) ==
    /\ \A o \in todo[r] : wrote[r][o] = Untouched
    /\ phase[r] # "view" /\ ~Good(r) => wrote[r] = [o \in Objects |-> Untouched]

\* The log entries of a transaction, one for each object, have the values it wrote.
EntryInv(r) ==
    /\ \A c \in changes[r] :
           /\ c.request = r /\ wrote[r][c.object] # Untouched
           /\ c.post.value = wrote[r][c.object].value
    /\ \A c, d \in changes[r] : c.object = d.object => c = d

\* Before a transaction commits the log has no entry of it, and never one of what
\* is left to do.
LogInv(r) ==
    \A c \in log : c.request = r =>
        /\ phase[r] # "new" /\ c.object \notin todo[r]
        /\ phase[r] = "view" => view[r] \notin Atomic

\* The log entry and the webhook of an object say the same.
SameInv(r) ==
    \A c \in changes[r] \cup log, i \in DOMAIN hooks[r] :
        c.request = r /\ c.object = hooks[r][i].object => c.post = hooks[r][i].post

\* RQ has only webhooks of requests that are over.
RqInv == rq \subseteq Entries /\ \A e \in rq : phase[e.request] \in {"over", "crashed"}

QueueInv(r) == WroteInv(r) /\ EntryInv(r) /\ LogInv(r) /\ SameInv(r)

JournalInv == HoldInv /\ RqInv /\ \A r \in Requests : QueueInv(r)

\* A step of one request logs nothing in the name of another.
LEMMA OthersAreQueued ==
    ASSUME NEW r \in Requests, NEW q \in Requests \ {r}, QueueInv(q), UNCHANGED Own(q),
           \A c \in log' : c \in log \/ c.request = r
    PROVE  QueueInv(q)'
<1> USE DEF Own
<1>1. WroteInv(q)' /\ EntryInv(q)'
  BY DEF QueueInv, WroteInv, EntryInv, Good
<1>2. LogInv(q)'
  BY DEF QueueInv, LogInv
<1>3. SameInv(q)'
  BY DEF QueueInv, SameInv
<1>4. QED
  BY <1>1, <1>2, <1>3 DEF QueueInv

LEMMA InitJournal == Init => JournalInv
BY DEF Init, JournalInv, QueueInv, HoldInv, RqInv, WroteInv, EntryInv, LogInv, SameInv

LEMMA BeginJournals ==
    ASSUME IInv, JournalInv, NEW r \in Requests, NEW v \in Views, NEW targets \in SUBSET Objects,
           Begin(r, v, targets)
    PROVE  JournalInv'
<1>0. Types /\ LockInv /\ HoldInv /\ RqInv /\ PhaseInv(r) /\ QueueInv(r)
  BY DEF IInv, JournalInv, RequestInv
<1>1. /\ phase[r] = "new" /\ phase' = [phase EXCEPT ![r] = "view"]
      /\ view' = [view EXCEPT ![r] = v] /\ todo' = [todo EXCEPT ![r] = targets]
      /\ mem' = [mem EXCEPT ![r] = db]
      /\ UNCHANGED <<db, locked, log, rq, wrote, changes, hooks, at, outcome, untold>>
  BY DEF Begin, dbVars
<1>2. wrote[r] = [o \in Objects |-> Untouched] /\ changes[r] = {} /\ hooks[r] = <<>>
  BY <1>0, <1>1 DEF PhaseInv
<1>3. HoldInv'
  BY <1>0, <1>1, <1>2 DEF Types, LockInv, HoldInv
<1>4. RqInv'
  BY <1>0, <1>1 DEF Types, RqInv
<1>5. ASSUME NEW q \in Requests \ {r}
      PROVE  QueueInv(q)'
  <2>1. UNCHANGED Own(q) /\ UNCHANGED log
    BY <1>0, <1>1 DEF Own, Types
  <2>2. QED
    BY <2>1, OthersAreQueued DEF JournalInv
<1>6. QueueInv(r)'
  <2>1. \A c \in log : c.request # r
    BY <1>0, <1>1 DEF QueueInv, LogInv
  <2>2. WroteInv(r)' /\ EntryInv(r)'
    BY <1>0, <1>1, <1>2 DEF Types, WroteInv, EntryInv
  <2>3. LogInv(r)' /\ SameInv(r)'
    BY <1>1, <1>2, <2>1 DEF LogInv, SameInv
  <2>4. QED
    BY <2>2, <2>3 DEF QueueInv
<1>7. QED
  BY <1>3, <1>4, <1>5, <1>6 DEF JournalInv

\* What is written is neither queued nor logged before it is, and then as one.
LEMMA WritesAreQueued ==
    ASSUME Types, NEW r \in Requests, HookInv(r), QueueInv(r),
           NEW o \in todo[r], NEW e \in Entries, NEW c,
           e.object = o, c = Change(r, o, e.post),
           wrote'[r][o] # Untouched, e.post.value = wrote'[r][o].value,
           \A p \in Objects \ {o} : wrote'[r][p] = wrote[r][p],
           hooks'[r] = Append(hooks[r], e), todo'[r] = todo[r] \ {o},
           changes'[r] \subseteq changes[r] \cup {c},
           log' = log \/ (log' = log \cup {c} /\ view[r] \notin Atomic),
           phase[r] = "view", UNCHANGED <<phase, view>>
    PROVE  QueueInv(r)'
<1>1. /\ DOMAIN hooks'[r] = DOMAIN hooks[r] \cup {Len(hooks[r]) + 1}
      /\ hooks'[r][Len(hooks[r]) + 1] = e
      /\ \A i \in DOMAIN hooks[r] : hooks'[r][i] = hooks[r][i] /\ hooks[r][i].object # o
  <2>1. hooks[r] \in Seq(Entries)
    BY DEF Types
  <2>2. QED
    BY <2>1, AppendFacts DEF HookInv
<1>2. c.request = r /\ c.object = o /\ c.post = e.post
  BY DEF Change
<1>3. \A d \in changes[r] : d.request = r /\ d.object \in Objects \ {o}
  BY DEF QueueInv, WroteInv, EntryInv, Types, ChangeRows
<1>4. \A d \in log : d.request = r => d.object # o
  BY DEF QueueInv, LogInv
<1>5. WroteInv(r)'
  BY DEF QueueInv, WroteInv, Types
<1>6. EntryInv(r)'
  <2>1. ASSUME NEW d \in changes'[r]
        PROVE  /\ d.request = r /\ wrote'[r][d.object] # Untouched
               /\ d.post.value = wrote'[r][d.object].value
    <3>1. CASE d = c
      BY <1>2, <3>1
    <3>2. CASE d \in changes[r]
      BY <1>3, <3>2 DEF QueueInv, EntryInv
    <3>3. QED
      BY <3>1, <3>2
  <2>2. \A d, f \in changes'[r] : d.object = f.object => d = f
    BY <1>2, <1>3 DEF QueueInv, EntryInv
  <2>3. QED
    BY <2>1, <2>2 DEF EntryInv
<1>7. LogInv(r)'
  BY <1>2 DEF QueueInv, LogInv
<1>8. SameInv(r)'
  <2>1. ASSUME NEW d \in changes'[r] \cup log', NEW i \in DOMAIN hooks'[r],
               d.request = r, d.object = hooks'[r][i].object
        PROVE  d.post = hooks'[r][i].post
    <3>1. d = c \/ d \in changes[r] \cup log
      OBVIOUS
    <3>2. CASE i = Len(hooks[r]) + 1
      BY <1>1, <1>2, <1>3, <1>4, <2>1, <3>1, <3>2
    <3>3. CASE i \in DOMAIN hooks[r]
      BY <1>1, <1>2, <2>1, <3>1, <3>3 DEF QueueInv, SameInv
    <3>4. QED
      BY <1>1, <3>2, <3>3
  <2>2. QED
    BY <2>1 DEF SameInv
<1>9. QED
  BY <1>5, <1>6, <1>7, <1>8 DEF QueueInv

LEMMA SaveJournals ==
    ASSUME IInv, JournalInv, NEW r \in Requests, NEW o \in Objects, NEW v \in {0, 1},
           NEW step \in TagSteps, Save(r, o, v, step)
    PROVE  JournalInv'
<1> DEFINE new  == [value |-> v, tags |-> Now(r, o).tags]
           post == Serialized(r, new, step)
           e    == Entry(r, o, new, post)
           c    == Change(r, o, post)
<1>0. Types /\ LockInv /\ HoldInv /\ RqInv /\ HookInv(r) /\ QueueInv(r)
  BY DEF IInv, JournalInv, RequestInv
<1>1. new \in State /\ post \in State /\ post.value = v /\ new.value = v
  <2>1. Now(r, o).tags \in BOOLEAN
    BY <1>0, NowIsValue
  <2>2. new \in State
    BY <2>1 DEF State
  <2>3. QED
    BY <2>2, SerializedIsState
<1>2. e \in Entries /\ e.object = o /\ e.post = post
  BY <1>1 DEF Entry, Entries, Value
<1>3. new # Untouched
  BY <1>1, ValuesDiffer DEF Value
<1>4. /\ phase[r] = "view" /\ o \in todo[r] /\ Free(r, o) /\ view[r] \in Atomic
      /\ UNCHANGED <<db, log, rq, phase, view, mem, outcome, untold>>
  BY <1>0, SavesAreAtomic DEF Save
<1>5. /\ wrote'   = [wrote   EXCEPT ![r][o] = new]
      /\ locked'  = [locked  EXCEPT ![o] = r]
      /\ changes' = [changes EXCEPT ![r] = IF post = mem[r][o] THEN @ ELSE @ \cup {c}]
      /\ hooks'   = [hooks   EXCEPT ![r] = Append(@, e)]
      /\ at'      = [at      EXCEPT ![r] = [object |-> o, step |-> step]]
      /\ todo'    = [todo    EXCEPT ![r] = @ \ {o}]
  BY DEF Save, Put
<1>6. c = Change(r, o, e.post)
  BY <1>2
<1> HIDE DEF new, post, e, c
<1>7. /\ wrote'[r][o] = new /\ \A p \in Objects \ {o} : wrote'[r][p] = wrote[r][p]
      /\ hooks'[r] = Append(hooks[r], e) /\ todo'[r] = todo[r] \ {o}
      /\ changes'[r] \subseteq changes[r] \cup {c}
  BY <1>0, <1>5 DEF Types
<1>8. HoldInv'
  BY <1>0, <1>4, <1>5, ViewsAssumption DEF Types, HoldInv, Free, ViewsAssumption
<1>9. RqInv'
  BY <1>0, <1>4 DEF RqInv
<1>10. ASSUME NEW q \in Requests \ {r}
       PROVE  QueueInv(q)'
  <2>1. UNCHANGED Own(q) /\ UNCHANGED log
    BY <1>0, <1>4, <1>5 DEF Own, Types
  <2>2. QED
    BY <2>1, OthersAreQueued DEF JournalInv
<1>11. QueueInv(r)'
  BY <1>0, <1>1, <1>2, <1>3, <1>4, <1>6, <1>7, WritesAreQueued
<1>12. QED
  BY <1>8, <1>9, <1>10, <1>11 DEF JournalInv

LEMMA SaveTagsJournals ==
    ASSUME IInv, JournalInv, NEW r \in Requests, SaveTags(r)
    PROVE  JournalInv'
<1>0. Types /\ HoldInv /\ RqInv /\ HookInv(r) /\ AtInv(r) /\ QueueInv(r)
  BY DEF IInv, JournalInv, RequestInv
<1>20. at[r].object \in Objects
  BY <1>0, SaveTagsDoes DEF Types
<1> SUFFICES ASSUME NEW o \in Objects, o = at[r].object,
                    NEW n, n = Len(hooks[r])
             PROVE  JournalInv'
  BY <1>20
<1>1. o # None /\ at[r].step \in {"keep", "change", "clear"}
  BY <1>0, SaveTagsDoes DEF Types
<1>2. /\ phase[r] = "view" /\ view[r] \in Atomic /\ wrote[r][o] \in State
      /\ hooks[r][n] = Entry(r, o, wrote[r][o], Serialized(r, wrote[r][o], at[r].step))
  BY <1>0, <1>1, SavesAreAtomic DEF AtInv
<1>3. Tagged(r) \in State /\ Tagged(r).value = wrote[r][o].value
  BY <1>1, <1>2, TagsAsTold
<1>4. /\ wrote' = [wrote EXCEPT ![r][o] = Tagged(r)]
      /\ changes' = IF Told(r) THEN [changes EXCEPT ![r] = LoggedAgain(r, o, Tagged(r))] ELSE changes
      /\ hooks' = IF Told(r) THEN [hooks EXCEPT ![r] = Enqueued(r, o, Tagged(r), @)] ELSE hooks
      /\ untold' = [untold EXCEPT ![r] = IF Hidden(r) THEN @ \cup {o} ELSE @]
      /\ at' = [at EXCEPT ![r] = Nowhere]
      /\ UNCHANGED <<db, locked, log, rq, phase, view, todo, mem, outcome>>
  BY SaveTagsDoes DEF dbVars, SaveTags
<1>5. /\ DOMAIN hooks'[r] = DOMAIN hooks[r] /\ n \in DOMAIN hooks[r]
      /\ hooks'[r][n] = IF Told(r) THEN Entry(r, o, Tagged(r), Tagged(r)) ELSE hooks[r][n]
      /\ \A i \in DOMAIN hooks[r] \ {n} : hooks'[r][i] = hooks[r][i]
  BY <1>0, <1>1, SaveTagsQueues
<1> DEFINE c == Change(r, o, Tagged(r))
<1>6. c.request = r /\ c.object = o /\ c.post = Tagged(r)
  BY DEF Change
<1>7. Tagged(r) # Untouched /\ wrote[r][o] # Untouched
  BY <1>2, <1>3, ValuesDiffer DEF Value
<1>8. LoggedAgain(r, o, Tagged(r)) \subseteq {d \in changes[r] : d.object # o} \cup {c}
  BY DEF LoggedAgain
<1> HIDE DEF c
<1>9. /\ wrote'[r][o] = Tagged(r) /\ \A p \in Objects \ {o} : wrote'[r][p] = wrote[r][p]
      /\ Told(r)  => changes'[r] \subseteq {d \in changes[r] : d.object # o} \cup {c}
      /\ ~Told(r) => changes'[r] = changes[r]
  BY <1>0, <1>4, <1>8 DEF Types
<1>10. HoldInv'
  BY <1>0, <1>4, <1>7 DEF Types, HoldInv
<1>11. RqInv'
  BY <1>0, <1>4 DEF RqInv
<1>12. ASSUME NEW q \in Requests \ {r}
       PROVE  QueueInv(q)'
  <2>1. UNCHANGED Own(q) /\ UNCHANGED log
    BY <1>0, <1>4 DEF Own, Types
  <2>2. QED
    BY <2>1, OthersAreQueued DEF JournalInv
<1>13. WroteInv(r)'
  <2>1. o \notin todo[r]
    BY <1>0, <1>7 DEF QueueInv, WroteInv
  <2>2. QED
    BY <1>0, <1>2, <1>4, <1>9, <2>1 DEF Types, QueueInv, WroteInv
<1>14. EntryInv(r)'
  <2>1. \A d \in changes[r] : d.object \in Objects
    BY <1>0 DEF Types, ChangeRows
  <2>2. CASE Told(r)
    <3>1. \A d \in changes'[r] : d = c \/ (d \in changes[r] /\ d.object # o)
      BY <1>9, <2>2
    <3>2. QED
      BY <1>0, <1>6, <1>7, <1>9, <2>1, <3>1 DEF QueueInv, EntryInv
  <2>3. CASE ~Told(r)
    <3>1. ASSUME NEW d \in changes[r]
          PROVE  wrote'[r][d.object] # Untouched /\ d.post.value = wrote'[r][d.object].value
      BY <1>0, <1>3, <1>7, <1>9, <2>1 DEF QueueInv, EntryInv
    <3>2. QED
      BY <1>0, <1>9, <2>3, <3>1 DEF QueueInv, EntryInv
  <2>4. QED
    BY <2>2, <2>3
<1>15. LogInv(r)'
  BY <1>0, <1>4 DEF QueueInv, LogInv
<1>16. SameInv(r)'
  <2>1. \A d \in log : d.request # r
    BY <1>0, <1>2 DEF QueueInv, LogInv
  <2>2. hooks[r][n].object = o /\ \A i \in DOMAIN hooks[r] \ {n} : hooks[r][i].object # o
    BY <1>0, <1>2, <1>5 DEF HookInv, Entry
  <2>3. CASE Told(r)
    <3>1. hooks'[r][n].object = o /\ hooks'[r][n].post = Tagged(r)
      BY <1>5, <2>3 DEF Entry
    <3>2. ASSUME NEW d \in changes'[r], NEW i \in DOMAIN hooks'[r], d.object = hooks'[r][i].object
          PROVE  d.post = hooks'[r][i].post
      <4>1. CASE d = c
        BY <1>5, <1>6, <2>2, <3>1, <3>2, <4>1
      <4>2. CASE d \in changes[r] /\ d.object # o
        BY <1>0, <1>5, <3>1, <3>2, <4>2 DEF QueueInv, SameInv, EntryInv
      <4>3. QED
        BY <1>9, <2>3, <4>1, <4>2
    <3>3. QED
      BY <1>4, <2>1, <3>2 DEF SameInv
  <2>4. CASE ~Told(r)
    BY <1>0, <1>4, <1>9, <2>4 DEF QueueInv, SameInv
  <2>5. QED
    BY <2>3, <2>4
<1>17. QueueInv(r)'
  BY <1>13, <1>14, <1>15, <1>16 DEF QueueInv
<1>18. QED
  BY <1>10, <1>11, <1>12, <1>17 DEF JournalInv

LEMMA DestroyJournals ==
    ASSUME IInv, JournalInv, NEW r \in Requests, NEW o \in Objects, Destroy(r, o)
    PROVE  JournalInv'
<1> DEFINE c == Change(r, o, Gone)
           e == Entry(r, o, Now(r, o), Gone)
<1>0. Types /\ LockInv /\ HoldInv /\ RqInv /\ HookInv(r) /\ PhaseInv(r) /\ QueueInv(r)
  BY DEF IInv, JournalInv, RequestInv
<1>1. /\ phase[r] = "view" /\ o \in todo[r] /\ Free(r, o)
      /\ wrote' = [wrote EXCEPT ![r][o] = Gone]
      /\ hooks' = [hooks EXCEPT ![r] = Append(@, e)]
      /\ todo' = [todo EXCEPT ![r] = @ \ {o}]
      /\ UNCHANGED <<rq, phase, view, mem, at, outcome, untold>>
  BY DEF Destroy, Put
<1>2. \/ /\ view[r] \in Atomic
         /\ changes' = [changes EXCEPT ![r] = @ \cup {c}]
         /\ locked'  = [locked  EXCEPT ![o] = r]
         /\ UNCHANGED <<db, log>>
      \/ /\ view[r] \notin Atomic
         /\ db'  = [db EXCEPT ![o] = Gone]
         /\ log' = log \cup {c}
         /\ UNCHANGED <<changes, locked>>
  BY DEF Destroy
<1>3. e \in Entries /\ e.object = o /\ e.post = Gone /\ c = Change(r, o, e.post)
  BY <1>0, NowIsValue, ValuesDiffer DEF Entry, Entries
<1>4. c.request = r /\ Gone # Untouched
  BY ValuesDiffer DEF Change
<1> HIDE DEF c, e
<1>5. /\ wrote'[r][o] = Gone /\ \A p \in Objects \ {o} : wrote'[r][p] = wrote[r][p]
      /\ hooks'[r] = Append(hooks[r], e) /\ todo'[r] = todo[r] \ {o}
  BY <1>0, <1>1 DEF Types
<1>6. changes'[r] \subseteq changes[r] \cup {c}
  BY <1>0, <1>2 DEF Types
<1>7. log' = log \/ (log' = log \cup {c} /\ view[r] \notin Atomic)
  BY <1>2
<1>8. HoldInv'
  <2>1. CASE view[r] \in Atomic
    <3>1. locked'  = [locked  EXCEPT ![o] = r]
      BY <1>2, <2>1
    <3>2. QED
      BY <1>0, <1>1, <2>1, <3>1, ViewsAssumption DEF Types, HoldInv, Free, ViewsAssumption
  <2>2. CASE view[r] \notin Atomic
    <3>1. UNCHANGED locked
      BY <1>2, <2>2
    <3>2. QED
      BY <1>0, <1>1, <2>2, <3>1 DEF Types, HoldInv
  <2>3. QED
    BY <2>1, <2>2
<1>9. RqInv'
  BY <1>0, <1>1 DEF RqInv
<1>10. ASSUME NEW q \in Requests \ {r}
       PROVE  QueueInv(q)'
  <2>1. UNCHANGED Own(q)
    BY <1>0, <1>1, <1>2 DEF Own, Types
  <2>2. QED
    BY <1>4, <1>7, <2>1, OthersAreQueued DEF JournalInv
<1>11. QueueInv(r)'
  BY <1>0, <1>1, <1>3, <1>4, <1>5, <1>6, <1>7, WritesAreQueued
<1>12. QED
  BY <1>8, <1>9, <1>10, <1>11 DEF JournalInv

LEMMA CommitJournals ==
    ASSUME IInv, JournalInv, NEW r \in Requests, Commit(r)
    PROVE  JournalInv'
<1>0. Types /\ LockInv /\ HoldInv /\ RqInv /\ QueueInv(r)
  BY DEF IInv, JournalInv
<1>1. /\ phase[r] = "view" /\ todo[r] = {}
      /\ log' = log \cup changes[r]
      /\ locked' = [p \in Objects |-> IF locked[p] = r THEN None ELSE locked[p]]
      /\ changes' = [changes EXCEPT ![r] = {}]
      /\ phase'   = [phase   EXCEPT ![r] = "flush"]
      /\ outcome' = [outcome EXCEPT ![r] = "done"]
      /\ UNCHANGED <<rq, view, todo, mem, wrote, hooks, at, untold>>
  BY DEF Commit, Unlock
<1>2. phase'[r] = "flush" /\ outcome'[r] = "done" /\ changes'[r] = {}
  BY <1>0, <1>1 DEF Types
<1>3. HoldInv'
  BY <1>0, <1>1 DEF Types, HoldInv
<1>4. RqInv'
  BY <1>0, <1>1 DEF Types, RqInv
<1>5. \A c \in changes[r] : c.request = r
  BY <1>0 DEF QueueInv, EntryInv
<1>6. ASSUME NEW q \in Requests \ {r}
      PROVE  QueueInv(q)'
  <2>1. UNCHANGED Own(q)
    BY <1>0, <1>1 DEF Own, Types
  <2>2. QED
    BY <1>1, <1>5, <2>1, OthersAreQueued DEF JournalInv
<1>7. WroteInv(r)' /\ EntryInv(r)' /\ LogInv(r)'
  BY <1>1, <1>2 DEF WroteInv, EntryInv, LogInv, Good
<1>8. SameInv(r)'
  BY <1>0, <1>1, <1>2 DEF QueueInv, SameInv
<1>9. QED
  BY <1>3, <1>4, <1>6, <1>7, <1>8 DEF JournalInv, QueueInv

LEMMA AbortJournals ==
    ASSUME IInv, JournalInv, NEW r \in Requests, NEW x \in MayRaise, Abort(r, x[2])
    PROVE  JournalInv'
<1>0. Types /\ LockInv /\ HoldInv /\ RqInv /\ PhaseInv(r) /\ QueueInv(r)
  BY DEF IInv, JournalInv, RequestInv
<1> SUFFICES ASSUME NEW e \in Errors, e = x[2]
             PROVE  JournalInv'
  BY DEF MayRaise, Errors
<1>1. /\ locked' = [p \in Objects |-> IF locked[p] = r THEN None ELSE locked[p]]
      /\ hooks'   = [hooks   EXCEPT ![r] = IF <<view[r], e>> \in SendsClear THEN <<>> ELSE @]
      /\ at'      = [at      EXCEPT ![r] = Nowhere]
      /\ todo'    = [todo    EXCEPT ![r] = {}]
      /\ phase'   = [phase   EXCEPT ![r] = "flush"]
      /\ outcome' = [outcome EXCEPT ![r] = e]
      /\ phase[r] = "view"
      /\ UNCHANGED <<db, log, rq, view, mem, untold>>
  BY DEF Abort, Unlock
<1>2. \/ /\ view[r] \in Atomic
         /\ wrote'   = [wrote   EXCEPT ![r] = [p \in Objects |-> Untouched]]
         /\ changes' = [changes EXCEPT ![r] = {}]
      \/ view[r] \notin Atomic /\ UNCHANGED <<wrote, changes>>
  BY DEF Abort
<1>3. /\ phase'[r] = "flush" /\ todo'[r] = {}
      /\ hooks'[r] = <<>> \/ hooks'[r] = hooks[r]
  BY <1>0, <1>1 DEF Types
<1>4. /\ changes'[r] = {}
      /\ wrote'[r] = [p \in Objects |-> Untouched] \/ view'[r] \notin Atomic
  BY <1>0, <1>1, <1>2 DEF Types, PhaseInv
<1>5. HoldInv'
  BY <1>0, <1>1, <1>2 DEF Types, HoldInv
<1>6. RqInv'
  BY <1>0, <1>1 DEF Types, RqInv
<1>7. ASSUME NEW q \in Requests \ {r}
      PROVE  QueueInv(q)'
  <2>1. UNCHANGED Own(q) /\ UNCHANGED log
    BY <1>0, <1>1, <1>2 DEF Own, Types
  <2>2. QED
    BY <2>1, OthersAreQueued DEF JournalInv
<1>8. WroteInv(r)' /\ EntryInv(r)' /\ LogInv(r)'
  <2>1. WroteInv(r)' /\ EntryInv(r)'
    BY <1>3, <1>4 DEF WroteInv, EntryInv, Good
  <2>2. LogInv(r)'
    BY <1>1, <1>3 DEF LogInv
  <2>3. QED
    BY <2>1, <2>2
<1>9. SameInv(r)'
  BY <1>0, <1>1, <1>3, <1>4 DEF QueueInv, SameInv
<1>10. QED
  BY <1>5, <1>6, <1>7, <1>8, <1>9 DEF JournalInv, QueueInv

LEMMA FlushJournals ==
    ASSUME IInv, JournalInv, NEW r \in Requests, Flush(r) \/ FlushFails(r)
    PROVE  JournalInv'
<1>0. Types /\ LockInv /\ HoldInv /\ RqInv /\ PhaseInv(r) /\ HookInv(r) /\ QueueInv(r)
  BY DEF IInv, JournalInv, RequestInv
<1>1. PICK p \in {"over", "crashed"} : phase' = [phase EXCEPT ![r] = p]
  BY DEF Flush, FlushFails
<1>2. /\ phase[r] = "flush" /\ Forget(r)
      /\ UNCHANGED <<db, locked, log, view, outcome, todo, changes, at>>
  BY DEF Flush, FlushFails, dbVars
<1>3. /\ phase'[r] = p /\ hooks'[r] = <<>> /\ wrote'[r] = [o \in Objects |-> Untouched]
      /\ todo[r] = {} /\ changes[r] = {}
  BY <1>0, <1>1, <1>2 DEF Types, Forget, PhaseInv
<1>4. \A e \in rq' : e \in rq \/ (e \in Entries /\ e.request = r)
  <2>1. \A e \in rq' : e \in rq \/ \E i \in DOMAIN hooks[r] : e = hooks[r][i]
    <3>1. hooks[r] \in Seq(Entries)
      BY <1>0 DEF Types
    <3>2. QED
      BY <3>1 DEF Flush, FlushFails, ToSet
  <2>2. \A i \in DOMAIN hooks[r] : hooks[r][i] \in Entries /\ hooks[r][i].request = r
    BY <1>0, HooksAreEntries DEF HookInv
  <2>3. QED
    BY <2>1, <2>2
<1>5. RqInv'
  BY <1>0, <1>1, <1>3, <1>4 DEF Types, RqInv
<1>6. HoldInv'
  BY <1>0, <1>1, <1>2 DEF Types, HoldInv, Forget
<1>7. ASSUME NEW q \in Requests \ {r}
      PROVE  QueueInv(q)'
  <2>1. UNCHANGED Own(q) /\ UNCHANGED log
    BY <1>0, <1>1, <1>2 DEF Own, Types, Forget
  <2>2. QED
    BY <2>1, OthersAreQueued DEF JournalInv
<1>8. QueueInv(r)'
  BY <1>0, <1>2, <1>3 DEF QueueInv, WroteInv, EntryInv, LogInv, SameInv
<1>9. QED
  BY <1>5, <1>6, <1>7, <1>8 DEF JournalInv

LEMMA NextJournal == IInv /\ JournalInv /\ [Next]_vars => JournalInv'
<1> SUFFICES ASSUME IInv, JournalInv, [Next]_vars
             PROVE  JournalInv'
    OBVIOUS
<1>1. CASE Next
  BY <1>1, BeginJournals, SaveJournals, SaveTagsJournals, DestroyJournals, CommitJournals,
     AbortJournals, FlushJournals DEF Next
<1>2. CASE UNCHANGED vars
  <2>1. HoldInv' /\ RqInv'
    BY <1>2 DEF JournalInv, HoldInv, RqInv, vars, dbVars, reqVars, workVars
  <2>2. ASSUME NEW r \in Requests
        PROVE  QueueInv(r)'
    <3>1. WroteInv(r)' /\ EntryInv(r)'
      BY <1>2 DEF JournalInv, QueueInv, WroteInv, EntryInv, Good, vars, dbVars, reqVars, workVars
    <3>2. LogInv(r)' /\ SameInv(r)'
      BY <1>2 DEF JournalInv, QueueInv, LogInv, SameInv, vars, dbVars, reqVars, workVars
    <3>3. QED
      BY <3>1, <3>2 DEF QueueInv
  <2>3. QED
    BY <2>1, <2>2 DEF JournalInv
<1>3. QED
  BY <1>1, <1>2

THEOREM JournalInvariance == Spec => []JournalInv
BY Invariance, InitJournal, NextJournal, PTL DEF Spec

-----------------------------------------------------------------------------
(* The steps of a request, as steps of CommitJournal. *)

StepOf(r) ==
    \/ \E v \in Views, targets \in SUBSET Objects : Begin(r, v, targets)
    \/ \E o \in Objects, v \in {0, 1}, step \in TagSteps : Save(r, o, v, step)
    \/ SaveTags(r)
    \/ \E o \in Objects : Destroy(r, o)
    \/ Commit(r)
    \/ \E x \in MayRaise : Abort(r, x[2])
    \/ Flush(r) \/ FlushFails(r)

LEMMA NoneTouched == [o \in Objects |-> Untouched] = Journal!Nothing
BY DEF Journal!Nothing

LEMMA OthersRest ==
    ASSUME Types, NEW r \in Requests, NEW q \in Requests \ {r}, StepOf(r)
    PROVE  UNCHANGED Own(q)
<1> USE DEF Types, Own, dbVars
<1>1. ASSUME NEW v \in Views, NEW targets \in SUBSET Objects, Begin(r, v, targets)
      PROVE  UNCHANGED Own(q)
  BY <1>1 DEF Begin
<1>2. ASSUME NEW o \in Objects, NEW v \in {0, 1}, NEW step \in TagSteps, Save(r, o, v, step)
      PROVE  UNCHANGED Own(q)
  BY <1>2 DEF Save, Put
<1>3. CASE SaveTags(r)
  <2>1. wrote'[q] = wrote[q] /\ changes'[q] = changes[q] /\ hooks'[q] = hooks[q]
    BY <1>3, SaveTagsDoes
  <2>2. untold'[q] = untold[q] /\ at'[q] = at[q] /\ UNCHANGED <<phase, view, todo, mem, outcome>>
    BY <1>3, SaveTagsDoes
  <2>3. QED
    BY <2>1, <2>2
<1>4. ASSUME NEW o \in Objects, Destroy(r, o)
      PROVE  UNCHANGED Own(q)
  BY <1>4 DEF Destroy, Put
<1>5. CASE Commit(r)
  BY <1>5 DEF Commit
<1>6. ASSUME NEW x \in MayRaise, Abort(r, x[2])
      PROVE  UNCHANGED Own(q)
  BY <1>6 DEF Abort
<1>7. CASE Flush(r) \/ FlushFails(r)
  BY <1>7 DEF Flush, FlushFails, Forget
<1>8. QED
  BY <1>1, <1>2, <1>3, <1>4, <1>5, <1>6, <1>7 DEF StepOf

\* Only the request of a step moves in the journal.
LEMMA OneMoves ==
    ASSUME Types, NEW r \in Requests, StepOf(r)
    PROVE  /\ JournalState' = [JournalState EXCEPT ![r] = StateOf(r)']
           /\ JournalPending' = [JournalPending EXCEPT ![r] = Committed(r)']
<1>1. ASSUME NEW q \in Requests \ {r}
      PROVE  StateOf(q)' = StateOf(q) /\ Committed(q)' = Committed(q)
  BY OthersRest DEF Own, StateOf, Committed
<1>2. QED
  BY <1>1 DEF JournalState, JournalPending

\* A step that commits nothing, tells nothing and ends nothing.
LEMMA QuietSteps ==
    ASSUME Types, NEW r \in Requests, StepOf(r),
           UNCHANGED <<db, log, rq>>, StateOf(r)' = StateOf(r), Committed(r)' = Committed(r)
    PROVE  UNCHANGED Journal!journalVars
<1>1. JournalState' = JournalState /\ JournalPending' = JournalPending
  BY OneMoves DEF JournalState, JournalPending
<1>2. QED
  BY <1>1 DEF Journal!journalVars

LEMMA BeginIsQuiet ==
    ASSUME IInv, NEW r \in Requests, NEW v \in Views, NEW targets \in SUBSET Objects,
           Begin(r, v, targets)
    PROVE  UNCHANGED Journal!journalVars
<1>1. Types /\ PhaseInv(r) /\ StepOf(r)
  BY DEF IInv, RequestInv, StepOf
<1>2. phase[r] = "new" /\ phase'[r] = "view" /\ UNCHANGED <<db, log, rq, wrote>>
  BY <1>1 DEF Begin, Types, dbVars
<1>3. StateOf(r)' = StateOf(r)
  BY <1>2 DEF StateOf
<1>4. Committed(r)' = Committed(r)
  BY <1>1, <1>2 DEF Committed, PhaseInv
<1>5. QED
  BY <1>1, <1>2, <1>3, <1>4, QuietSteps

LEMMA WritesAreQuiet ==
    ASSUME Types, NEW r \in Requests, StepOf(r), phase[r] = "view", view[r] \in Atomic,
           UNCHANGED <<db, log, rq, phase, view>>
    PROVE  UNCHANGED Journal!journalVars
<1>1. StateOf(r)' = StateOf(r) /\ Committed(r)' = Committed(r)
  BY DEF StateOf, Committed
<1>2. QED
  BY <1>1, QuietSteps

LEMMA SaveIsQuiet ==
    ASSUME IInv, NEW r \in Requests, NEW o \in Objects, NEW v \in {0, 1}, NEW step \in TagSteps,
           Save(r, o, v, step)
    PROVE  UNCHANGED Journal!journalVars
<1>1. Types /\ StepOf(r)
  BY DEF IInv, StepOf
<1>2. phase[r] = "view" /\ view[r] \in Atomic /\ UNCHANGED <<db, log, rq, phase, view>>
  BY <1>1, SavesAreAtomic DEF Save
<1>3. QED
  BY <1>1, <1>2, WritesAreQuiet

LEMMA SaveTagsIsQuiet ==
    ASSUME IInv, NEW r \in Requests, SaveTags(r)
    PROVE  UNCHANGED Journal!journalVars
<1>1. Types /\ AtInv(r) /\ StepOf(r)
  BY DEF IInv, RequestInv, StepOf
<1>2. at[r].object # None /\ UNCHANGED <<db, log, rq, phase, view>>
  BY DEF SaveTags, dbVars
<1>3. phase[r] = "view" /\ view[r] \in Atomic
  BY <1>1, <1>2, SavesAreAtomic DEF AtInv
<1>4. QED
  BY <1>1, <1>2, <1>3, WritesAreQuiet

\* The rows S of a request are committed, with the log entries new.
Commits(r, S, new) ==
    /\ StateOf(r) = "open"
    /\ StateOf(r)' = "done" \/ (StateOf(r)' = "open" /\ S # {})
    /\ \A o \in S : Committed(r)[o] = Untouched /\ Committed(r)'[o] \in Value
    /\ \A o \in Objects \ S : Committed(r)'[o] = Committed(r)[o]
    /\ db' = [o \in Objects |-> IF o \in S THEN Committed(r)'[o] ELSE db[o]]
    /\ log' = log \cup new
    /\ \A c, d \in new : c.object = d.object => c = d
    /\ \A c \in new :
           /\ c.request = r /\ c.object \in S
           /\ c.post.value = Committed(r)'[c.object].value
    /\ UNCHANGED rq

LEMMA CommitsRows ==
    ASSUME IInv, NEW r \in Requests, StepOf(r), NEW S \in SUBSET Objects, NEW new,
           Commits(r, S, new)
    PROVE  Journal!Commit(r)
<1> USE DEF Commits
<1> DEFINE w == JournalPending'[r]
           rows == Journal!Touched(w) \ Journal!Touched(JournalPending[r])
<1>1. Types
  BY DEF IInv
<1>2. w = Committed(r)' /\ JournalPending[r] = Committed(r) /\ JournalState[r] = StateOf(r)
      /\ JournalState'[r] = StateOf(r)'
  BY DEF JournalPending, JournalState
<1>3. rows = S
  BY <1>2, ValuesDiffer DEF Journal!Touched
<1>4. S # {} => w # JournalPending[r]
  BY <1>2, ValuesDiffer
<1>5. JournalState[r] = "open" /\ (JournalState'[r] = "done" \/ w # JournalPending[r])
  BY <1>2, <1>4
<1>6. \A o \in Journal!Touched(JournalPending[r]) : w[o] = JournalPending[r][o]
  BY <1>2 DEF Journal!Touched
<1>7. \A o \in rows : w[o] \in State \cup {Gone}
  BY <1>2, <1>3 DEF Value
<1>8. JournalPending' = [JournalPending EXCEPT ![r] = w]
  BY <1>1, <1>2, OneMoves
<1>9. JournalState' \in {JournalState, [JournalState EXCEPT ![r] = "done"]}
  <2>1. JournalState' = [JournalState EXCEPT ![r] = StateOf(r)']
    BY <1>1, OneMoves
  <2>2. CASE StateOf(r)' = "open"
    <3>1. JournalState' = JournalState
      BY <1>2, <2>1, <2>2 DEF JournalState
    <3>2. QED
      BY <3>1
  <2>3. CASE StateOf(r)' = "done"
    BY <2>1, <2>3
  <2>4. QED
    BY <2>2, <2>3
<1>10. db' = [o \in Objects |-> IF o \in rows THEN w[o] ELSE db[o]]
  BY <1>2, <1>3
<1>11. /\ log \subseteq log' /\ Journal!OnePerObject(log' \ log)
       /\ \A c \in log' \ log : c.request = r /\ c.object \in rows /\ Journal!True(c, w)
  BY <1>2, <1>3 DEF Journal!OnePerObject, Journal!True
<1> HIDE DEF w, rows
<1>12. Journal!Commit(r) <=>
        /\ JournalState[r] = "open"
        /\ JournalState'[r] = "done" \/ w # JournalPending[r]
        /\ \A o \in Journal!Touched(JournalPending[r]) : w[o] = JournalPending[r][o]
        /\ \A o \in rows : w[o] \in State \cup {Gone}
        /\ JournalPending' = [JournalPending EXCEPT ![r] = w]
        /\ db' = [o \in Objects |-> IF o \in rows THEN w[o] ELSE db[o]]
        /\ log \subseteq log'
        /\ Journal!OnePerObject(log' \ log)
        /\ \A c \in log' \ log : c.request = r /\ c.object \in rows /\ Journal!True(c, w)
        /\ JournalState' \in {JournalState, [JournalState EXCEPT ![r] = "done"]}
        /\ UNCHANGED rq
  BY DEF Journal!Commit, w, rows
<1>13. QED
  BY <1>5, <1>6, <1>7, <1>8, <1>9, <1>10, <1>11, <1>12

LEMMA DestroyInJournal ==
    ASSUME IInv, JournalInv, NEW r \in Requests, NEW o \in Objects, Destroy(r, o)
    PROVE  Journal!Commit(r) \/ UNCHANGED Journal!journalVars
<1> DEFINE c == Change(r, o, Gone)
<1>0. Types /\ QueueInv(r) /\ StepOf(r)
  BY DEF IInv, JournalInv, StepOf
<1>1. /\ phase[r] = "view" /\ o \in todo[r] /\ wrote' = [wrote EXCEPT ![r][o] = Gone]
      /\ UNCHANGED <<rq, phase, view>>
  BY DEF Destroy, Put
<1>2. CASE view[r] \in Atomic
  <2>1. UNCHANGED <<db, log>>
    BY <1>2 DEF Destroy
  <2>2. QED
    BY <1>0, <1>1, <1>2, <2>1, WritesAreQuiet
<1>3. CASE view[r] \notin Atomic
  <2>1. db' = [db EXCEPT ![o] = Gone] /\ log' = log \cup {c}
    BY <1>3 DEF Destroy
  <2>2. Committed(r) = wrote[r] /\ Committed(r)' = wrote'[r]
    BY <1>1, <1>3 DEF Committed
  <2>3. StateOf(r) = "open" /\ StateOf(r)' = "open"
    BY <1>1 DEF StateOf
  <2>4. wrote[r][o] = Untouched /\ wrote'[r][o] = Gone /\ Gone \in Value
        /\ \A p \in Objects \ {o} : wrote'[r][p] = wrote[r][p]
    BY <1>0, <1>1, ValuesDiffer DEF Types, QueueInv, WroteInv
  <2>5. db' = [p \in Objects |-> IF p \in {o} THEN Committed(r)'[p] ELSE db[p]]
    BY <1>0, <2>1, <2>2, <2>4 DEF Types
  <2>6. c.request = r /\ c.object = o /\ c.post = Gone /\ c \in ChangeRows
    BY <2>4 DEF Change, ChangeRows
  <2> HIDE DEF c
  <2>7. Commits(r, {o}, {c})
    <3>1. \A p \in {o} : Committed(r)[p] = Untouched /\ Committed(r)'[p] \in Value
      BY <2>2, <2>4
    <3>2. \A p \in Objects \ {o} : Committed(r)'[p] = Committed(r)[p]
      BY <2>2, <2>4
    <3>3. \A d \in {c} : d.request = r /\ d.object \in {o}
                         /\ d.post.value = Committed(r)'[d.object].value
      BY <2>2, <2>4, <2>6
    <3>4. {o} # {}
      OBVIOUS
    <3>5. QED
      BY <1>1, <2>1, <2>3, <2>5, <3>1, <3>2, <3>3, <3>4, Zenon DEF Commits
  <2>8. QED
    BY <1>0, <2>7, CommitsRows
<1>4. QED
  BY <1>2, <1>3

LEMMA CommitInJournal ==
    ASSUME IInv, JournalInv, NEW r \in Requests, Commit(r)
    PROVE  Journal!Commit(r)
<1> DEFINE S == {o \in Objects : locked[o] = r}
<1>0. Types /\ LockInv /\ HoldInv /\ PhaseInv(r) /\ QueueInv(r) /\ StepOf(r)
  BY DEF IInv, JournalInv, RequestInv, StepOf
<1>1. /\ phase[r] = "view"
      /\ db'  = [o \in Objects |-> IF locked[o] = r THEN wrote[r][o] ELSE db[o]]
      /\ log' = log \cup changes[r]
      /\ phase'   = [phase   EXCEPT ![r] = "flush"]
      /\ outcome' = [outcome EXCEPT ![r] = "done"]
      /\ UNCHANGED <<rq, view, wrote>>
  BY DEF Commit
<1>2. phase'[r] = "flush" /\ outcome'[r] = "done"
  BY <1>0, <1>1 DEF Types
<1>3. StateOf(r) = "open" /\ StateOf(r)' = "done" /\ Committed(r)' = wrote[r]
  BY <1>1, <1>2 DEF StateOf, Committed
<1>4. \A o \in S : Committed(r)[o] = Untouched
  <2>1. S # {} => view[r] \in Atomic
    BY <1>0, ViewsAssumption DEF HoldInv, ViewsAssumption
  <2>2. QED
    BY <1>1, <2>1 DEF Committed
<1>5. \A o \in S : wrote[r][o] \in Value
  BY <1>0, ViewsAssumption DEF LockInv, Types, ViewsAssumption
<1>6. \A o \in Objects \ S : wrote[r][o] = Committed(r)[o]
  <2>1. CASE view[r] \in Atomic
    BY <1>0, <1>1, <2>1 DEF HoldInv, Committed
  <2>2. CASE view[r] \notin Atomic
    BY <2>2 DEF Committed
  <2>3. QED
    BY <2>1, <2>2
<1>7. db' = [o \in Objects |-> IF o \in S THEN Committed(r)'[o] ELSE db[o]]
  BY <1>1, <1>3
<1>8. ASSUME NEW c \in changes[r]
      PROVE  c.request = r /\ c.object \in S /\ c.post.value = wrote[r][c.object].value
  <2>1. view[r] \in Atomic /\ c.object \in Objects
    BY <1>0, <1>8 DEF PhaseInv, Types, ChangeRows
  <2>2. QED
    BY <1>0, <1>1, <2>1 DEF QueueInv, EntryInv, HoldInv
<1>9. \A c, d \in changes[r] : c.object = d.object => c = d
  BY <1>0 DEF QueueInv, EntryInv
<1> HIDE DEF S
<1>10. S \subseteq Objects
  BY DEF S
<1>11. Commits(r, S, changes[r])
  BY <1>1, <1>3, <1>4, <1>5, <1>6, <1>7, <1>8, <1>9 DEF Commits
<1>12. QED
  BY <1>0, <1>10, <1>11, CommitsRows

LEMMA AbortInJournal ==
    ASSUME IInv, JournalInv, NEW r \in Requests, NEW x \in MayRaise, Abort(r, x[2])
    PROVE  Journal!Fail(r)
<1>0. Types /\ StepOf(r)
  BY DEF IInv, StepOf
<1> SUFFICES ASSUME NEW e \in Errors, e = x[2]
             PROVE  Journal!Fail(r)
  BY DEF MayRaise, Errors
<1>1. phase[r] = "view" /\ phase'[r] = "flush" /\ outcome'[r] = e /\ UNCHANGED <<db, log, rq, view>>
  BY <1>0 DEF Abort, Types
<1>2. e # "done"
  BY DEF Errors
<1>3. StateOf(r) = "open" /\ StateOf(r)' = "failed"
  BY <1>1, <1>2 DEF StateOf
<1>4. Committed(r)' = Committed(r)
  <2>1. CASE view[r] \in Atomic
    <3>1. wrote'[r] = [o \in Objects |-> Untouched]
      BY <1>0, <2>1 DEF Abort, Types
    <3>2. QED
      BY <1>1, <2>1, <3>1 DEF Committed
  <2>2. CASE view[r] \notin Atomic
    <3>1. UNCHANGED wrote
      BY <2>2 DEF Abort
    <3>2. QED
      BY <1>1, <2>2, <3>1 DEF Committed
  <2>3. QED
    BY <2>1, <2>2
<1>5. JournalState[r] = "open" /\ JournalState' = [JournalState EXCEPT ![r] = "failed"]
      /\ JournalPending' = JournalPending
  <2>1. JournalPending' = [JournalPending EXCEPT ![r] = Committed(r)]
    BY <1>0, <1>4, OneMoves
  <2>2. JournalPending' = JournalPending
    BY <2>1 DEF JournalPending
  <2>3. QED
    BY <1>0, <1>3, <2>2, OneMoves DEF JournalState
<1>6. QED
  BY <1>1, <1>5 DEF Journal!Fail

\* Webhooks of a request that ends, given to RQ.
LEMMA HooksInJournal ==
    ASSUME IInv, JournalInv, NEW r \in Requests, StepOf(r), phase[r] = "flush",
           phase'[r] \in {"over", "crashed"}, wrote'[r] = [o \in Objects |-> Untouched],
           UNCHANGED <<db, log>>, NEW given \in SUBSET ToSet(hooks[r]), rq' = rq \cup given
    PROVE  Journal!Tell(r, IF phase'[r] = "over" THEN "told" ELSE "lost")
<1>0. /\ Types /\ HookInv(r) /\ ToldInv(r) /\ QueueInv(r) /\ RqInv
      /\ hooks[r] \in Seq(Entries)
  BY DEF IInv, JournalInv, RequestInv, Types
<1>1. Committed(r) = wrote[r] /\ Committed(r)' = Journal!Nothing
  BY NoneTouched DEF Committed
<1>2. StateOf(r) = (IF outcome[r] = "done" THEN "done" ELSE "failed")
      /\ StateOf(r)' = IF phase'[r] = "over" THEN "told" ELSE "lost"
  BY DEF StateOf
<1>3. ASSUME NEW e \in given
      PROVE  /\ e.request = r /\ e.object \in Objects
             /\ wrote[r][e.object] # Untouched => e.post.value = wrote[r][e.object].value
             /\ outcome[r] = "done" => wrote[r][e.object] # Untouched
             /\ \A c \in log : c.request = r /\ c.object = e.object => c.post = e.post
  <2>1. PICK i \in DOMAIN hooks[r] : e = hooks[r][i]
    BY <1>0 DEF ToSet
  <2>2. e.request = r /\ e.object \in Objects
    BY <1>0, <2>1, HooksAreEntries DEF HookInv
  <2>3. CASE Good(r)
    BY <1>0, <2>1, <2>2, <2>3 DEF ToldInv, Tells, QueueInv, SameInv
  <2>4. CASE ~Good(r)
    <3>1. wrote[r][e.object] = Untouched /\ outcome[r] # "done"
      BY <1>0, <2>2, <2>4 DEF QueueInv, WroteInv, Good
    <3>2. QED
      BY <1>0, <2>1, <2>2, <3>1 DEF QueueInv, SameInv
  <2>5. QED
    BY <2>3, <2>4
<1>4. \A d, e \in given : d.object = e.object => d = e
  BY <1>0 DEF ToSet, HookInv
<1>5. Journal!Told(r, rq' \ rq)
  <2>1. JournalPending[r] = wrote[r] /\ JournalState[r] = StateOf(r)
    BY <1>1 DEF JournalPending, JournalState
  <2>2. Journal!OnePerObject(rq' \ rq)
    BY <1>4 DEF Journal!OnePerObject
  <2>3. ASSUME NEW e \in rq' \ rq
        PROVE  /\ e.request = r
               /\ e.object \in Journal!Touched(wrote[r]) => Journal!True(e, wrote[r])
               /\ StateOf(r) = "done" => e.object \in Journal!Touched(wrote[r])
               /\ \A c \in log : c.request = r /\ c.object = e.object => c.post = e.post
    BY <1>2, <1>3 DEF Journal!Touched, Journal!True
  <2>4. QED
    BY <2>1, <2>2, <2>3 DEF Journal!Told
<1>6. /\ JournalState[r] \in {"done", "failed"}
      /\ JournalState' = [JournalState EXCEPT ![r] = IF phase'[r] = "over" THEN "told" ELSE "lost"]
      /\ JournalPending' = [JournalPending EXCEPT ![r] = Journal!Nothing]
  <2>1. JournalState[r] \in {"done", "failed"}
    BY <1>2 DEF JournalState
  <2>2. QED
    BY <1>0, <1>1, <1>2, <2>1, OneMoves
<1>7. QED
  BY <1>5, <1>6 DEF Journal!Tell

LEMMA FlushInJournal ==
    ASSUME IInv, JournalInv, NEW r \in Requests, Flush(r)
    PROVE  Journal!TellAll(r)
<1>0. /\ Types /\ HookInv(r) /\ ToldInv(r) /\ QueueInv(r) /\ RqInv /\ StepOf(r)
      /\ hooks[r] \in Seq(Entries)
  BY DEF IInv, JournalInv, RequestInv, Types, StepOf
<1>1. /\ phase[r] = "flush" /\ phase'[r] = "over" /\ wrote'[r] = [o \in Objects |-> Untouched]
      /\ UNCHANGED <<db, log>> /\ rq' = rq \cup ToSet(hooks[r])
  BY <1>0 DEF Flush, Forget, dbVars, Types
<1>2. Journal!Tell(r, "told")
  BY <1>0, <1>1, HooksInJournal
<1>3. ASSUME NEW o \in Objects, wrote[r][o] # Untouched
      PROVE  \E e \in rq' \ rq : e.object = o
  <2>1. Good(r)
    BY <1>0, <1>1, <1>3 DEF QueueInv, WroteInv
  <2>2. PICK i \in DOMAIN hooks[r] : hooks[r][i].object = o
    BY <1>0, <1>3, <2>1 DEF ToldInv
  <2>3. hooks[r][i] \in rq' /\ hooks[r][i].request = r
    BY <1>0, <1>1 DEF ToSet, HookInv
  <2>4. hooks[r][i] \notin rq
    BY <1>0, <1>1, <2>3 DEF RqInv
  <2>5. QED
    BY <2>2, <2>3, <2>4
<1>4. JournalPending[r] = wrote[r]
  BY <1>1 DEF JournalPending, Committed
<1>5. QED
  BY <1>2, <1>3, <1>4 DEF Journal!TellAll, Journal!Touched

LEMMA FlushFailsInJournal ==
    ASSUME IInv, JournalInv, NEW r \in Requests, FlushFails(r)
    PROVE  Journal!TellSome(r)
<1>0. Types /\ StepOf(r) /\ hooks[r] \in Seq(Entries)
  BY DEF IInv, Types, StepOf
<1>1. /\ phase[r] = "flush" /\ phase'[r] = "crashed" /\ wrote'[r] = [o \in Objects |-> Untouched]
      /\ UNCHANGED <<db, log>>
  BY <1>0 DEF FlushFails, Forget, dbVars, Types
<1>2. PICK n \in 1 .. Len(hooks[r]) : rq' = rq \cup {hooks[r][i] : i \in 1 .. n - 1}
  BY DEF FlushFails
<1>3. {hooks[r][i] : i \in 1 .. n - 1} \subseteq ToSet(hooks[r])
  BY <1>0 DEF ToSet
<1>4. Journal!Tell(r, "lost")
  BY <1>0, <1>1, <1>2, <1>3, HooksInJournal
<1>5. QED
  BY <1>4 DEF Journal!TellSome

LEMMA InitInJournal == Init => Journal!Init
BY DEF Init, Journal!Init, JournalState, JournalPending, StateOf, Committed, Journal!Nothing, State,
   Gone

LEMMA NextInJournal ==
    IInv /\ JournalInv /\ [Next]_vars => [Journal!Next]_(Journal!journalVars)
<1> SUFFICES ASSUME IInv, JournalInv, [Next]_vars
             PROVE  Journal!Next \/ UNCHANGED Journal!journalVars
    OBVIOUS
<1>1. CASE Next
  BY <1>1, BeginIsQuiet, SaveIsQuiet, SaveTagsIsQuiet, DestroyInJournal, CommitInJournal,
     AbortInJournal, FlushInJournal, FlushFailsInJournal DEF Next, Journal!Next
<1>2. CASE UNCHANGED vars
  BY <1>2 DEF vars, dbVars, reqVars, workVars, Journal!journalVars, JournalState, JournalPending,
     StateOf, Committed
<1>3. QED
  BY <1>1, <1>2

\* ChangeLogging implements CommitJournal: every step of a request is a commit, a
\* failure or the telling of RQ, as one step, or nothing that they show.
THEOREM ImplementsJournal == Spec => CommitsAreJournalled
BY Invariance, JournalInvariance, InitInJournal, NextInJournal, PTL
   DEF Spec, CommitsAreJournalled, Journal!Spec

\* What CommitJournal needs for the next theorem: RQ hears of a request when it is
\* over, and the log before.
ToldOnce == \A e \in rq : JournalState[e.request] \in {"told", "lost"}

\* The webhooks and the change log agree of every object of every request, as
\* handle_changed_object and enqueue_object write them: so it is of CommitJournal.
THEOREM JournalAgrees == Spec => []Journal!LogAndWebhooksAgree
<1> DEFINE Inv == /\ \A e \in rq : e.request \in Requests
                  /\ ToldOnce /\ Journal!LogAndWebhooksAgree
           Fn  == JournalState = [r \in Requests |-> JournalState[r]]
<1>0. Fn /\ Fn'
  BY DEF JournalState
<1>1. Journal!Init => Inv
  BY DEF Journal!Init, ToldOnce, Journal!LogAndWebhooksAgree
<1>2. Inv /\ [Journal!Next]_(Journal!journalVars) => Inv'
  <2> SUFFICES ASSUME Inv, [Journal!Next]_(Journal!journalVars)
               PROVE  Inv'
      OBVIOUS
  <2>1. ASSUME NEW r \in Requests, Journal!Commit(r)
        PROVE  Inv'
    <3>1. /\ UNCHANGED rq /\ JournalState[r] = "open"
          /\ \A c \in log' : c \in log \/ c.request = r
          /\ JournalState' \in {JournalState, [JournalState EXCEPT ![r] = "done"]}
      BY <2>1 DEF Journal!Commit
    <3>2. \A e \in rq : e.request # r /\ JournalState'[e.request] = JournalState[e.request]
      BY <1>0, <3>1 DEF ToldOnce
    <3>3. ToldOnce'
      BY <3>1, <3>2 DEF ToldOnce
    <3>4. Journal!LogAndWebhooksAgree'
      BY <3>1, <3>2 DEF Journal!LogAndWebhooksAgree
    <3>5. QED
      BY <3>1, <3>3, <3>4
  <2>2. ASSUME NEW r \in Requests, Journal!Fail(r)
        PROVE  Inv'
    <3>1. /\ UNCHANGED <<rq, log>> /\ JournalState[r] = "open"
          /\ JournalState' = [JournalState EXCEPT ![r] = "failed"]
      BY <2>2 DEF Journal!Fail
    <3>2. QED
      BY <1>0, <3>1 DEF ToldOnce, Journal!LogAndWebhooksAgree
  <2>3. ASSUME NEW r \in Requests, NEW s \in {"told", "lost"}, Journal!Tell(r, s)
        PROVE  Inv'
    <3>1. /\ UNCHANGED log /\ JournalState' = [JournalState EXCEPT ![r] = s]
          /\ \A e \in rq' : e \in rq \/
                (e.request = r /\ \A c \in log : c.request = r /\ c.object = e.object => c.post = e.post)
      BY <2>3 DEF Journal!Tell, Journal!Told
    <3>2. ToldOnce'
      BY <1>0, <3>1 DEF ToldOnce
    <3>3. Journal!LogAndWebhooksAgree'
      BY <3>1 DEF Journal!LogAndWebhooksAgree
    <3>4. QED
      BY <3>1, <3>2, <3>3
  <2>4. CASE UNCHANGED Journal!journalVars
    BY <2>4 DEF Journal!journalVars, ToldOnce, Journal!LogAndWebhooksAgree
  <2>5. QED
    BY <2>1, <2>2, <2>3, <2>4 DEF Journal!Next, Journal!TellAll, Journal!TellSome
<1>3. Inv => Journal!LogAndWebhooksAgree
  OBVIOUS
<1> HIDE DEF Inv
<1>4. QED
  BY ImplementsJournal, <1>1, <1>2, <1>3, PTL DEF CommitsAreJournalled, Journal!Spec

=============================================================================
