--------------------------- MODULE RoutersProofs ---------------------------
(***************************************************************************)
(* What is proved of MCRouters, and of RouterInstall in it, for any number *)
(* of tasks and imports and any configurations.                            *)
(*                                                                         *)
(* The inductive invariant of RouterInstall says, for each place a task    *)
(* may be at, what its flags tell of the device (TaskInv); the properties  *)
(* read it at the place where they matter.                                 *)
(*                                                                         *)
(* Each step of MCRouters is one of SessionImport or none: what is proved  *)
(* there holds here.                                                       *)
(***************************************************************************)
EXTENDS MCRouters, TLAPS

\* Before the device is compared, nothing was committed in this call or in the
\* one before it.
BeforeInv(t) ==
    pc[t] \in {"none", "render", "open", "load", "compare"} =>
        ~changes[t] /\ error[t] = "no" /\ committed[t] = None

\* A task commits what it has compared, and discards only what it must not commit.
DecideInv(t) ==
    /\ pc[t] \in {"commit", "discard"} =>
           changes[t] /\ error[t] = "no" /\ committed[t] = None
    /\ pc[t] = "commit"  => commit[t] /\ checked[t] = text[t]
    /\ pc[t] = "discard" => ~commit[t]

\* After the call, `changes` of a committing call stands for the commit; a call that
\* ended without them and without an exception found the device running the text.
AfterInv(t) ==
    pc[t] \in {"close", "report"} =>
        /\ changes[t] => error[t] = "no"
        /\ changes[t] /\ commit[t] => committed[t] # None
        /\ committed[t] # None => commit[t] /\ (changes[t] \/ t \in late)
        /\ ~changes[t] /\ error[t] = "no" => t \in matched

\* A call has a usable router and a text.
CallInv(t) ==
    pc[t] \in {"open", "load", "compare", "commit", "discard", "close"} =>
        copy[t] /\ text[t] # None

\* Which calls commit; the command reports changes only of one that does, or an error.
KindInv(t) ==
    /\ pc[t] # "none" /\ kind[t] \in {"install", "deploy_unchecked"} => commit[t]
    /\ pc[t] = "report" /\ kind[t] = "deploy" /\ changes[t] => commit[t]

\* No session is left with a text in it but by a discard_config() that raised.
SessionInv(t) ==
    candidate[t] # None => pc[t] \in {"compare", "commit", "discard"} \/ t \in undiscarded

TaskInv(t) ==
    /\ BeforeInv(t) /\ DecideInv(t) /\ AfterInv(t) /\ CallInv(t) /\ KindInv(t) /\ SessionInv(t)
    /\ committed[t] # None => committed[t] = text[t] /\ checked[t] = text[t]
    /\ pc[t] # "done" => outcome[t] = "none"

IInv == Types /\ (\A t \in Tasks : TaskInv(t)) /\ ReportsAreTrue

-----------------------------------------------------------------------------
LEMMA InitIInv == Init => IInv
<1> SUFFICES ASSUME Init
             PROVE  IInv
    OBVIOUS
<1>1. Types
  <2>1. MaxEdits \in Nat /\ MaxTroubles \in Nat
    BY BoundsAssumption DEF BoundsAssumption
  <2>2. edits = 0 /\ troubles = 0
    BY DEF Init
  <2>3. edits \in 0..MaxEdits /\ troubles \in 0..MaxTroubles
    BY <2>1, <2>2
  <2>4. QED
    BY <2>3 DEF Init, Types, Kinds, Jobs, Stages, Outcomes, Configuration
<1>2. ASSUME NEW t \in Tasks
      PROVE  TaskInv(t)
  BY DEF Init, TaskInv, BeforeInv, DecideInv, AfterInv, CallInv, KindInv, SessionInv
<1>3. ReportsAreTrue
  BY DEF Init, ReportsAreTrue, ReportIsTrue
<1>4. QED
  BY <1>1, <1>2, <1>3 DEF IInv

\* The two bounded counters keep to their bounds.
LEMMA CountersInductive ==
    ASSUME edits \in 0..MaxEdits, troubles \in 0..MaxTroubles, [Next]_vars
    PROVE  edits' \in 0..MaxEdits /\ troubles' \in 0..MaxTroubles
<1>1. MaxEdits \in Nat /\ MaxTroubles \in Nat
  BY BoundsAssumption DEF BoundsAssumption
<1>2. edits' = edits \/ (edits < MaxEdits /\ edits' = edits + 1)
  BY DEF Next, Task, Ask, Render, Open, Load, Compare, Commit, Discard, Raise, Close, Report,
         Die, SetStatus, EditTemplate, ConfigureDevice, Edit, vars
<1>3. troubles' = troubles \/ (troubles < MaxTroubles /\ troubles' = troubles + 1)
  BY DEF Next, Task, Ask, Render, Open, Load, Compare, Commit, Discard, Raise, Close, Report,
         Die, SetStatus, EditTemplate, ConfigureDevice, Edit, vars
<1>4. QED
  BY <1>1, <1>2, <1>3

\* Every step preserves the type invariant; what is committed is a text because
\* a call has one.
LEMMA TypesInductive ==
    ASSUME Types, \A t \in Tasks : CallInv(t), [Next]_vars
    PROVE  Types'
<1>0. edits' \in 0..MaxEdits /\ troubles' \in 0..MaxTroubles
  BY CountersInductive DEF Types
<1> USE <1>0 DEF Types, Kinds, Jobs, Stages, Outcomes, Configuration, Goto, End, Fail
<1>1. ASSUME NEW t \in Tasks, Task(t)
      PROVE  Types'
  <2>1. ASSUME NEW k \in Kinds, Ask(t, k)
        PROVE  Types'
    BY <2>1 DEF Ask, userVars, history
  <2>2. CASE Render(t)
    <3>1. /\ UNCHANGED <<usable, rendering, running, kind, copy, commit, changes, candidate>>
          /\ UNCHANGED <<edits, troubles, checked, matched, committed, late, undiscarded>>
      BY <2>2 DEF Render, userVars, history
    <3>2. pc' \in [Tasks -> Stages] /\ outcome' \in [Tasks -> Outcomes]
      BY <2>2 DEF Render
    <3>3. text' \in [Tasks -> Configuration] /\ error' \in [Tasks -> {"no", "text", "empty"}]
      BY <2>2 DEF Render
    <3>4. QED
      BY ONLY <1>0, <3>1, <3>2, <3>3, Types DEF Types
  <2>3. CASE Open(t)      BY <2>3 DEF Open, userVars, history
  <2>4. CASE Load(t)      BY <2>4 DEF Load, userVars, history, callVars
  <2>5. CASE Compare(t)   BY <2>5 DEF Compare, userVars
  <2>6. CASE Commit(t)    BY <2>6 DEF Commit, CallInv, Apply, Drop, userVars, callVars
  <2>7. CASE Discard(t)   BY <2>7 DEF Discard, Drop, userVars, history, callVars
  <2>8. CASE Raise(t)
    <3>1. InCall(t) /\ UNCHANGED <<userVars, kind, copy, text, commit, outcome, checked, matched>>
      BY <2>8 DEF Raise
    <3>2. \/ UNCHANGED <<running, committed>> /\ Restore(t, {candidate[t], text[t]})
          \/ pc[t] = "commit" /\ Apply(t) /\ Restore(t, {None})
      BY <2>8 DEF Raise
    <3>3. late' = late \/ late' = late \cup {t}
      BY <2>8 DEF Raise
    <3>4. PICK left \in SUBSET Configuration : Restore(t, left)
      BY <3>2
    <3>5. error' \in [Tasks -> {"no", "text", "empty"}]
      <4>1. PICK e \in {"text", "empty"} : error' = [error EXCEPT ![t] = e]
        BY <3>4 DEF Restore
      <4>2. QED
        BY <4>1
    <3>6. changes' \in [Tasks -> BOOLEAN] /\ pc' \in [Tasks -> Stages]
      BY <3>4 DEF Restore
    <3>7. candidate' \in [Tasks -> Configuration] /\ undiscarded' \subseteq Tasks
      <4>1. \E c \in Configuration : candidate' = [candidate EXCEPT ![t] = c]
        BY <3>4 DEF Restore, Drop
      <4>2. undiscarded' = undiscarded \/ undiscarded' = undiscarded \cup {t}
        BY <3>4 DEF Restore
      <4>3. QED
        BY <4>1, <4>2
    <3>8. running' \in Texts /\ committed' \in [Tasks -> Configuration]
      <4>1. CASE UNCHANGED <<running, committed>>
        BY <4>1
      <4>2. CASE pc[t] = "commit" /\ Apply(t)
        BY <4>2 DEF Apply, CallInv
      <4>3. QED
        BY <3>2, <4>1, <4>2
    <3>9. QED
      BY <3>1, <3>3, <3>5, <3>6, <3>7, <3>8 DEF userVars
  <2>9. CASE Close(t)
    <3>1. /\ UNCHANGED <<usable, rendering, running, kind, copy, text, error, outcome, candidate>>
          /\ UNCHANGED <<edits, troubles, checked, matched, committed, late, undiscarded>>
      BY <2>9 DEF Close, userVars, history
    <3>2. /\ pc' \in [Tasks -> Stages] /\ commit' \in [Tasks -> BOOLEAN]
          /\ changes' \in [Tasks -> BOOLEAN]
      BY <2>9 DEF Close
    <3>3. QED
      BY <3>1, <3>2
  <2>10. CASE Report(t)   BY <2>10 DEF Report, userVars, history, callVars
  <2>11. CASE Die(t)      BY <2>11 DEF Die, Drop, userVars, history, callVars
  <2>12. QED
    BY ONLY <1>1, <2>1, <2>2, <2>3, <2>4, <2>5, <2>6, <2>7, <2>8, <2>9, <2>10, <2>11 DEF Task
<1>2. CASE SetStatus \/ EditTemplate \/ ConfigureDevice
  BY <1>2 DEF SetStatus, EditTemplate, ConfigureDevice, Edit, userVars, taskVars, callVars, history
<1>3. CASE UNCHANGED vars
  BY <1>3 DEF vars, userVars, taskVars, callVars, history
<1>4. QED
  BY <1>1, <1>2, <1>3 DEF Next

\* Nothing of task u changes.
Same(u) ==
    /\ pc'[u] = pc[u] /\ commit'[u] = commit[u] /\ changes'[u] = changes[u]
    /\ error'[u] = error[u] /\ copy'[u] = copy[u] /\ text'[u] = text[u]
    /\ outcome'[u] = outcome[u] /\ checked'[u] = checked[u] /\ committed'[u] = committed[u]
    /\ kind'[u] = kind[u] /\ candidate'[u] = candidate[u]
    /\ u \in late' <=> u \in late
    /\ u \in matched' <=> u \in matched
    /\ u \in undiscarded' <=> u \in undiscarded

\* A step of one task leaves what is said of the others.
LEMMA OthersKeep ==
    ASSUME Types, NEW t \in Tasks, Task(t), NEW u \in Tasks, u # t, TaskInv(u)
    PROVE  Same(u) /\ TaskInv(u)'
<1>1. Same(u)
  <2> USE DEF Types, Same, Goto, End, Fail
  <2>1. ASSUME NEW k \in Kinds, Ask(t, k)
        PROVE  Same(u)
    BY <2>1 DEF Ask, history
  <2>2. CASE Render(t)    BY <2>2 DEF Render, history
  <2>3. CASE Open(t)      BY <2>3 DEF Open, history
  <2>4. CASE Load(t)      BY <2>4 DEF Load, history, callVars
  <2>5. CASE Compare(t)   BY <2>5 DEF Compare
  <2>6. CASE Commit(t)    BY <2>6 DEF Commit, Apply, Drop, callVars
  <2>7. CASE Discard(t)   BY <2>7 DEF Discard, Drop, history, callVars
  <2>8. CASE Raise(t)     BY <2>8 DEF Raise, Restore, Apply, Drop
  <2>9. CASE Close(t)     BY <2>9 DEF Close, history
  <2>10. CASE Report(t)   BY <2>10 DEF Report, history, callVars
  <2>11. CASE Die(t)      BY <2>11 DEF Die, Drop, history, callVars
  <2>12. QED
    BY ONLY Task(t), <2>1, <2>2, <2>3, <2>4, <2>5, <2>6, <2>7, <2>8, <2>9, <2>10, <2>11 DEF Task
<1>2. QED
  BY <1>1 DEF Same, TaskInv, BeforeInv, DecideInv, AfterInv, CallInv, KindInv, SessionInv

\* A step of a task establishes what is said of the place it goes to.
LEMMA ActorKeeps ==
    ASSUME Types, NEW t \in Tasks, Task(t), TaskInv(t)
    PROVE  TaskInv(t)'
<1> USE DEF Types, Goto, End, Fail, InCall, TaskInv, BeforeInv, DecideInv, AfterInv, CallInv,
            KindInv, SessionInv
<1>1. ASSUME NEW k \in Kinds, Ask(t, k)
      PROVE  TaskInv(t)'
  BY <1>1 DEF Ask, history
<1>2. CASE Render(t)    BY <1>2 DEF Render, history
<1>3. CASE Open(t)      BY <1>3 DEF Open, history
<1>4. CASE Load(t)      BY <1>4 DEF Load, history, callVars
<1>5. CASE Compare(t)   BY <1>5 DEF Compare
<1>6. CASE Commit(t)    BY <1>6 DEF Commit, Apply, Drop, callVars
<1>7. CASE Discard(t)   BY <1>7 DEF Discard, Drop, history, callVars
<1>8. CASE Raise(t)     BY <1>8 DEF Raise, Restore, Apply, Drop
<1>9. CASE Close(t)     BY <1>9 DEF Close, history
<1>10. CASE Report(t)   BY <1>10 DEF Report, history, callVars
<1>11. CASE Die(t)      BY <1>11 DEF Die, Drop, history, callVars
<1>12. QED
  BY ONLY Task(t), <1>1, <1>2, <1>3, <1>4, <1>5, <1>6, <1>7, <1>8, <1>9, <1>10, <1>11 DEF Task

\* A task reports at the end of its work, and what it says follows from the place
\* it was at.
LEMMA ActorReports ==
    ASSUME Types, NEW t \in Tasks, Task(t), TaskInv(t), outcome'[t] # outcome[t]
    PROVE  ReportIsTrue(t)'
<1> USE DEF Types, Goto, End, Fail, ReportIsTrue
<1>1. Render(t) \/ Report(t)
  BY DEF Task, Ask, Open, Load, Compare, Commit, Discard, Raise, Close, Die
<1>2. CASE Render(t)
  BY <1>2 DEF Render, history, TaskInv, BeforeInv
<1>3. CASE Report(t)
  BY <1>3 DEF Report, history, callVars, TaskInv, AfterInv, KindInv, Jobs, Kinds
<1>4. QED
  BY <1>1, <1>2, <1>3

LEMMA ReportsInductive ==
    ASSUME IInv, [Next]_vars
    PROVE  ReportsAreTrue'
<1> SUFFICES ASSUME NEW u \in Tasks, outcome'[u] # "none"
             PROVE  ReportIsTrue(u)'
    BY DEF ReportsAreTrue, ReportIsTrue
<1>1. ASSUME NEW t \in Tasks, Task(t), t # u
      PROVE  Same(u)
  BY <1>1, OthersKeep DEF IInv
<1>2. ASSUME Task(u), outcome'[u] = outcome[u]
      PROVE  FALSE
  <2>1. pc[u] = "done"
    BY <1>2 DEF IInv, TaskInv
  <2>2. QED
    BY <1>2, <2>1 DEF Task, Ask, Render, Open, Load, Compare, Commit, Discard, Raise, Close,
                      Report, Die, InCall
<1>3. CASE Task(u)
  BY <1>2, <1>3, ActorReports DEF IInv
<1>4. CASE Same(u)
  BY <1>4 DEF Same, IInv, ReportsAreTrue, ReportIsTrue
<1>5. CASE SetStatus \/ EditTemplate \/ ConfigureDevice \/ UNCHANGED vars
  <2>1. Same(u)
    BY <1>5 DEF SetStatus, EditTemplate, ConfigureDevice, Edit, vars, taskVars, callVars, history,
                Same
  <2>2. QED
    BY <1>4, <2>1
<1>6. QED
  BY <1>1, <1>3, <1>4, <1>5 DEF Next

LEMMA StepIInv == IInv /\ [Next]_vars => IInv'
<1> SUFFICES ASSUME IInv, [Next]_vars
             PROVE  IInv'
    OBVIOUS
<1>1. Types'
  BY TypesInductive DEF IInv, TaskInv
<1>2. ASSUME NEW u \in Tasks
      PROVE  TaskInv(u)'
  <2>1. ASSUME NEW t \in Tasks, Task(t)
        PROVE  TaskInv(u)'
    BY <2>1, ActorKeeps, OthersKeep DEF IInv
  <2>2. CASE SetStatus \/ EditTemplate \/ ConfigureDevice \/ UNCHANGED vars
    BY <2>2 DEF SetStatus, EditTemplate, ConfigureDevice, Edit, vars, taskVars, callVars, history,
                IInv, TaskInv, BeforeInv, DecideInv, AfterInv, CallInv, KindInv, SessionInv
  <2>3. QED
    BY <2>1, <2>2 DEF Next
<1>3. ReportsAreTrue'
  BY ReportsInductive
<1>4. QED
  BY <1>1, <1>2, <1>3 DEF IInv

\* The invariant holds in every reachable state.
THEOREM InstallInvariant == Spec => []IInv
  BY InitIInv, StepIInv, PTL DEF Spec

-----------------------------------------------------------------------------
\* Every variable keeps to its values, and a call on the device has a usable
\* router and a text.
THEOREM TypeCorrect == Spec => []TypeOK
<1>1. IInv => TypeOK
  BY DEF IInv, TypeOK, TaskInv, CallInv, InCall
<1>2. QED
  BY <1>1, InstallInvariant, PTL

\* What render_configuration(), set_napalm_configuration() and their callers
\* report is what happened on the device.
THEOREM ReportsTrue == Spec => []ReportsAreTrue
<1>1. IInv => ReportsAreTrue
  BY DEF IInv
<1>2. QED
  BY <1>1, InstallInvariant, PTL

\* What a task makes the device run it has compared with the device before.
THEOREM ComparedFirst == Spec => []CheckedBeforeCommitted
<1>1. IInv => CheckedBeforeCommitted
  BY DEF IInv, TaskInv, CheckedBeforeCommitted
<1>2. QED
  BY <1>1, InstallInvariant, PTL

\* Whatever raises, no session is closed with a text in it that was neither committed
\* nor discarded, unless discard_config() raised.
THEOREM CandidatesDiscarded == Spec => []CandidatesAreDiscarded
<1>1. IInv => CandidatesAreDiscarded
  BY DEF IInv, TaskInv, SessionInv, CandidatesAreDiscarded
<1>2. QED
  BY <1>1, InstallInvariant, PTL

-----------------------------------------------------------------------------
(* RouterInstall implements AtomicInstall. *)

\* Only a task that was asked to install is told to commit, and one whose commit
\* raised has no changes to report and nothing left to do but report.
AskInv(t) ==
    /\ commit[t] => kind[t] # "dry_run"
    /\ t \in late => ~changes[t] /\ pc[t] \in {"close", "report", "done", "dead"}

MapInv == \A t \in Tasks : AskInv(t)

LEMMA MapInvInductive ==
    ASSUME IInv, MapInv, [Next]_vars
    PROVE  MapInv'
<1> SUFFICES ASSUME NEW u \in Tasks
             PROVE  AskInv(u)'
    BY DEF MapInv
<1>1. AskInv(u) /\ TaskInv(u) /\ Types
  BY DEF MapInv, IInv
<1>2. ASSUME NEW t \in Tasks, Task(t), t # u
      PROVE  AskInv(u)'
  BY <1>1, <1>2, OthersKeep DEF Same, AskInv
<1>3. CASE Task(u)
  <2> USE <1>1 DEF Types, Goto, End, Fail, InCall, AskInv
  <2>1. ASSUME NEW k \in Kinds, Ask(u, k)
        PROVE  AskInv(u)'
    BY <2>1 DEF Ask, history, Kinds
  <2>2. CASE Render(u)    BY <2>2 DEF Render, history
  <2>3. CASE Open(u)      BY <2>3 DEF Open, history
  <2>4. CASE Load(u)      BY <2>4 DEF Load, history, callVars
  <2>5. CASE Compare(u)   BY <2>5 DEF Compare
  <2>6. CASE Commit(u)    BY <2>6 DEF Commit, Apply, callVars
  <2>7. CASE Discard(u)   BY <2>7 DEF Discard, history, callVars
  <2>8. CASE Raise(u)     BY <2>8 DEF Raise, Restore
  <2>9. CASE Close(u)     BY <2>9 DEF Close, history
  <2>10. CASE Report(u)   BY <2>10 DEF Report, history, callVars
  <2>11. CASE Die(u)      BY <2>11 DEF Die, history, callVars
  <2>12. QED
    BY ONLY <1>3, <2>1, <2>2, <2>3, <2>4, <2>5, <2>6, <2>7, <2>8, <2>9, <2>10, <2>11 DEF Task
<1>4. CASE SetStatus \/ EditTemplate \/ ConfigureDevice \/ UNCHANGED vars
  BY <1>1, <1>4 DEF SetStatus, EditTemplate, ConfigureDevice, Edit, vars, taskVars, callVars,
                    history, AskInv
<1>5. QED
  BY <1>2, <1>3, <1>4 DEF Next

\* The mapped variables of every task but one stay what they are.
LEMMA MappedOthers ==
    ASSUME IInv, NEW t \in Tasks, Task(t)
    PROVE  \A u \in Tasks \ {t} : AskedOf(u)' = AskedOf(u) /\ ToldBy(u)' = ToldBy(u)
<1> SUFFICES ASSUME NEW u \in Tasks \ {t}
             PROVE  AskedOf(u)' = AskedOf(u) /\ ToldBy(u)' = ToldBy(u)
    OBVIOUS
<1>1. Same(u)
  BY OthersKeep DEF IInv
<1>2. QED
  BY <1>1 DEF Same, AskedOf, ToldBy, Jobs

\* A step at which task t neither asks, nor commits, nor reports.
LEMMA MapsToStutter ==
    ASSUME IInv, NEW t \in Tasks, Task(t),
           AskedOf(t)' = AskedOf(t), ToldBy(t)' = ToldBy(t),
           UNCHANGED <<running, committed, late>>
    PROVE  UNCHANGED Device!installVars
<1>1. \A u \in Tasks : AskedOf(u)' = AskedOf(u) /\ ToldBy(u)' = ToldBy(u)
  BY MappedOthers
<1>2. QED
  BY <1>1 DEF Device!installVars

\* The end of a task, which tells what it did.
LEMMA MapsToTell ==
    ASSUME IInv, NEW t \in Tasks, Task(t), AskedOf(t)' = AskedOf(t), AskedOf(t) # "nothing",
           ToldBy(t) = "nothing",
           ToldBy(t)' \in Device!Words(t),
           UNCHANGED <<running, committed, late>>
    PROVE  Device!Tell(t)
<1>1. \A u \in Tasks : AskedOf(u)' = AskedOf(u)
  BY MappedOthers
<1>2. \A u \in Tasks \ {t} : ToldBy(u)' = ToldBy(u)
  BY MappedOthers
<1>3. QED
  BY <1>1, <1>2 DEF Device!Tell

\* The call of commit_config(), whether it returns or raises.
LEMMA MapsToInstall ==
    ASSUME IInv, MapInv, NEW t \in Tasks, Task(t), pc[t] = "commit",
           AskedOf(t)' = AskedOf(t), ToldBy(t)' = ToldBy(t),
           late' \in {late, late \cup {t}},
           \/ Apply(t)
           \/ UNCHANGED <<running, committed>>
    PROVE  Device!Install(t, text[t]) \/ Device!Doubt(t) \/ UNCHANGED Device!installVars
<1>1. \A u \in Tasks : AskedOf(u)' = AskedOf(u) /\ ToldBy(u)' = ToldBy(u)
  BY MappedOthers
<1>2. /\ [u \in Tasks |-> AskedOf(u)]' = [u \in Tasks |-> AskedOf(u)]
      /\ [u \in Tasks |-> ToldBy(u)]' = [u \in Tasks |-> ToldBy(u)]
  BY <1>1
<1>3. AskedOf(t) \in {"install", "deploy"} /\ committed[t] = None /\ ToldBy(t) = "nothing"
  BY DEF IInv, TaskInv, DecideInv, MapInv, AskInv, AskedOf, ToldBy, Jobs
<1>4. Device!Pending(t)
  BY <1>3 DEF Device!Pending
<1>5. CASE Apply(t)
  BY <1>2, <1>4, <1>5 DEF Apply, Device!Install
<1>6. CASE UNCHANGED <<running, committed>>
  BY <1>2, <1>4, <1>6 DEF Device!Doubt, Device!installVars
<1>7. QED
  BY <1>5, <1>6

LEMMA TaskMaps ==
    ASSUME IInv, MapInv, NEW t \in Tasks, Task(t)
    PROVE  [Device!Next]_(Device!installVars)
<1> USE DEF Goto, End, Fail
<1>0. Types /\ TaskInv(t) /\ AskInv(t)
  BY DEF IInv, MapInv
<1>1. ASSUME NEW k \in Kinds, Ask(t, k)
      PROVE  \E a \in Device!Asks : Device!Ask(t, a)
  <2>1. AskedOf(t) = "nothing" /\ AskedOf(t)' \in {"compare", "install", "deploy"}
    BY <1>0, <1>1 DEF Ask, AskedOf, Types
  <2>2. ToldBy(t)' = ToldBy(t)
    BY <1>0, <1>1 DEF Ask, ToldBy, Types, TaskInv
  <2>3. \A u \in Tasks : ToldBy(u)' = ToldBy(u)
    BY <2>2, MappedOthers
  <2>4. \A u \in Tasks \ {t} : AskedOf(u)' = AskedOf(u)
    BY MappedOthers
  <2>5. Device!Ask(t, AskedOf(t)')
    BY <1>1, <2>1, <2>3, <2>4 DEF Device!Ask, Ask, history
  <2>6. QED
    BY <2>1, <2>5 DEF Device!Asks
<1>2. CASE Render(t)
  <2>1. AskedOf(t)' = AskedOf(t) /\ AskedOf(t) # "nothing" /\ ToldBy(t) = "nothing"
    BY <1>0, <1>2 DEF Render, AskedOf, ToldBy, Types, TaskInv
  <2>2. UNCHANGED <<running, committed, late>>
    BY <1>2 DEF Render, history
  <2>3. ToldBy(t)' = "nothing" \/ (ToldBy(t)' = "not_installed" /\ AskedOf(t) # "deploy")
    BY <1>0, <1>2 DEF Render, ToldBy, AskedOf, Types, TaskInv, Jobs
  <2>4. committed[t] = None
    BY <1>0, <1>2 DEF Render, TaskInv, BeforeInv
  <2>5. QED
    BY <2>1, <2>2, <2>3, <2>4, MapsToStutter, MapsToTell
       DEF Device!Next, Device!Words, Device!Installed
<1>3. CASE Open(t) \/ Load(t) \/ Compare(t) \/ Discard(t) \/ Close(t) \/ Die(t)
  <2>1. AskedOf(t)' = AskedOf(t) /\ ToldBy(t)' = ToldBy(t)
    <3>1. CASE Open(t)
      BY <1>0, <3>1 DEF Open, AskedOf, ToldBy, Types
    <3>2. CASE Load(t) \/ Compare(t)
      BY <1>0, <3>2 DEF Load, Compare, AskedOf, ToldBy, Types, callVars
    <3>3. CASE Discard(t) \/ Die(t)
      BY <1>0, <3>3 DEF Discard, Die, AskedOf, ToldBy, Types, callVars
    <3>4. CASE Close(t)
      <4>1. UNCHANGED <<kind, outcome>> /\ pc[t] = "close"
        BY <3>4 DEF Close
      <4>2. pc'[t] \in {"open", "report"}
        BY <1>0, <3>4 DEF Close, Types
      <4>3. QED
        BY <4>1, <4>2 DEF AskedOf, ToldBy
    <3>5. QED
      BY <1>3, <3>1, <3>2, <3>3, <3>4
  <2>2. UNCHANGED <<running, committed, late>>
    BY <1>3 DEF Open, Load, Compare, Discard, Close, Die, history
  <2>3. QED
    BY <2>1, <2>2, MapsToStutter
<1>4. CASE Commit(t)
  <2>1. AskedOf(t)' = AskedOf(t) /\ ToldBy(t)' = ToldBy(t)
    BY <1>0, <1>4 DEF Commit, AskedOf, ToldBy, Types
  <2>2. text[t] \in Texts
    BY <1>0, <1>4 DEF Commit, TaskInv, CallInv, Types, Configuration
  <2>3. Device!Install(t, text[t]) \/ Device!Doubt(t) \/ UNCHANGED Device!installVars
    BY <1>4, <2>1, MapsToInstall DEF Commit
  <2>4. QED
    BY <2>2, <2>3 DEF Device!Next
<1>5. CASE Raise(t)
  <2>1. AskedOf(t)' = AskedOf(t) /\ ToldBy(t)' = ToldBy(t)
    BY <1>0, <1>5 DEF Raise, Restore, InCall, AskedOf, ToldBy, Types
  <2>2. CASE pc[t] = "commit"
    <3>1. text[t] \in Texts
      BY <1>0, <2>2 DEF TaskInv, CallInv, Types, Configuration
    <3>2. Device!Install(t, text[t]) \/ Device!Doubt(t) \/ UNCHANGED Device!installVars
      BY <1>5, <2>1, <2>2, MapsToInstall DEF Raise
    <3>3. QED
      BY <3>1, <3>2 DEF Device!Next
  <2>3. CASE pc[t] # "commit"
    BY <1>5, <2>1, <2>3, MapsToStutter DEF Raise
  <2>4. QED
    BY <2>2, <2>3
<1>6. CASE Report(t)
  <2>1. AskedOf(t)' = AskedOf(t) /\ AskedOf(t) # "nothing" /\ ToldBy(t) = "nothing"
    BY <1>0, <1>6 DEF Report, AskedOf, ToldBy, Types, TaskInv
  <2>2. UNCHANGED <<running, committed, late>>
    BY <1>6 DEF Report, history
  <2>3. committed[t] # None /\ t \notin late <=> changes[t] /\ commit[t]
    BY <1>0, <1>6 DEF Report, TaskInv, AfterInv, AskInv
  <2>4. ToldBy(t)' \in Device!Words(t)
    <3>1. changes[t] => error[t] = "no"
      BY <1>0, <1>6 DEF Report, TaskInv, AfterInv
    <3>2. /\ outcome'[t] = (IF error[t] = "text" THEN "failed"
                           ELSE IF kind[t] \notin Jobs THEN "success"
                           ELSE IF ~changes[t] THEN "nothing"
                           ELSE IF commit[t] THEN "installed" ELSE "differences")
          /\ kind' = kind /\ pc[t] # "none"
      BY <1>0, <1>6 DEF Report, Types
    <3>3. CASE kind[t] \in Jobs
      <4>1. ToldBy(t)' = IF changes[t] /\ commit[t] THEN "installed" ELSE "not_installed"
        BY <3>1, <3>2, <3>3 DEF ToldBy, Jobs
      <4>2. AskedOf(t) # "deploy"
        BY <3>3 DEF AskedOf
      <4>3. QED
        BY <2>3, <4>1, <4>2 DEF Device!Words, Device!Installed
    <3>4. CASE kind[t] \notin Jobs
      <4>1. ToldBy(t)' = IF error[t] = "text" THEN "failed" ELSE "success"
        BY <3>2, <3>4 DEF ToldBy, Jobs
      <4>2. error[t] = "text" => ~(committed[t] # None /\ t \notin late)
        BY <2>3, <3>1
      <4>3. AskedOf(t) = "deploy"
        BY <3>2, <3>4 DEF AskedOf
      <4>4. QED
        BY <4>1, <4>2, <4>3 DEF Device!Words, Device!Installed
    <3>5. QED
      BY <3>3, <3>4
  <2>5. QED
    BY <2>1, <2>2, <2>3, <2>4, MapsToTell DEF Device!Next
<1>7. QED
  BY ONLY Task(t), <1>1, <1>2, <1>3, <1>4, <1>5, <1>6 DEF Task, Device!Next

\* Everything RouterInstall does amounts to installations that are made in one
\* step, at most once per task and by tasks that were asked for them; a job tells what it
\* did, the command fails only when it did nothing or its commit raised.
THEOREM ImplementsAtomicInstall == Spec => InstallsAtomically
<1>1. Init => Device!Init
  <2>1. Init => \A t \in Tasks : AskedOf(t) = "nothing" /\ ToldBy(t) = "nothing"
    BY DEF Init, AskedOf, ToldBy
  <2>2. Init => running \in Texts /\ committed = [t \in Tasks |-> None] /\ late = {}
    BY DEF Init
  <2>3. QED
    BY <2>1, <2>2 DEF Device!Init
<1>2. Init => MapInv
  BY DEF Init, MapInv, AskInv
<1>3. IInv /\ MapInv /\ [Next]_vars => [Device!Next]_(Device!installVars)
  <2> SUFFICES ASSUME IInv, MapInv, [Next]_vars
               PROVE  [Device!Next]_(Device!installVars)
      OBVIOUS
  <2>1. ASSUME NEW t \in Tasks, Task(t)
        PROVE  [Device!Next]_(Device!installVars)
    BY <2>1, TaskMaps
  <2>2. CASE SetStatus \/ EditTemplate \/ ConfigureDevice \/ UNCHANGED vars
    <3>1. /\ [t \in Tasks |-> AskedOf(t)]' = [t \in Tasks |-> AskedOf(t)]
          /\ [t \in Tasks |-> ToldBy(t)]' = [t \in Tasks |-> ToldBy(t)]
          /\ UNCHANGED <<committed, late>>
      BY <2>2 DEF SetStatus, EditTemplate, ConfigureDevice, Edit, vars, taskVars, history,
                  AskedOf, ToldBy
    <3>2. running' = running \/ running' \in Texts
      BY <2>2 DEF SetStatus, EditTemplate, ConfigureDevice, vars
    <3>3. QED
      BY <3>1, <3>2 DEF Device!Next, Device!Elsewhere, Device!installVars
  <2>3. QED
    BY <2>1, <2>2 DEF Next
<1>4. IInv /\ MapInv /\ [Next]_vars => MapInv'
  BY MapInvInductive
<1>5. QED
  BY <1>1, <1>2, <1>3, <1>4, InstallInvariant, PTL DEF Spec, InstallsAtomically, Device!Spec

-----------------------------------------------------------------------------
(* The composed system *)

\* Imports leave the devices' configurations alone: what is proved of RouterInstall
\* holds in the composed system.
THEOREM RoutersAreInstalled == RoutersSpec => Spec
<1>1. RoutersInit => Init
  BY DEF RoutersInit
<1>2. RoutersNext => [Next]_vars
  BY DEF RoutersNext, Installing, Importing, Next, Task
<1>3. UNCHANGED allVars => UNCHANGED vars
  BY DEF allVars
<1>4. QED
  BY <1>1, <1>2, <1>3, PTL DEF RoutersSpec, Spec

-----------------------------------------------------------------------------
(* Imports of sessions *)

\* What imports do is a step of SessionImport, what the others do is none.
LEMMA ImportSteps == ASSUME [RoutersNext]_allVars PROVE [Import!Next]_(Import!vars)
<1>1. CASE UNCHANGED importing
  BY <1>1 DEF importing, Import!vars, Import!tables, Import!world, Import!importVars, Import!bounds
<1>2. CASE UNCHANGED allVars
  BY <1>1, <1>2 DEF allVars
<1>3. CASE \E i \in Imports : Import!Start(i) \/ Import!Step(i) \/ Import!Raise(i)
  BY <1>3 DEF Import!Next
<1>4. CASE \/ Import!DeleteSession \/ Import!DeleteAS \/ Import!AddSession
           \/ Import!SynchronisePeeringDB \/ Import!SetStatus
  BY <1>4 DEF Import!Next
<1>5. CASE RoutersNext
  BY <1>1, <1>3, <1>4, <1>5 DEF RoutersNext, Installing, Importing, Import!Step
<1>6. QED
  BY <1>2, <1>5

LEMMA ImportsFollowSessionImport == RoutersSpec => Import!Spec
<1>1. RoutersInit => Import!Init
  BY DEF RoutersInit
<1>2. [RoutersNext]_allVars => [Import!Next]_(Import!vars)
  BY ImportSteps
<1>3. QED
  BY <1>1, <1>2, PTL DEF RoutersSpec, Import!Spec

\* Whatever the devices list and whoever edits meanwhile, the imports of the composed
\* system keep to their values; what one has not committed is nobody else's and in
\* no table.
THEOREM ImportTypes == RoutersSpec => []ImportTypeOK
BY ImportsFollowSessionImport, ImportConstants, Import!TypeCorrect DEF ImportTypeOK

\* In the composed system too, a connection that import_sessions() is past has its
\* sessions, for any number of imports, connections and neighbours.
THEOREM PassedIsImported == RoutersSpec => []PassedConnectionsAreImported
BY ImportsFollowSessionImport, ImportConstants, Import!PassedIsImported
   DEF PassedConnectionsAreImported

\* In the composed system too, no commit of import_sessions() shows others an
\* autonomous system without one of its sessions.
THEOREM NewASesAreUsed == RoutersSpec => NewASesHaveSessions
BY ImportsFollowSessionImport, ImportConstants, Import!NewASesAreUsed DEF NewASesHaveSessions

=============================================================================
