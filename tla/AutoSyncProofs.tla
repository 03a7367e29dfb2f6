-------------------------- MODULE AutoSyncProofs --------------------------
(***************************************************************************)
(* Safety of AutoSync for any objects, files and contents, and any number  *)
(* of synchronisations and requests.                                       *)
(*                                                                         *)
(* No property is inductive.  Where a text comes from depends on what the  *)
(* user's request still holds (TextInv); whether the receiver's stale      *)
(* instances do harm depends on whether somebody saved in between          *)
(* (QuietInv).  That all automatic objects are fresh at the end follows    *)
(* from all of them having had a record at the beginning.                  *)
(***************************************************************************)
EXTENDS AutoSync, TLAPS

\* What a file has now is among what it has had; and a text that no user typed,
\* saved or about to be, is among what its file has had.
TextInv ==
    /\ \A f \in Files : files[f] = None \/ files[f] \in held[f]
    /\ pending.instance.file # None /\ ~pending.typed =>
           pending.instance.text \in held[pending.instance.file]
    /\ TextComesFromTheFile

\* An automatic object has the record of its file.
Recorded(o) == object[o].auto /\ object[o].file # None => record[o] = object[o].file

\* An automatic object has the text of its file.
Fresh(o) == object[o].auto /\ object[o].file # None => object[o].text = files[object[o].file]

\* Unless a request was saved during a synchronisation, all automatic objects are
\* recorded at any time, the instances the receiver holds link to the files their
\* rows link to, and what it has visited is fresh.
QuietInv ==
    ~raced =>
        /\ \A o \in Objects : Recorded(o)
        /\ pc \in {"loop", "failed"} =>
               \A o \in todo : /\ loaded[o].auto = object[o].auto
                               /\ loaded[o].file = object[o].file
        /\ pc \in {"loop", "completed"} => \A o \in Objects \ todo : Fresh(o)
        /\ current # None => Fresh(current)
        /\ pc = "completed" => todo = {}

\* The receiver is between the row and the record of an object it has to visit,
\* or between two objects; a request is about an object.
ActorsInv ==
    /\ current # None => current \in todo /\ pc \in {"loop", "failed"}
    /\ pending # NoRequest => pending.object \in Objects

IInv == TypeOK /\ ActorsInv /\ TextInv /\ QuietInv

-----------------------------------------------------------------------------
\* An instance that is synchronised, or cleaned, is an instance still.
LEMMA SynchroniseTypes ==
    ASSUME TypeOK, NEW i \in Instance, Present(i.file)
    PROVE  /\ synchronise(i) \in Instance
           /\ synchronise(i).file = i.file /\ synchronise(i).auto = i.auto
           /\ synchronise(i).text = files[i.file]
BY DEF TypeOK, synchronise, Instance, Present, Link, Content

LEMMA CleanTypes ==
    ASSUME TypeOK, NEW i \in Instance, i.file = None \/ Present(i.file)
    PROVE  /\ clean(i) \in Instance /\ clean(i).file = i.file
           /\ i.file # None => clean(i).text = files[i.file]
<1>1. CASE i.file = None
  BY <1>1 DEF clean, Instance
<1>2. CASE i.file # None
  BY <1>2, SynchroniseTypes DEF clean
<1>3. QED
  BY <1>1, <1>2

\* The record save() leaves is the object's own, or what it was, or none.
LEMMA RecordTypes ==
    ASSUME NEW i \in Instance, NEW r \in Link
    PROVE  /\ saved_record(i, r) \in {i.file, r, None}
           /\ saved_record(i, r) \in Link
           /\ i.auto /\ i.file # None => saved_record(i, r) = i.file
BY DEF saved_record, Instance, Link

LEMMA InitIInv == NoneAssumption /\ Init => IInv
<1> SUFFICES ASSUME NoneAssumption, Init
             PROVE  IInv
    OBVIOUS
<1>1. NoObject \in Instance
  BY DEF NoObject, Instance, Link, Content
<1>2. TypeOK
  BY <1>1 DEF Init, TypeOK, NoRequest, Content, Link, NoObject
<1>3. ActorsInv
  BY DEF Init, ActorsInv
<1>4. TextInv
  BY DEF Init, TextInv, TextComesFromTheFile, NoRequest, NoObject, Exists
<1>5. QuietInv
  BY DEF Init, QuietInv, Recorded, NoObject
<1>6. QED
  BY <1>2, <1>3, <1>4, <1>5 DEF IInv

-----------------------------------------------------------------------------
(* The receiver, and the synchronisation it belongs to *)

\* Rows that link to a file keep their link as long as the file has its row.
LEMMA CascadeKeepsLinks ==
    ASSUME TypeOK, NEW gone \in SUBSET Files, Cascade(gone)
    PROVE  /\ object' \in [Objects -> Instance] /\ record' \in [Objects -> Link]
           /\ \A o \in Objects :
                /\ object[o].file \notin gone => object'[o] = object[o]
                /\ object[o].file \in gone =>
                       object'[o] = [object[o] EXCEPT !.file = None]
                /\ record[o] \notin gone => record'[o] = record[o]
                /\ record[o] \in gone => record'[o] = None
<1>1. \A o \in Objects : object[o] \in Instance /\ [object[o] EXCEPT !.file = None] \in Instance
  BY DEF TypeOK, Instance, Link
<1>2. QED
  BY <1>1 DEF Cascade, TypeOK, Link

LEMMA RefreshFilesKeeps ==
    ASSUME NoneAssumption, IInv, RefreshFiles
    PROVE  IInv'
<1>1. PICK new \in [Files -> Content] :
          /\ files' = new
          /\ held'  = [f \in Files |-> held[f] \cup ({new[f]} \ {None})]
          /\ Cascade({f \in Files : new[f] = None})
  BY DEF RefreshFiles
<1> DEFINE gone == {f \in Files : new[f] = None}
<1>2. /\ object' \in [Objects -> Instance] /\ record' \in [Objects -> Link]
      /\ \A o \in Objects :
           /\ object[o].file \notin gone => object'[o] = object[o]
           /\ object[o].file \in gone => object'[o] = [object[o] EXCEPT !.file = None]
           /\ record[o] \notin gone => record'[o] = record[o]
           /\ record[o] \in gone => record'[o] = None
  BY <1>1, CascadeKeepsLinks DEF IInv
<1>3. held' \in [Files -> SUBSET Contents] /\ \A f \in Files : held[f] \subseteq held'[f]
  BY <1>1 DEF IInv, TypeOK, Content
<1>4. \A o \in Objects : object[o].file \in Link /\ record[o] \in Link
  BY DEF IInv, TypeOK, Instance
<1>5. TypeOK'
  <2>1. \A f \in Files : f \notin gone => Present(f)'
    BY <1>1 DEF Present, NoneAssumption
  <2>2. ASSUME NEW o \in Objects
        PROVE  object'[o].file \in {None} \cup {f \in Files : Present(f)'}
    <3>1. CASE object[o].file \in gone
      <4>1. object'[o].file = None
        BY <1>2, <3>1 DEF IInv, TypeOK, Instance
      <4>2. QED
        BY <4>1
    <3>2. CASE object[o].file \notin gone
      BY <1>2, <1>4, <2>1, <3>2 DEF Link
    <3>3. QED
      BY <3>1, <3>2
  <2>3. ASSUME NEW o \in Objects
        PROVE  record'[o] \in {None} \cup {f \in Files : Present(f)'}
    BY <1>2, <1>4, <2>1 DEF Link
  <2>4. /\ files' \in [Files -> Content] /\ touched' \subseteq Objects
        /\ pc' \in {"idle", "signal", "loop", "completed", "failed"}
        /\ UNCHANGED <<todo, loaded, current, pending, typed>>
    BY <1>1 DEF RefreshFiles, requestVars
  <2>5. QED
    BY <1>2, <1>3, <2>2, <2>3, <2>4 DEF IInv, TypeOK
<1>6. ActorsInv'
  BY DEF RefreshFiles, IInv, ActorsInv, requestVars
<1>7. TextInv'
  <2>1. \A f \in Files : files'[f] = None \/ files'[f] \in held'[f]
    BY <1>1
  <2>2. pending.instance.file # None /\ ~pending.typed =>
            pending.instance.text \in held'[pending.instance.file]
    BY <1>3 DEF IInv, TextInv, TypeOK, Instance, Link
  <2>3. ASSUME NEW o \in Objects, Exists(object'[o]), object'[o].file # None, o \notin typed
        PROVE  object'[o].text \in held'[object'[o].file]
    <3>1. object'[o] = object[o] /\ object[o].file \in Files
      BY <1>2, <1>4, <2>3 DEF Link, IInv, TypeOK, Instance
    <3>2. QED
      BY <1>3, <2>3, <3>1 DEF IInv, TextInv, TextComesFromTheFile
  <2>4. QED
    BY <2>1, <2>2, <2>3 DEF RefreshFiles, TextInv, TextComesFromTheFile, requestVars, Exists
<1>8. QuietInv'
  <2>1. ASSUME ~raced, NEW o \in Objects
        PROVE  Recorded(o)'
    <3>1. Recorded(o)
      BY <2>1 DEF IInv, QuietInv
    <3>2. QED
      BY <1>2, <1>4, <3>1 DEF Recorded, Link, IInv, TypeOK, Instance
  <2>2. current' = None /\ pc' = "signal" /\ raced' = raced
    BY DEF RefreshFiles, IInv, ActorsInv
  <2>3. QED
    BY <2>1, <2>2 DEF QuietInv
<1>9. QED
  BY <1>5, <1>6, <1>7, <1>8 DEF IInv

LEMMA LoadRecordsKeeps ==
    ASSUME NoneAssumption, IInv, LoadRecords
    PROVE  IInv'
<1> USE DEF LoadRecords, dataVars, requestVars, historyVars
<1>1. TypeOK'
  <2>1. NoObject \in Instance
    BY DEF NoObject, Instance, Link, Content
  <2>2. QED
    BY <2>1 DEF IInv, TypeOK, Present
<1>2. ActorsInv'
  BY DEF IInv, ActorsInv
<1>3. TextInv'
  BY DEF IInv, TextInv, TextComesFromTheFile
<1>4. QuietInv'
  <2>1. ASSUME ~raced, NEW o \in Objects \ todo'
        PROVE  Fresh(o)'
    BY <2>1 DEF IInv, QuietInv, Recorded, Fresh
  <2>2. \A o \in Objects : Recorded(o) <=> Recorded(o)'
    BY DEF Recorded
  <2>3. QED
    BY <2>1, <2>2 DEF IInv, QuietInv, ActorsInv
<1>5. QED
  BY <1>1, <1>2, <1>3, <1>4 DEF IInv

\* The row of an object: what its own file has now.
LEMMA SaveObjectKeeps ==
    ASSUME NoneAssumption, IInv, NEW o \in Objects, SaveObject(o)
    PROVE  IInv'
<1> USE DEF SaveObject, dataVars, requestVars
<1> DEFINE i == synchronise(loaded[o])
<1>1. /\ i \in Instance /\ i.file = loaded[o].file /\ i.auto = loaded[o].auto
      /\ i.text = files[i.file] /\ i.file \in Files /\ files[i.file] # None
  <2>1. loaded[o] \in Instance /\ Present(loaded[o].file)
    BY DEF IInv, TypeOK, Synchronisable
  <2>2. QED
    BY <2>1, SynchroniseTypes DEF IInv, Present, Instance, Link
<1>2. object' = [object EXCEPT ![o] = i] /\ object'[o] = i
  BY DEF save_row, IInv, TypeOK
<1> HIDE DEF i
<1>3. TypeOK'
  BY <1>1, <1>2 DEF IInv, TypeOK, Present
<1>4. ActorsInv'
  BY DEF IInv, ActorsInv
<1>5. TextInv'
  BY <1>1, <1>2 DEF IInv, TypeOK, TextInv, TextComesFromTheFile, Exists
<1>6. QuietInv'
  <2> SUFFICES ASSUME ~raced
               PROVE  QuietInv'
    BY DEF QuietInv
  <2>1. i.auto = object[o].auto /\ i.file = object[o].file
    BY <1>1 DEF IInv, QuietInv
  <2>2. ASSUME NEW p \in Objects
        PROVE  Recorded(p)'
    BY <1>2, <2>1 DEF IInv, QuietInv, Recorded, TypeOK
  <2>3. Fresh(o)'
    BY <1>1, <1>2 DEF Fresh
  <2>4. ASSUME NEW p \in todo
        PROVE  loaded[p].auto = object'[p].auto /\ loaded[p].file = object'[p].file
    BY <1>1, <1>2, <2>4 DEF IInv, QuietInv, TypeOK
  <2>5. ASSUME NEW p \in Objects \ todo
        PROVE  Fresh(p)'
    BY <1>2, <2>5 DEF IInv, QuietInv, TypeOK, Fresh
  <2>6. QED
    BY <2>2, <2>3, <2>4, <2>5 DEF QuietInv
<1>7. QED
  BY <1>3, <1>4, <1>5, <1>6 DEF IInv

LEMMA SaveRecordKeeps ==
    ASSUME NoneAssumption, IInv, NEW o \in Objects, SaveRecord(o)
    PROVE  IInv'
<1> USE DEF SaveRecord, dataVars, requestVars, historyVars
<1> DEFINE r == saved_record(loaded[o], record[o])
<1>1. /\ r \in Link /\ r \in {loaded[o].file, record[o], None}
      /\ loaded[o].auto /\ loaded[o].file # None => r = loaded[o].file
  BY RecordTypes DEF IInv, TypeOK
<1>2. record' = [record EXCEPT ![o] = r] /\ record'[o] = r
  BY DEF save_record, IInv, TypeOK
<1>3. r = None \/ Present(r)
  <2>1. record[o] = None \/ Present(record[o])
    BY DEF IInv, TypeOK
  <2>2. CASE loaded[o].auto
    BY <1>1, <2>1, <2>2
  <2>3. CASE ~loaded[o].auto
    BY <2>1, <2>3 DEF saved_record
  <2>4. QED
    BY <2>2, <2>3
<1> HIDE DEF r
<1>4. TypeOK'
  BY <1>1, <1>2, <1>3 DEF IInv, TypeOK, Present, Link
<1>5. ActorsInv'
  BY DEF IInv, ActorsInv
<1>6. TextInv'
  BY DEF IInv, TextInv, TextComesFromTheFile
<1>7. QuietInv'
  <2> SUFFICES ASSUME ~raced
               PROVE  QuietInv'
    BY DEF QuietInv
  <2>1. o \in todo /\ pc \in {"loop", "failed"} /\ Fresh(o)
    BY DEF IInv, QuietInv, ActorsInv, NoneAssumption
  <2>2. ASSUME NEW p \in Objects
        PROVE  Recorded(p)'
    BY <1>1, <1>2, <2>1 DEF IInv, QuietInv, Recorded, TypeOK
  <2>3. \A p \in Objects : Fresh(p)' <=> Fresh(p)
    BY DEF Fresh
  <2>4. QED
    BY <2>1, <2>2, <2>3 DEF IInv, QuietInv
<1>8. QED
  BY <1>4, <1>5, <1>6, <1>7 DEF IInv

\* The end, either of them, and the next beginning.
LEMMA EndKeeps ==
    ASSUME NoneAssumption, IInv, Complete \/ Rest \/ \E o \in Objects : Fail(o)
    PROVE  IInv'
<1> USE DEF Complete, Rest, Fail, dataVars, requestVars, historyVars
<1>0. NoObject \in Instance
  BY DEF NoObject, Instance, Link, Content
<1>1. TypeOK'
  BY <1>0 DEF IInv, TypeOK, Present
<1>2. ActorsInv'
  BY DEF IInv, ActorsInv
<1>3. TextInv'
  BY DEF IInv, TextInv, TextComesFromTheFile
<1>4. QuietInv'
  <2>1. UNCHANGED <<object, record, files>>
    OBVIOUS
  <2>2. \A p \in Objects : (Recorded(p)' <=> Recorded(p)) /\ (Fresh(p)' <=> Fresh(p))
    BY <2>1 DEF Recorded, Fresh
  <2>3. current' = None \/ (current' = current /\ current \in Objects)
    BY DEF IInv, TypeOK
  <2>4. QED
    BY <2>2, <2>3 DEF IInv, QuietInv, Fresh
<1>5. QED
  BY <1>1, <1>2, <1>3, <1>4 DEF IInv

-----------------------------------------------------------------------------
(* Requests of users *)

\* A request that is asked for has looked at its file, or a user typed the text.
LEMMA AskKeeps ==
    ASSUME NoneAssumption, IInv, NEW o \in Objects, NEW i \in Instance, NEW t \in BOOLEAN,
           i.file # None /\ ~t => i.text \in held[i.file],
           Ask(o, i, t)
    PROVE  IInv'
<1> USE DEF Ask, dataVars, syncVars, historyVars
<1>1. TypeOK'
  BY DEF IInv, TypeOK, Present
<1>2. ActorsInv'
  BY DEF IInv, ActorsInv
<1>3. TextInv'
  BY DEF IInv, TextInv, TextComesFromTheFile
<1>4. QuietInv'
  BY DEF IInv, QuietInv, Recorded, Fresh
<1>5. QED
  BY <1>1, <1>2, <1>3, <1>4 DEF IInv

LEMMA RequestsKeep ==
    ASSUME NoneAssumption, IInv, NEW o \in Objects, SubmitForm(o) \/ Patch(o)
    PROVE  IInv'
<1>1. CASE SubmitForm(o)
  <2>1. PICK i \in Instance : /\ i.file = None \/ Present(i.file)
                              /\ Ask(o, clean(i), i.file = None)
    BY <1>1 DEF SubmitForm
  <2>2. /\ clean(i) \in Instance /\ clean(i).file = i.file
        /\ i.file # None => clean(i).text = files[i.file]
    BY <2>1, CleanTypes DEF IInv
  <2>3. i.file # None => files[i.file] \in held[i.file]
    BY <2>1 DEF IInv, TextInv, Present, Instance, Link
  <2>4. QED
    BY <2>1, <2>2, <2>3, AskKeeps
<1>2. CASE Patch(o)
  <2>1. object[o] \in Instance /\ (object[o].file = None \/ Present(object[o].file))
    BY DEF IInv, TypeOK
  <2>2. PICK text \in Contents : Ask(o, [clean(object[o]) EXCEPT !.text = text], TRUE)
    BY <1>2 DEF Patch
  <2>3. clean(object[o]) \in Instance
    BY <2>1, CleanTypes DEF IInv
  <2>4. [clean(object[o]) EXCEPT !.text = text] \in Instance
    BY <2>3 DEF Instance, Content
  <2>5. QED
    BY <2>2, <2>4, AskKeeps
<1>3. QED
  BY <1>1, <1>2

LEMMA SaveRequestKeeps ==
    ASSUME NoneAssumption, IInv, SaveRequest
    PROVE  IInv'
<1> DEFINE o == pending.object
           i == pending.instance
<1>0. i \in Instance /\ NoRequest.instance.file = None /\ NoRequest.typed = FALSE
      /\ NoRequest \in [object: Objects \cup {None}, instance: Instance, typed: BOOLEAN]
  BY DEF IInv, TypeOK, NoRequest, NoObject, Instance, Link, Content
<1>1. /\ pending # NoRequest /\ pending' = NoRequest
      /\ UNCHANGED <<files, held, pc, todo, loaded, current>>
  BY DEF SaveRequest, dataVars, syncVars
<1>2. CASE ~(i.file = None \/ Present(i.file))
  <2>1. UNCHANGED <<object, record, typed, touched, raced>>
    BY <1>2 DEF SaveRequest, historyVars
  <2>2. TypeOK'
    BY <1>0, <1>1, <2>1 DEF IInv, TypeOK, Present
  <2>3. TextInv'
    BY <1>0, <1>1, <2>1 DEF IInv, TextInv, TextComesFromTheFile
  <2>4. QuietInv' /\ ActorsInv'
    BY <1>1, <2>1 DEF IInv, QuietInv, ActorsInv, Recorded, Fresh
  <2>5. QED
    BY <2>2, <2>3, <2>4 DEF IInv
<1>3. CASE i.file = None \/ Present(i.file)
  <2> DEFINE r == saved_record(i, record[o])
  <2>1. /\ object' = [object EXCEPT ![o] = i]
        /\ record' = [p \in Objects |-> IF p = o THEN r ELSE record[p]]
        /\ typed' = IF pending.typed THEN typed \cup {o} ELSE typed \ {o}
        /\ touched' = touched \cup {o} /\ raced' = (raced \/ pc # "idle")
    BY <1>3 DEF SaveRequest, save_row, save_record, Touch, IInv, TypeOK
  <2>2. ASSUME o \in Objects
        PROVE  /\ r \in Link /\ r \in {i.file, record[o], None}
               /\ i.auto /\ i.file # None => r = i.file
    BY <1>0, <2>2, RecordTypes DEF IInv, TypeOK
  <2> HIDE DEF r
  <2>3. TypeOK'
    <3>1. object' \in [Objects -> Instance] /\ record' \in [Objects -> Link]
      BY <1>0, <2>1, <2>2 DEF IInv, TypeOK
    <3>2. ASSUME NEW p \in Objects
          PROVE  {object'[p].file, record'[p]} \subseteq {None} \cup {f \in Files : Present(f)'}
      <4>1. {object[p].file, record[p]} \subseteq {None} \cup {f \in Files : Present(f)'}
        BY <1>1 DEF IInv, TypeOK, Present
      <4>2. i.file \in {None} \cup {f \in Files : Present(f)'}
        BY <1>0, <1>1, <1>3 DEF Instance, Link, Present
      <4>3. QED
        BY <2>1, <2>2, <4>1, <4>2 DEF IInv, TypeOK
    <3>3. typed' \subseteq Objects /\ touched' \subseteq Objects
      BY <1>1, <2>1 DEF IInv, TypeOK, ActorsInv
    <3>4. QED
      BY <1>0, <1>1, <3>1, <3>2, <3>3 DEF IInv, TypeOK
  <2>4. TextInv'
    BY <1>0, <1>1, <2>1 DEF IInv, TypeOK, TextInv, TextComesFromTheFile
  <2>5. ActorsInv'
    BY <1>1 DEF IInv, ActorsInv
  <2>6. QuietInv'
    <3> SUFFICES ASSUME ~raced'
                 PROVE  QuietInv'
      BY DEF QuietInv
    <3>1. ~raced /\ pc = "idle" /\ current = None
      BY <2>1 DEF IInv, ActorsInv
    <3>2. ASSUME NEW p \in Objects
          PROVE  Recorded(p)'
      BY <2>1, <2>2, <3>1 DEF IInv, TypeOK, QuietInv, Recorded
    <3>3. QED
      BY <1>1, <3>1, <3>2 DEF QuietInv
  <2>7. QED
    BY <2>3, <2>4, <2>5, <2>6 DEF IInv
<1>4. QED
  BY <1>2, <1>3

LEMMA DeleteObjectKeeps ==
    ASSUME NoneAssumption, IInv, NEW o \in Objects, DeleteObject(o)
    PROVE  IInv'
<1>0. NoObject \in Instance /\ NoObject.file = None /\ ~NoObject.auto /\ ~Exists(NoObject)
  BY DEF NoObject, Instance, Link, Content, Exists
<1>1. /\ object' = [object EXCEPT ![o] = NoObject]
      /\ record' = [record EXCEPT ![o] = IF @ = object[o].file THEN None ELSE @]
      /\ typed' = typed \ {o} /\ touched' = touched \cup {o} /\ raced' = (raced \/ pc # "idle")
      /\ UNCHANGED <<files, held, pc, todo, loaded, current, pending>>
  BY DEF DeleteObject, Touch, dataVars, syncVars
<1>2. TypeOK'
  BY <1>0, <1>1 DEF IInv, TypeOK, Present, Link
<1>3. TextInv'
  BY <1>0, <1>1 DEF IInv, TypeOK, TextInv, TextComesFromTheFile, Exists
<1>4. ActorsInv'
  BY <1>1 DEF IInv, ActorsInv
<1>5. QuietInv'
  <2> SUFFICES ASSUME ~raced'
               PROVE  QuietInv'
    BY DEF QuietInv
  <2>1. ~raced /\ pc = "idle" /\ current = None
    BY <1>1 DEF IInv, ActorsInv
  <2>2. ASSUME NEW p \in Objects
        PROVE  Recorded(p)'
    BY <1>0, <1>1, <2>1 DEF IInv, TypeOK, QuietInv, Recorded
  <2>3. QED
    BY <1>1, <2>1, <2>2 DEF QuietInv
<1>6. QED
  BY <1>2, <1>3, <1>4, <1>5 DEF IInv

LEMMA DeleteFileKeeps ==
    ASSUME NoneAssumption, IInv, NEW g \in Files, DeleteFile(g)
    PROVE  IInv'
<1>1. /\ files' = [files EXCEPT ![g] = None] /\ Cascade({g})
      /\ touched' = touched \cup {o \in Objects : object[o].file = g}
      /\ raced' = (raced \/ pc # "idle")
      /\ UNCHANGED <<held, pc, todo, loaded, current, pending, typed>>
  BY DEF DeleteFile, syncVars
<1>2. /\ object' \in [Objects -> Instance] /\ record' \in [Objects -> Link]
      /\ \A o \in Objects :
           /\ object[o].file # g => object'[o] = object[o]
           /\ object[o].file = g => object'[o] = [object[o] EXCEPT !.file = None]
           /\ record[o] # g => record'[o] = record[o]
           /\ record[o] = g => record'[o] = None
  BY <1>1, CascadeKeepsLinks DEF IInv
<1>3. TypeOK'
  <2>1. files' \in [Files -> Content] /\ touched' \subseteq Objects
    BY <1>1 DEF IInv, TypeOK, Content
  <2>2. \A f \in Files \ {g} : Present(f) => Present(f)'
    BY <1>1 DEF IInv, TypeOK, Present
  <2>3. ASSUME NEW o \in Objects
        PROVE  {object'[o].file, record'[o]} \subseteq {None} \cup {f \in Files : Present(f)'}
    <3>1. {object[o].file, record[o]} \subseteq {None} \cup {f \in Files : Present(f)}
      BY DEF IInv, TypeOK
    <3>2. object[o].file = g => object'[o].file = None
      BY <1>2 DEF IInv, TypeOK, Instance
    <3>3. QED
      BY <1>2, <2>2, <3>1, <3>2
  <2>4. QED
    BY <1>1, <1>2, <2>1, <2>3 DEF IInv, TypeOK
<1>4. TextInv'
  <2>1. \A f \in Files : files'[f] = None \/ files'[f] \in held'[f]
    BY <1>1 DEF IInv, TypeOK, TextInv
  <2>2. ASSUME NEW o \in Objects, Exists(object'[o]), object'[o].file # None, o \notin typed
        PROVE  object'[o].text \in held[object'[o].file]
    <3>1. object'[o] = object[o]
      BY <1>2, <2>2 DEF IInv, TypeOK, Instance
    <3>2. QED
      BY <2>2, <3>1 DEF IInv, TextInv, TextComesFromTheFile
  <2>3. QED
    BY <1>1, <2>1, <2>2 DEF IInv, TextInv, TextComesFromTheFile, Exists
<1>5. ActorsInv'
  BY <1>1 DEF IInv, ActorsInv
<1>6. QuietInv'
  <2> SUFFICES ASSUME ~raced'
               PROVE  QuietInv'
    BY DEF QuietInv
  <2>1. ~raced /\ pc = "idle" /\ current = None
    BY <1>1 DEF IInv, ActorsInv
  <2>2. ASSUME NEW p \in Objects
        PROVE  Recorded(p)'
    <3>1. Recorded(p)
      BY <2>1 DEF IInv, QuietInv
    <3>2. QED
      BY <1>2, <3>1 DEF IInv, TypeOK, Recorded, Instance
  <2>3. QED
    BY <1>1, <2>1, <2>2 DEF QuietInv
<1>7. QED
  BY <1>3, <1>4, <1>5, <1>6 DEF IInv

-----------------------------------------------------------------------------
LEMMA NextIInv == NoneAssumption /\ IInv /\ [Next]_vars => IInv'
<1> SUFFICES ASSUME NoneAssumption, IInv, [Next]_vars
             PROVE  IInv'
    OBVIOUS
<1>1. CASE UNCHANGED vars
  BY <1>1 DEF IInv, TypeOK, Present, ActorsInv, TextInv, TextComesFromTheFile, QuietInv,
     Recorded, Fresh, vars, dataVars, syncVars, requestVars, historyVars
<1>2. QED
  BY <1>1, RefreshFilesKeeps, LoadRecordsKeeps, SaveObjectKeeps, SaveRecordKeeps, EndKeeps,
     RequestsKeep, SaveRequestKeeps, DeleteObjectKeeps, DeleteFileKeeps DEF Next, Receiver

\* IInv holds in every reachable state.  Its first conjunct says that no row ever
\* links to a file without a row.
THEOREM Invariance == NoneAssumption => (Spec => []IInv)
<1> SUFFICES ASSUME NoneAssumption
             PROVE  Spec => []IInv
    OBVIOUS
<1>1. Init => IInv
  BY InitIInv
<1>2. IInv /\ [Next]_vars => IInv'
  BY NextIInv
<1>3. QED
  BY <1>1, <1>2, PTL DEF Spec

\* A text that no user typed was, at some time, that of the file the object
\* links to: stale instances bring back an old text, and never another file's.
THEOREM TextIsTheFiles == NoneAssumption => (Spec => []TextComesFromTheFile)
<1>1. IInv => TextComesFromTheFile
  BY DEF IInv, TextInv
<1>2. QED
  BY Invariance, <1>1, PTL

\* When the receiver is done, automatic objects have their files' texts, those
\* users touched meanwhile aside.
THEOREM AutomaticIsFresh == NoneAssumption => (Spec => []AutomaticObjectsAreFresh)
<1>1. IInv => AutomaticObjectsAreFresh
  BY DEF IInv, QuietInv, Fresh, AutomaticObjectsAreFresh
<1>2. QED
  BY Invariance, <1>1, PTL

\* Between synchronisations every automatic object has the record by which the
\* next one finds it.
THEOREM AutomaticIsRecorded == NoneAssumption => (Spec => []AutomaticObjectsAreRecorded)
<1>1. IInv => AutomaticObjectsAreRecorded
  BY DEF IInv, QuietInv, Recorded, AutomaticObjectsAreRecorded
<1>2. QED
  BY Invariance, <1>1, PTL

=============================================================================
