------------------------ MODULE SessionImportProofs ------------------------
(***************************************************************************)
(* Safety of SessionImport for any imports, connections and listings.      *)
(*                                                                         *)
(* The rows an import has not committed are in nobody else's transaction   *)
(* and not in the tables (Apart, OwnRows): those who would insert them     *)
(* wait.  An autonomous system it holds is that of a session it holds, or  *)
(* of the one it is about to create (OwnASes).  A session it has to leave  *)
(* behind is there already, is held, or is still to come to (OwnDue).      *)
(***************************************************************************)
EXTENDS SessionImport, SequenceTheorems, TLAPS

Key2 == Connections \X Ips

Values ==
    /\ ases \subseteq ASNs /\ known \subseteq ASNs
    /\ sessions \in [Key2 -> ASNs \cup {None}]
    /\ usable \in [Connections -> BOOLEAN] /\ neighbours \in [Connections -> Listings]
    /\ pc \in [Imports -> {"idle", "connection", "look", "as", "session",
                           "completed", "errored"}]
    /\ at \in [Imports -> 1..(NumConnections + 1)]
    /\ todo \in [Imports -> Seq(Neighbours)]
    /\ newAses \in [Imports -> SUBSET ASNs] /\ newSessions \in [Imports -> SUBSET Neighbours]
    /\ due \in [Imports -> SUBSET Key2]
    /\ edits \in 0..MaxEdits /\ troubles \in 0..MaxTroubles

\* An import is in a transaction at a connection; it holds no session with the
\* neighbour it is about to insert.
OwnStage(i) ==
    /\ InTransaction(i) => at[i] \in Connections
    /\ ~InTransaction(i) => newAses[i] = {} /\ newSessions[i] = {}
    /\ pc[i] \in {"as", "session"} =>
        /\ todo[i] # <<>>
        /\ \A n \in newSessions[i] : n.ip # neighbour(i).ip

\* What it holds is one session for an address, and nothing that is in the tables.
OwnRows(i) ==
    /\ newAses[i] \cap ases = {}
    /\ \A n \in newSessions[i] : sessions[<<at[i], n.ip>>] = None
    /\ \A n, m \in newSessions[i] : n.ip = m.ip => n = m

OwnASes(i) ==
    \A a \in newAses[i] :
        \/ \E n \in newSessions[i] : n.asn = a
        \/ pc[i] = "session" /\ neighbour(i).asn = a

OwnDue(i) ==
    \A c \in Connections, ip \in Ips : <<c, ip>> \in due[i] =>
        /\ c <= at[i] /\ ip \in Allowed
        /\ c < at[i] => sessions[<<c, ip>>] # None
        /\ c = at[i] =>
            /\ pc[i] \in {"look", "as", "session", "errored"}
            /\ InTransaction(i) => \/ sessions[<<c, ip>>] # None
                                   \/ \E n \in newSessions[i] : n.ip = ip
                                   \/ \E n \in Range(todo[i]) : n.ip = ip

Own(i) == OwnStage(i) /\ OwnRows(i) /\ OwnASes(i) /\ OwnDue(i)

Apart(i, j) ==
    /\ newAses[i] \cap newAses[j] = {}
    /\ at[i] = at[j] => \A n \in newSessions[i], m \in newSessions[j] : n.ip # m.ip

IInv ==
    /\ Values
    /\ \A i \in Imports : Own(i)
    /\ \A i, j \in Imports : i # j => Apart(i, j)

-----------------------------------------------------------------------------
(* What an import does leaves what is said of the others *)

SameOwn(j) ==
    /\ pc'[j] = pc[j] /\ at'[j] = at[j] /\ todo'[j] = todo[j] /\ due'[j] = due[j]
    /\ newAses'[j] = newAses[j] /\ newSessions'[j] = newSessions[j]

LEMMA OwnIsLocal ==
    ASSUME NEW j \in Imports, Own(j), SameOwn(j), UNCHANGED tables
    PROVE  Own(j)'
BY DEF Own, SameOwn, OwnStage, OwnRows, OwnASes, OwnDue, InTransaction, neighbour, tables

LEMMA ApartIsMutual ==
    ASSUME NEW i, NEW j, Apart(i, j)
    PROVE  Apart(j, i)
BY DEF Apart

LEMMA ApartIsLocal ==
    ASSUME NEW i \in Imports, NEW j \in Imports, Apart(i, j), SameOwn(j),
           newAses'[i] \subseteq newAses[i],
           newSessions'[i] = {} \/ (newSessions'[i] = newSessions[i] /\ at'[i] = at[i])
    PROVE  Apart(i, j)' /\ Apart(j, i)'
BY DEF Apart, SameOwn

\* A step of one import that writes no table: what is left to show is about it.
LEMMA FrameIInv ==
    ASSUME IInv, NEW i \in Imports, UNCHANGED tables,
           \A j \in Imports \ {i} : SameOwn(j),
           Values', Own(i)', \A j \in Imports \ {i} : Apart(i, j)'
    PROVE  IInv'
<1>1. \A j \in Imports : Own(j)'
  BY OwnIsLocal DEF IInv
<1>2. ASSUME NEW j \in Imports, NEW k \in Imports, j # k
      PROVE  Apart(j, k)'
  <2>1. CASE j = i
    BY <1>2, <2>1
  <2>2. CASE k = i
    BY <1>2, <2>2 DEF Apart
  <2>3. CASE j # i /\ k # i
    BY <1>2, <2>3 DEF IInv, SameOwn, Apart
  <2>4. QED
    BY <2>1, <2>2, <2>3
<1>3. QED
  BY <1>1, <1>2 DEF IInv

\* The same of a step that takes nothing into the transaction.
LEMMA FrameQuiet ==
    ASSUME IInv, NEW i \in Imports, UNCHANGED tables,
           \A j \in Imports \ {i} : SameOwn(j), Values', Own(i)',
           newAses'[i] \subseteq newAses[i],
           newSessions'[i] = {} \/ (newSessions'[i] = newSessions[i] /\ at'[i] = at[i])
    PROVE  IInv'
<1>1. \A j \in Imports \ {i} : Apart(i, j)'
  BY ApartIsLocal DEF IInv
<1>2. QED
  BY <1>1, FrameIInv

-----------------------------------------------------------------------------
LEMMA InitIInv == ImportAssumption /\ Init => IInv
<1> SUFFICES ASSUME ImportAssumption, Init
             PROVE  IInv
    OBVIOUS
<1>1. Values
  BY DEF Init, Values, ImportAssumption, Key2, Connections
<1>2. \A i \in Imports : Own(i)
  BY DEF Init, Own, OwnStage, OwnRows, OwnASes, OwnDue, InTransaction
<1>3. \A i, j \in Imports : Apart(i, j)
  BY DEF Init, Apart
<1>4. QED
  BY <1>1, <1>2, <1>3 DEF IInv

\* What a sequence of neighbours is made of.
LEMMA TodoProperties ==
    ASSUME Values, NEW i \in Imports, todo[i] # <<>>
    PROVE  /\ neighbour(i) \in Neighbours /\ Tail(todo[i]) \in Seq(Neighbours)
           /\ neighbour(i).ip \in Ips /\ neighbour(i).asn \in ASNs
           /\ \A n \in Range(todo[i]) : n = neighbour(i) \/ n \in Range(Tail(todo[i]))
<1>1. todo[i] \in Seq(Neighbours)
  BY DEF Values
<1>2. /\ neighbour(i) \in Neighbours /\ Tail(todo[i]) \in Seq(Neighbours)
      /\ Len(Tail(todo[i])) = Len(todo[i]) - 1
      /\ \A k \in 1..Len(Tail(todo[i])) : Tail(todo[i])[k] = todo[i][k + 1]
  BY <1>1, HeadTailProperties DEF neighbour
<1>3. ASSUME NEW k \in 1..Len(todo[i])
      PROVE  todo[i][k] = neighbour(i) \/ todo[i][k] \in Range(Tail(todo[i]))
  <2>1. CASE k = 1
    BY <1>1, <2>1 DEF neighbour
  <2>2. CASE k # 1
    <3>1. k - 1 \in 1..Len(Tail(todo[i])) /\ todo[i][k] = Tail(todo[i])[k - 1]
      BY <1>1, <1>2, <2>2
    <3>2. QED
      BY <1>2, <3>1, RangeOfSeq DEF Range
  <2>3. QED
    BY <2>1, <2>2
<1>4. QED
  BY <1>1, <1>2, <1>3 DEF Range, Neighbours

\* An exception, wherever it is raised, leaves no row and no session to wait for.
LEMMA FailKeeps ==
    ASSUME IInv, NEW i \in Imports, Fail(i), UNCHANGED <<tables, world, edits, due>>,
           troubles' \in 0..MaxTroubles
    PROVE  IInv'
<1>1. /\ pc' = [pc EXCEPT ![i] = "errored"] /\ todo' = [todo EXCEPT ![i] = <<>>]
      /\ newAses' = [newAses EXCEPT ![i] = {}] /\ newSessions' = [newSessions EXCEPT ![i] = {}]
      /\ UNCHANGED <<ases, sessions, known, usable, neighbours, edits, due, at>>
  BY DEF Fail, Goto, CloseTransaction, tables, world
<1>2. Values'
  BY <1>1, EmptySeq DEF IInv, Values
<1>3. /\ pc'[i] = "errored" /\ todo'[i] = <<>> /\ newAses'[i] = {} /\ newSessions'[i] = {}
      /\ at'[i] = at[i] /\ due'[i] = due[i]
      /\ \A j \in Imports \ {i} : SameOwn(j)
  BY <1>1 DEF IInv, Values, SameOwn
<1>4. Own(i)'
  BY <1>1, <1>3 DEF IInv, Own, OwnStage, OwnRows, OwnASes, OwnDue, InTransaction
<1>5. QED
  BY <1>2, <1>3, <1>4, FrameQuiet

-----------------------------------------------------------------------------
(* The steps of an import *)

LEMMA StartKeeps ==
    ASSUME IInv, NEW i \in Imports, Start(i)
    PROVE  IInv'
<1>1. /\ pc[i] = "idle" /\ pc' = [pc EXCEPT ![i] = "connection"]
      /\ UNCHANGED <<ases, sessions, known, usable, neighbours, at, todo, newAses, newSessions,
                     edits, troubles, due>>
  BY DEF Start, Goto, tables, world, bounds
<1>2. Values'
  BY <1>1 DEF IInv, Values
<1>3. pc'[i] = "connection" /\ \A j \in Imports \ {i} : SameOwn(j)
  BY <1>1 DEF IInv, Values, SameOwn
<1>4. Own(i)'
  BY <1>1, <1>3 DEF IInv, Own, OwnStage, OwnRows, OwnASes, OwnDue, InTransaction
<1>5. QED
  BY <1>1, <1>2, <1>3, <1>4, FrameQuiet DEF tables

LEMMA SkipConnectionKeeps ==
    ASSUME ImportAssumption, IInv, NEW i \in Imports, SkipConnection(i)
    PROVE  IInv'
<1>1. /\ pc[i] = "connection" /\ at[i] \in Connections /\ at' = [at EXCEPT ![i] = @ + 1]
      /\ UNCHANGED <<ases, sessions, known, usable, neighbours, pc, todo, newAses, newSessions,
                     edits, troubles, due>>
  BY DEF SkipConnection, tables, world, bounds
<1>2. at'[i] = at[i] + 1 /\ \A j \in Imports \ {i} : SameOwn(j)
  BY <1>1 DEF IInv, Values, SameOwn
<1>3. Values'
  BY <1>1 DEF IInv, Values, ImportAssumption, Connections
<1>4. newSessions'[i] = {} /\ newAses'[i] \subseteq newAses[i] /\ UNCHANGED tables
  BY <1>1 DEF IInv, Own, OwnStage, InTransaction, tables
<1>5. Own(i)'
  <2>1. OwnStage(i)' /\ OwnRows(i)' /\ OwnASes(i)'
    BY <1>1, <1>4 DEF IInv, Own, OwnStage, OwnRows, OwnASes, InTransaction
  <2>2. OwnDue(i)'
    BY <1>1, <1>2 DEF IInv, Own, OwnDue, InTransaction, Connections
  <2>3. QED
    BY <2>1, <2>2 DEF Own
<1>6. QED
  BY <1>2, <1>3, <1>4, <1>5, FrameQuiet

LEMMA GetNeighboursKeeps ==
    ASSUME ImportAssumption, IInv, NEW i \in Imports, GetNeighbours(i)
    PROVE  IInv'
<1>1. /\ pc[i] = "connection" /\ at[i] \in Connections
      /\ pc' = [pc EXCEPT ![i] = "look"]
      /\ due' = [due EXCEPT ![i] =
                    @ \cup {<<at[i], n.ip>> : n \in {m \in Range(todo'[i]) : m.ip \in Allowed}}]
      /\ UNCHANGED <<ases, sessions, known, usable, neighbours, at, newAses, newSessions,
                     edits>>
  BY DEF GetNeighbours, Goto, tables, world
<1>2. /\ \E listed \in Seq(Neighbours) : todo' = [todo EXCEPT ![i] = listed]
      /\ troubles' \in 0..MaxTroubles
  <2>1. neighbours[at[i]] \in Seq(Neighbours)
    BY <1>1 DEF IInv, Values, ImportAssumption
  <2>2. todo = [todo EXCEPT ![i] = todo[i]] /\ todo[i] \in Seq(Neighbours)
    BY DEF IInv, Values
  <2>3. QED
    BY <2>1, <2>2 DEF GetNeighbours, IInv, Values, ImportAssumption
<1>3. /\ todo' \in [Imports -> Seq(Neighbours)] /\ pc'[i] = "look"
      /\ \A j \in Imports \ {i} : SameOwn(j)
  BY <1>1, <1>2 DEF IInv, Values, SameOwn
<1>4. Range(todo'[i]) \subseteq Neighbours
  BY <1>3, RangeOfSeq
<1>5. \A c \in Connections, ip \in Ips : <<c, ip>> \in due'[i] =>
          \/ <<c, ip>> \in due[i]
          \/ c = at[i] /\ ip \in Allowed /\ \E n \in Range(todo'[i]) : n.ip = ip
  BY <1>1 DEF IInv, Values
<1>6. Values'
  <2>1. {<<at[i], n.ip>> : n \in {m \in Range(todo'[i]) : m.ip \in Allowed}} \subseteq Key2
    BY <1>1, <1>4 DEF Key2, Neighbours
  <2>2. due' \in [Imports -> SUBSET Key2]
    BY <1>1, <2>1 DEF IInv, Values
  <2>3. QED
    BY <1>1, <1>2, <1>3, <2>2 DEF IInv, Values
<1>7. newAses[i] = {} /\ newSessions[i] = {}
  BY <1>1 DEF IInv, Own, OwnStage, InTransaction
<1>8. OwnStage(i)' /\ OwnRows(i)' /\ OwnASes(i)'
  BY <1>1, <1>3, <1>7 DEF IInv, Own, OwnStage, OwnRows, OwnASes, InTransaction
<1>9. OwnDue(i)'
  <2>1. ASSUME NEW c \in Connections, NEW ip \in Ips, <<c, ip>> \in due[i]
        PROVE  c < at[i] /\ ip \in Allowed /\ sessions[<<c, ip>>] # None
    BY <1>1, <2>1 DEF IInv, Own, OwnDue, Connections
  <2>2. /\ at[i] <= at[i] /\ ~(at[i] < at[i])
        /\ \A c \in Connections : c < at[i] => c <= at[i] /\ c # at[i]
    BY <1>1 DEF Connections
  <2>3. QED
    BY <1>1, <1>3, <1>5, <2>1, <2>2 DEF OwnDue
<1>10. QED
  BY <1>1, <1>3, <1>6, <1>7, <1>8, <1>9, FrameQuiet DEF Own, tables

LEMMA LookKeeps ==
    ASSUME IInv, NEW i \in Imports, Look(i)
    PROVE  IInv'
<1> DEFINE exists  == \/ sessions[Key(i)] # None
                      \/ \E n \in newSessions[i] : n.ip = neighbour(i).ip
           unknown == ~exists /\ neighbour(i).asn \notin known
<1>1. /\ pc[i] = "look" /\ todo[i] # <<>>
      /\ UNCHANGED <<ases, sessions, known, usable, neighbours, at, newAses, newSessions, edits,
                     troubles>>
  BY DEF Look, tables, world, bounds
<1>2. at[i] \in Connections
  BY <1>1 DEF IInv, Own, OwnStage, InTransaction
<1>3. CASE neighbour(i).ip \notin Allowed \/ exists \/ unknown
  <2>1. /\ todo' = [todo EXCEPT ![i] = Tail(@)] /\ pc' = pc
        /\ due' = [due EXCEPT ![i] = IF unknown THEN @ \ {Key(i)} ELSE @]
    BY <1>3 DEF Look
  <2>2. /\ todo'[i] = Tail(todo[i]) /\ todo' \in [Imports -> Seq(Neighbours)]
        /\ due'[i] = IF unknown THEN due[i] \ {Key(i)} ELSE due[i]
        /\ \A j \in Imports \ {i} : SameOwn(j)
    BY <1>1, <2>1, TodoProperties DEF IInv, Values, SameOwn
  <2>3. Values'
    BY <1>1, <2>1, <2>2 DEF IInv, Values
  <2>4. OwnStage(i)' /\ OwnRows(i)' /\ OwnASes(i)'
    BY <1>1, <1>2, <2>1 DEF IInv, Own, OwnStage, OwnRows, OwnASes, InTransaction
  <2>5. ASSUME NEW c \in Connections, NEW ip \in Ips, <<c, ip>> \in due'[i], c = at[i]
        PROVE  \/ sessions[<<c, ip>>] # None \/ \E n \in newSessions[i] : n.ip = ip
               \/ \E n \in Range(todo'[i]) : n.ip = ip
    <3>1. <<c, ip>> \in due[i]
      BY <2>2, <2>5
    <3>2. \/ sessions[<<c, ip>>] # None \/ \E n \in newSessions[i] : n.ip = ip
          \/ \E n \in Range(todo[i]) : n.ip = ip
      BY <1>1, <2>5, <3>1 DEF IInv, Own, OwnDue, InTransaction
    <3>3. CASE ip # neighbour(i).ip
      BY <1>1, <2>2, <3>2, <3>3, TodoProperties DEF IInv
    <3>4. CASE ip = neighbour(i).ip
      <4>1. Key(i) = <<c, ip>>
        BY <2>5, <3>4 DEF Key
      <4>2. CASE unknown
        BY <2>2, <2>5, <4>1, <4>2
      <4>3. CASE exists
        BY <3>4, <4>1, <4>3
      <4>4. CASE neighbour(i).ip \notin Allowed
        BY <2>5, <3>1, <3>4, <4>4 DEF IInv, Own, OwnDue
      <4>5. QED
        BY <1>3, <4>2, <4>3, <4>4
    <3>5. QED
      BY <3>3, <3>4
  <2>6. OwnDue(i)'
    BY <1>1, <2>1, <2>2, <2>5 DEF IInv, Own, OwnDue, InTransaction
  <2>7. QED
    BY <1>1, <2>2, <2>3, <2>4, <2>6, FrameQuiet DEF Own, tables
<1>4. CASE neighbour(i).ip \in Allowed /\ ~exists /\ ~unknown
  <2>1. pc' = [pc EXCEPT ![i] = "as"] /\ todo' = todo /\ due' = due
    BY <1>4 DEF Look, Goto, IInv, Values
  <2>2. pc'[i] = "as" /\ \A j \in Imports \ {i} : SameOwn(j)
    BY <1>1, <2>1 DEF IInv, Values, SameOwn
  <2>3. Values'
    BY <1>1, <2>1 DEF IInv, Values
  <2>4. OwnStage(i)' /\ OwnRows(i)' /\ OwnASes(i)' /\ OwnDue(i)'
    BY <1>1, <1>2, <1>4, <2>1, <2>2
       DEF IInv, Own, OwnStage, OwnRows, OwnASes, OwnDue, InTransaction, neighbour
  <2>5. QED
    BY <1>1, <2>2, <2>3, <2>4, FrameQuiet DEF Own, tables
<1>5. QED
  BY <1>3, <1>4

\* Whoever comes second to an autonomous system waits, so that nobody else holds it.
LEMMA GetOrCreateASKeeps ==
    ASSUME IInv, NEW i \in Imports, GetOrCreateAS(i)
    PROVE  IInv'
<1> DEFINE asn == neighbour(i).asn
<1>1. /\ pc[i] = "as" /\ ~Blocked(i) /\ pc' = [pc EXCEPT ![i] = "session"]
      /\ newAses' = [newAses EXCEPT ![i] = @ \cup ({asn} \ ases)]
      /\ UNCHANGED <<ases, sessions, known, usable, neighbours, at, todo, newSessions, edits,
                     troubles, due>>
  BY DEF GetOrCreateAS, Goto, tables, world, bounds
<1>2. todo[i] # <<>>
  BY <1>1 DEF IInv, Own, OwnStage
<1>3. asn \in ASNs /\ neighbour(i)' = neighbour(i)
  BY <1>1, <1>2, TodoProperties DEF IInv, neighbour
<1>4. /\ pc'[i] = "session" /\ newAses'[i] = newAses[i] \cup ({asn} \ ases)
      /\ \A j \in Imports \ {i} : SameOwn(j)
  BY <1>1 DEF IInv, Values, SameOwn
<1>5. Values'
  BY <1>1, <1>3 DEF IInv, Values
<1>6. OwnStage(i)' /\ OwnRows(i)' /\ OwnASes(i)' /\ OwnDue(i)'
  <2>1. OwnStage(i)' /\ OwnRows(i)'
    BY <1>1, <1>3, <1>4 DEF IInv, Own, OwnStage, OwnRows, InTransaction
  <2>2. OwnASes(i)'
    BY <1>1, <1>3, <1>4 DEF IInv, Own, OwnASes
  <2>3. OwnDue(i)'
    BY <1>1, <1>4 DEF IInv, Own, OwnDue, InTransaction
  <2>4. QED
    BY <2>1, <2>2, <2>3
<1>7. ASSUME NEW j \in Imports \ {i}
      PROVE  Apart(i, j)'
  <2>1. asn \in newAses[j] => asn \in ases \cup newAses[i]
    BY <1>1 DEF Blocked, WaitsFor, WaitsForAS
  <2>2. newAses'[i] \cap newAses[j] = {}
    BY <1>4, <2>1 DEF IInv, Apart
  <2>3. QED
    BY <1>1, <1>4, <2>2 DEF IInv, Apart, SameOwn
<1>8. QED
  BY <1>1, <1>4, <1>5, <1>6, <1>7, FrameIInv DEF Own, tables

\* And so does who comes second to an address of a connection.
LEMMA CreateSessionKeeps ==
    ASSUME IInv, NEW i \in Imports, CreateSession(i)
    PROVE  IInv'
<1>1. pc[i] = "session" /\ ~Blocked(i) /\ UNCHANGED <<tables, world, bounds, due>>
  BY DEF CreateSession
<1>2. CASE sessions[Key(i)] # None
  BY <1>1, <1>2, FailKeeps DEF CreateSession, bounds, IInv, Values
<1>3. CASE sessions[Key(i)] = None
  <2> DEFINE n == neighbour(i)
  <2>1. /\ pc' = [pc EXCEPT ![i] = "look"] /\ todo' = [todo EXCEPT ![i] = Tail(@)]
        /\ newSessions' = [newSessions EXCEPT ![i] = @ \cup {n}]
        /\ UNCHANGED <<ases, sessions, known, usable, neighbours, at, newAses, edits, troubles,
                       due>>
    BY <1>1, <1>3 DEF CreateSession, Goto, tables, world, bounds
  <2>2. /\ todo[i] # <<>> /\ at[i] \in Connections
        /\ \A m \in newSessions[i] : m.ip # n.ip
    BY <1>1 DEF IInv, Own, OwnStage, InTransaction
  <2>3. /\ n \in Neighbours /\ n.ip \in Ips /\ Tail(todo[i]) \in Seq(Neighbours)
        /\ \A m \in Range(todo[i]) : m = n \/ m \in Range(Tail(todo[i]))
    BY <2>2, TodoProperties DEF IInv
  <2>4. /\ pc'[i] = "look" /\ todo'[i] = Tail(todo[i])
        /\ newSessions'[i] = newSessions[i] \cup {n}
        /\ \A j \in Imports \ {i} : SameOwn(j)
    BY <2>1 DEF IInv, Values, SameOwn
  <2>5. Values'
    BY <2>1, <2>3 DEF IInv, Values
  <2> HIDE DEF n
  <2>6. OwnStage(i)'
    BY <2>1, <2>2, <2>4 DEF OwnStage, InTransaction
  <2>7. OwnRows(i)'
    <3>1. sessions[<<at[i], n.ip>>] = None
      BY <1>3 DEF Key, n
    <3>2. QED
      BY <2>1, <2>2, <2>4, <3>1 DEF IInv, Own, OwnRows
  <2>8. OwnASes(i)'
    BY <1>1, <2>1, <2>4 DEF IInv, Own, OwnASes, n
  <2>9. OwnDue(i)'
    <3>1. ASSUME NEW c \in Connections, NEW ip \in Ips, <<c, ip>> \in due[i], c = at[i]
          PROVE  \/ sessions[<<c, ip>>] # None \/ \E m \in newSessions'[i] : m.ip = ip
                 \/ \E m \in Range(todo'[i]) : m.ip = ip
      BY <1>1, <2>3, <2>4, <3>1 DEF IInv, Own, OwnDue, InTransaction
    <3>2. QED
      BY <1>1, <2>1, <2>4, <3>1 DEF IInv, Own, OwnDue
  <2>10. ASSUME NEW j \in Imports \ {i}
         PROVE  Apart(i, j)'
    <3>1. at[j] = at[i] => \A m \in newSessions[j] : m.ip # n.ip
      BY <1>1 DEF Blocked, WaitsFor, WaitsForSession, n
    <3>2. QED
      BY <2>1, <2>4, <3>1 DEF IInv, Apart, SameOwn
  <2>11. QED
    BY <2>1, <2>4, <2>5, <2>6, <2>7, <2>8, <2>9, <2>10, FrameIInv DEF Own, tables
<1>4. QED
  BY <1>2, <1>3

LEMMA CompleteKeeps ==
    ASSUME IInv, NEW i \in Imports, Complete(i)
    PROVE  IInv'
<1>1. /\ pc[i] = "connection" /\ at[i] \notin Connections
      /\ pc' = [pc EXCEPT ![i] = "completed"]
      /\ UNCHANGED <<ases, sessions, known, usable, neighbours, at, todo, newAses, newSessions,
                     edits, troubles, due>>
  BY DEF Complete, Goto, tables, world, bounds
<1>2. Values'
  BY <1>1 DEF IInv, Values
<1>3. pc'[i] = "completed" /\ \A j \in Imports \ {i} : SameOwn(j)
  BY <1>1 DEF IInv, Values, SameOwn
<1>4. Own(i)'
  BY <1>1, <1>3 DEF IInv, Own, OwnStage, OwnRows, OwnASes, OwnDue, InTransaction
<1>5. QED
  BY <1>1, <1>2, <1>3, <1>4, FrameQuiet DEF tables

\* What a commit puts in the tables.
Committed(i) == ~\E n \in newSessions[i] : n.asn \notin ases \cup newAses[i]

LEMMA CommittedRows ==
    ASSUME IInv, NEW i \in Imports, Commit(i), Committed(i)
    PROVE  /\ ases' = ases \cup newAses[i] /\ at[i] \in Connections
           /\ sessions' \in [Key2 -> ASNs \cup {None}]
           /\ \A n \in newSessions[i] :
                  <<at[i], n.ip>> \in Key2 /\ sessions'[<<at[i], n.ip>>] = n.asn
           /\ \A k \in Key2 : \/ sessions'[k] = sessions[k]
                              \/ \E n \in newSessions[i] : k = <<at[i], n.ip>>
<1> DEFINE held(k) == \E n \in newSessions[i] : k = <<at[i], n.ip>>
           row(k)  == CHOOSE n \in newSessions[i] : k = <<at[i], n.ip>>
<1>1. /\ pc[i] = "look" /\ ases' = ases \cup newAses[i]
      /\ sessions' = [k \in DOMAIN sessions |-> IF held(k) THEN row(k).asn ELSE sessions[k]]
  BY DEF Commit, Committed
<1>2. at[i] \in Connections
  BY <1>1 DEF IInv, Own, OwnStage, InTransaction
<1>3. DOMAIN sessions = Key2 /\ \A k \in Key2 : sessions[k] \in ASNs \cup {None}
  BY DEF IInv, Values
<1>4. \A n \in newSessions[i] : n.ip \in Ips /\ n.asn \in ASNs
  BY DEF IInv, Values, Neighbours
<1>5. \A k \in Key2 : held(k) => row(k) \in newSessions[i] /\ k = <<at[i], row(k).ip>>
  OBVIOUS
<1>6. ASSUME NEW n \in newSessions[i]
      PROVE  <<at[i], n.ip>> \in Key2 /\ held(<<at[i], n.ip>>) /\ row(<<at[i], n.ip>>) = n
  <2>1. <<at[i], n.ip>> \in Key2 /\ held(<<at[i], n.ip>>)
    BY <1>2, <1>4 DEF Key2
  <2>2. row(<<at[i], n.ip>>) \in newSessions[i] /\ row(<<at[i], n.ip>>).ip = n.ip
    BY <1>5, <2>1
  <2>3. QED
    BY <2>1, <2>2 DEF IInv, Own, OwnRows
<1> HIDE DEF row
<1>7. \A k \in Key2 : sessions'[k] = IF held(k) THEN row(k).asn ELSE sessions[k]
  BY <1>1, <1>3
<1>8. \A n \in newSessions[i] : <<at[i], n.ip>> \in Key2 /\ sessions'[<<at[i], n.ip>>] = n.asn
  BY <1>6, <1>7
<1>9. \A k \in Key2 : (IF held(k) THEN row(k).asn ELSE sessions[k]) \in ASNs \cup {None}
  BY <1>3, <1>4, <1>5
<1>10. sessions' \in [Key2 -> ASNs \cup {None}]
  BY <1>1, <1>3, <1>9
<1>11. QED
  BY <1>1, <1>2, <1>7, <1>8, <1>10

LEMMA CommitKeeps ==
    ASSUME ImportAssumption, IInv, NEW i \in Imports, Commit(i)
    PROVE  IInv'
<1>1. pc[i] = "look" /\ todo[i] = <<>> /\ UNCHANGED <<world, bounds, due>>
  BY DEF Commit
<1>2. CASE ~Committed(i)
  BY <1>1, <1>2, FailKeeps DEF Commit, Committed, bounds, IInv, Values
<1>3. CASE Committed(i)
  <2>1. /\ pc' = [pc EXCEPT ![i] = "connection"] /\ at' = [at EXCEPT ![i] = @ + 1]
        /\ todo' = [todo EXCEPT ![i] = <<>>] /\ newAses' = [newAses EXCEPT ![i] = {}]
        /\ newSessions' = [newSessions EXCEPT ![i] = {}]
        /\ UNCHANGED <<known, usable, neighbours, edits, troubles, due>>
    BY <1>1, <1>3 DEF Commit, Committed, Goto, CloseTransaction, world, bounds
  <2>2. /\ pc'[i] = "connection" /\ at'[i] = at[i] + 1 /\ todo'[i] = <<>> /\ newAses'[i] = {}
        /\ newSessions'[i] = {} /\ due'[i] = due[i] /\ \A j \in Imports \ {i} : SameOwn(j)
    BY <2>1 DEF IInv, Values, SameOwn
  <2>3. /\ ases' = ases \cup newAses[i] /\ at[i] \in Connections
        /\ sessions' \in [Key2 -> ASNs \cup {None}]
        /\ \A n \in newSessions[i] : sessions'[<<at[i], n.ip>>] = n.asn /\ n.asn # None
        /\ \A k \in Key2 : \/ sessions'[k] = sessions[k]
                           \/ \E n \in newSessions[i] : k = <<at[i], n.ip>>
    <3>1. \A n \in newSessions[i] : n.asn # None
      BY DEF ImportAssumption, IInv, Values, Neighbours
    <3>2. QED
      BY <1>3, <3>1, CommittedRows
  <2>4. \A k \in Key2 : sessions[k] # None => sessions'[k] # None
    BY <2>3
  <2>5. Values'
    BY <2>1, <2>3, EmptySeq DEF IInv, Values, ImportAssumption, Connections
  <2>6. Own(i)'
    <3>1. OwnStage(i)' /\ OwnRows(i)' /\ OwnASes(i)'
      BY <2>2 DEF OwnStage, OwnRows, OwnASes, InTransaction
    <3>2. ASSUME NEW c \in Connections, NEW ip \in Ips, <<c, ip>> \in due[i]
          PROVE  c < at[i] + 1 /\ ip \in Allowed /\ sessions'[<<c, ip>>] # None
      <4>1. c <= at[i] /\ ip \in Allowed /\ c < at[i] + 1
        BY <2>3, <3>2 DEF IInv, Own, OwnDue, Connections
      <4>2. CASE c < at[i]
        BY <2>4, <3>2, <4>1, <4>2 DEF IInv, Own, OwnDue, Key2
      <4>3. CASE c = at[i]
        <5>1. sessions[<<c, ip>>] # None \/ \E n \in newSessions[i] : n.ip = ip
          BY <1>1, <3>2, <4>3 DEF IInv, Own, OwnDue, InTransaction, Range
        <5>2. QED
          BY <2>3, <2>4, <4>1, <4>3, <5>1 DEF Key2
      <4>4. QED
        BY <2>3, <4>1, <4>2, <4>3 DEF Connections
    <3>3. OwnDue(i)'
      BY <2>2, <2>3, <3>2 DEF OwnDue, Connections
    <3>4. QED
      BY <3>1, <3>3 DEF Own
  <2>7. ASSUME NEW j \in Imports \ {i}
        PROVE  Own(j)'
    <3>1. Own(j) /\ Apart(i, j) /\ SameOwn(j)
      BY <2>2 DEF IInv
    <3>2. OwnStage(j)' /\ OwnASes(j)'
      BY <3>1 DEF SameOwn, Own, OwnStage, OwnASes, InTransaction, neighbour
    <3>3. OwnRows(j)'
      <4>1. newAses'[j] \cap ases' = {}
        BY <2>3, <3>1 DEF SameOwn, Own, OwnRows, Apart
      <4>2. ASSUME NEW n \in newSessions[j]
            PROVE  sessions'[<<at[j], n.ip>>] = None
        <5>1. ~\E m \in newSessions[i] : <<at[j], n.ip>> = <<at[i], m.ip>>
          BY <3>1 DEF Apart
        <5>2. <<at[j], n.ip>> \in Key2
          BY <3>1 DEF Own, OwnStage, IInv, Values, Neighbours, Key2
        <5>3. QED
          BY <2>3, <3>1, <5>1, <5>2 DEF Own, OwnRows
      <4>3. QED
        BY <3>1, <4>1, <4>2 DEF SameOwn, Own, OwnRows
    <3>4. OwnDue(j)'
      BY <2>4, <3>1 DEF SameOwn, Own, OwnDue, InTransaction, Key2
    <3>5. QED
      BY <3>2, <3>3, <3>4 DEF Own
  <2>8. ASSUME NEW j \in Imports, NEW k \in Imports, j # k
        PROVE  Apart(j, k)'
    BY <2>2, <2>8 DEF IInv, Apart, SameOwn
  <2>9. QED
    BY <2>5, <2>6, <2>7, <2>8 DEF IInv
<1>4. QED
  BY <1>2, <1>3

-----------------------------------------------------------------------------
(* Everybody else, and all of them *)

\* What is forgotten is due no more.
LEMMA ForgetKeeps ==
    ASSUME IInv, NEW keys \in SUBSET Key2, Forget(keys), ases' \subseteq ases,
           edits' \in 0..MaxEdits, UNCHANGED <<importVars, troubles, world>>
    PROVE  IInv'
<1>1. /\ UNCHANGED <<known, usable, neighbours, pc, at, todo, newAses, newSessions, troubles>>
      /\ sessions' = [k \in Key2 |-> IF k \in keys THEN None ELSE sessions[k]]
      /\ due' = [i \in Imports |-> due[i] \ keys]
  BY DEF Forget, importVars, world, IInv, Values
<1>2. Values'
  BY <1>1 DEF IInv, Values
<1>3. \A k \in Key2 : sessions'[k] = None \/ sessions'[k] = sessions[k]
  BY <1>1
<1>4. ASSUME NEW i \in Imports
      PROVE  Own(i)'
  <2>1. OwnStage(i)' /\ OwnASes(i)'
    BY <1>1 DEF IInv, Own, OwnStage, OwnASes, InTransaction, neighbour
  <2>2. OwnRows(i)'
    <3>1. \A n \in newSessions[i] : <<at[i], n.ip>> \in Key2
      BY DEF IInv, Values, Own, OwnStage, Neighbours, Key2
    <3>2. QED
      BY <1>1, <1>3, <3>1 DEF IInv, Own, OwnRows
  <2>3. ASSUME NEW c \in Connections, NEW ip \in Ips, <<c, ip>> \in due'[i]
        PROVE  <<c, ip>> \in due[i] /\ sessions'[<<c, ip>>] = sessions[<<c, ip>>]
    BY <1>1, <2>3 DEF Key2
  <2>4. OwnDue(i)'
    BY <1>1, <2>3 DEF IInv, Own, OwnDue, InTransaction
  <2>5. QED
    BY <2>1, <2>2, <2>4 DEF Own
<1>5. QED
  BY <1>1, <1>2, <1>4 DEF IInv, Apart

\* A session somebody adds is none that an import holds: that one would wait.
LEMMA AddSessionKeeps ==
    ASSUME ImportAssumption, IInv, AddSession
    PROVE  IInv'
<1>1. PICK k \in Key2, a \in ases :
          /\ \A i \in Imports : \A n \in newSessions[i] : k # <<at[i], n.ip>>
          /\ sessions' = [sessions EXCEPT ![k] = a]
  BY DEF AddSession, IInv, Values
<1>2. /\ edits' \in 0..MaxEdits
      /\ UNCHANGED <<ases, known, usable, neighbours, pc, at, todo, newAses, newSessions,
                     troubles, due>>
  BY DEF AddSession, Edit, importVars, world, ImportAssumption, IInv, Values
<1>3. a \in ASNs /\ a # None
  BY DEF ImportAssumption, IInv, Values
<1>4. /\ \A q \in Key2 : q # k => sessions'[q] = sessions[q]
      /\ \A q \in Key2 : sessions[q] # None => sessions'[q] # None
  BY <1>1, <1>3 DEF IInv, Values
<1>5. Values'
  BY <1>1, <1>2, <1>3 DEF IInv, Values
<1>6. ASSUME NEW i \in Imports
      PROVE  Own(i)'
  <2>1. OwnStage(i)' /\ OwnASes(i)'
    BY <1>2 DEF IInv, Own, OwnStage, OwnASes, InTransaction, neighbour
  <2>2. OwnRows(i)'
    <3>1. \A n \in newSessions[i] : <<at[i], n.ip>> \in Key2
      BY DEF IInv, Values, Own, OwnStage, Neighbours, Key2
    <3>2. \A n \in newSessions[i] : sessions'[<<at[i], n.ip>>] = sessions[<<at[i], n.ip>>]
      BY <1>1, <1>4, <3>1
    <3>3. QED
      BY <1>2, <3>2 DEF IInv, Own, OwnRows
  <2>3. OwnDue(i)'
    BY <1>2, <1>4 DEF IInv, Own, OwnDue, InTransaction, Key2
  <2>4. QED
    BY <2>1, <2>2, <2>3 DEF Own
<1>7. QED
  BY <1>2, <1>5, <1>6 DEF IInv, Apart

LEMMA OthersKeep ==
    ASSUME ImportAssumption, IInv,
           DeleteSession \/ DeleteAS \/ AddSession \/ SynchronisePeeringDB \/ SetStatus
    PROVE  IInv'
<1>1. CASE DeleteSession \/ DeleteAS
  <2>1. UNCHANGED <<importVars, troubles, world>> /\ ases' \subseteq ases
    BY <1>1 DEF DeleteSession, DeleteAS, Edit
  <2>2. edits' \in 0..MaxEdits
    BY <1>1 DEF DeleteSession, DeleteAS, Edit, ImportAssumption, IInv, Values
  <2>3. \E keys \in SUBSET Key2 : Forget(keys)
    BY <1>1 DEF DeleteSession, DeleteAS, IInv, Values
  <2>4. QED
    BY <2>1, <2>2, <2>3, ForgetKeeps
<1>2. CASE AddSession
  BY <1>2, AddSessionKeeps
<1>3. CASE SynchronisePeeringDB \/ SetStatus
  <2>1. /\ UNCHANGED <<ases, sessions, neighbours, pc, at, todo, newAses, newSessions, troubles,
                       due>>
        /\ edits' \in 0..MaxEdits
    BY <1>3 DEF SynchronisePeeringDB, SetStatus, Edit, importVars, tables, ImportAssumption,
                IInv, Values
  <2>2. known' \subseteq ASNs /\ usable' \in [Connections -> BOOLEAN]
    BY <1>3 DEF SynchronisePeeringDB, SetStatus, IInv, Values
  <2>3. Values'
    BY <2>1, <2>2 DEF IInv, Values
  <2>4. \A i \in Imports : Own(i)'
    BY <2>1, OwnIsLocal DEF IInv, SameOwn, tables
  <2>5. QED
    BY <2>1, <2>3, <2>4 DEF IInv, Apart
<1>4. QED
  BY <1>1, <1>2, <1>3

LEMMA NextIInv == ImportAssumption /\ IInv /\ [Next]_vars => IInv'
<1> SUFFICES ASSUME ImportAssumption, IInv, [Next]_vars
             PROVE  IInv'
    OBVIOUS
<1>1. ASSUME NEW i \in Imports, Raise(i)
      PROVE  IInv'
  BY <1>1, FailKeeps DEF Raise, ImportAssumption, IInv, Values
<1>2. ASSUME NEW i \in Imports, Deadlock(i)
      PROVE  IInv'
  <2>1. Fail(i) /\ UNCHANGED <<tables, world, edits, due>> /\ troubles' = troubles
    BY <1>2, Zenon DEF Deadlock, bounds
  <2>2. QED
    BY <2>1, FailKeeps DEF IInv, Values
<1>3. ASSUME NEW i \in Imports, Start(i) \/ Step(i)
      PROVE  IInv'
  BY <1>2, <1>3, StartKeeps, SkipConnectionKeeps, GetNeighboursKeeps, LookKeeps,
     GetOrCreateASKeeps, CreateSessionKeeps, CommitKeeps, CompleteKeeps
     DEF Step
<1>4. CASE UNCHANGED vars
  <2>1. UNCHANGED tables /\ \A i \in Imports : SameOwn(i)
    BY <1>4 DEF vars, importVars, SameOwn
  <2>2. Values'
    BY <1>4 DEF IInv, Values, vars, tables, world, importVars, bounds
  <2>3. \A i \in Imports : Own(i)'
    BY <2>1, OwnIsLocal DEF IInv
  <2>4. QED
    BY <2>1, <2>2, <2>3 DEF IInv, Apart, SameOwn
<1>5. QED
  BY <1>1, <1>3, <1>4, OthersKeep DEF Next

-----------------------------------------------------------------------------
(* Theorems *)

\* The inductive invariant, for any imports, connections and listings.
THEOREM Invariance == ImportAssumption => (Spec => []IInv)
<1> SUFFICES ASSUME ImportAssumption
             PROVE  Spec => []IInv
    OBVIOUS
<1>1. QED
  BY InitIInv, NextIInv, PTL DEF Spec

\* What two imports hold is apart, and not in the tables; nothing is held outside
\* a transaction.
THEOREM TypeCorrect == ImportAssumption => (Spec => []TypeOK)
<1>1. IInv => TypeOK
  <2> SUFFICES ASSUME IInv
               PROVE  TypeOK
      OBVIOUS
  <2>1. \A i \in Imports : todo[i] \in Seq(Neighbours) /\ due[i] \subseteq DOMAIN sessions
    BY DEF IInv, Values
  <2>2. \A i \in Imports :
          /\ newAses[i] # {} \/ newSessions[i] # {} => InTransaction(i)
          /\ newAses[i] \cap ases = {}
          /\ \A n \in newSessions[i] : sessions[<<at[i], n.ip>>] = None
    BY DEF IInv, Own, OwnStage, OwnRows
  <2>3. \A i \in Imports : \A j \in Imports \ {i} : Apart(i, j)
    BY DEF IInv
  <2>4. QED
    BY <2>1, <2>2, <2>3 DEF IInv, Values, TypeOK, Apart, Key2
<1>2. QED
  BY Invariance, <1>1, PTL

\* A connection that an import is past has the sessions its device listed, but for
\* what PeeringDB did not know and what users deleted.
THEOREM PassedIsImported == ImportAssumption => (Spec => []PassedConnectionsAreImported)
<1>1. IInv => PassedConnectionsAreImported
  <2> SUFFICES ASSUME IInv, NEW i \in Imports, NEW k \in due[i], k[1] < at[i]
               PROVE  sessions[k] # None
      BY DEF PassedConnectionsAreImported
  <2>1. PICK c \in Connections, ip \in Ips : k = <<c, ip>>
    BY DEF IInv, Values, Key2
  <2>2. QED
    BY <2>1 DEF IInv, Own, OwnDue
<1>2. QED
  BY Invariance, <1>1, PTL

\* Where an import adds to the autonomous systems, it adds a session of each.
LEMMA NewASHasSession ==
    ASSUME IInv, [Next]_vars, edits' = edits, NEW a \in ases' \ ases
    PROVE  \E k \in DOMAIN sessions : sessions'[k] = a
<1>1. PICK i \in Imports : Commit(i) /\ Committed(i)
  <2>1. \A i \in Imports : Deadlock(i) => UNCHANGED tables
    BY Zenon DEF Deadlock
  <2>2. \A i \in Imports : Commit(i) => Committed(i) \/ UNCHANGED tables
    BY DEF Commit, Committed
  <2>3. \A i \in Imports :
            Start(i) \/ SkipConnection(i) \/ GetNeighbours(i) \/ Look(i) \/ GetOrCreateAS(i)
                \/ CreateSession(i) \/ Complete(i) \/ Raise(i) => UNCHANGED tables
    BY DEF Start, SkipConnection, GetNeighbours, Look, GetOrCreateAS, CreateSession, Complete,
           Raise
  <2>4. ~Edit
    BY DEF Edit, IInv, Values
  <2>5. ases' # ases
    OBVIOUS
  <2>6. QED
    BY <2>1, <2>2, <2>3, <2>4, <2>5
       DEF Next, Step, DeleteSession, DeleteAS, AddSession, SynchronisePeeringDB, SetStatus,
           vars, tables
<1>2. ases' = ases \cup newAses[i] /\ pc[i] = "look"
  BY <1>1, CommittedRows DEF Commit
<1>3. PICK n \in newSessions[i] : n.asn = a
  BY <1>2 DEF IInv, Own, OwnASes
<1>4. <<at[i], n.ip>> \in Key2 /\ sessions'[<<at[i], n.ip>>] = a
  BY <1>1, <1>3, CommittedRows
<1>5. QED
  BY <1>4 DEF IInv, Values

\* Others see no autonomous system an import has made without a session of it.
THEOREM NewASesAreUsed == ImportAssumption => (Spec => NewASesHaveSessions)
<1> DEFINE Shown == edits' = edits =>
                        \A a \in ases' \ ases : \E k \in DOMAIN sessions : sessions'[k] = a
<1> SUFFICES ASSUME ImportAssumption
             PROVE  Spec => NewASesHaveSessions
    OBVIOUS
<1>1. IInv /\ [Next]_vars => [Shown]_vars
  BY NewASHasSession
<1>2. QED
  BY Invariance, <1>1, PTL DEF Spec, NewASesHaveSessions

=============================================================================
