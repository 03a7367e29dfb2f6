--------------------------- MODULE SessionImport ---------------------------
(***************************************************************************)
(* Importing the sessions of an Internet exchange from the routers that    *)
(* are connected to it: InternetExchange.import_sessions(), called for one *)
(* connection after the other by the job of the API endpoint and by the    *)
(* command import_all_ix_sessions.                                         *)
(*                                                                         *)
(* import_sessions() is a transaction of its own for each connection.  At  *)
(* PostgreSQL's level READ COMMITTED it sees its own rows and what others  *)
(* have committed; a row with the key of a row another transaction has not *)
(* committed yet has to wait for it; transactions that wait for each other *)
(* have one of them aborted; foreign keys are looked at by the commit.     *)
(*                                                                         *)
(* One exchange; its connections are the same throughout.  The device and  *)
(* the database are external.                                              *)
(***************************************************************************)
EXTENDS Naturals, Sequences, SequencesExt, Relation

CONSTANTS
    Imports,        \* the jobs and commands
    NumConnections, \* the connections that have a router, in their order
    Ips, ASNs,
    Allowed,        \* the addresses in a prefix of the exchange
    Listings,       \* what a device may list: sequences of Neighbours
    None,           \* no session
    MaxEdits,       \* bound: changes by users, devices and PeeringDB
    MaxTroubles     \* bound: exceptions, dead processes, devices not reached

Connections == 1..NumConnections
Neighbours  == [ip: Ips, asn: ASNs]

ImportAssumption ==
    /\ NumConnections \in Nat /\ Allowed \subseteq Ips /\ None \notin ASNs
    /\ Listings \subseteq Seq(Neighbours)
    /\ MaxEdits \in Nat /\ MaxTroubles \in Nat

VARIABLES
    ases,       \* the autonomous systems in the database
    sessions,   \* sessions[c, ip]: the autonomous system of the session, or None
    known,      \* the autonomous systems PeeringDB has a network of
    usable,     \* usable[c]: the router of the connection can be worked with
    neighbours, \* neighbours[c]: what its device lists
    pc,         \* pc[i]: what import i is about to do
    at,         \* at[i]: the connection it is at
    todo,       \* todo[i]: the neighbours it has not come to
    newAses,    \* newAses[i]: rows it has not committed
    newSessions,
    edits, troubles,
    due         \* due[i]: the sessions it has to leave behind (history)

tables     == <<ases, sessions>>
world      == <<known, usable, neighbours>>
importVars == <<pc, at, todo, newAses, newSessions>>
bounds     == <<edits, troubles>>
vars == <<tables, world, importVars, bounds, due>>

Goto(i, s) == pc' = [pc EXCEPT ![i] = s]
InTransaction(i) == pc[i] \in {"look", "as", "session"}
neighbour(i) == Head(todo[i])
Key(i) == <<at[i], neighbour(i).ip>>

CloseTransaction(i) ==
    /\ todo'        = [todo        EXCEPT ![i] = <<>>]
    /\ newAses'     = [newAses     EXCEPT ![i] = {}]
    /\ newSessions' = [newSessions EXCEPT ![i] = {}]

Fail_leaves_it_open(i) == Goto(i, "errored") /\ UNCHANGED <<at, todo, newAses, newSessions>>

\* An exception leaves transaction.atomic, and the loop of the caller.
Fail(i) == Goto(i, "errored") /\ CloseTransaction(i) /\ UNCHANGED at

\* The rows that import j holds and import i wants to insert.
WaitsForAS(i, j) ==
    /\ pc[i] = "as"
    /\ neighbour(i).asn \notin ases \cup newAses[i]
    /\ neighbour(i).asn \in newAses[j]
WaitsForSession(i, j) ==
    pc[i] = "session" /\ at[j] = at[i] /\ \E n \in newSessions[j] : n.ip = neighbour(i).ip
WaitsFor(i, j) == i # j /\ (WaitsForAS(i, j) \/ WaitsForSession(i, j))
Blocked(i)     == \E j \in Imports : WaitsFor(i, j)

-----------------------------------------------------------------------------
(* Imports *)

Start(i) ==
    /\ pc[i] = "idle"
    /\ Goto(i, "connection")
    /\ UNCHANGED <<tables, world, at, todo, newAses, newSessions, bounds, due>>

\* `continue`: the router is read from the database when its connection comes up.
SkipConnection(i) ==
    /\ pc[i] = "connection" /\ at[i] \in Connections
    /\ ~usable[at[i]]
    /\ at' = [at EXCEPT ![i] = @ + 1]
    /\ UNCHANGED <<tables, world, pc, todo, newAses, newSessions, bounds, due>>

\* get_bgp_neighbors(); a device that cannot be opened lists none.
GetNeighbours(i) ==
    /\ pc[i] = "connection" /\ at[i] \in Connections
    /\ usable[at[i]]
    /\ \/ todo' = [todo EXCEPT ![i] = neighbours[at[i]]] /\ UNCHANGED troubles
       \/ /\ troubles < MaxTroubles
          /\ troubles' = troubles + 1
          /\ UNCHANGED todo
    /\ due' = [due EXCEPT ![i] =
                  @ \cup {<<at[i], n.ip>> : n \in {m \in Range(todo'[i]) : m.ip \in Allowed}}]
    /\ Goto(i, "look")
    /\ UNCHANGED <<tables, world, at, newAses, newSessions, edits>>

\* A neighbour that is not is_valid() is ignored, and so is one that PeeringDB does
\* not know; a session that exists is left alone.
Look_stops_at_an_unknown_neighbour(i) ==
    /\ pc[i] = "look" /\ todo[i] # <<>>
    /\ LET exists  == \/ sessions[Key(i)] # None
                      \/ \E n \in newSessions[i] : n.ip = neighbour(i).ip
           unknown == ~exists /\ neighbour(i).asn \notin known
       IN /\ IF neighbour(i).ip \notin Allowed \/ exists \/ unknown
             THEN todo' = [todo EXCEPT ![i] = IF unknown THEN <<>> ELSE Tail(@)] /\ UNCHANGED pc
             ELSE Goto(i, "as") /\ UNCHANGED todo
          /\ due' = [due EXCEPT ![i] = IF unknown THEN @ \ {Key(i)} ELSE @]
    /\ UNCHANGED <<tables, world, at, newAses, newSessions, bounds>>

Look(i) ==
    /\ pc[i] = "look" /\ todo[i] # <<>>
    /\ LET exists  == \/ sessions[Key(i)] # None
                      \/ \E n \in newSessions[i] : n.ip = neighbour(i).ip
           unknown == ~exists /\ neighbour(i).asn \notin known
       IN /\ IF neighbour(i).ip \notin Allowed \/ exists \/ unknown
             THEN todo' = [todo EXCEPT ![i] = Tail(@)] /\ UNCHANGED pc
             ELSE Goto(i, "as") /\ UNCHANGED todo
          /\ due' = [due EXCEPT ![i] = IF unknown THEN @ \ {Key(i)} ELSE @]
    /\ UNCHANGED <<tables, world, at, newAses, newSessions, bounds>>

\* get_or_create(): who was first inserts the row, others wait and get it.
GetOrCreateAS_commits(i) ==
    /\ pc[i] = "as" /\ ~Blocked(i)
    /\ ases' = ases \cup {neighbour(i).asn}
    /\ Goto(i, "session")
    /\ UNCHANGED <<sessions, world, at, todo, newAses, newSessions, bounds, due>>

GetOrCreateAS(i) ==
    /\ pc[i] = "as" /\ ~Blocked(i)
    /\ newAses' = [newAses EXCEPT ![i] = @ \cup ({neighbour(i).asn} \ ases)]
    /\ Goto(i, "session")
    /\ UNCHANGED <<tables, world, at, todo, newSessions, bounds, due>>

\* objects.create(): it waits too, and raises if the session is there by now.
CreateSession(i) ==
    /\ pc[i] = "session" /\ ~Blocked(i)
    /\ IF sessions[Key(i)] # None
       THEN Fail(i)
       ELSE /\ newSessions' = [newSessions EXCEPT ![i] = @ \cup {neighbour(i)}]
            /\ todo' = [todo EXCEPT ![i] = Tail(@)]
            /\ Goto(i, "look")
            /\ UNCHANGED <<at, newAses>>
    /\ UNCHANGED <<tables, world, bounds, due>>

\* The end of transaction.atomic: an autonomous system that was deleted since
\* it was got undoes the sessions of the connection.
Commit(i) ==
    /\ pc[i] = "look" /\ todo[i] = <<>>
    /\ IF \E n \in newSessions[i] : n.asn \notin ases \cup newAses[i]
       THEN Fail(i) /\ UNCHANGED tables
       ELSE /\ ases' = ases \cup newAses[i]
            /\ sessions' = [k \in DOMAIN sessions |->
                    IF \E n \in newSessions[i] : k = <<at[i], n.ip>>
                    THEN (CHOOSE n \in newSessions[i] : k = <<at[i], n.ip>>).asn
                    ELSE sessions[k]]
            /\ at' = [at EXCEPT ![i] = @ + 1]
            /\ Goto(i, "connection")
            /\ CloseTransaction(i)
    /\ UNCHANGED <<world, bounds, due>>

Complete(i) ==
    /\ pc[i] = "connection" /\ at[i] \notin Connections
    /\ Goto(i, "completed")
    /\ UNCHANGED <<tables, world, at, todo, newAses, newSessions, bounds, due>>

\* The device or the database raises, RQ gives up, the process dies.
Raise(i) ==
    /\ pc[i] \notin {"idle", "completed", "errored"}
    /\ troubles < MaxTroubles
    /\ troubles' = troubles + 1
    /\ Fail(i)
    /\ UNCHANGED <<tables, world, edits, due>>

\* PostgreSQL aborts one of the transactions that wait for each other.
Deadlock(i) ==
    /\ Blocked(i)
    /\ TransitiveClosure([p \in Imports \X Imports |-> WaitsFor(p[1], p[2])], Imports)[i, i]
    /\ Fail(i)
    /\ UNCHANGED <<tables, world, bounds, due>>

-----------------------------------------------------------------------------
(* Everybody else; a statement of theirs waits for the rows of an import. *)

Edit ==
    /\ edits < MaxEdits
    /\ edits' = edits + 1
    /\ UNCHANGED <<importVars, troubles>>

Forget(keys) ==
    /\ sessions' = [k \in DOMAIN sessions |-> IF k \in keys THEN None ELSE sessions[k]]
    /\ due' = [i \in Imports |-> due[i] \ keys]

DeleteSession ==
    /\ Edit
    /\ \E k \in DOMAIN sessions : sessions[k] # None /\ Forget({k})
    /\ UNCHANGED <<ases, world>>

\* The sessions go with their autonomous system.
DeleteAS ==
    /\ Edit
    /\ \E a \in ases : /\ ases' = ases \ {a}
                       /\ Forget({k \in DOMAIN sessions : sessions[k] = a})
    /\ UNCHANGED world

AddSession ==
    /\ Edit
    /\ \E k \in DOMAIN sessions, a \in ases :
        /\ sessions[k] = None
        /\ \A i \in Imports : \A n \in newSessions[i] : k # <<at[i], n.ip>>
        /\ sessions' = [sessions EXCEPT ![k] = a]
    /\ UNCHANGED <<ases, world, due>>

SynchronisePeeringDB ==
    /\ Edit
    /\ \E a \in ASNs : known' = IF a \in known THEN known \ {a} ELSE known \cup {a}
    /\ UNCHANGED <<tables, usable, neighbours, due>>

SetStatus ==
    /\ Edit
    /\ \E c \in Connections : usable' = [usable EXCEPT ![c] = ~@]
    /\ UNCHANGED <<tables, known, neighbours, due>>

-----------------------------------------------------------------------------
Init ==
    /\ ases = {}
    /\ sessions = [k \in Connections \X Ips |-> None]
    /\ known \in SUBSET ASNs
    /\ usable = [c \in Connections |-> TRUE]
    /\ neighbours \in [Connections -> Listings]
    /\ pc   = [i \in Imports |-> "idle"]
    /\ at   = [i \in Imports |-> 1]
    /\ todo = [i \in Imports |-> <<>>]
    /\ newAses     = [i \in Imports |-> {}]
    /\ newSessions = [i \in Imports |-> {}]
    /\ edits = 0 /\ troubles = 0
    /\ due = [i \in Imports |-> {}]

Step(i) ==
    \/ SkipConnection(i) \/ GetNeighbours(i) \/ Look(i) \/ GetOrCreateAS(i)
    \/ CreateSession(i) \/ Commit(i) \/ Complete(i) \/ Deadlock(i)

Next ==
    \/ \E i \in Imports : Start(i) \/ Step(i) \/ Raise(i)
    \/ DeleteSession \/ DeleteAS \/ AddSession \/ SynchronisePeeringDB \/ SetStatus

Spec == Init /\ [][Next]_vars

\* A process that runs goes on, devices and database answer in the end.
Fairness == \A i \in Imports : WF_vars(Step(i))

-----------------------------------------------------------------------------
(* Properties *)

\* Every variable keeps to its values; an import has rows that are not committed
\* only in a transaction, they are in nobody else's and not in the tables.
TypeOK ==
    /\ ases \subseteq ASNs /\ known \subseteq ASNs
    /\ sessions \in [Connections \X Ips -> ASNs \cup {None}]
    /\ usable \in [Connections -> BOOLEAN] /\ neighbours \in [Connections -> Listings]
    /\ pc \in [Imports -> {"idle", "connection", "look", "as", "session",
                           "completed", "errored"}]
    /\ at \in [Imports -> 1..(NumConnections + 1)]
    /\ \A i \in Imports : todo[i] \in Seq(Neighbours) /\ due[i] \subseteq DOMAIN sessions
    /\ newAses \in [Imports -> SUBSET ASNs] /\ newSessions \in [Imports -> SUBSET Neighbours]
    /\ edits \in 0..MaxEdits /\ troubles \in 0..MaxTroubles
    /\ \A i \in Imports :
        /\ newAses[i] # {} \/ newSessions[i] # {} => InTransaction(i)
        /\ newAses[i] \cap ases = {}
        /\ \A n \in newSessions[i] : sessions[<<at[i], n.ip>>] = None
        /\ \A j \in Imports \ {i} :
            /\ newAses[i] \cap newAses[j] = {}
            /\ at[i] = at[j] => \A n \in newSessions[i], m \in newSessions[j] : n.ip # m.ip

\* A connection an import is past, even one that fails at a later connection,
\* has a session with each neighbour its device listed, but for those PeeringDB
\* did not know and those users deleted: two imports, users who add and delete
\* rows, and a deadlock leave no connection half imported.
PassedConnectionsAreImported ==
    \A i \in Imports : \A k \in due[i] : k[1] < at[i] => sessions[k] # None

\* An import shows others no autonomous system without one of its sessions:
\* what it adds to both tables appears at once, or not at all.
NewASesHaveSessions ==
    [][edits' = edits => \A a \in ases' \ ases : \E k \in DOMAIN sessions : sessions'[k] = a]_vars

\* An import that was started ends, though imports that meet the same neighbours
\* in another order wait for each other's rows.
ImportsEnd == \A i \in Imports : pc[i] # "idle" ~> pc[i] \in {"completed", "errored"}

=============================================================================
