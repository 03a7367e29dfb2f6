----------------------------- MODULE MCRouters -----------------------------
(* What jobs and commands do with routers: RouterInstall and SessionImport   *)
(* on small instances.  They have no state in common, so that a behaviour is *)
(* one of either.                                                            *)
EXTENDS RouterInstall, Sequences, TLC

CONSTANTS
    Imports, NumConnections, Ips, ASNs, Allowed, Listings, MaxImportEdits, MaxImportTroubles

VARIABLES
    part,  \* which of the two
    ases, sessions, known, reachable, neighbours, stage, at, todo, newAses, newSessions,
    importEdits, importTroubles, due

importing == <<ases, sessions, known, reachable, neighbours, stage, at, todo, newAses,
               newSessions, importEdits, importTroubles, due>>
allVars   == <<part, vars, importing>>

\* Two devices list two neighbours in either order, one of them with a neighbour
\* elsewhere as well.
TwoListings ==
    LET n1 == [ip |-> "ip1", asn |-> "as1"]
        n2 == [ip |-> "ip2", asn |-> "as2"]
        elsewhere == [ip |-> "ip3", asn |-> "as1"]
    IN {<<n1, n2>>, <<elsewhere, n2, n1>>}

Import == INSTANCE SessionImportProofs WITH
    usable <- reachable, pc <- stage, edits <- importEdits, troubles <- importTroubles,
    MaxEdits <- MaxImportEdits, MaxTroubles <- MaxImportTroubles

ASSUME ImportConstants == Import!ImportAssumption

\* The two devices list their neighbours in different orders, PeeringDB knows both
\* or one; what the other part is in makes no difference.
RoutersInit ==
    /\ part \in {"install", "import"} /\ Init /\ Import!Init
    /\ neighbours[1] # neighbours[2] /\ known \in {ASNs, {"as1"}}
    /\ part = "import" => rendering = running /\ running = CHOOSE c \in Texts : TRUE
    /\ part = "install" => known = ASNs /\ Len(neighbours[1]) = 2

Installing(A) == part = "install" /\ A /\ UNCHANGED <<part, importing>>
Importing(A)  == part = "import"  /\ A /\ UNCHANGED <<part, vars>>

RoutersNext ==
    \/ \E t \in Tasks, k \in Kinds : Installing(Ask(t, k))
    \/ \E t \in Tasks :
        \/ Installing(Render(t))  \/ Installing(Open(t))    \/ Installing(Load(t))
        \/ Installing(Compare(t)) \/ Installing(Commit(t))  \/ Installing(Discard(t))
        \/ Installing(Raise(t))   \/ Installing(Close(t))   \/ Installing(Report(t))
        \/ Installing(Die(t))
    \/ Installing(SetStatus) \/ Installing(EditTemplate) \/ Installing(ConfigureDevice)
    \/ \E i \in Imports :
        \/ Importing(Import!Start(i))         \/ Importing(Import!SkipConnection(i))
        \/ Importing(Import!GetNeighbours(i)) \/ Importing(Import!Look(i))
        \/ Importing(Import!GetOrCreateAS(i)) \/ Importing(Import!CreateSession(i))
        \/ Importing(Import!Commit(i))        \/ Importing(Import!Complete(i))
        \/ Importing(Import!Raise(i))         \/ Importing(Import!Deadlock(i))
    \/ Importing(Import!DeleteSession) \/ Importing(Import!DeleteAS)
    \/ Importing(Import!AddSession)    \/ Importing(Import!SynchronisePeeringDB)
    \/ Importing(Import!SetStatus)

RoutersSpec ==
    /\ RoutersInit /\ [][RoutersNext]_allVars
    /\ \A i \in Imports : WF_allVars(Importing(Import!Step(i)))

\* Sound for the liveness of imports too: in their part nothing but constants is
\* permuted, in the other one no import starts.
RoutersSymmetry == Permutations(Tasks) \cup Permutations(Texts)

\* As stated and explained in SessionImport.
ImportTypeOK == Import!TypeOK

\* As stated and explained in SessionImport.
PassedConnectionsAreImported == Import!PassedConnectionsAreImported

\* As stated and explained in SessionImport.
NewASesHaveSessions == Import!NewASesHaveSessions

\* As stated and explained in SessionImport.
ImportsEnd == Import!ImportsEnd

=============================================================================
