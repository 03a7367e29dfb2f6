--------------------------- MODULE PeeringDBSync ---------------------------
(***************************************************************************)
(* The local cache of PeeringDB and what is linked to it.                  *)
(*                                                                         *)
(* PeeringDB().update_local_database() goes through the namespaces in      *)
(* order: it asks for what changed since the latest `updated` it holds for *)
(* the model, writes the answer in one transaction, then links the         *)
(* connections, the exchanges and the hidden peers again.  Runs of it      *)
(* (jobs and management commands) may overlap each other, the flush of the *)
(* cache, and users.                                                       *)
(*                                                                         *)
(* Two of the thirteen namespaces are kept, "net" and "netixlan", the      *)
(* second with a foreign key to the first.  PeeringDB is external: it      *)
(* answers with the objects updated at or after `since`, deleted ones      *)
(* included unless `since` is 0, and a deleted port has no address.  An    *)
(* `updated` of 0 means that there is no row.  All the connections belong  *)
(* to one internet exchange.                                               *)
(***************************************************************************)
EXTENDS Naturals, FiniteSets, FiniteSetsExt

CONSTANTS
    Networks,     \* ids in namespace "net"
    Ports,        \* ids in namespace "netixlan"
    LanOf,        \* LanOf[p]: the ixlan of port p
    Connections,  \* primary keys of net.Connection
    Addresses,    \* IP addresses
    Runs,         \* processes that update the cache
    None,         \* no network, no address, no link
    MaxNow,       \* bound: seconds
    MaxRuns,      \* bound: updates of the cache
    MaxTroubles,  \* bound: lookups that PeeringDB does not answer, answers with objects
                  \* that do not validate, and flushes
    MaxEdits      \* bound: users' changes

ASSUME PeeringDBAssumption ==
    /\ Networks \cap Ports = {}
    /\ None \notin Networks \cup Ports \cup Addresses
    /\ LanOf = [p \in Ports |-> LanOf[p]]
    /\ MaxNow \in Nat

VARIABLES
    remote,   \* remote[x]: object x in PeeringDB
    now,      \* the time in PeeringDB, in seconds
    cache,    \* cache[x]: the local row of object x
    conns,    \* conns[c]: the Connection row, its address and peeringdb_netixlan
    ixp,      \* the peeringdb_ixlan of the exchange
    hidden,   \* a HiddenPeer row: its network's id, and its peeringdb_network
    pc,       \* pc[r]: what run r is about to do
    ns,       \* ns[r]: the namespace it is at
    answer,   \* answer[r]: the answer it has yet to write
    loaded,   \* loaded[r]: the connections it loaded
    todo,     \* todo[r]: those it has yet to link
    flush,    \* how far the flush of the cache has come
    runs, troubles, edits,
    alone,    \* alone[r]: nothing but run r happened since it began (history)
    skipped,  \* live objects refused as they are now (history)
    torn      \* has a run met another run or a flush (history)

linkVars  == <<conns, ixp, hidden>>
runVars   == <<pc, ns, answer, loaded, todo, runs>>
flushVars == <<flush, troubles>>
history   == <<alone, skipped, torn>>
vars == <<remote, now, cache, linkVars, runVars, flushVars, edits, history>>

Objects == Networks \cup Ports

Objects_of(n) == IF n = "net" THEN Networks ELSE Ports

Remote == [status: {"none", "ok", "deleted"}, updated: 0..MaxNow,
           net: Networks \cup {None}, address: Addresses \cup {None}]
Unknown == [status |-> "none", updated |-> 0, net |-> None, address |-> None]

Row   == [updated: 0..MaxNow, net: Networks \cup {None}, address: Addresses \cup {None}]
NoRow == [updated |-> 0, net |-> None, address |-> None]

Cached(x) == cache[x] # NoRow
Live(x)   == remote[x].status = "ok"

Data(d) == [updated |-> d.updated, net |-> d.net, address |-> d.address]

Flushing == flush # "idle"
Active(r) == pc[r] \notin {"idle", "done", "failed"}

\* What happens is not the doing of a run that is on its own.
Disturb == alone' = [r \in Runs |-> FALSE]

OnlyBy(r) == alone' = [q \in Runs |-> q = r /\ alone[r]]

-----------------------------------------------------------------------------
(* PeeringDB *)

\* The object as it is from now on; the second may be the same one.
Publish(changed, d) ==
    /\ now' \in {now, now + 1} \cap 1..MaxNow
    /\ remote' = [x \in Objects |->
            IF x \in changed THEN [d[x] EXCEPT !.updated = now'] ELSE remote[x]]
    /\ skipped' = skipped \ changed
    /\ Disturb
    /\ UNCHANGED <<cache, linkVars, runVars, flushVars, edits, torn>>

SaveNetwork(n) ==
    /\ remote[n].status # "deleted"
    /\ Publish({n}, [remote EXCEPT ![n].status = "ok"])

SavePort(p, n, a) ==
    /\ remote[p].status # "deleted"
    /\ Live(n)
    /\ \A q \in Ports \ {p} : Live(q) => remote[q].address # a
    /\ Publish({p}, [remote EXCEPT ![p] = [status |-> "ok", updated |-> 0,
                                           net |-> n, address |-> a]])

\* A network goes with its ports.
Retire(x) ==
    LET gone == {x} \cup {p \in Ports : Live(p) /\ remote[p].net = x}
    IN  /\ Live(x)
        /\ Publish(gone, [y \in Objects |-> [remote[y] EXCEPT !.status = "deleted",
                                                              !.address = None]])

-----------------------------------------------------------------------------
(* PeeringDB.update_local_database() *)

Begin(r) ==
    /\ ~Active(r)
    /\ runs < MaxRuns
    /\ runs' = runs + 1
    /\ pc' = [pc EXCEPT ![r] = "lookup"]
    /\ ns' = [ns EXCEPT ![r] = "net"]
    /\ LET met == Flushing \/ \E q \in Runs : Active(q)
       IN  /\ alone' = [q \in Runs |-> q = r /\ ~met]
           /\ torn'  = (torn \/ met)
    /\ UNCHANGED <<remote, now, cache, linkVars, answer, loaded, todo, flushVars,
                   edits, skipped>>

get_last_synchronisation_for_model_next(n) ==
    IF \A x \in Objects_of(n) : ~Cached(x) THEN 0
    ELSE Max({cache[x].updated : x \in Objects_of(n)}) + 1

get_last_synchronisation_for_model(n) == Max({0} \cup {cache[x].updated : x \in Objects_of(n)})

lookup(n, since) ==
    [x \in Objects |->
        IF /\ x \in Objects_of(n) /\ remote[x].updated >= since
           /\ Live(x) \/ (since > 0 /\ remote[x].status = "deleted")
        THEN remote[x] ELSE Unknown]

\* synchronise_objects(), up to the answer.
Lookup(r) ==
    /\ pc[r] = "lookup"
    /\ answer' = [answer EXCEPT ![r] =
            lookup(ns[r], get_last_synchronisation_for_model(ns[r]))]
    /\ pc' = [pc EXCEPT ![r] = "process"]
    /\ OnlyBy(r)
    /\ UNCHANGED <<remote, now, cache, linkVars, ns, loaded, todo, runs, flushVars,
                   edits, skipped, torn>>

\* PeeringDB answers with an error: the namespace is passed over.  Or it does
\* not answer: the exception ends the run.
LookupFails(r) ==
    /\ pc[r] = "lookup"
    /\ troubles < MaxTroubles
    /\ troubles' = troubles + 1
    /\ \E s \in {"load", "failed"} : pc' = [pc EXCEPT ![r] = s]
    /\ Disturb
    /\ UNCHANGED <<remote, now, cache, linkVars, ns, answer, loaded, todo, runs, flush,
                   edits, skipped, torn>>

Collect_without_cascade(rows) ==
    /\ cache'  = rows
    /\ conns'  = [c \in Connections |->
            IF conns[c].link # None /\ rows[conns[c].link] = NoRow
            THEN [conns[c] EXCEPT !.link = None] ELSE conns[c]]
    /\ hidden' = IF hidden.net # None /\ rows[hidden.net] = NoRow
                 THEN [hidden EXCEPT !.net = None] ELSE hidden

\* The foreign keys to rows that are gone: CASCADE from ports to networks,
\* SET_NULL from everything else.
Collect(rows) ==
    LET kept(x) == rows[x] # NoRow /\ (x \in Ports => rows[rows[x].net] # NoRow)
    IN  /\ cache'  = [x \in Objects |-> IF kept(x) THEN rows[x] ELSE NoRow]
        /\ conns'  = [c \in Connections |->
                IF conns[c].link # None /\ ~kept(conns[c].link)
                THEN [conns[c] EXCEPT !.link = None] ELSE conns[c]]
        /\ hidden' = IF hidden.net # None /\ ~kept(hidden.net)
                     THEN [hidden EXCEPT !.net = None] ELSE hidden

\* _process_object(), full_clean() and save() for every object of the answer.  A
\* deleted object that has no row is taken for a new one.  full_clean() refuses
\* ports without their network, and whatever else does not validate.
Process(r) ==
    LET got     == {x \in Objects : answer[r][x] # Unknown}
        gone    == {x \in got : answer[r][x].status = "deleted" /\ Cached(x)}
        orphans == {x \in got \ gone : x \in Ports /\ ~Cached(answer[r][x].net)}
    IN  /\ pc[r] = "process"
        /\ \E refused \in SUBSET (got \ gone) :
              /\ orphans \subseteq refused
              /\ IF refused = orphans THEN UNCHANGED troubles
                 ELSE troubles < MaxTroubles /\ troubles' = troubles + 1
              /\ Collect([x \in Objects |->
                    IF x \in gone THEN NoRow
                    ELSE IF x \in got \ refused THEN Data(answer[r][x]) ELSE cache[x]])
              /\ skipped' = (skipped \ got)
                               \cup {x \in refused : Live(x) /\ answer[r][x] = remote[x]}
        /\ answer'  = [answer EXCEPT ![r] = [x \in Objects |-> Unknown]]
        /\ pc'      = [pc     EXCEPT ![r] = "load"]
        /\ OnlyBy(r)
        /\ UNCHANGED <<remote, now, ixp, ns, loaded, todo, runs, flush, edits, torn>>

(* _fix_related_objects() *)

LoadConnections(r) ==
    /\ pc[r] = "load"
    /\ loaded' = [loaded EXCEPT ![r] = conns]
    /\ todo'   = [todo   EXCEPT ![r] = Connections]
    /\ pc'     = [pc     EXCEPT ![r] = "link"]
    /\ OnlyBy(r)
    /\ UNCHANGED <<remote, now, cache, linkVars, ns, answer, runs, flushVars, edits,
                   skipped, torn>>

Matches(a) == {p \in Ports : a # None /\ Cached(p) /\ cache[p].address = a}

link(instance, p) == [instance EXCEPT !.link = p]

\* Connection.link_to_peeringdb(): a connection without a match keeps the link
\* it has, and two matches are an exception that nobody catches.
LinkConnection(r, c) ==
    LET found == Matches(loaded[r][c].address)
    IN  /\ pc[r] = "link"
        /\ c \in todo[r]
        /\ todo' = [todo EXCEPT ![r] = IF Cardinality(found) > 1 THEN {} ELSE @ \ {c}]
        /\ pc'   = [pc EXCEPT ![r] = IF Cardinality(found) > 1 THEN "failed" ELSE @]
        /\ IF Cardinality(found) = 1
           THEN \E p \in found : conns' = [conns EXCEPT ![c] = link(loaded[r][c], p)]
           ELSE UNCHANGED conns
        /\ OnlyBy(r)
        /\ UNCHANGED <<remote, now, cache, ixp, hidden, ns, answer, loaded, runs, flushVars,
                       edits, skipped, torn>>

\* InternetExchange.link_to_peeringdb(): the connections must agree.
LinkedLans == {LanOf[conns[c].link] : c \in {d \in Connections : conns[d].link # None}}

LinkExchange_of_loaded(r) ==
    LET lans == {LanOf[loaded[r][c].link] : c \in {d \in Connections : loaded[r][d].link # None}}
    IN  /\ pc[r] = "link" /\ todo[r] = {}
        /\ \/ \E lan \in lans : lans = {lan} /\ ixp' = lan
           \/ Cardinality(lans) # 1 /\ UNCHANGED ixp
        /\ loaded' = [loaded EXCEPT ![r] =
                        [c \in Connections |-> [address |-> None, link |-> None]]]
        /\ pc' = [pc EXCEPT ![r] = "relink"]
        /\ OnlyBy(r)
        /\ UNCHANGED <<remote, now, cache, conns, hidden, ns, answer, todo, runs, flushVars,
                       edits, skipped, torn>>

LinkExchange(r) ==
    /\ pc[r] = "link" /\ todo[r] = {}
    /\ \/ \E lan \in LinkedLans : LinkedLans = {lan} /\ ixp' = lan
       \/ Cardinality(LinkedLans) # 1 /\ UNCHANGED ixp
    /\ loaded' = [loaded EXCEPT ![r] =
                    [c \in Connections |-> [address |-> None, link |-> None]]]
    /\ pc' = [pc EXCEPT ![r] = "relink"]
    /\ OnlyBy(r)
    /\ UNCHANGED <<remote, now, cache, conns, hidden, ns, answer, todo, runs, flushVars,
                   edits, skipped, torn>>

\* HiddenPeer.link_to_peeringdb()
relink(h) == IF h.net = None /\ h.copy # None /\ Cached(h.copy)
             THEN [h EXCEPT !.net = h.copy] ELSE h

LinkHiddenPeer(r) ==
    /\ pc[r] = "relink"
    /\ hidden' = relink(hidden)
    /\ pc' = [pc EXCEPT ![r] = IF ns[r] = "net" THEN "lookup" ELSE "done"]
    /\ ns' = [ns EXCEPT ![r] = "netixlan"]
    /\ OnlyBy(r)
    /\ UNCHANGED <<remote, now, cache, conns, ixp, answer, loaded, todo, runs, flushVars,
                   edits, skipped, torn>>

-----------------------------------------------------------------------------
(* PeeringDB.clear_local_database(): five statements, no transaction. *)

FlushStep(s, t) ==
    /\ flush  = s
    /\ flush' = t
    /\ Disturb
    /\ UNCHANGED <<remote, now, runVars, edits>>

BeginFlush ==
    /\ troubles < MaxTroubles
    /\ FlushStep("idle", "connections")
    /\ troubles' = troubles + 1
    /\ torn' = (torn \/ \E r \in Runs : Active(r))
    /\ UNCHANGED <<cache, linkVars, skipped>>

UnlinkConnections ==
    /\ FlushStep("connections", "exchanges")
    /\ conns' = [c \in Connections |-> [conns[c] EXCEPT !.link = None]]
    /\ UNCHANGED <<cache, ixp, hidden, troubles, skipped, torn>>

UnlinkExchanges ==
    /\ FlushStep("exchanges", "peers")
    /\ ixp' = None
    /\ UNCHANGED <<cache, conns, hidden, troubles, skipped, torn>>

UnlinkHiddenPeers ==
    /\ FlushStep("peers", "ports")
    /\ hidden' = [hidden EXCEPT !.net = None]
    /\ UNCHANGED <<cache, conns, ixp, troubles, skipped, torn>>

\* _raw_delete() looks after no relation: the database refuses to delete a row
\* that a run has linked meanwhile.
DeletePorts ==
    LET linked == \E c \in Connections : conns[c].link # None
    IN  /\ FlushStep("ports", IF linked THEN "idle" ELSE "networks")
        /\ cache' = [x \in Objects |-> IF x \in Ports /\ ~linked THEN NoRow ELSE cache[x]]
        /\ UNCHANGED <<linkVars, troubles, skipped, torn>>

DeleteNetworks ==
    LET linked == hidden.net # None \/ \E p \in Ports : Cached(p)
    IN  /\ FlushStep("networks", "idle")
        /\ cache'   = [x \in Objects |-> IF linked THEN cache[x] ELSE NoRow]
        /\ skipped' = IF linked THEN skipped ELSE {}
        /\ UNCHANGED <<linkVars, troubles, torn>>

-----------------------------------------------------------------------------
(* Users *)

EditConnection(c, a) ==
    /\ edits < MaxEdits
    /\ a # conns[c].address
    /\ conns' = [conns EXCEPT ![c].address = a]
    /\ edits' = edits + 1
    /\ Disturb
    /\ UNCHANGED <<remote, now, cache, ixp, hidden, runVars, flushVars, skipped, torn>>

HidePeer(n) ==
    /\ edits < MaxEdits
    /\ Cached(n)
    /\ hidden' = [copy |-> n, net |-> n]
    /\ edits' = edits + 1
    /\ Disturb
    /\ UNCHANGED <<remote, now, cache, conns, ixp, runVars, flushVars, skipped, torn>>

-----------------------------------------------------------------------------
Init ==
    /\ remote = [x \in Objects |-> Unknown]
    /\ now    = 1
    /\ cache  = [x \in Objects |-> NoRow]
    /\ conns \in [Connections -> [address: Addresses \cup {None}, link: {None}]]
    /\ ixp    = None
    /\ hidden = [copy |-> None, net |-> None]
    /\ pc     = [r \in Runs |-> "idle"]
    /\ ns     = [r \in Runs |-> "net"]
    /\ answer = [r \in Runs |-> [x \in Objects |-> Unknown]]
    /\ loaded = [r \in Runs |-> [c \in Connections |-> [address |-> None, link |-> None]]]
    /\ todo   = [r \in Runs |-> {}]
    /\ flush  = "idle"
    /\ runs = 0 /\ troubles = 0 /\ edits = 0
    /\ alone   = [r \in Runs |-> FALSE]
    /\ skipped = {}
    /\ torn    = FALSE

Run(r) ==
    \/ Begin(r)
    \/ Lookup(r)
    \/ LookupFails(r)
    \/ Process(r)
    \/ LoadConnections(r)
    \/ \E c \in Connections : LinkConnection(r, c)
    \/ LinkExchange(r)
    \/ LinkHiddenPeer(r)

Flush ==
    \/ BeginFlush
    \/ UnlinkConnections
    \/ UnlinkExchanges
    \/ UnlinkHiddenPeers
    \/ DeletePorts
    \/ DeleteNetworks

PeeringDB ==
    \/ \E n \in Networks : SaveNetwork(n)
    \/ \E p \in Ports, n \in Networks, a \in Addresses : SavePort(p, n, a)
    \/ \E x \in Objects : Retire(x)

User ==
    \/ \E c \in Connections, a \in Addresses \cup {None} : EditConnection(c, a)
    \/ \E n \in Networks : HidePeer(n)

Next == PeeringDB \/ (\E r \in Runs : Run(r)) \/ Flush \/ User

Spec == Init /\ [][Next]_vars

-----------------------------------------------------------------------------
(* Properties *)

\* Types; a row, a link and a hidden peer point to rows that exist, whatever
\* deletions cascade and whatever a flush deletes without looking.
TypeOK ==
    /\ remote \in [Objects -> Remote]
    /\ cache  \in [Objects -> Row]
    /\ pc \in [Runs -> {"idle", "lookup", "process", "load", "link", "relink", "done",
                        "failed"}]
    /\ \A p \in Ports : Cached(p) => Cached(cache[p].net)
    /\ \A c \in Connections : conns[c].link # None => Cached(conns[c].link)
    /\ hidden.net # None => hidden.net = hidden.copy /\ Cached(hidden.net)

Current(x) == cache[x] = Data(remote[x])

\* Updates lose no change: one that ran on its own, PeeringDB answering, leaves
\* every live object cached as it is, even if it changed in the very second of
\* the last update.  Objects refused by an earlier update are lost, and
\* so may be what was changed around overlapping updates and flushes.
CacheIsCurrent ==
    \A r \in Runs : pc[r] = "done" /\ alone[r] /\ ~torn =>
        \A x \in Objects : Live(x) => x \in skipped \/ Current(x)

\* An update that ran on its own leaves each connection linked to the port that
\* has its address, the exchange to the LAN its connections agree on, and the
\* hidden peer to its network if it is in the cache: a link that a deletion or
\* a flush cut is made again.
LinksAreRestored ==
    \A r \in Runs : pc[r] = "done" /\ alone[r] =>
        /\ \A c \in Connections : \A p \in Ports :
                Matches(conns[c].address) = {p} => conns[c].link = p
        /\ \A lan \in LinkedLans : LinkedLans = {lan} => ixp = lan
        /\ hidden.copy # None /\ Cached(hidden.copy) => hidden.net = hidden.copy

\* "Get all changes since the last sync": an update that ran on its own,
\* PeeringDB answering, leaves every live object cached as it is.
EveryChangeIsFetched ==
    \A r \in Runs : pc[r] = "done" /\ alone[r] =>
        \A x \in Objects : Live(x) => Current(x)

=============================================================================
