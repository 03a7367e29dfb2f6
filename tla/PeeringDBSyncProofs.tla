------------------------ MODULE PeeringDBSyncProofs ------------------------
(***************************************************************************)
(* Safety of PeeringDBSync for any number of networks, ports, connections  *)
(* and runs.                                                               *)
(*                                                                         *)
(* What is asked for depends on the latest `updated` of the cache, so that *)
(* the invariant says what that time promises (FreshInv): an object that   *)
(* is neither cached as it is nor was refused changed no earlier than any  *)
(* row of its namespace.  It holds as long as runs and flushes have not    *)
(* met, because an answer that is written late promises the same           *)
(* (AnswerInv).  What a run has achieved is only stated while it is alone  *)
(* (AloneInv, LinkInv): every other step ends that.                        *)
(***************************************************************************)
EXTENDS PeeringDBSync, FiniteSetTheorems, WellFoundedInduction, TLAPS

\* Values, and what PeeringDB keeps to: a port belongs to a network, a live one to
\* a live network.
RemoteOf(x) ==
    \/ remote[x] = Unknown
    \/ /\ remote[x].status \in {"ok", "deleted"}
       /\ remote[x].updated \in 1..MaxNow
       /\ x \in Ports => remote[x].net \in Networks

RemoteInv ==
    /\ now \in Nat
    /\ remote \in [Objects -> Remote]
    /\ \A x \in Objects : RemoteOf(x) /\ remote[x].updated <= now
    /\ \A p \in Ports : Live(p) => Live(remote[p].net)

\* An answer is what an object was: nothing, or something that has changed no more
\* often than the object.
AnswerOf(r, x) ==
    LET a == answer[r][x] IN
    \/ a = Unknown
    \/ /\ pc[r] = "process" /\ x \in Objects_of(ns[r])
       /\ a.status \in {"ok", "deleted"}
       /\ a.updated \in 1..MaxNow /\ a.updated <= now
       /\ x \in Ports => a.net \in Networks
       /\ a.status = "deleted" => remote[x].status = "deleted"

RunTypes ==
    /\ pc \in [Runs -> {"idle", "lookup", "process", "load", "link", "relink", "done",
                        "failed"}]
    /\ ns \in [Runs -> {"net", "netixlan"}]
    /\ answer \in [Runs -> [Objects -> Remote]]
    /\ loaded \in [Runs -> [Connections -> [address: Addresses \cup {None},
                                            link: Ports \cup {None}]]]
    /\ todo \in [Runs -> SUBSET Connections]
    /\ alone \in [Runs -> BOOLEAN]
    /\ \A r \in Runs : pc[r] = "done" => ns[r] = "netixlan"

RunInv == RunTypes /\ \A r \in Runs : \A x \in Objects : AnswerOf(r, x)

CacheInv ==
    /\ cache \in [Objects -> Row]
    /\ \A x \in Objects : cache[x].updated <= now
    /\ \A p \in Ports : Cached(p) => cache[p].net \in Networks /\ Cached(cache[p].net)

ConnectionsOk ==
    /\ conns \in [Connections -> [address: Addresses \cup {None}, link: Ports \cup {None}]]
    /\ \A c \in Connections : conns[c].link # None => Cached(conns[c].link)

HiddenOk ==
    /\ hidden \in [copy: Networks \cup {None}, net: Networks \cup {None}]
    /\ hidden.net # None => hidden.net = hidden.copy /\ Cached(hidden.net)

LinksInv == ConnectionsOk /\ HiddenOk

Values == RemoteInv /\ RunInv /\ CacheInv /\ LinksInv

-----------------------------------------------------------------------------
\* Runs and flushes that have not met do not overlap.
ApartInv ==
    ~torn => /\ \A q, r \in Runs : Active(q) /\ Active(r) => q = r
             /\ Flushing => \A r \in Runs : ~Active(r)

Known(x) == x \in skipped \/ Current(x)

\* Object x changed no earlier than any row of its namespace.
Later(n, x) == \A z \in Objects_of(n) : cache[z].updated <= remote[x].updated

FreshInv ==
    ~torn => \A n \in {"net", "netixlan"} : \A x \in Objects_of(n) :
                 Live(x) => Known(x) \/ Later(n, x)

\* Nor any row that run r is about to write.
LaterThanAnswer(r, x) ==
    /\ Later(ns[r], x)
    /\ \A z \in Objects : answer[r][z].updated <= remote[x].updated

AnswerFresh(r, x) ==
    IF answer[r][x] # Unknown
    THEN answer[r][x] = remote[x] \/ LaterThanAnswer(r, x)
    ELSE Live(x) => Known(x) \/ LaterThanAnswer(r, x)

AnswerInv ==
    ~torn => \A r \in Runs : pc[r] = "process" =>
                 \A x \in Objects_of(ns[r]) : AnswerFresh(r, x)

\* Has run r written the networks, and the ports.
WroteNetworks(r) ==
    \/ ns[r] = "net" /\ pc[r] \in {"load", "link", "relink"}
    \/ /\ ns[r] = "netixlan"
       /\ pc[r] \in {"lookup", "process", "load", "link", "relink", "done"}

WrotePorts(r) == ns[r] = "netixlan" /\ pc[r] \in {"load", "link", "relink", "done"}

\* What a run on its own has before it, and what it leaves behind.
AnswerExact(r, x) ==
    IF answer[r][x] # Unknown THEN answer[r][x] = remote[x] ELSE Live(x) => Known(x)

AloneInv ==
    ~torn => \A r \in Runs : alone[r] =>
        /\ pc[r] = "process" => \A x \in Objects_of(ns[r]) : AnswerExact(r, x)
        /\ WroteNetworks(r) => \A n \in Networks : Live(n) => Known(n)
        /\ WrotePorts(r)    => \A p \in Ports : Live(p) => Known(p)

Linked(c) == \A p \in Ports : Matches(conns[c].address) = {p} => conns[c].link = p

ExchangeLinked == \A lan \in LinkedLans : LinkedLans = {lan} => ixp = lan

HiddenPeerLinked == hidden.copy # None /\ Cached(hidden.copy) => hidden.net = hidden.copy

LinkInv ==
    \A r \in Runs : alone[r] =>
        /\ pc[r] = "link" => \A c \in Connections :
               loaded[r][c].address = conns[c].address /\ (c \in todo[r] \/ Linked(c))
        /\ pc[r] \in {"relink", "done"} => (\A c \in Connections : Linked(c)) /\ ExchangeLinked
        /\ pc[r] = "done" => HiddenPeerLinked

IInv == Values /\ ApartInv /\ FreshInv /\ AnswerInv /\ AloneInv /\ LinkInv

-----------------------------------------------------------------------------
(* PeeringDB *)

LEMMA Namespaces ==
    /\ Objects_of("net") = Networks /\ Objects_of("netixlan") = Ports
    /\ \A x \in Objects : x \in Objects_of("net") \/ x \in Objects_of("netixlan")
    /\ \A x \in Networks : x \in Objects /\ x \notin Ports
    /\ \A x \in Ports : x \in Objects /\ x \notin Networks
    /\ None \notin Objects
BY PeeringDBAssumption DEF Objects, Objects_of

LEMMA Blanks ==
    /\ Unknown \in Remote /\ NoRow \in Row
    /\ Unknown.status = "none" /\ Unknown.updated = 0 /\ NoRow.updated = 0
    /\ Unknown.net = None /\ NoRow.net = None
BY PeeringDBAssumption DEF Unknown, Remote, NoRow, Row

\* PeeringDB changes some objects, at a time that is not before any other change.
Changes(changed) ==
    /\ now' \in 1..MaxNow /\ now <= now'
    /\ \A x \in Objects \ changed : remote'[x] = remote[x]
    /\ \A x \in changed : remote'[x].updated = now'
    /\ \A x \in Objects : remote[x].status = "deleted" => remote'[x].status = "deleted"
    /\ skipped' = skipped \ changed
    /\ alone' = [q \in Runs |-> FALSE]
    /\ UNCHANGED <<cache, linkVars, runVars, flushVars, edits, torn>>

\* What is published may be so, and is afterwards.
Proper(changed, d) ==
    \A x \in changed :
        /\ d[x] \in Remote /\ d[x].status \in {"ok", "deleted"}
        /\ x \in Ports => d[x].net \in Networks
        /\ remote[x].status = "deleted" => d[x].status = "deleted"

Becomes(changed, d) ==
    \A x \in changed : remote'[x].status = d[x].status /\ remote'[x].net = d[x].net

RemoteTypes ==
    /\ remote \in [Objects -> Remote]
    /\ \A x \in Objects : RemoteOf(x) /\ remote[x].updated <= now

LEMMA PublishChanges ==
    ASSUME RemoteInv, NEW changed \in SUBSET Objects, NEW d, Publish(changed, d),
           Proper(changed, d)
    PROVE  Changes(changed) /\ RemoteTypes' /\ Becomes(changed, d)
<1> USE DEF Proper
<1>1. now' \in 1..MaxNow /\ now <= now' /\ now' \in Nat /\ now \in Nat
  BY PeeringDBAssumption DEF Publish, RemoteInv
<1>2. ASSUME NEW x \in changed
      PROVE  /\ remote'[x] \in Remote /\ remote'[x].updated = now'
             /\ remote'[x].status = d[x].status /\ remote'[x].net = d[x].net
  <2>1. remote'[x] = [d[x] EXCEPT !.updated = now']
    BY DEF Publish
  <2>2. now' \in 0..MaxNow
    BY <1>1, PeeringDBAssumption
  <2>3. QED
    BY <2>1, <2>2 DEF Remote
<1>3. \A x \in Objects \ changed : remote'[x] = remote[x]
  BY DEF Publish
<1>4. remote' \in [Objects -> Remote]
  <2>1. \A x \in Objects : remote'[x] \in Remote
    BY <1>2, <1>3 DEF RemoteInv
  <2>2. remote' = [x \in Objects |-> remote'[x]]
    BY DEF Publish
  <2>3. QED
    BY <2>1, <2>2
<1>5. ASSUME NEW x \in Objects
      PROVE  RemoteOf(x)' /\ remote'[x].updated <= now'
  <2>1. CASE x \in changed
    BY <1>1, <1>2, <2>1 DEF RemoteOf
  <2>2. CASE x \notin changed
    <3>1. remote[x].updated \in Nat
      BY PeeringDBAssumption DEF RemoteInv, Remote
    <3>2. QED
      BY <1>1, <1>3, <2>2, <3>1 DEF RemoteInv, RemoteOf
  <2>3. QED
    BY <2>1, <2>2
<1>6. Changes(changed)
  BY <1>1, <1>2, <1>3 DEF Changes, Publish, Disturb
<1>7. QED
  BY <1>2, <1>4, <1>5, <1>6 DEF Becomes, RemoteTypes

\* Whatever is published keeps RemoteInv.
LEMMA PeeringDBKeepsRemoteInv ==
    ASSUME RemoteInv, PeeringDB
    PROVE  RemoteInv' /\ \E changed \in SUBSET Objects : Changes(changed)
<1> USE Namespaces
<1>1. ASSUME NEW n \in Networks, SaveNetwork(n)
      PROVE  RemoteInv' /\ \E changed \in SUBSET Objects : Changes(changed)
  <2> DEFINE d == [remote EXCEPT ![n].status = "ok"]
  <2>1. d[n] \in Remote /\ d[n].status = "ok" /\ remote[n].status # "deleted"
    BY <1>1 DEF SaveNetwork, RemoteInv, Remote
  <2>2. {n} \in SUBSET Objects /\ Publish({n}, d)
    BY <1>1 DEF SaveNetwork
  <2> HIDE DEF d
  <2>3. Proper({n}, d)
    BY <2>1 DEF Proper
  <2>4. Changes({n}) /\ RemoteTypes' /\ Becomes({n}, d)
    BY <2>2, <2>3, PublishChanges
  <2>5. ASSUME NEW p \in Ports, Live(p)'
        PROVE  Live(remote[p].net)' /\ remote'[p].net = remote[p].net
    <3>1. remote'[p] = remote[p] /\ Live(remote[p].net)
      BY <2>4, <2>5 DEF Changes, Live, RemoteInv
    <3>2. remote[p].net \in Networks
      BY <2>5, <3>1, Blanks DEF RemoteInv, RemoteOf, Live
    <3>3. QED
      BY <2>1, <2>4, <3>1, <3>2 DEF Changes, Live, Becomes
  <2>6. RemoteInv'
    BY <2>4, <2>5, PeeringDBAssumption DEF RemoteInv, RemoteTypes, Changes, Live
  <2>7. QED
    BY <2>2, <2>4, <2>6
<1>2. ASSUME NEW p \in Ports, NEW n \in Networks, NEW a \in Addresses, SavePort(p, n, a)
      PROVE  RemoteInv' /\ \E changed \in SUBSET Objects : Changes(changed)
  <2> DEFINE d == [remote EXCEPT ![p] = [status |-> "ok", updated |-> 0, net |-> n,
                                         address |-> a]]
  <2>1. /\ d[p] \in Remote /\ d[p].status = "ok" /\ d[p].net = n
        /\ remote[p].status # "deleted" /\ Live(n)
    BY <1>2, PeeringDBAssumption DEF SavePort, RemoteInv, Remote
  <2>2. {p} \in SUBSET Objects /\ Publish({p}, d)
    BY <1>2 DEF SavePort
  <2> HIDE DEF d
  <2>3. Proper({p}, d)
    BY <2>1 DEF Proper
  <2>4. Changes({p}) /\ RemoteTypes' /\ Becomes({p}, d)
    BY <2>2, <2>3, PublishChanges
  <2>5. ASSUME NEW q \in Ports, Live(q)'
        PROVE  Live(remote[q].net)' \/ q = p
    <3>1. CASE q # p
      <4>1. remote'[q] = remote[q] /\ Live(remote[q].net)
        BY <2>4, <2>5, <3>1 DEF Changes, Live, RemoteInv
      <4>2. remote[q].net \in Networks
        BY <2>5, <4>1, Blanks DEF RemoteInv, RemoteOf, Live
      <4>3. QED
        BY <2>4, <4>1, <4>2 DEF Changes, Live
    <3>2. QED
      BY <3>1
  <2>6. Live(n)' /\ remote'[p].net = n
    BY <2>1, <2>4 DEF Changes, Live, Becomes
  <2>7. RemoteInv'
    BY <2>4, <2>5, <2>6, PeeringDBAssumption DEF RemoteInv, RemoteTypes, Changes, Live
  <2>8. QED
    BY <2>2, <2>4, <2>7
<1>3. ASSUME NEW o \in Objects, Retire(o)
      PROVE  RemoteInv' /\ \E changed \in SUBSET Objects : Changes(changed)
  <2> DEFINE gone == {o} \cup {p \in Ports : Live(p) /\ remote[p].net = o}
             d == [y \in Objects |-> [remote[y] EXCEPT !.status = "deleted", !.address = None]]
  <2>1. gone \in SUBSET Objects /\ Publish(gone, d) /\ Live(o)
    BY <1>3 DEF Retire
  <2>2. ASSUME NEW x \in gone
        PROVE  /\ d[x] \in Remote /\ d[x].status = "deleted"
               /\ x \in Ports => d[x].net \in Networks
    <3>1. x \in Objects /\ Live(x) /\ remote[x] \in Remote /\ RemoteOf(x)
      BY <2>1 DEF RemoteInv
    <3>2. d[x] = [remote[x] EXCEPT !.status = "deleted", !.address = None]
      BY <3>1
    <3>3. x \in Ports => remote[x].net \in Networks
      BY <3>1, Blanks DEF RemoteOf, Live
    <3>4. QED
      BY <3>1, <3>2, <3>3 DEF Remote
  <2> HIDE DEF d
  <2>3. Proper(gone, d)
    BY <2>2 DEF Proper
  <2>4. Changes(gone) /\ RemoteTypes' /\ Becomes(gone, d)
    BY <2>1, <2>3, PublishChanges
  <2>5. ASSUME NEW p \in Ports, Live(p)'
        PROVE  Live(remote[p].net)' /\ remote'[p].net = remote[p].net
    <3>1. p \notin gone
      BY <2>2, <2>4, <2>5 DEF Live, Becomes
    <3>2. remote'[p] = remote[p] /\ Live(remote[p].net) /\ remote[p].net # o
      BY <2>4, <2>5, <3>1 DEF Changes, Live, RemoteInv
    <3>3. remote[p].net \in Networks
      BY <2>5, <3>2, Blanks DEF RemoteInv, RemoteOf, Live
    <3>4. remote[p].net \notin gone
      BY <3>2, <3>3
    <3>5. QED
      BY <2>4, <3>2, <3>3, <3>4 DEF Changes, Live
  <2>6. RemoteInv'
    BY <2>4, <2>5, PeeringDBAssumption DEF RemoteInv, RemoteTypes, Changes, Live
  <2>7. QED
    BY <2>1, <2>4, <2>6
<1>4. QED
  BY <1>1, <1>2, <1>3 DEF PeeringDB

-----------------------------------------------------------------------------
(* Values *)

LEMMA RemoteStep ==
    ASSUME RemoteInv, [Next]_vars
    PROVE  /\ RemoteInv'
           /\ \/ UNCHANGED <<remote, now>>
              \/ \E changed \in SUBSET Objects : Changes(changed)
<1>1. CASE PeeringDB
  BY <1>1, PeeringDBKeepsRemoteInv
<1>2. CASE UNCHANGED <<remote, now>>
  BY <1>2 DEF RemoteInv, RemoteOf, Live
<1>3. ASSUME NEW r \in Runs, Run(r)
      PROVE  UNCHANGED <<remote, now>>
  BY <1>3 DEF Run, Begin, Lookup, LookupFails, Process, LoadConnections, LinkConnection,
              LinkExchange, LinkHiddenPeer
<1>4. CASE Flush
  BY <1>2, <1>4 DEF Flush, BeginFlush, UnlinkConnections, UnlinkExchanges,
                    UnlinkHiddenPeers, DeletePorts, DeleteNetworks, FlushStep
<1>5. CASE User
  BY <1>2, <1>5 DEF User, EditConnection, HidePeer
<1>6. QED
  BY <1>1, <1>2, <1>3, <1>4, <1>5 DEF Next, vars

\* What PeeringDB, a flush and a user leave of the runs.
LEMMA OthersLeaveRuns ==
    ASSUME [PeeringDB \/ Flush \/ User]_vars, RemoteInv
    PROVE  UNCHANGED runVars
<1>1. CASE PeeringDB
  BY <1>1, PeeringDBKeepsRemoteInv DEF Changes
<1>2. CASE Flush
  BY <1>2 DEF Flush, BeginFlush, UnlinkConnections, UnlinkExchanges, UnlinkHiddenPeers,
              DeletePorts, DeleteNetworks, FlushStep
<1>3. CASE User
  BY <1>3 DEF User, EditConnection, HidePeer
<1>4. QED
  BY <1>1, <1>2, <1>3 DEF vars

LEMMA AloneStep ==
    ASSUME RemoteInv, [Next]_vars, alone \in [Runs -> BOOLEAN]
    PROVE  alone' \in [Runs -> BOOLEAN]
<1>1. CASE PeeringDB
  BY <1>1, PeeringDBKeepsRemoteInv DEF Changes
<1>2. ASSUME NEW r \in Runs, Run(r) PROVE alone' \in [Runs -> BOOLEAN]
  BY <1>2 DEF Run, Begin, Lookup, LookupFails, Process, LoadConnections, LinkConnection,
              LinkExchange, LinkHiddenPeer, OnlyBy, Disturb
<1>3. CASE Flush
  BY <1>3 DEF Flush, BeginFlush, UnlinkConnections, UnlinkExchanges, UnlinkHiddenPeers,
              DeletePorts, DeleteNetworks, FlushStep, Disturb
<1>4. CASE User
  BY <1>4 DEF User, EditConnection, HidePeer, Disturb
<1>5. QED
  BY <1>1, <1>2, <1>3, <1>4 DEF Next, vars, history

LEMMA RunTypesStep ==
    ASSUME RemoteInv, LinksInv, RunTypes, [Next]_vars
    PROVE  RunTypes'
<1> USE DEF RunTypes
<1>1. alone' \in [Runs -> BOOLEAN]
  BY AloneStep
<1>2. CASE UNCHANGED runVars
  BY <1>1, <1>2 DEF runVars
<1>3. ASSUME NEW r \in Runs, Run(r) PROVE RunTypes'
  <2>1. CASE Begin(r)
    BY <1>1, <2>1 DEF Begin
  <2>2. CASE Lookup(r)
    <3>1. \A s : lookup(ns[r], s) \in [Objects -> Remote]
      BY Blanks DEF lookup, RemoteInv
    <3>2. QED
      BY <1>1, <2>2, <3>1 DEF Lookup
  <2>3. CASE LookupFails(r)
    BY <1>1, <2>3 DEF LookupFails
  <2>4. CASE Process(r)
    <3>1. [x \in Objects |-> Unknown] \in [Objects -> Remote]
      BY Blanks
    <3>2. QED
      BY <1>1, <2>4, <3>1 DEF Process
  <2>5. CASE LoadConnections(r)
    BY <1>1, <2>5 DEF LoadConnections, LinksInv, ConnectionsOk
  <2>6. ASSUME NEW c \in Connections, LinkConnection(r, c) PROVE RunTypes'
    BY <1>1, <2>6 DEF LinkConnection
  <2>7. CASE LinkExchange(r)
    BY <1>1, <2>7 DEF LinkExchange, LinksInv, ConnectionsOk
  <2>8. CASE LinkHiddenPeer(r)
    BY <1>1, <2>8 DEF LinkHiddenPeer
  <2>9. QED
    BY <1>3, <2>1, <2>2, <2>3, <2>4, <2>5, <2>6, <2>7, <2>8 DEF Run
<1>4. CASE [PeeringDB \/ Flush \/ User]_vars
  BY <1>2, <1>4, OthersLeaveRuns
<1>5. QED
  BY <1>3, <1>4 DEF Next

LEMMA AnswerOfStep ==
    ASSUME RemoteInv, RunInv, [Next]_vars, NEW q \in Runs, NEW x \in Objects
    PROVE  AnswerOf(q, x)'
<1> USE Blanks DEF RunTypes
<1>1. RemoteInv' /\ now \in Nat /\ now' \in Nat /\ AnswerOf(q, x)
  BY RemoteStep DEF RemoteInv, RunInv
<1>2. now <= now' /\ (remote[x].status = "deleted" => remote'[x].status = "deleted")
  BY <1>1, RemoteStep, PeeringDBAssumption DEF Changes
<1>3. ASSUME answer'[q][x] = answer[q][x],
             answer[q][x] # Unknown => pc'[q] = pc[q] /\ ns'[q] = ns[q]
      PROVE  AnswerOf(q, x)'
  BY <1>1, <1>2, <1>3, PeeringDBAssumption DEF AnswerOf
<1>4. ASSUME NEW r \in Runs, Run(r)
      PROVE  AnswerOf(q, x)'
  <2>1. CASE q # r
    <3>1. pc'[q] = pc[q] /\ ns'[q] = ns[q] /\ answer'[q] = answer[q]
      BY <1>4, <2>1 DEF Run, Begin, Lookup, LookupFails, Process, LoadConnections,
                        LinkConnection, LinkExchange, LinkHiddenPeer, RunInv
    <3>2. QED
      BY <1>3, <3>1
  <2>2. CASE q = r
    <3>1. CASE Lookup(r)
      <4>1. answer'[r] = lookup(ns[r], get_last_synchronisation_for_model(ns[r]))
            /\ pc'[r] = "process" /\ ns' = ns /\ UNCHANGED <<remote, now>>
        BY <3>1 DEF Lookup, RunInv
      <4>2. \/ answer'[r][x] = Unknown
            \/ /\ answer'[r][x] = remote[x] /\ x \in Objects_of(ns[r])
               /\ remote[x].status \in {"ok", "deleted"}
        BY <4>1 DEF lookup, Live
      <4>3. RemoteOf(x) /\ remote[x].updated <= now
        BY DEF RemoteInv
      <4>4. QED
        BY <2>2, <4>1, <4>2, <4>3 DEF AnswerOf, RemoteOf
    <3>2. CASE Process(r)
      <4>1. answer'[r][x] = Unknown
        BY <3>2 DEF Process, RunInv
      <4>2. QED
        BY <2>2, <4>1 DEF AnswerOf
    <3>3. CASE ~Lookup(r) /\ ~Process(r)
      <4>1. UNCHANGED answer /\ pc[r] # "process"
        BY <1>4, <3>3 DEF Run, Begin, LookupFails, LoadConnections, LinkConnection,
                          LinkExchange, LinkHiddenPeer, Active
      <4>2. answer[q][x] = Unknown
        BY <1>1, <2>2, <4>1 DEF AnswerOf
      <4>3. QED
        BY <1>3, <4>1, <4>2
    <3>4. QED
      BY <3>1, <3>2, <3>3
  <2>3. QED
    BY <2>1, <2>2
<1>5. CASE [PeeringDB \/ Flush \/ User]_vars
  <2>1. UNCHANGED <<pc, ns, answer>>
    BY <1>5, OthersLeaveRuns DEF runVars
  <2>2. QED
    BY <1>3, <2>1
<1>6. QED
  BY <1>4, <1>5 DEF Next

LEMMA RunStep ==
    ASSUME RemoteInv, LinksInv, RunInv, [Next]_vars
    PROVE  RunInv'
<1>1. RunTypes'
  BY RunTypesStep DEF RunInv
<1>2. \A q \in Runs : \A x \in Objects : AnswerOf(q, x)'
  BY AnswerOfStep
<1>3. QED
  BY <1>1, <1>2 DEF RunInv

-----------------------------------------------------------------------------
(* The rows *)

\* What run r writes: a row stays, goes, or becomes what the answer says; the new
\* rows still refer to rows, and so do the links that are left.
Wrote(r) ==
    /\ cache' \in [Objects -> Row]
    /\ \A x \in Objects :
            \/ cache'[x] = NoRow
            \/ cache'[x] = cache[x]
            \/ answer[r][x] # Unknown /\ cache'[x] = Data(answer[r][x])
    /\ \A p \in Ports : cache'[p] # NoRow =>
            cache'[p].net \in Networks /\ cache'[cache'[p].net] # NoRow
    /\ \A c \in Connections :
            /\ conns'[c].link # None => cache'[conns'[c].link] # NoRow
            /\ \/ conns'[c] = conns[c]
               \/ conns'[c] = [conns[c] EXCEPT !.link = None]
    /\ hidden'.net # None => cache'[hidden'.net] # NoRow
    /\ hidden' = hidden \/ hidden' = [hidden EXCEPT !.net = None]

\* It knows the live objects of which the answer is up to date, and those that it
\* knew and that are not in the answer.
Learns(r) ==
    \A x \in Objects : Live(x) =>
        /\ answer[r][x] = remote[x] => Known(x)'
        /\ answer[r][x] = Unknown /\ Known(x) => Known(x)'

LEMMA ProcessWrites ==
    ASSUME Values, NEW r \in Runs, Process(r)
    PROVE  Wrote(r) /\ Learns(r)
<1> DEFINE got     == {x \in Objects : answer[r][x] # Unknown}
           gone    == {x \in got : answer[r][x].status = "deleted" /\ Cached(x)}
           orphans == {x \in got \ gone : x \in Ports /\ ~Cached(answer[r][x].net)}
           written(no) == [x \in Objects |->
                              IF x \in gone THEN NoRow
                              ELSE IF x \in got \ no THEN Data(answer[r][x]) ELSE cache[x]]
<1>0. PICK refused \in SUBSET (got \ gone) :
          /\ orphans \subseteq refused
          /\ Collect(written(refused))
          /\ skipped' = (skipped \ got)
                           \cup {x \in refused : Live(x) /\ answer[r][x] = remote[x]}
  BY DEF Process
<1> DEFINE rows    == written(refused)
           kept(x) == rows[x] # NoRow /\ (x \in Ports => rows[rows[x].net] # NoRow)
<1> USE Namespaces, Blanks
<1>1. /\ cache' = [x \in Objects |-> IF kept(x) THEN rows[x] ELSE NoRow]
      /\ conns' = [c \in Connections |->
              IF conns[c].link # None /\ ~kept(conns[c].link)
              THEN [conns[c] EXCEPT !.link = None] ELSE conns[c]]
      /\ hidden' = IF hidden.net # None /\ ~kept(hidden.net)
                   THEN [hidden EXCEPT !.net = None] ELSE hidden
      /\ skipped' = (skipped \ got)
                       \cup {x \in refused : Live(x) /\ answer[r][x] = remote[x]}
      /\ remote' = remote
  BY <1>0 DEF Process, Collect
<1>2. ASSUME NEW x \in Objects
      PROVE  /\ x \in got <=> answer[r][x] # Unknown
             /\ x \in gone => /\ answer[r][x].status = "deleted" /\ rows[x] = NoRow
             /\ x \in got \ gone /\ x \notin refused =>
                    /\ rows[x] = Data(answer[r][x])
                    /\ x \in Ports => Cached(answer[r][x].net)
             /\ x \notin got \/ x \in refused => rows[x] = cache[x]
             /\ x \in gone \/ x \in refused => x \in got
             /\ x \in refused => x \notin gone
  BY <1>0
<1> HIDE DEF got, gone, orphans, written, rows
<1>3. ASSUME NEW x \in Objects
      PROVE  /\ answer[r][x] \in Remote /\ Data(answer[r][x]) \in Row
             /\ x \in got =>
                    /\ Data(answer[r][x]) # NoRow
                    /\ x \in Ports => answer[r][x].net \in Networks
                    /\ answer[r][x].status = "deleted" => remote[x].status = "deleted"
  <2>1. answer[r][x] \in Remote /\ AnswerOf(r, x)
    BY DEF Values, RunInv, RunTypes
  <2>2. Data(answer[r][x]) \in Row
    BY <2>1 DEF Remote, Row, Data
  <2>3. x \in got => Data(answer[r][x]).updated # 0
    <3>1. x \in got => answer[r][x].updated \in 1..MaxNow
      BY <1>2, <2>1 DEF AnswerOf
    <3>2. Data(answer[r][x]).updated = answer[r][x].updated
      BY DEF Data
    <3>3. QED
      BY <3>1, <3>2, PeeringDBAssumption
  <2>4. QED
    BY <1>2, <2>1, <2>2, <2>3 DEF AnswerOf
<1>4. ASSUME NEW x \in Objects
      PROVE  /\ rows[x] \in Row
             /\ rows[x] \in {NoRow, cache[x]} \/ (x \in got /\ rows[x] = Data(answer[r][x]))
             /\ x \in Ports /\ rows[x] # NoRow => rows[x].net \in Networks
  <2>1. cache[x] \in Row /\ (x \in Ports /\ cache[x] # NoRow => cache[x].net \in Networks)
    BY DEF Values, CacheInv, Cached
  <2>2. x \in got => Data(answer[r][x]).net = answer[r][x].net
    BY DEF Data
  <2>3. rows[x] \in {NoRow, cache[x]} \/ (x \in got /\ rows[x] = Data(answer[r][x]))
    BY <1>2
  <2>4. QED
    BY <1>3, <2>1, <2>2, <2>3
<1>5. ASSUME NEW x \in Objects
      PROVE  cache'[x] = IF kept(x) THEN rows[x] ELSE NoRow
  BY <1>1
<1>6. Wrote(r)
  <2>1. cache' \in [Objects -> Row]
    <3>1. cache' = [x \in Objects |-> cache'[x]]
      BY <1>1
    <3>2. QED
      BY <1>4, <1>5, <3>1
  <2>2. ASSUME NEW n \in Networks PROVE rows[n] # NoRow => cache'[n] # NoRow
    BY <1>5
  <2>3. ASSUME NEW p \in Ports, cache'[p] # NoRow
        PROVE  cache'[p].net \in Networks /\ cache'[cache'[p].net] # NoRow
    BY <1>4, <1>5, <2>2, <2>3
  <2> HIDE DEF kept
  <2>4. ASSUME NEW x \in Objects, kept(x)
        PROVE  cache'[x] # NoRow
    BY <1>5, <2>4 DEF kept
  <2>5. ASSUME NEW c \in Connections
        PROVE  /\ conns'[c].link # None => cache'[conns'[c].link] # NoRow
               /\ \/ conns'[c] = conns[c]
                  \/ conns'[c] = [conns[c] EXCEPT !.link = None]
    <3>1. conns[c] \in [address: Addresses \cup {None}, link: Ports \cup {None}]
      BY DEF Values, LinksInv, ConnectionsOk
    <3>2. conns'[c] = IF conns[c].link # None /\ ~kept(conns[c].link)
                      THEN [conns[c] EXCEPT !.link = None] ELSE conns[c]
      BY <1>1
    <3>3. QED
      BY <2>4, <3>1, <3>2
  <2>6. /\ hidden'.net # None => cache'[hidden'.net] # NoRow
        /\ hidden' = hidden \/ hidden' = [hidden EXCEPT !.net = None]
    <3>1. hidden \in [copy: Networks \cup {None}, net: Networks \cup {None}]
      BY DEF Values, LinksInv, HiddenOk
    <3>2. QED
      BY <1>1, <2>4, <3>1
  <2>7. ASSUME NEW x \in Objects
        PROVE  \/ cache'[x] = NoRow
               \/ cache'[x] = cache[x]
               \/ answer[r][x] # Unknown /\ cache'[x] = Data(answer[r][x])
    BY <1>2, <1>4, <1>5
  <2>8. QED
    BY <2>1, <2>3, <2>5, <2>6, <2>7 DEF Wrote
<1>7. ASSUME NEW x \in Objects, Live(x), rows[x] = Data(remote[x])
      PROVE  Current(x)'
  <2>1. remote[x].updated \in 1..MaxNow /\ (x \in Ports => remote[x].net \in Networks)
    BY <1>7 DEF Values, RemoteInv, RemoteOf, Live
  <2>2. Data(remote[x]).updated # 0 /\ Data(remote[x]).net = remote[x].net
    BY <2>1, PeeringDBAssumption DEF Data
  <2>3. ASSUME x \in Ports PROVE rows[remote[x].net] # NoRow
    <3> DEFINE n == remote[x].net
    <3>1. n \in Networks /\ n \in Objects /\ Live(n)
      BY <1>7, <2>1, <2>3 DEF Values, RemoteInv
    <3>2. n \notin gone
      BY <1>2, <1>3, <3>1 DEF Live
    <3>3. CASE n \in got /\ n \notin refused
      BY <1>2, <1>3, <3>1, <3>2, <3>3
    <3>4. ASSUME n \notin got \/ n \in refused
          PROVE  cache[n] # NoRow
      <4>1. CASE rows[x] = cache[x]
        BY <1>7, <2>2, <2>3, <4>1 DEF Values, CacheInv, Cached
      <4>2. CASE x \in got \ gone /\ x \notin refused
        <5>1. rows[x] = Data(answer[r][x]) /\ Cached(answer[r][x].net)
          BY <1>2, <2>3, <4>2
        <5>2. Data(answer[r][x]).net = answer[r][x].net
          BY DEF Data
        <5>3. answer[r][x].net = n
          BY <1>7, <2>2, <5>1, <5>2
        <5>4. QED
          BY <5>1, <5>3 DEF Cached
      <4>3. QED
        BY <1>2, <1>7, <2>2, <4>1, <4>2
    <3>5. QED
      BY <1>2, <3>1, <3>3, <3>4
  <2>4. cache'[x] = rows[x]
    BY <1>5, <1>7, <2>2, <2>3
  <2>5. QED
    BY <1>1, <1>7, <2>4 DEF Current
<1>8. ASSUME NEW x \in Objects, Live(x), answer[r][x] = remote[x]
      PROVE  Known(x)'
  <2>1. x \in got /\ x \notin gone
    BY <1>2, <1>8 DEF Live
  <2>2. CASE x \in refused
    BY <1>1, <1>8, <2>2 DEF Known
  <2>3. CASE x \notin refused
    BY <1>2, <1>7, <1>8, <2>1, <2>3 DEF Known
  <2>4. QED
    BY <2>2, <2>3
<1>9. ASSUME NEW x \in Objects, Live(x), answer[r][x] = Unknown, Known(x)
      PROVE  Known(x)'
  <2>1. x \notin got /\ rows[x] = cache[x]
    BY <1>2, <1>9
  <2>2. CASE x \in skipped
    BY <1>1, <2>1, <2>2 DEF Known
  <2>3. CASE Current(x)
    BY <1>7, <1>9, <2>1, <2>3 DEF Known, Current
  <2>4. QED
    BY <1>9, <2>2, <2>3 DEF Known
<1>10. QED
  BY <1>6, <1>8, <1>9 DEF Learns

\* The rows are only changed by a run that writes and by a flush.
LEMMA CacheStep ==
    ASSUME Values, [Next]_vars
    PROVE  CacheInv'
<1> USE Namespaces, Blanks
<1>1. now \in Nat /\ now' \in Nat /\ now <= now'
  BY RemoteStep, PeeringDBAssumption DEF Values, RemoteInv, Changes
<1>2. CASE UNCHANGED cache
  <2>1. \A x \in Objects : cache[x].updated \in Nat
    BY PeeringDBAssumption DEF Values, CacheInv, Row
  <2>2. QED
    BY <1>1, <1>2, <2>1 DEF Values, CacheInv, Cached
<1>3. ASSUME NEW r \in Runs, Process(r)
      PROVE  CacheInv'
  <2>1. Wrote(r) /\ UNCHANGED now
    BY <1>3, ProcessWrites DEF Process
  <2>2. ASSUME NEW x \in Objects
        PROVE  cache'[x].updated <= now'
    <3>1. cache[x].updated <= now
      BY DEF Values, CacheInv
    <3>2. answer[r][x] # Unknown => Data(answer[r][x]).updated <= now
      BY DEF Values, RunInv, AnswerOf, Data
    <3>3. QED
      BY <1>1, <2>1, <3>1, <3>2 DEF Wrote
  <2>3. QED
    BY <2>1, <2>2 DEF CacheInv, Wrote, Cached
<1>4. CASE DeletePorts
  <2>1. UNCHANGED now
    BY <1>4 DEF DeletePorts, FlushStep
  <2>2. CASE \E c \in Connections : conns[c].link # None
    BY <2>1, <2>2, <1>4 DEF DeletePorts, Values, CacheInv, Cached
  <2>3. CASE ~\E c \in Connections : conns[c].link # None
    BY <1>1, <2>1, <2>3, <1>4 DEF DeletePorts, Values, CacheInv, Cached
  <2>4. QED
    BY <2>2, <2>3
<1>5. CASE DeleteNetworks
  <2>1. UNCHANGED now
    BY <1>5 DEF DeleteNetworks, FlushStep
  <2>2. CASE hidden.net # None \/ \E p \in Ports : Cached(p)
    BY <2>1, <2>2, <1>5 DEF DeleteNetworks, Values, CacheInv, Cached
  <2>3. CASE ~(hidden.net # None \/ \E p \in Ports : Cached(p))
    BY <1>1, <2>1, <2>3, <1>5 DEF DeleteNetworks, Values, CacheInv, Cached
  <2>4. QED
    BY <2>2, <2>3
<1>6. CASE PeeringDB
  BY <1>2, <1>6, PeeringDBKeepsRemoteInv DEF Changes, Values
<1>7. ASSUME NEW r \in Runs, Run(r), ~Process(r)
      PROVE  CacheInv'
  BY <1>2, <1>7 DEF Run, Begin, Lookup, LookupFails, LoadConnections, LinkConnection,
                    LinkExchange, LinkHiddenPeer
<1>8. CASE BeginFlush \/ UnlinkConnections \/ UnlinkExchanges \/ UnlinkHiddenPeers \/ User
         \/ UNCHANGED vars
  BY <1>2, <1>8 DEF BeginFlush, UnlinkConnections, UnlinkExchanges, UnlinkHiddenPeers,
                    User, EditConnection, HidePeer, vars
<1>9. QED
  BY <1>3, <1>4, <1>5, <1>6, <1>7, <1>8 DEF Next, Flush

LEMMA MatchesAreCached ==
    ASSUME NEW a, NEW p \in Matches(a)
    PROVE  p \in Ports /\ Cached(p)
BY DEF Matches

LEMMA ConnectionsStep ==
    ASSUME Values, ConnectionsOk, [Next]_vars
    PROVE  ConnectionsOk'
<1> USE Namespaces, Blanks
<1>1. CASE UNCHANGED <<cache, conns>>
  BY <1>1 DEF ConnectionsOk, Cached
<1>2. ASSUME NEW r \in Runs, Process(r)
      PROVE  ConnectionsOk'
  <2>1. Wrote(r) /\ conns' = [c \in Connections |-> conns'[c]]
    BY <1>2, ProcessWrites DEF Process, Collect
  <2>2. ASSUME NEW c \in Connections
        PROVE  conns'[c] \in [address: Addresses \cup {None}, link: Ports \cup {None}]
    BY <2>1 DEF Wrote, ConnectionsOk
  <2>3. QED
    BY <2>1, <2>2 DEF ConnectionsOk, Wrote, Cached
<1>3. ASSUME NEW r \in Runs, NEW c \in Connections, LinkConnection(r, c)
      PROVE  ConnectionsOk'
  <2>1. UNCHANGED cache
    BY <1>3 DEF LinkConnection
  <2>2. CASE UNCHANGED conns
    BY <1>1, <2>1, <2>2
  <2>3. ASSUME NEW p \in Matches(loaded[r][c].address),
               conns' = [conns EXCEPT ![c] = link(loaded[r][c], p)]
        PROVE  ConnectionsOk'
    <3>1. /\ link(loaded[r][c], p) \in [address: Addresses \cup {None},
                                        link: Ports \cup {None}]
          /\ link(loaded[r][c], p).link = p
      <4>1. loaded[r][c] \in [address: Addresses \cup {None}, link: Ports \cup {None}]
        BY DEF Values, RunInv, RunTypes
      <4>2. p \in Ports
        BY MatchesAreCached
      <4>3. QED
        BY <4>1, <4>2 DEF link
    <3>2. Cached(p)' /\ p \in Ports
      BY <2>1, MatchesAreCached DEF Cached
    <3>3. QED
      BY <2>1, <2>3, <3>1, <3>2 DEF ConnectionsOk, Cached
  <2>4. QED
    BY <1>3, <2>2, <2>3 DEF LinkConnection
<1>4. CASE UnlinkConnections
  <2>1. \A c \in Connections :
            [conns[c] EXCEPT !.link = None] \in [address: Addresses \cup {None},
                                                 link: Ports \cup {None}]
    BY DEF ConnectionsOk
  <2>2. conns' = [c \in Connections |-> [conns[c] EXCEPT !.link = None]]
    BY <1>4 DEF UnlinkConnections
  <2>3. \A c \in Connections : conns'[c].link = None
    BY <2>1, <2>2
  <2>4. QED
    BY <2>1, <2>2, <2>3 DEF ConnectionsOk
<1>5. CASE DeletePorts
  <2>1. UNCHANGED conns /\ \A c \in Connections : conns[c].link \in Ports \cup {None}
    BY <1>5 DEF DeletePorts, ConnectionsOk, linkVars
  <2>2. CASE \E c \in Connections : conns[c].link # None
    BY <2>1, <2>2, <1>5 DEF DeletePorts, ConnectionsOk, Cached
  <2>3. CASE ~\E c \in Connections : conns[c].link # None
    BY <2>1, <2>3 DEF ConnectionsOk
  <2>4. QED
    BY <2>2, <2>3
<1>6. CASE DeleteNetworks
  <2>1. UNCHANGED conns /\ \A c \in Connections : conns[c].link \in Ports \cup {None}
    BY <1>6 DEF DeleteNetworks, ConnectionsOk, linkVars
  <2>2. CASE hidden.net # None \/ \E p \in Ports : Cached(p)
    BY <2>1, <2>2, <1>6 DEF DeleteNetworks, ConnectionsOk, Cached
  <2>3. CASE ~(hidden.net # None \/ \E p \in Ports : Cached(p))
    BY <2>1, <2>3 DEF ConnectionsOk
  <2>4. QED
    BY <2>2, <2>3
<1>7. ASSUME NEW c \in Connections, NEW a \in Addresses \cup {None}, EditConnection(c, a)
      PROVE  ConnectionsOk'
  BY <1>7 DEF EditConnection, ConnectionsOk, Cached
<1>8. CASE PeeringDB
  BY <1>1, <1>8, PeeringDBKeepsRemoteInv DEF Changes, Values, linkVars
<1>9. ASSUME NEW r \in Runs, \/ Begin(r) \/ Lookup(r) \/ LookupFails(r)
                            \/ LoadConnections(r) \/ LinkExchange(r) \/ LinkHiddenPeer(r)
      PROVE  ConnectionsOk'
  BY <1>1, <1>9 DEF Begin, Lookup, LookupFails, LoadConnections, LinkExchange,
                    LinkHiddenPeer, linkVars
<1>10. ASSUME \/ BeginFlush \/ UnlinkExchanges \/ UnlinkHiddenPeers \/ UNCHANGED vars
              \/ \E n \in Networks : HidePeer(n)
       PROVE  ConnectionsOk'
  BY <1>1, <1>10 DEF BeginFlush, UnlinkExchanges, UnlinkHiddenPeers, HidePeer, vars,
                     linkVars
<1>11. QED
  BY <1>2, <1>3, <1>4, <1>5, <1>6, <1>7, <1>8, <1>9, <1>10 DEF Next, Flush, User, Run

LEMMA HiddenStep ==
    ASSUME Values, HiddenOk, [Next]_vars
    PROVE  HiddenOk'
<1> USE Namespaces, Blanks
<1>1. CASE UNCHANGED <<cache, hidden>>
  BY <1>1 DEF HiddenOk, Cached
<1>2. ASSUME NEW r \in Runs, Process(r)
      PROVE  HiddenOk'
  <2>1. Wrote(r)
    BY <1>2, ProcessWrites
  <2>2. QED
    BY <2>1 DEF HiddenOk, Wrote, Cached
<1>3. ASSUME NEW r \in Runs, LinkHiddenPeer(r)
      PROVE  HiddenOk'
  BY <1>3 DEF LinkHiddenPeer, relink, HiddenOk, Cached
<1>4. CASE UnlinkHiddenPeers
  BY <1>4 DEF UnlinkHiddenPeers, HiddenOk
<1>5. CASE DeletePorts
  BY <1>5 DEF DeletePorts, HiddenOk, Cached, linkVars
<1>6. CASE DeleteNetworks
  BY <1>6 DEF DeleteNetworks, HiddenOk, Cached, linkVars
<1>7. ASSUME NEW n \in Networks, HidePeer(n)
      PROVE  HiddenOk'
  BY <1>7 DEF HidePeer, HiddenOk, Cached
<1>8. CASE PeeringDB
  BY <1>1, <1>8, PeeringDBKeepsRemoteInv DEF Changes, Values, linkVars
<1>9. ASSUME NEW r \in Runs, \/ Begin(r) \/ Lookup(r) \/ LookupFails(r)
                            \/ LoadConnections(r) \/ LinkExchange(r)
                            \/ \E c \in Connections : LinkConnection(r, c)
      PROVE  HiddenOk'
  BY <1>1, <1>9 DEF Begin, Lookup, LookupFails, LoadConnections, LinkConnection,
                    LinkExchange, linkVars
<1>10. ASSUME \/ BeginFlush \/ UnlinkConnections \/ UnlinkExchanges \/ UNCHANGED vars
              \/ \E c \in Connections, a \in Addresses \cup {None} : EditConnection(c, a)
       PROVE  HiddenOk'
  BY <1>1, <1>10 DEF BeginFlush, UnlinkConnections, UnlinkExchanges, EditConnection, vars,
                     linkVars
<1>11. QED
  BY <1>2, <1>3, <1>4, <1>5, <1>6, <1>7, <1>8, <1>9, <1>10 DEF Next, Flush, User, Run

LEMMA ValuesStep ==
    ASSUME Values, [Next]_vars
    PROVE  Values'
<1>1. ConnectionsOk' /\ HiddenOk'
  BY ConnectionsStep, HiddenStep DEF Values, LinksInv
<1>2. RemoteInv' /\ RunInv' /\ CacheInv'
  BY RemoteStep, RunStep, CacheStep DEF Values
<1>3. QED
  BY <1>1, <1>2 DEF Values, LinksInv

-----------------------------------------------------------------------------
(* Runs and flushes that have not met *)

\* What was torn stays so.
LEMMA TornStays ==
    ASSUME RemoteInv, torn, [Next]_vars
    PROVE  torn'
<1>1. CASE PeeringDB
  BY <1>1, PeeringDBKeepsRemoteInv DEF Changes
<1>2. ASSUME NEW r \in Runs, Run(r) PROVE torn'
  BY <1>2 DEF Run, Begin, Lookup, LookupFails, Process, LoadConnections, LinkConnection,
              LinkExchange, LinkHiddenPeer
<1>3. CASE Flush
  BY <1>3 DEF Flush, BeginFlush, UnlinkConnections, UnlinkExchanges, UnlinkHiddenPeers,
              DeletePorts, DeleteNetworks
<1>4. CASE User
  BY <1>4 DEF User, EditConnection, HidePeer
<1>5. QED
  BY <1>1, <1>2, <1>3, <1>4 DEF Next, vars, history

LEMMA ApartStep ==
    ASSUME Values, ApartInv, [Next]_vars
    PROVE  ApartInv'
<1> SUFFICES ASSUME ~torn'
             PROVE  /\ \A q, r \in Runs : Active(q)' /\ Active(r)' => q = r
                    /\ Flushing' => \A r \in Runs : ~Active(r)'
  BY DEF ApartInv
<1>1. /\ ~torn
      /\ \A q, r \in Runs : Active(q) /\ Active(r) => q = r
      /\ Flushing => \A r \in Runs : ~Active(r)
  BY TornStays DEF ApartInv, Values
<1>2. CASE UNCHANGED pc /\ (Flushing' => Flushing)
  BY <1>1, <1>2 DEF Active
<1>3. ASSUME NEW r \in Runs, Run(r)
      PROVE  /\ \A q \in Runs \ {r} : pc'[q] = pc[q]
             /\ Begin(r) \/ Active(r)
             /\ UNCHANGED flush
  BY <1>3 DEF Run, Begin, Lookup, LookupFails, Process, LoadConnections, LinkConnection,
              LinkExchange, LinkHiddenPeer, Active, Values, RunInv, RunTypes, flushVars
<1>4. ASSUME NEW r \in Runs, Run(r), Active(r)
      PROVE  /\ \A p, q \in Runs : Active(p)' /\ Active(q)' => p = q
             /\ Flushing' => \A q \in Runs : ~Active(q)'
  BY <1>1, <1>3, <1>4 DEF Active, Flushing
<1>5. ASSUME NEW r \in Runs, Begin(r)
      PROVE  /\ \A p, q \in Runs : Active(p)' /\ Active(q)' => p = q
             /\ Flushing' => \A q \in Runs : ~Active(q)'
  <2>1. ~Flushing /\ \A q \in Runs : ~Active(q)
    BY <1>5 DEF Begin
  <2>2. Run(r)
    BY <1>5 DEF Run
  <2>3. QED
    BY <1>3, <2>1, <2>2 DEF Active, Flushing
<1>6. CASE BeginFlush
  BY <1>1, <1>6 DEF BeginFlush, FlushStep, runVars, Active
<1>7. CASE \/ UnlinkConnections \/ UnlinkExchanges \/ UnlinkHiddenPeers
         \/ DeletePorts \/ DeleteNetworks
  BY <1>2, <1>7 DEF UnlinkConnections, UnlinkExchanges, UnlinkHiddenPeers, DeletePorts,
                    DeleteNetworks, FlushStep, runVars, Flushing
<1>8. CASE PeeringDB
  BY <1>2, <1>8, PeeringDBKeepsRemoteInv DEF Changes, Values, runVars, flushVars, Flushing
<1>9. CASE User \/ UNCHANGED vars
  BY <1>2, <1>9 DEF User, EditConnection, HidePeer, vars, runVars, flushVars, Flushing
<1>10. QED
  BY <1>3, <1>4, <1>5, <1>6, <1>7, <1>8, <1>9 DEF Next, Flush

-----------------------------------------------------------------------------
(* What is known, and since when *)

\* The time that a lookup asks for is 0 or that of a row.
LEMMA LatestRow ==
    ASSUME CacheInv, NEW n \in {"net", "netixlan"},
           get_last_synchronisation_for_model(n) # 0
    PROVE  \E z \in Objects_of(n) :
               cache[z].updated = get_last_synchronisation_for_model(n)
<1> DEFINE S == {0} \cup {cache[x].updated : x \in Objects_of(n)}
           T == {MaxNow - s : s \in S}
<1>1. S \subseteq 0..MaxNow /\ MaxNow \in Nat
  BY Namespaces, PeeringDBAssumption DEF CacheInv, Row
<1>2. T \subseteq Nat /\ T # {}
  BY <1>1
<1>3. PICK t \in T : \A u \in T : ~(u < t)
  <2> DEFINE less == {ss \in Nat \X Nat : ss[1] < ss[2]}
  <2>1. IsWellFoundedOn(less, Nat)
    BY NatLessThanWellFounded DEF OpToRel
  <2> HIDE DEF S, T
  <2>2. \E t \in T : \A u \in T : ~(<<u, t>> \in less)
    <3> HIDE DEF less
    <3>1. QED
      BY <1>2, <2>1, WFMin
  <2>3. QED
    BY <1>2, <2>2
<1>4. PICK s \in S : t = MaxNow - s
  OBVIOUS
<1>5. ASSUME NEW u \in S PROVE s >= u
  <2>1. MaxNow - u \in T
    OBVIOUS
  <2>2. ~(MaxNow - u < MaxNow - s)
    BY <1>3, <1>4, <2>1
  <2> HIDE DEF S, T
  <2>3. u \in Nat /\ s \in Nat
    BY <1>1
  <2>4. QED
    BY <1>1, <2>2, <2>3
<1>6. Max(S) \in S
  BY <1>5 DEF Max
<1>7. QED
  BY <1>6 DEF get_last_synchronisation_for_model

LEMMA FreshStep ==
    ASSUME Values, ApartInv, FreshInv, AnswerInv, [Next]_vars
    PROVE  FreshInv'
<1> USE Namespaces, Blanks
<1> SUFFICES ASSUME ~torn', NEW n \in {"net", "netixlan"}, NEW x \in Objects_of(n), Live(x)'
             PROVE  Known(x)' \/ Later(n, x)'
  BY DEF FreshInv
<1>1. ~torn /\ (Live(x) => Known(x) \/ Later(n, x)) /\ x \in Objects
  BY TornStays DEF Values, FreshInv
<1>2. Objects_of(n) \subseteq Objects
  OBVIOUS
<1>3. \A z \in Objects : cache[z].updated \in Nat /\ remote[z].updated \in Nat
  BY PeeringDBAssumption DEF Values, CacheInv, Row, RemoteInv, Remote
<1>4. CASE UNCHANGED <<remote, cache, skipped>>
  BY <1>1, <1>4 DEF Live, Known, Current, Later
<1>5. CASE PeeringDB
  <2>1. PICK changed \in SUBSET Objects : Changes(changed)
    BY <1>5, PeeringDBKeepsRemoteInv DEF Values
  <2>2. CASE x \in changed
    <3>1. \A z \in Objects : cache[z].updated <= now
      BY DEF Values, CacheInv
    <3>2. now \in Nat /\ now' \in Nat /\ now <= now' /\ remote'[x].updated = now'
      BY <2>1, <2>2, PeeringDBAssumption DEF Changes, Values, RemoteInv
    <3>3. QED
      BY <1>2, <1>3, <2>1, <3>1, <3>2 DEF Changes, Later
  <2>3. CASE x \notin changed
    BY <1>1, <2>1, <2>3 DEF Changes, Live, Known, Current, Later
  <2>4. QED
    BY <2>2, <2>3
<1>6. ASSUME NEW r \in Runs, Process(r)
      PROVE  Known(x)' \/ Later(n, x)'
  <2>1. Wrote(r) /\ Learns(r) /\ UNCHANGED <<remote, torn>> /\ pc[r] = "process"
    BY <1>6, ProcessWrites DEF Process
  <2>2. Live(x)
    BY <2>1 DEF Live
  <2>3. ASSUME LaterThanAnswer(r, x), ns[r] = n
        PROVE  Later(n, x)'
    <3>1. ASSUME NEW z \in Objects_of(n)
          PROVE  cache'[z].updated <= remote[x].updated
      <4>1. /\ cache[z].updated <= remote[x].updated
            /\ answer[r][z].updated <= remote[x].updated
        BY <2>3 DEF LaterThanAnswer, Later
      <4>2. cache'[z].updated \in {0, cache[z].updated, answer[r][z].updated}
        BY <2>1 DEF Wrote, Data
      <4>3. QED
        BY <1>1, <1>3, <4>1, <4>2
    <3>2. QED
      BY <2>1, <3>1 DEF Later
  <2>4. CASE ns[r] = n
    <3>1. AnswerFresh(r, x)
      BY <1>1, <2>1, <2>4 DEF AnswerInv
    <3>2. QED
      BY <1>1, <2>1, <2>2, <2>3, <2>4, <3>1 DEF AnswerFresh, Learns
  <2>5. CASE ns[r] # n
    <3>1. \A z \in Objects_of(n) : z \notin Objects_of(ns[r])
      BY <2>5 DEF Values, RunInv, RunTypes
    <3>2. \A z \in Objects_of(n) : answer[r][z] = Unknown
      BY <3>1 DEF Values, RunInv, AnswerOf
    <3>3. CASE Known(x)
      BY <1>1, <2>1, <2>2, <3>2, <3>3 DEF Learns
    <3>4. CASE Later(n, x)
      <4>1. \A z \in Objects_of(n) : cache'[z].updated \in {0, cache[z].updated}
        BY <2>1, <3>2 DEF Wrote
      <4>2. QED
        BY <1>1, <1>3, <2>1, <3>4, <4>1 DEF Later
    <3>5. QED
      BY <1>1, <2>2, <3>3, <3>4
  <2>6. QED
    BY <2>4, <2>5
<1>7. CASE DeletePorts
  <2>1. UNCHANGED <<remote, skipped>>
    BY <1>7 DEF DeletePorts, FlushStep
  <2>2. CASE \E c \in Connections : conns[c].link # None
    <3>1. \A z \in Objects : cache'[z] = cache[z]
      BY <1>7, <2>2 DEF DeletePorts
    <3>2. QED
      BY <1>1, <1>2, <2>1, <3>1 DEF Live, Known, Current, Later
  <2>3. CASE ~\E c \in Connections : conns[c].link # None
    <3>1. \A z \in Objects : cache'[z] = IF z \in Ports THEN NoRow ELSE cache[z]
      BY <1>7, <2>3 DEF DeletePorts
    <3>2. CASE n = "net"
      BY <1>1, <1>2, <2>1, <3>1, <3>2 DEF Live, Known, Current, Later
    <3>3. CASE n = "netixlan"
      BY <1>1, <1>2, <1>3, <2>1, <3>1, <3>3 DEF Later
    <3>4. QED
      BY <3>2, <3>3
  <2>4. QED
    BY <2>2, <2>3
<1>8. CASE DeleteNetworks
  <2>1. UNCHANGED remote
    BY <1>8 DEF DeleteNetworks, FlushStep
  <2>2. CASE hidden.net # None \/ \E p \in Ports : Cached(p)
    <3>1. \A z \in Objects : cache'[z] = cache[z]
      BY <1>8, <2>2 DEF DeleteNetworks
    <3>2. UNCHANGED skipped
      BY <1>8, <2>2 DEF DeleteNetworks
    <3>3. QED
      BY <1>1, <1>2, <2>1, <3>1, <3>2 DEF Live, Known, Current, Later
  <2>3. CASE ~(hidden.net # None \/ \E p \in Ports : Cached(p))
    <3>1. \A z \in Objects : cache'[z] = NoRow
      BY <1>8, <2>3 DEF DeleteNetworks
    <3>2. QED
      BY <1>1, <1>2, <1>3, <2>1, <3>1 DEF Later
  <2>4. QED
    BY <2>2, <2>3
<1>9. ASSUME NEW r \in Runs, Run(r), ~Process(r)
      PROVE  UNCHANGED <<remote, cache, skipped>>
  BY <1>9 DEF Run, Begin, Lookup, LookupFails, LoadConnections, LinkConnection,
              LinkExchange, LinkHiddenPeer
<1>10. CASE BeginFlush \/ UnlinkConnections \/ UnlinkExchanges \/ UnlinkHiddenPeers
  BY <1>4, <1>10 DEF BeginFlush, UnlinkConnections, UnlinkExchanges, UnlinkHiddenPeers,
                     FlushStep
<1>11. CASE User \/ UNCHANGED vars
  BY <1>4, <1>11 DEF User, EditConnection, HidePeer, vars, history
<1>12. QED
  BY <1>4, <1>5, <1>6, <1>7, <1>8, <1>9, <1>10, <1>11 DEF Next, Flush

\* An answer that is asked for when FreshInv holds leaves nothing out.
LEMMA LookupAnswers ==
    ASSUME Values, FreshInv, ~torn, NEW r \in Runs, Lookup(r), NEW x \in Objects_of(ns[r])
    PROVE  AnswerExact(r, x)'
<1> DEFINE since == get_last_synchronisation_for_model(ns[r])
<1> USE Namespaces, Blanks
<1>1. /\ answer'[r] = lookup(ns[r], since) /\ ns[r] \in {"net", "netixlan"}
      /\ x \in Objects /\ UNCHANGED <<remote, cache, skipped>>
  BY DEF Lookup, Values, RunInv, RunTypes
<1>2. \A z \in Objects : cache[z].updated \in Nat /\ remote[z].updated \in Nat
  BY PeeringDBAssumption DEF Values, CacheInv, Row, RemoteInv, Remote
<1>3. CASE answer'[r][x] # Unknown
  BY <1>1, <1>3 DEF lookup, AnswerExact
<1>4. ASSUME answer'[r][x] = Unknown, Live(x)
      PROVE  Known(x)
  <2>1. remote[x] # Unknown
    BY <1>4 DEF Live
  <2>2. ~(remote[x].updated >= since)
    BY <1>1, <1>4, <2>1 DEF lookup
  <2>3. since # 0
    BY <1>1, <1>2, <2>2
  <2>4. PICK z \in Objects_of(ns[r]) : cache[z].updated = since
    BY <1>1, <2>3, LatestRow DEF Values
  <2>5. ~Later(ns[r], x)
    BY <1>1, <1>2, <2>2, <2>4 DEF Later
  <2>6. QED
    BY <1>1, <1>4, <2>5 DEF FreshInv
<1>5. QED
  BY <1>1, <1>3, <1>4 DEF AnswerExact, Live, Known, Current

LEMMA AnswerStep ==
    ASSUME Values, ApartInv, FreshInv, AnswerInv, [Next]_vars
    PROVE  AnswerInv'
<1> USE Namespaces, Blanks
<1> SUFFICES ASSUME ~torn', NEW r \in Runs, pc'[r] = "process", NEW x \in Objects_of(ns'[r])
             PROVE  AnswerFresh(r, x)'
  BY DEF AnswerInv
<1>1. ~torn
  BY TornStays DEF Values
<1>2. ASSUME pc[r] = "process", ns'[r] = ns[r]
      PROVE  AnswerFresh(r, x) /\ x \in Objects
  BY <1>1, <1>2 DEF AnswerInv, Values, RunInv, RunTypes
<1>3. CASE UNCHANGED <<remote, cache, skipped, pc, ns, answer>>
  BY <1>2, <1>3 DEF AnswerFresh, LaterThanAnswer, Later, Live, Known, Current
<1>4. CASE PeeringDB
  <2>1. PICK changed \in SUBSET Objects : Changes(changed)
    BY <1>4, PeeringDBKeepsRemoteInv DEF Values
  <2>2. UNCHANGED <<cache, pc, ns, answer>>
    BY <2>1 DEF Changes, runVars
  <2>3. CASE x \in changed
    <3>1. now \in Nat /\ now' \in Nat /\ now <= now' /\ remote'[x].updated = now'
      BY <2>1, <2>3, PeeringDBAssumption DEF Changes, Values, RemoteInv
    <3>2. \A z \in Objects : /\ cache[z].updated \in Nat /\ cache[z].updated <= now
                             /\ answer[r][z].updated \in Nat /\ answer[r][z].updated <= now
      <4>1. \A z \in Objects : /\ cache[z].updated \in Nat /\ cache[z].updated <= now
                               /\ answer[r][z].updated \in Nat /\ AnswerOf(r, z)
        BY PeeringDBAssumption DEF Values, CacheInv, Row, RunInv, RunTypes, Remote
      <4>2. QED
        BY <3>1, <4>1 DEF AnswerOf
    <3>3. Objects_of(ns[r]) \subseteq Objects
      BY DEF Objects_of
    <3>4. LaterThanAnswer(r, x)'
      BY <2>2, <3>1, <3>2, <3>3 DEF LaterThanAnswer, Later
    <3>5. QED
      BY <3>4 DEF AnswerFresh
  <2>4. CASE x \notin changed
    <3>1. AnswerFresh(r, x) /\ x \in Objects
      BY <1>2, <2>2
    <3>2. remote'[x] = remote[x] /\ (x \in skipped <=> x \in skipped')
      BY <2>1, <2>4, <3>1 DEF Changes
    <3>3. QED
      BY <2>2, <3>1, <3>2 DEF AnswerFresh, LaterThanAnswer, Later, Live, Known, Current
  <2>5. QED
    BY <2>3, <2>4
<1>5. ASSUME NEW q \in Runs, Run(q)
      PROVE  AnswerFresh(r, x)'
  <2>1. CASE Lookup(r)
    <3>1. AnswerExact(r, x)'
      BY <1>1, <2>1, LookupAnswers DEF Lookup
    <3>2. QED
      BY <3>1 DEF AnswerExact, AnswerFresh
  <2>2. CASE ~Lookup(r)
    <3>1. pc[r] = "process" /\ Active(r)
      BY <1>5, <2>2 DEF Run, Begin, Lookup, LookupFails, Process, LoadConnections,
                        LinkConnection, LinkExchange, LinkHiddenPeer, Active, Values,
                        RunInv, RunTypes
    <3>2. ~Begin(q)
      BY <3>1 DEF Begin
    <3>3. Active(q)
      BY <1>5, <3>2 DEF Run, Lookup, LookupFails, Process, LoadConnections,
                        LinkConnection, LinkExchange, LinkHiddenPeer, Active
    <3>4. q = r
      BY <1>1, <3>1, <3>3 DEF ApartInv
    <3>5. pc'[r] # "process"
      BY <1>5, <2>2, <3>1, <3>2, <3>4
         DEF Run, LookupFails, Process, LoadConnections, LinkConnection, LinkExchange,
             LinkHiddenPeer, Values, RunInv, RunTypes
    <3>6. QED
      BY <3>5
  <2>3. QED
    BY <2>1, <2>2
<1>6. CASE Flush
  <2>1. UNCHANGED <<pc, ns>>
    BY <1>6, OthersLeaveRuns DEF runVars, Values
  <2>2. Active(r)
    BY <2>1 DEF Active
  <2>3. Flushing \/ torn'
    BY <1>6, <2>2 DEF Flush, BeginFlush, UnlinkConnections, UnlinkExchanges,
                      UnlinkHiddenPeers, DeletePorts, DeleteNetworks, FlushStep, Flushing
  <2>4. QED
    BY <1>1, <2>2, <2>3 DEF ApartInv
<1>7. CASE User \/ UNCHANGED vars
  BY <1>3, <1>7 DEF User, EditConnection, HidePeer, vars, runVars, history
<1>8. QED
  BY <1>4, <1>5, <1>6, <1>7 DEF Next

-----------------------------------------------------------------------------
(* What a run on its own achieves *)

\* A run is on its own after a step if the step is its own, and no failure.
LEMMA OnItsOwn ==
    ASSUME Values, [Next]_vars, NEW r \in Runs, alone'[r]
    PROVE  \/ UNCHANGED vars
           \/ Begin(r)
           \/ /\ alone[r]
              /\ \/ Lookup(r) \/ Process(r) \/ LoadConnections(r) \/ LinkExchange(r)
                 \/ LinkHiddenPeer(r)
                 \/ \E c \in Connections : LinkConnection(r, c)
<1>1. ~PeeringDB
  BY PeeringDBKeepsRemoteInv DEF Changes, Values
<1>2. ~Flush /\ ~User
  BY DEF Flush, BeginFlush, UnlinkConnections, UnlinkExchanges, UnlinkHiddenPeers,
         DeletePorts, DeleteNetworks, FlushStep, User, EditConnection, HidePeer, Disturb
<1>3. ASSUME NEW q \in Runs, Run(q)
      PROVE  q = r /\ (Begin(r) \/ alone[r]) /\ ~LookupFails(q)
  BY <1>3 DEF Run, Begin, Lookup, LookupFails, Process, LoadConnections, LinkConnection,
              LinkExchange, LinkHiddenPeer, OnlyBy, Disturb
<1>4. QED
  BY <1>1, <1>2, <1>3 DEF Next, Run

LEMMA AloneInvStep ==
    ASSUME Values, ApartInv, FreshInv, AloneInv, [Next]_vars
    PROVE  AloneInv'
<1> USE Namespaces, Blanks DEF RunInv, RunTypes
<1> SUFFICES ASSUME ~torn', NEW r \in Runs, alone'[r]
             PROVE  /\ pc'[r] = "process" => \A x \in Objects_of(ns'[r]) : AnswerExact(r, x)'
                    /\ WroteNetworks(r)' => \A n \in Networks : Live(n)' => Known(n)'
                    /\ WrotePorts(r)' => \A p \in Ports : Live(p)' => Known(p)'
  BY DEF AloneInv
<1>1. ~torn
  BY TornStays DEF Values
<1>2. ASSUME alone[r]
      PROVE  /\ pc[r] = "process" => \A x \in Objects_of(ns[r]) : AnswerExact(r, x)
             /\ WroteNetworks(r) => \A n \in Networks : Live(n) => Known(n)
             /\ WrotePorts(r) => \A p \in Ports : Live(p) => Known(p)
  BY <1>1, <1>2 DEF AloneInv
<1>3. ASSUME alone[r], UNCHANGED <<remote, cache, skipped>>, pc'[r] # "process",
             WroteNetworks(r)' => WroteNetworks(r), WrotePorts(r)' => WrotePorts(r)
      PROVE  /\ WroteNetworks(r)' => \A n \in Networks : Live(n)' => Known(n)'
             /\ WrotePorts(r)' => \A p \in Ports : Live(p)' => Known(p)'
  BY <1>2, <1>3 DEF Live, Known, Current
<1>4. CASE UNCHANGED vars
  BY <1>2, <1>4 DEF vars, runVars, history, AnswerExact, Live, Known, Current,
                    WroteNetworks, WrotePorts
<1>5. CASE Begin(r)
  BY <1>5 DEF Begin, WroteNetworks, WrotePorts, Values
<1>6. CASE alone[r] /\ Lookup(r)
  <2>1. pc'[r] = "process" /\ ns' = ns /\ UNCHANGED <<remote, cache, skipped>>
    BY <1>6 DEF Lookup, Values
  <2>2. \A x \in Objects_of(ns'[r]) : AnswerExact(r, x)'
    BY <1>1, <1>6, <2>1, LookupAnswers
  <2>3. ~WrotePorts(r)' /\ (WroteNetworks(r)' => WroteNetworks(r))
    BY <1>6, <2>1 DEF Lookup, WrotePorts, WroteNetworks
  <2>4. QED
    BY <1>2, <1>6, <2>1, <2>2, <2>3 DEF Live, Known, Current
<1>7. CASE alone[r] /\ Process(r)
  <2>1. /\ pc[r] = "process" /\ pc'[r] = "load" /\ ns' = ns /\ UNCHANGED remote
        /\ ns[r] \in {"net", "netixlan"}
    BY <1>7 DEF Process, Values
  <2>2. Learns(r)
    BY <1>7, ProcessWrites
  <2>3. ASSUME NEW x \in Objects_of(ns[r]), Live(x)
        PROVE  Known(x)'
    <3>1. AnswerExact(r, x) /\ x \in Objects
      BY <1>2, <1>7, <2>1
    <3>2. QED
      BY <2>2, <2>3, <3>1 DEF Learns, AnswerExact
  <2>4. CASE ns[r] = "net"
    BY <2>1, <2>3, <2>4 DEF WrotePorts, Live
  <2>5. CASE ns[r] = "netixlan"
    <3>1. WroteNetworks(r)
      BY <2>1, <2>5 DEF WroteNetworks
    <3>2. ASSUME NEW n \in Networks, Live(n)
          PROVE  Known(n)'
      <4>1. answer[r][n] = Unknown
        BY <2>5 DEF Values, AnswerOf
      <4>2. QED
        BY <1>2, <1>7, <2>2, <3>1, <3>2, <4>1 DEF Learns
    <3>3. QED
      BY <2>1, <2>3, <2>5, <3>2 DEF Live
  <2>6. QED
    BY <2>1, <2>4, <2>5
<1>8. CASE alone[r] /\ LoadConnections(r)
  BY <1>3, <1>8 DEF LoadConnections, WroteNetworks, WrotePorts, Values
<1>9. ASSUME NEW c \in Connections, alone[r], LinkConnection(r, c)
      PROVE  /\ pc'[r] # "process"
             /\ WroteNetworks(r)' => \A n \in Networks : Live(n)' => Known(n)'
             /\ WrotePorts(r)' => \A p \in Ports : Live(p)' => Known(p)'
  BY <1>3, <1>9 DEF LinkConnection, WroteNetworks, WrotePorts, Values
<1>10. CASE alone[r] /\ (LinkExchange(r) \/ LinkHiddenPeer(r))
  BY <1>3, <1>10 DEF LinkExchange, LinkHiddenPeer, WroteNetworks, WrotePorts, Values
<1>11. QED
  BY <1>4, <1>5, <1>6, <1>7, <1>8, <1>9, <1>10, OnItsOwn

LEMMA LinkInvStep ==
    ASSUME Values, LinkInv, [Next]_vars
    PROVE  LinkInv'
<1> USE DEF RunInv, RunTypes
<1> SUFFICES ASSUME NEW r \in Runs, alone'[r]
             PROVE  /\ pc'[r] = "link" => \A c \in Connections :
                           /\ loaded'[r][c].address = conns'[c].address
                           /\ c \in todo'[r] \/ Linked(c)'
                    /\ pc'[r] \in {"relink", "done"} =>
                           (\A c \in Connections : Linked(c)') /\ ExchangeLinked'
                    /\ pc'[r] = "done" => HiddenPeerLinked'
  BY DEF LinkInv
<1>1. ASSUME alone[r], pc[r] = "link", NEW c \in Connections
      PROVE  loaded[r][c].address = conns[c].address /\ (c \in todo[r] \/ Linked(c))
  BY <1>1 DEF LinkInv
<1>2. CASE UNCHANGED vars
  <2>1. UNCHANGED <<cache, conns, ixp, hidden, pc, loaded, todo, alone>>
    BY <1>2 DEF vars, runVars, linkVars, history
  <2>2. \A c \in Connections : Linked(c) => Linked(c)'
    BY <2>1 DEF Linked, Matches, Cached
  <2>3. LinkedLans' = LinkedLans
    BY <2>1 DEF LinkedLans
  <2>4. (ExchangeLinked => ExchangeLinked') /\ (HiddenPeerLinked => HiddenPeerLinked')
    BY <2>1, <2>3 DEF ExchangeLinked, HiddenPeerLinked, Cached
  <2>5. QED
    BY <2>1, <2>2, <2>4 DEF LinkInv
<1>3. CASE Begin(r) \/ Lookup(r) \/ Process(r)
  BY <1>3 DEF Begin, Lookup, Process, Values
<1>4. CASE LoadConnections(r)
  <2>1. pc'[r] = "link" /\ loaded'[r] = conns /\ todo'[r] = Connections /\ UNCHANGED conns
    BY <1>4 DEF LoadConnections, linkVars, Values
  <2>2. QED
    BY <2>1
<1>5. ASSUME NEW c \in Connections, alone[r], LinkConnection(r, c)
      PROVE  /\ pc'[r] = "link" => \A d \in Connections :
                    /\ loaded'[r][d].address = conns'[d].address
                    /\ d \in todo'[r] \/ Linked(d)'
             /\ pc'[r] \notin {"relink", "done"}
  <2> DEFINE found == Matches(loaded[r][c].address)
  <2>1. pc[r] = "link" /\ UNCHANGED <<cache, loaded>>
    BY <1>5 DEF LinkConnection
  <2>2. CASE Cardinality(found) > 1
    BY <1>5, <2>2 DEF LinkConnection, Values
  <2>3. CASE ~(Cardinality(found) > 1)
    <3>1. pc'[r] = "link" /\ todo'[r] = todo[r] \ {c}
      BY <1>5, <2>3, <2>1 DEF LinkConnection, Values
    <3>2. ASSUME NEW d \in Connections \ {c}
          PROVE  conns'[d] = conns[d]
      BY <1>5 DEF LinkConnection, Values, LinksInv, ConnectionsOk
    <3>3. ASSUME NEW d \in Connections \ {c}
          PROVE  loaded'[r][d].address = conns'[d].address /\ (d \in todo'[r] \/ Linked(d)')
      BY <1>1, <1>5, <2>1, <3>1, <3>2 DEF Linked, Matches, Cached
    <3>4. loaded[r][c].address = conns[c].address
      BY <1>1, <1>5, <2>1
    <3>5. CASE Cardinality(found) = 1
      <4>1. PICK p \in found : conns' = [conns EXCEPT ![c] = link(loaded[r][c], p)]
        BY <1>5, <3>5 DEF LinkConnection
      <4>2. conns'[c] = [loaded[r][c] EXCEPT !.link = p]
        BY <4>1 DEF link, Values, LinksInv, ConnectionsOk
      <4>3. loaded[r][c] \in [address: Addresses \cup {None}, link: Ports \cup {None}]
        BY DEF Values
      <4>4. conns'[c].address = loaded[r][c].address /\ conns'[c].link = p
        BY <4>2, <4>3
      <4>5. Matches(conns[c].address)' = found
        BY <2>1, <4>4 DEF Matches, Cached
      <4>6. Linked(c)'
        BY <4>4, <4>5 DEF Linked
      <4>7. QED
        BY <2>1, <3>1, <3>3, <4>4, <4>6
    <3>6. CASE Cardinality(found) # 1
      <4>1. UNCHANGED conns
        BY <1>5, <3>6 DEF LinkConnection
      <4>2. Matches(conns[c].address)' = found
        BY <2>1, <3>4, <4>1 DEF Matches, Cached
      <4>3. \A p : found # {p}
        BY <3>6, FS_Singleton
      <4>4. Linked(c)'
        BY <4>2, <4>3 DEF Linked
      <4>5. QED
        BY <2>1, <3>1, <3>3, <3>4, <4>1, <4>4
    <3>7. QED
      BY <3>5, <3>6
  <2>4. QED
    BY <2>2, <2>3
<1>6. CASE alone[r] /\ LinkExchange(r)
  <2>1. /\ pc[r] = "link" /\ todo[r] = {} /\ UNCHANGED <<cache, conns>>
        /\ pc'[r] = "relink"
    BY <1>6 DEF LinkExchange, Values
  <2>2. \A c \in Connections : Linked(c)'
    BY <1>1, <1>6, <2>1 DEF Linked, Matches, Cached
  <2>3. ASSUME NEW lan \in LinkedLans, LinkedLans = {lan}
        PROVE  ixp' = lan
    <3>1. Cardinality(LinkedLans) = 1
      BY <2>3, FS_Singleton
    <3>2. QED
      BY <1>6, <2>3, <3>1 DEF LinkExchange
  <2>4. LinkedLans' = LinkedLans
    BY <2>1 DEF LinkedLans
  <2>5. ExchangeLinked'
    BY <2>3, <2>4 DEF ExchangeLinked
  <2>6. QED
    BY <2>1, <2>2, <2>5
<1>7. CASE alone[r] /\ LinkHiddenPeer(r)
  <2>1. /\ pc[r] = "relink" /\ pc'[r] # "link" /\ UNCHANGED <<cache, conns, ixp>>
    BY <1>7 DEF LinkHiddenPeer, Values
  <2>2. (\A c \in Connections : Linked(c)) /\ ExchangeLinked
    BY <1>7, <2>1 DEF LinkInv
  <2>3. LinkedLans' = LinkedLans
    BY <2>1 DEF LinkedLans
  <2>4. (\A c \in Connections : Linked(c)') /\ ExchangeLinked'
    BY <2>1, <2>2, <2>3 DEF Linked, Matches, Cached, ExchangeLinked
  <2>5. HiddenPeerLinked'
    BY <1>7, <2>1 DEF LinkHiddenPeer, relink, HiddenPeerLinked, Values, LinksInv, HiddenOk,
                      Cached
  <2>6. QED
    BY <2>1, <2>4, <2>5
<1>8. QED
  BY <1>2, <1>3, <1>4, <1>5, <1>6, <1>7, OnItsOwn

-----------------------------------------------------------------------------
(* The specification *)

LEMMA InitIInv == Init => IInv
<1> SUFFICES ASSUME Init PROVE IInv
  OBVIOUS
<1> USE Namespaces, Blanks DEF Init
<1>1. RemoteInv
  BY DEF RemoteInv, RemoteOf, Live
<1>2. RunInv
  BY DEF RunInv, RunTypes, AnswerOf
<1>3. CacheInv
  BY DEF CacheInv, Cached
<1>4. LinksInv
  BY DEF LinksInv, ConnectionsOk, HiddenOk
<1>5. ApartInv /\ FreshInv /\ AnswerInv
  BY DEF ApartInv, Active, Flushing, FreshInv, Live, AnswerInv
<1>6. AloneInv /\ LinkInv
  BY DEF AloneInv, LinkInv
<1>7. QED
  BY <1>1, <1>2, <1>3, <1>4, <1>5, <1>6 DEF IInv, Values

\* The inductive invariant of the synchronisation with PeeringDB.
THEOREM PeeringDBInvariant == Spec => []IInv
<1>1. IInv /\ [Next]_vars => IInv'
  BY ValuesStep, ApartStep, FreshStep, AnswerStep, AloneInvStep, LinkInvStep DEF IInv
<1>2. QED
  BY <1>1, InitIInv, PTL DEF Spec

\* Rows, links and hidden peers point to rows that exist, after whatever an update, a
\* cascade and a flush have deleted.
THEOREM PeeringDBTypes == Spec => []TypeOK
<1>1. IInv => TypeOK
  BY DEF IInv, Values, RemoteInv, RunInv, RunTypes, CacheInv, LinksInv, ConnectionsOk,
         HiddenOk, TypeOK
<1>2. QED
  BY <1>1, PeeringDBInvariant, PTL

\* An update that ran on its own has fetched every change, of any number of objects,
\* except what was refused and what overlapping updates and flushes have torn.
THEOREM UpdatesLoseNoChange == Spec => []CacheIsCurrent
<1>1. IInv => CacheIsCurrent
  <2> SUFFICES ASSUME IInv, NEW r \in Runs, pc[r] = "done", alone[r], ~torn,
                      NEW x \in Objects, Live(x)
               PROVE  x \in skipped \/ Current(x)
    BY DEF CacheIsCurrent
  <2>1. WroteNetworks(r) /\ WrotePorts(r)
    BY DEF IInv, Values, RunInv, RunTypes, WroteNetworks, WrotePorts
  <2>2. QED
    BY <2>1 DEF IInv, AloneInv, Known, Objects
<1>2. QED
  BY <1>1, PeeringDBInvariant, PTL

\* An update that ran on its own has made every link again that it can.
THEOREM UpdatesLinkAgain == Spec => []LinksAreRestored
<1>1. IInv => LinksAreRestored
  BY DEF IInv, LinkInv, Linked, ExchangeLinked, HiddenPeerLinked, LinksAreRestored
<1>2. QED
  BY <1>1, PeeringDBInvariant, PTL

=============================================================================
