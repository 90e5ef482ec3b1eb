-------------------------- MODULE ProxiedValidator --------------------------
(***************************************************************************)
(* The engine of a validator behind proxies.  One thread owns the set of   *)
(* the proxies and the assignment of the remote validators to them; it is  *)
(* told over channels of commands, of connections that came and went, of   *)
(* epochs, and of questions that the handlers of connections wait to be    *)
(* answered.  Connections are made and lost by the peer-to-peer layer; a   *)
(* proxy connects to the validators it was last told of.                   *)
(*                                                                         *)
(* The node validates, so that its messages are sent, and the channels of  *)
(* ten connections or disconnections do not fill.  The version that is     *)
(* announced after a reassignment and the enode certificates are left out. *)
(***************************************************************************)
EXTENDS Integers, FiniteSets, Sequences, Functions

CONSTANTS
    Proxies,
    Validators,        \* the remote validators
    ProxyConfigs,      \* the proxies that the node is configured with
    nil,
    Hashes,            \* what the hash may be: the proxy of a validator, by the ring
    ConnSets,          \* the sets of validators to be connected to that there may be
    MaxConnections,    \* bounds: connections of proxies,
    MaxChanges         \* and commands, epochs and restarts of the engine

ASSUME ConstantsAssumption ==
    /\ IsFiniteSet(Proxies) /\ ProxyConfigs \subseteq Proxies
    /\ nil \notin Proxies
    /\ ConnSets \subseteq SUBSET Validators
    /\ \A h \in Hashes :
        /\ DOMAIN h = (SUBSET Proxies) \ {{}}
        /\ \A members \in DOMAIN h : h[members] \in [Validators -> members]

VARIABLES
    engine,            \* "stopped", "starting", "running" or "stopping"
    proxiesByID,       \* the proxies the thread knows
    peer,              \* by proxy: the connection it is peered by, or 0
    disconnected,      \* the proxies unpeered for minProxyDisconnectTime
    ring,              \* the members of the consistent hash
    valAssignments,    \* the two maps
    removing,          \* the proxy whose disconnection the thread waits for
    addProxyPeer, removeProxyPeer,    \* channels: <<proxy, connection>>
    newBlockchainEpoch,               \* channel: an epoch waits to be taken
    asking,            \* the proxies whose handlers wait for an answer
    static,            \* the peers to keep a connection to
    connection,        \* by proxy: the number of its connection, or 0
    connections,       \* how many there were
    connSet,           \* history: the set of validators that was last retrieved,
    confirmed,         \* and whether it was the one retrieved before, too
    valEnodes,         \* by proxy: the validators it connects to
    hash,              \* the hash
    changes            \* how many commands, epochs and restarts there were

proxySet == <<proxiesByID, peer, disconnected, ring, valAssignments>>
peerEvents == <<addProxyPeer, removeProxyPeer>>
network == <<static, connection, connections>>
retrieval == <<connSet, confirmed>>
vars == <<engine, proxySet, removing, peerEvents, newBlockchainEpoch, asking, network,
          retrieval, valEnodes, hash, changes>>

-----------------------------------------------------------------------------
(***************************************************************************)
(* The assignment of validators to proxies, and its reverse.               *)
(***************************************************************************)
newValAssignments == [valToProxy |-> [v \in {} |-> nil], proxyToVals |-> [p \in {} |-> {}]]

getValidators(va) == DOMAIN va.valToProxy

addValidators(va, vals) ==
    [va EXCEPT !.valToProxy =
        [v \in getValidators(va) \cup vals |-> IF v \in vals THEN nil ELSE @[v]]]

\* Validators are assigned and unassigned one after the other; the order makes
\* no difference, so that here it is done for a set of them at once.

\* Each of vals is assigned to the proxy that proxyID gives it.
assignValidator(va, vals, proxyID) ==
    LET assigned(p) == {v \in vals : proxyID[v] = p}
        had(p) == IF p \in DOMAIN va.proxyToVals THEN va.proxyToVals[p] ELSE {}
    IN  [valToProxy |-> [v \in getValidators(va) \cup vals |->
                            IF v \in vals THEN proxyID[v] ELSE va.valToProxy[v]],
         proxyToVals |-> [p \in DOMAIN va.proxyToVals \cup {proxyID[v] : v \in vals} |->
                            had(p) \cup assigned(p)]]

\* Mutant: the last validator of a proxy leaves an entry behind.
unassignValidator_KeepsEntry(va, vals) ==
    LET left(p) == va.proxyToVals[p] \ {v \in vals : va.valToProxy[v] = p}
    IN  [valToProxy |-> [v \in getValidators(va) |-> IF v \in vals THEN nil ELSE va.valToProxy[v]],
         proxyToVals |-> [p \in DOMAIN va.proxyToVals |-> left(p)]]

\* Each of vals is taken from its proxy, if it has one; the entry of a proxy
\* that has no validator left goes.
unassignValidator(va, vals) ==
    LET left(p) == va.proxyToVals[p] \ {v \in vals : va.valToProxy[v] = p}
    IN  [valToProxy |-> [v \in getValidators(va) |-> IF v \in vals THEN nil ELSE va.valToProxy[v]],
         proxyToVals |-> [p \in {p \in DOMAIN va.proxyToVals : left(p) # {}} |-> left(p)]]

removeValidators(va, vals) ==
    [unassignValidator(va, vals) EXCEPT !.valToProxy = Restrict(@, DOMAIN @ \ vals)]

\* The hash ring.
LocateKey(members, v) == IF members = {} THEN nil ELSE hash[members][v]

reassignValidators(members, va) ==
    LET newProxyID == [v \in getValidators(va) |-> LocateKey(members, v)]
        moved == {v \in getValidators(va) : va.valToProxy[v] # newProxyID[v]}
    IN  assignValidator(unassignValidator(va, moved),
                        {v \in moved : newProxyID[v] # nil}, newProxyID)

anyAssignmentsChanged(members, va) ==
    \E v \in getValidators(va) :
        LocateKey(members, v) = nil \/ va.valToProxy[v] # LocateKey(members, v)

-----------------------------------------------------------------------------
(***************************************************************************)
(* What the thread does with it.                                           *)
(***************************************************************************)

\* A reassignment, and whether it changed anything.
reassigned(members, va) ==
    [va |-> reassignValidators(members, va), changed |-> anyAssignmentsChanged(members, va)]

\* getValidatorAssignments, of one proxy: a validator is left out while the
\* proxy it is assigned to has no peer.
getValidatorAssignments(p, peers, va) ==
    {v \in getValidators(va) :
        /\ p \in DOMAIN va.proxyToVals /\ v \in va.proxyToVals[p]
        /\ va.valToProxy[v] # nil => peers[va.valToProxy[v]] # 0}

\* A message reaches a proxy if the connection it is peered by still stands.
reaches(p, peers) == peers[p] # 0 /\ peers[p] = connection[p]

\* Each known proxy is sent its validators: what the proxies connect to then,
\* if they connected to tables.
sendValEnodeShareMsgs(tables, known, peers, va) ==
    [p \in Proxies |->
        IF p \in known /\ reaches(p, peers)
        THEN getValidatorAssignments(p, peers, va) ELSE tables[p]]

\* The thread has taken the outcome r of a reassignment, and tells the proxies
\* if it changed an assignment.
takes(r, tables, known, peers) ==
    /\ valAssignments' = r.va
    /\ valEnodes' = IF r.changed THEN sendValEnodeShareMsgs(tables, known, peers, r.va) ELSE tables

\* The set that the state of the current block elects, or the one that was
\* cached less than 20 blocks or a minute ago in the same epoch.  The thread may
\* get any, in whatever order.
RetrieveValidatorConnSet == ConnSets

\* Mutant: removals first, and additions only if those changed nothing.
updateValidatorAssignments_RemovalsFirst(va, vals) ==
    LET newVals == vals \ getValidators(va)
        rmVals == getValidators(va) \ vals
    IN  IF rmVals # {} THEN reassigned(ring, removeValidators(va, rmVals))
        ELSE IF newVals # {} THEN reassigned(ring, addValidators(va, newVals))
        ELSE [va |-> va, changed |-> FALSE]

\* The set was retrieved, which is vals.  New validators change an assignment,
\* so that no validator is removed by an update that brings a new one: || does
\* not evaluate the removal then.
updateValidatorAssignments(va, vals) ==
    LET newVals == vals \ getValidators(va)
        rmVals == getValidators(va) \ vals
    IN  IF newVals # {} THEN reassigned(ring, addValidators(va, newVals))
        ELSE IF rmVals # {} THEN reassigned(ring, removeValidators(va, rmVals))
        ELSE [va |-> va, changed |-> FALSE]

\* The thread is at its select.
selecting == engine \in {"starting", "running"} /\ removing = nil

\* Commands: the proxies that are not known yet are added and are to be
\* connected to.
addProxies(configs) ==
    LET new == configs \ proxiesByID
    IN  /\ proxiesByID' = proxiesByID \cup new
        /\ peer' = [p \in Proxies |-> IF p \in new THEN 0 ELSE peer[p]]
        /\ disconnected' = disconnected \ new
        /\ static' = static \cup new
        /\ UNCHANGED <<ring, valAssignments, removing, peerEvents, newBlockchainEpoch, asking,
                       connection, connections, retrieval, valEnodes, hash>>

AddProxy(p) ==
    /\ selecting /\ engine = "running"
    /\ changes < MaxChanges
    /\ changes' = changes + 1
    /\ addProxies({p})
    /\ UNCHANGED engine

\* Mutant: the hash still knows the proxy.
leftBy_StaysMember(p) == ring

leftBy(p) == ring \ {p}

\* Mutant: the peer is not asked to disconnect.
removeStatic_KeepsPeer(p) == static

\* A proxy is a static peer for the one purpose of being a proxy: once the purpose
\* is gone the peer has none left, and it is asked to disconnect.
removeStatic(p) == static \ {p}

\* A proxy that is removed is first told to let its validators go.  The thread
\* then waits for its connection to end.
RemoveProxy(p) ==
    /\ selecting /\ engine = "running"
    /\ changes < MaxChanges
    /\ changes' = changes + 1
    /\ p \in proxiesByID
    /\ proxiesByID' = proxiesByID \ {p}
    /\ \E members \in {leftBy(p)} :
        /\ ring' = members
        /\ takes(reassigned(members, valAssignments),
                 [valEnodes EXCEPT ![p] = IF reaches(p, peer) THEN {} ELSE @],
                 proxiesByID \ {p}, peer)
    /\ peer' = [peer EXCEPT ![p] = 0]
    /\ disconnected' = disconnected \ {p}
    /\ static' = removeStatic(p)
    /\ removing' = IF connection[p] # 0 THEN p ELSE nil
    /\ UNCHANGED <<engine, peerEvents, newBlockchainEpoch, asking,
                   connection, connections, retrieval, hash>>

RemovePeerReturns ==
    /\ removing # nil
    /\ connection[removing] = 0
    /\ removing' = nil
    /\ UNCHANGED <<engine, proxySet, peerEvents, newBlockchainEpoch, asking, network, retrieval,
                   valEnodes, hash, changes>>

\* A proxy has connected: it may be assigned validators.
setProxyPeer ==
    /\ selecting
    /\ addProxyPeer # <<>>
    /\ UNCHANGED <<engine, proxiesByID, removing, removeProxyPeer, newBlockchainEpoch, asking,
                   network, retrieval, hash, changes>>
    /\ addProxyPeer' = Tail(addProxyPeer)
    /\ LET p == Head(addProxyPeer)[1]
           c == Head(addProxyPeer)[2]
       IN  IF p \in proxiesByID
           THEN /\ peer' = [peer EXCEPT ![p] = c]
                /\ disconnected' = disconnected \ {p}
                /\ ring' = ring \cup {p}
                /\ takes(reassigned(ring \cup {p}, valAssignments), valEnodes, proxiesByID,
                         [peer EXCEPT ![p] = c])
           ELSE UNCHANGED <<peer, disconnected, ring, valAssignments, valEnodes>>

\* A proxy has disconnected: it keeps its validators for a while.
unsetProxyPeer ==
    /\ selecting
    /\ removeProxyPeer # <<>>
    /\ UNCHANGED <<engine, proxiesByID, ring, valAssignments, removing, addProxyPeer,
                   newBlockchainEpoch, asking, network, retrieval, valEnodes, hash, changes>>
    /\ removeProxyPeer' = Tail(removeProxyPeer)
    /\ LET p == Head(removeProxyPeer)[1]
       IN  IF p \in proxiesByID
           THEN peer' = [peer EXCEPT ![p] = 0] /\ disconnected' = disconnected \ {p}
           ELSE UNCHANGED <<peer, disconnected>>

\* minProxyDisconnectTime has passed.
disconnectTime(p) ==
    /\ engine \in {"starting", "running"}
    /\ p \in proxiesByID /\ peer[p] = 0 /\ p \notin disconnected
    /\ disconnected' = disconnected \cup {p}
    /\ UNCHANGED <<engine, proxiesByID, peer, ring, valAssignments, removing, peerEvents,
                   newBlockchainEpoch, asking, network, retrieval, valEnodes, hash, changes>>

\* An update on a new epoch, unless the set cannot be retrieved.
handleEpoch ==
    /\ selecting
    /\ newBlockchainEpoch
    /\ UNCHANGED <<engine, proxiesByID, peer, disconnected, ring, removing, peerEvents, asking,
                   network, hash, changes>>
    /\ newBlockchainEpoch' = FALSE
    /\ \/ \E vals \in RetrieveValidatorConnSet :
            /\ takes(updateValidatorAssignments(valAssignments, vals), valEnodes, proxiesByID, peer)
            /\ connSet' = vals
            /\ confirmed' = (vals = connSet)
       \/ UNCHANGED <<valAssignments, valEnodes, retrieval>>

\* Mutant: a proxy that is still dialled is expected back.
stale_NotDialled(p) == p \in disconnected /\ p \notin static

stale(p) == p \in disconnected

\* The proxies with validators that are disconnected for long are removed from
\* the hash, one after the other.  The loop ranges over a map that it changes:
\* it may or may not come to an entry that appears meanwhile, and does not come
\* to one that is gone.
removeProxy(u, p) ==
    IF p \in DOMAIN u.va.proxyToVals
    THEN [members |-> u.members \ {p}, va |-> reassignValidators(u.members \ {p}, u.va)]
    ELSE u

unassignDisconnectedProxies(order) ==
    LET after[i \in 0 .. Len(order)] ==
            IF i = 0 THEN [members |-> ring, va |-> valAssignments]
            ELSE removeProxy(after[i - 1], order[i])
    IN  after[Len(order)]

\* Mutant: the proxies are told only if an assignment changed.
resend_IfReassigned(va) ==
    IF va = valAssignments THEN valEnodes ELSE sendValEnodeShareMsgs(valEnodes, proxiesByID, peer, va)

resend(va) == sendValEnodeShareMsgs(valEnodes, proxiesByID, peer, va)

\* schedulerTicker: the proxies are told of their validators in any case.
schedulerTick ==
    /\ selecting
    /\ UNCHANGED <<engine, proxiesByID, peer, disconnected, removing, peerEvents,
                   newBlockchainEpoch, asking, network, retrieval, hash, changes>>
    /\ \E loop \in SUBSET {p \in proxiesByID : stale(p)} :
        /\ {p \in DOMAIN valAssignments.proxyToVals : stale(p)} \subseteq loop
        /\ \E order \in Injection(1 .. Cardinality(loop), loop) :
            \E u \in {unassignDisconnectedProxies(order)} :
                /\ ring' = u.members
                /\ valAssignments' = u.va
                /\ valEnodes' = resend(u.va)

\* A question of the handler of a connection is answered.
proxiedValThreadOp(p) ==
    /\ selecting
    /\ p \in asking
    /\ asking' = asking \ {p}
    /\ UNCHANGED <<engine, proxySet, removing, peerEvents, newBlockchainEpoch, network, retrieval,
                   valEnodes, hash, changes>>

-----------------------------------------------------------------------------
(***************************************************************************)
(* Start and Stop hold isRunningMu: who asks whether the engine runs waits *)
(* while it is starting or stopping.                                       *)
(***************************************************************************)
Start ==
    /\ engine = "stopped"
    /\ engine' = "starting"
    /\ proxiesByID' = {} /\ ring' = {} /\ disconnected' = {}
    /\ peer' = [p \in Proxies |-> 0]
    /\ confirmed' = FALSE
    /\ \/ \E vals \in RetrieveValidatorConnSet :
            /\ valAssignments' = reassignValidators({}, addValidators(newValAssignments, vals))
            /\ connSet' = vals
       \/ valAssignments' = newValAssignments /\ connSet' = {}
    /\ UNCHANGED <<removing, peerEvents, newBlockchainEpoch, asking, network, valEnodes,
                   hash, changes>>

\* The thread takes the configured proxies.
started ==
    /\ selecting /\ engine = "starting"
    /\ engine' = "running"
    /\ addProxies(ProxyConfigs)
    /\ UNCHANGED changes

\* quit is closed: who waits for the thread gives up.
Stop ==
    /\ engine = "running"
    /\ changes < MaxChanges
    /\ changes' = changes + 1
    /\ engine' = "stopping"
    /\ asking' = {}
    /\ newBlockchainEpoch' = FALSE
    /\ UNCHANGED <<proxySet, removing, peerEvents, network, retrieval, valEnodes, hash>>

stopped ==
    /\ engine = "stopping"
    /\ removing = nil
    /\ engine' = "stopped"
    /\ UNCHANGED <<proxySet, removing, peerEvents, newBlockchainEpoch, asking, network, retrieval,
                   valEnodes, hash, changes>>

-----------------------------------------------------------------------------
(***************************************************************************)
(* The peer-to-peer layer, the chain and the handlers of connections.      *)
(***************************************************************************)

\* A peer that cannot be registered is not kept.
RegisterProxyPeer(p) ==
    /\ p \in static
    /\ connection[p] = 0
    /\ connections < MaxConnections
    /\ engine = "running"
    /\ connections' = connections + 1
    /\ connection' = [connection EXCEPT ![p] = connections']
    /\ addProxyPeer' = Append(addProxyPeer, <<p, connections'>>)
    /\ UNCHANGED <<engine, proxySet, removing, removeProxyPeer, newBlockchainEpoch, asking, static,
                   retrieval, valEnodes, hash, changes>>

\* A connection ends when its handler does.
UnregisterProxyPeer(p) ==
    /\ connection[p] # 0
    /\ p \notin asking
    /\ engine \in {"running", "stopped"}
    /\ connection' = [connection EXCEPT ![p] = 0]
    /\ removeProxyPeer' = IF engine = "running" THEN Append(removeProxyPeer, <<p, connection[p]>>)
                          ELSE removeProxyPeer
    /\ UNCHANGED <<engine, proxySet, removing, addProxyPeer, newBlockchainEpoch, asking, static,
                   connections, retrieval, valEnodes, hash, changes>>

\* A DelegateSignMsg of a proxy: is it one of ours?
shouldHandleDelegateSign(p) ==
    /\ engine = "running"
    /\ connection[p] # 0
    /\ p \notin asking
    /\ asking' = asking \cup {p}
    /\ UNCHANGED <<engine, proxySet, removing, peerEvents, newBlockchainEpoch, network, retrieval,
                   valEnodes, hash, changes>>

\* The one who tells of an epoch waits until the thread has taken it.
NewEpoch ==
    /\ engine = "running"
    /\ changes < MaxChanges
    /\ ~newBlockchainEpoch
    /\ changes' = changes + 1
    /\ newBlockchainEpoch' = TRUE
    /\ UNCHANGED <<engine, proxySet, removing, peerEvents, asking, network, retrieval, valEnodes, hash>>

-----------------------------------------------------------------------------
Init ==
    /\ engine = "stopped"
    /\ proxiesByID = {} /\ ring = {} /\ disconnected = {}
    /\ peer = [p \in Proxies |-> 0]
    /\ valAssignments = newValAssignments
    /\ removing = nil
    /\ addProxyPeer = <<>> /\ removeProxyPeer = <<>>
    /\ newBlockchainEpoch = FALSE
    /\ asking = {}
    /\ static = {}
    /\ connection = [p \in Proxies |-> 0]
    /\ connections = 0
    /\ connSet = {} /\ confirmed = FALSE
    /\ valEnodes = [p \in Proxies |-> {}]
    /\ hash \in Hashes
    /\ changes = 0

Next ==
    \/ \E p \in Proxies :
        \/ AddProxy(p) \/ RemoveProxy(p)
        \/ RegisterProxyPeer(p) \/ UnregisterProxyPeer(p)
        \/ shouldHandleDelegateSign(p) \/ proxiedValThreadOp(p)
        \/ disconnectTime(p)
    \/ NewEpoch
    \/ setProxyPeer \/ unsetProxyPeer \/ handleEpoch \/ schedulerTick \/ RemovePeerReturns
    \/ Start \/ started \/ Stop \/ stopped

Spec == Init /\ [][Next]_vars

\* What the thread has to do, time passing, and a peer that was asked to
\* disconnect: each is done with after a while.
Progress ==
    \/ \E p \in Proxies : disconnectTime(p) \/ (p \notin static /\ UnregisterProxyPeer(p))
    \/ RemovePeerReturns \/ stopped \/ unsetProxyPeer \/ started
    \/ handleEpoch \/ setProxyPeer

\* The thread comes to the cases of its select that are ready, and the ticker
\* is one of them.
Fairness == WF_vars(Progress) /\ WF_vars(schedulerTick)

FairSpec == Spec /\ Fairness

-----------------------------------------------------------------------------
(***************************************************************************)
(* Properties.                                                             *)
(***************************************************************************)

\* Types.  A proxy has an entry in proxyToVals only while it has a validator:
\* unassignDisconnectedProxies takes the entries for the proxies with validators.
TypeOK ==
    /\ engine \in {"stopped", "starting", "running", "stopping"}
    /\ proxiesByID \subseteq Proxies /\ disconnected \subseteq proxiesByID
    /\ ring \subseteq Proxies /\ static \subseteq Proxies /\ asking \subseteq Proxies
    /\ removing \in Proxies \cup {nil}
    /\ \A p \in Proxies :
        /\ connection[p] \in 0..connections
        /\ peer[p] \in 0..connections
        /\ valEnodes[p] \subseteq Validators
    /\ connSet \subseteq Validators /\ confirmed \in BOOLEAN
    /\ getValidators(valAssignments) \subseteq Validators
    /\ \A v \in getValidators(valAssignments) : valAssignments.valToProxy[v] \in Proxies \cup {nil}
    /\ DOMAIN valAssignments.proxyToVals \subseteq Proxies
    /\ \A p \in DOMAIN valAssignments.proxyToVals :
        valAssignments.proxyToVals[p] \in (SUBSET Validators) \ {{}}

\* The two maps are each other's reverse and agree with the hash, and a
\* validator is assigned only to a proxy that the set knows: the readers of the
\* assignments (getValidatorAssignments) dereference that proxy.  Commands,
\* connections, epochs, ticks and restarts keep it so in any order.
AssignmentsConsistent ==
    LET va == valAssignments
    IN  /\ \A v \in getValidators(va), p \in Proxies :
            va.valToProxy[v] = p <=> p \in DOMAIN va.proxyToVals /\ v \in va.proxyToVals[p]
        /\ \A v \in getValidators(va) :
            /\ va.valToProxy[v] = LocateKey(ring, v)
            /\ va.valToProxy[v] # nil => va.valToProxy[v] \in proxiesByID

\* While the thread runs, every validator of the set that it retrieved last takes
\* part in the assignment, whatever sets it retrieved before, and one that has
\* left takes part no longer once the same set was retrieved again: the removals
\* that updateValidatorAssignments skips beside additions are made up for.  An
\* update whose retrieval fails changes nothing.
ConnSetAssigned ==
    engine \in {"starting", "running"}
        => /\ connSet \subseteq getValidators(valAssignments)
           /\ confirmed => getValidators(valAssignments) = connSet

\* The thread runs for good, and waits for no disconnection.
RunsForGood == <>[](engine = "running" /\ removing = nil)

\* If in the end some proxy always has a peer, every validator ends up with a
\* proxy that has one: the assignments of a proxy that is disconnected for long
\* move on (unassignDisconnectedProxies), in whatever order it is told that
\* proxies connect and disconnect.
ServedInTheEnd ==
    RunsForGood /\ <>[](\E p \in proxiesByID : peer[p] # 0)
        => <>[](\A v \in getValidators(valAssignments) :
                    /\ valAssignments.valToProxy[v] # nil
                    /\ peer[valAssignments.valToProxy[v]] # 0)

\* A proxy that stays connected ends up with the validators that the thread
\* assigns to it, though a message to it is lost when its connection breaks and
\* its assignment may change while it is away: the scheduler sends them again.
TablesSettle ==
    RunsForGood
        => <>[](\A p \in proxiesByID :
                    reaches(p, peer) => valEnodes[p] = getValidatorAssignments(p, peer, valAssignments))

\* The removal of a proxy ends, unless the handler of its connection is waiting
\* for the thread, or the engine is being stopped and the handler cannot ask
\* whether it runs: RemovePeer waits for that handler, with the thread.
RemovalEnds ==
    (removing # nil) ~> (removing = nil \/ removing \in asking \/ engine = "stopping")

=============================================================================
