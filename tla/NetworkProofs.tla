---------------------------- MODULE NetworkProofs ----------------------------
(***************************************************************************)
(* Proofs about Network, for any names, addresses, ports, threads and      *)
(* sockets.                                                                *)
(*                                                                         *)
(* The lookups and routes form one invariant, DnsInv, which every step of  *)
(* the bridge keeps because it takes one of the four steps of DnsRoutes or *)
(* leaves dnsVars alone.  The sockets and descriptors form another.        *)
(***************************************************************************)
EXTENDS Network, FiniteSetTheorems, TLAPS

Targets == [pc : {"resolving"}, port : Entries, generation : Nat]

LookupInv(target) ==
  /\ target.generation <= dnsMapGeneration
  /\ target.generation = dnsMapGeneration => \E name \in Names : dnsMap[name] = target.port

\* What TokensAreImmutable and RoutesFollowMap rest on: no two routes share a token,
\* a promise is a route of the table, and a lookup that is not overtaken carries a
\* port of the current map.
DnsInv ==
  /\ DnsTypeOK
  /\ lookup \in [Callers -> Targets \cup {Idle}]
  /\ \A r, q \in dnsRoutes : r.token = q.token => r = q
  /\ RoutesFollowMap
  /\ promised \subseteq dnsRoutes
  /\ \A c \in Callers : lookup[c] # Idle => LookupInv(lookup[c])

Forgets ==
  invalidateDnsRoutes /\ UNCHANGED <<dnsMap, dnsRouteSequence, lookup>>

DnsNext ==
  \/ my_configureDnsMap \/ Forgets
  \/ \E c \in Callers, name \in Names : getDnsLookupTarget(c, name)
  \/ \E c \in Callers, value \in Values : LookupAnswers(c, value)
-----------------------------------------------------------------------------
(* The invariant of the lookups and routes.                                *)

LEMMA DnsInitial == DnsInit => DnsInv
<1> SUFFICES ASSUME DnsInit PROVE DnsInv
  OBVIOUS
<1>1. IsFiniteSet(dnsRoutes)
  BY FS_EmptySet DEF DnsInit
<1>2. SeqRange \in Nat \ {0}
  BY DnsAssumption
<1> QED
  BY <1>1, <1>2 DEF DnsInit, DnsInv, DnsTypeOK, RoutesFollowMap, Entries

LEMMA ConfigureKeeps == DnsInv /\ my_configureDnsMap => DnsInv'
<1> SUFFICES ASSUME DnsInv, my_configureDnsMap PROVE DnsInv'
  OBVIOUS
<1>1. /\ dnsRoutes' = {} /\ dnsMapGeneration' = dnsMapGeneration + 1 /\ promised' = {}
      /\ dnsMap' \in [Names -> Entries]
      /\ UNCHANGED <<dnsRouteSequence, lookup>>
  BY DEF my_configureDnsMap, invalidateDnsRoutes
<1>2. IsFiniteSet(dnsRoutes')
  BY <1>1, FS_EmptySet
<1>3. DnsTypeOK'
  BY <1>1, <1>2 DEF DnsInv, DnsTypeOK
<1> QED
  BY <1>1, <1>3 DEF DnsInv, DnsTypeOK, RoutesFollowMap, LookupInv, Targets

LEMMA ForgetKeeps == DnsInv /\ Forgets => DnsInv'
<1> SUFFICES ASSUME DnsInv, Forgets PROVE DnsInv'
  OBVIOUS
<1>1. /\ dnsRoutes' = {} /\ dnsMapGeneration' = dnsMapGeneration + 1 /\ promised' = {}
      /\ UNCHANGED <<dnsMap, dnsRouteSequence, lookup>>
  BY DEF Forgets, invalidateDnsRoutes
<1>2. IsFiniteSet(dnsRoutes')
  BY <1>1, FS_EmptySet
<1>3. DnsTypeOK'
  BY <1>1, <1>2 DEF DnsInv, DnsTypeOK
<1> QED
  BY <1>1, <1>3 DEF DnsInv, DnsTypeOK, RoutesFollowMap, LookupInv, Targets

LEMMA TargetKeeps ==
  ASSUME DnsInv, NEW c \in Callers, NEW name \in Names, getDnsLookupTarget(c, name)
  PROVE  DnsInv'
<1>1. /\ lookup' = [lookup EXCEPT ![c] = Target(name)]
      /\ UNCHANGED <<dnsMap, dnsMapGeneration, dnsRoutes, dnsRouteSequence, promised>>
  BY DEF getDnsLookupTarget
<1>2. Target(name) \in Targets
  BY DEF DnsInv, DnsTypeOK, Target, Targets
<1>3. Target(name).port = dnsMap[name]
  BY DEF Target
<1>4. LookupInv(Target(name))
  BY <1>2, <1>3 DEF LookupInv, Targets, Target, DnsInv, DnsTypeOK
<1> QED
  BY <1>1, <1>2, <1>4 DEF DnsInv, DnsTypeOK, RoutesFollowMap, LookupInv

\* The answer of a lookup: the caller is idle again, and the table, the promises
\* and the sequence are what createDnsMappedRoute makes of them.
LEMMA AnswerKeeps ==
  ASSUME DnsInv, NEW c \in Callers, NEW value \in Values, LookupAnswers(c, value)
  PROVE  DnsInv'
<1> DEFINE target == lookup[c]
<1>1. /\ target \in Targets /\ target # Idle
      /\ lookup' = [lookup EXCEPT ![c] = Idle]
      /\ UNCHANGED <<dnsMap, dnsMapGeneration>>
  BY DEF LookupAnswers, DnsInv, Idle, Targets
<1>2. /\ lookup' \in [Callers -> Targets \cup {Idle}]
      /\ \A d \in Callers : lookup'[d] # Idle => LookupInv(lookup[d])'
  BY <1>1 DEF DnsInv, LookupInv
<1>3. CASE UNCHANGED <<dnsRoutes, dnsRouteSequence, promised>>
  BY <1>1, <1>2, <1>3 DEF DnsInv, DnsTypeOK, RoutesFollowMap
<1>4. ASSUME NEW ip \in Ips, target.port \in Ports,
             StillCurrent(target), ReusesRoute(target, ip, value)
      PROVE  DnsInv'
  <2>1. PICK r \in dnsRoutes : r.generation = target.generation /\ r.ip = ip
                               /\ r.port = target.port /\ value = r.token
    BY <1>4 DEF ReusesRoute, SameEndpoint
  <2>2. r = [token |-> value, ip |-> ip, port |-> target.port,
             generation |-> target.generation]
    BY <2>1 DEF DnsInv, DnsTypeOK, Route
  <2>3. promised' \subseteq dnsRoutes
    BY <1>4, <2>2 DEF ReusesRoute, Promises, DnsInv
  <2>4. UNCHANGED <<dnsRoutes, dnsRouteSequence>>
    BY <1>4 DEF ReusesRoute
  <2>5. DnsTypeOK'
    BY <1>1, <2>3, <2>4 DEF DnsInv, DnsTypeOK
  <2> QED
    BY <1>1, <1>2, <2>3, <2>4, <2>5 DEF DnsInv, RoutesFollowMap
<1>5. ASSUME NEW ip \in Ips, target.port \in Ports,
             StillCurrent(target), MakesRoute(target, ip, value)
      PROVE  DnsInv'
  <2> DEFINE new == [token |-> value, ip |-> ip, port |-> target.port,
                     generation |-> target.generation]
  <2>1. PICK k \in 1..SeqRange : /\ Usable(k) /\ value = Token(k)
                                 /\ dnsRouteSequence' = Seq(k)
    BY <1>5 DEF MakesRoute, FirstFree
  <2>2. dnsRoutes' = dnsRoutes \cup {new} /\ promised' = promised \cup {new}
    BY <1>5 DEF MakesRoute, Promises
  <2>3. SeqRange \in Nat \ {0} /\ dnsRouteSequence + k \in Int /\ Prefix \in Nat
    BY DnsAssumption DEF DnsInv, DnsTypeOK
  <2>4. Seq(k) \in 0..(SeqRange - 1)
    <3>1. \A i \in Int, n \in Nat \ {0} : i % n \in 0..(n - 1)
      BY Z3
    <3> QED
      BY <2>3, <3>1 DEF Seq
  <2>5. Seq(k) \in 0..(SeqRange - 2)
    BY <2>1, <2>3, <2>4 DEF Usable
  <2>6. value \in Tokens
    BY <2>1, <2>5 DEF Token, Tokens
  <2>7. \A r \in dnsRoutes : r.token # value
    BY <2>1 DEF Usable, InUse
  <2>8. target.generation = dnsMapGeneration /\ \E name \in Names : dnsMap[name] = target.port
    BY <1>1, <1>5 DEF StillCurrent, DnsInv, LookupInv
  <2>9. new \in Route
    BY <1>5, <2>6, <2>8 DEF Route, DnsInv, DnsTypeOK
  <2>10. IsFiniteSet(dnsRoutes')
    BY <2>2, FS_AddElement DEF DnsInv, DnsTypeOK
  <2>11. DnsTypeOK'
    BY <1>1, <2>1, <2>2, <2>4, <2>9, <2>10 DEF DnsInv, DnsTypeOK
  <2>12. \A r, q \in dnsRoutes' : r.token = q.token => r = q
    BY <2>2, <2>7 DEF DnsInv
  <2>13. RoutesFollowMap'
    BY <1>1, <2>2, <2>8 DEF DnsInv, RoutesFollowMap
  <2> QED
    BY <1>2, <2>2, <2>11, <2>12, <2>13 DEF DnsInv
<1>6. \/ UNCHANGED <<dnsRoutes, dnsRouteSequence, promised>>
      \/ \E ip \in Ips : /\ target.port \in Ports /\ StillCurrent(target)
                         /\ ReusesRoute(target, ip, value) \/ MakesRoute(target, ip, value)
  BY DEF LookupAnswers, createDnsMappedRoute
<1> QED
  BY <1>3, <1>4, <1>5, <1>6

LEMMA DnsInductive == DnsInv /\ [DnsNext]_dnsVars => DnsInv'
<1> SUFFICES ASSUME DnsInv, [DnsNext]_dnsVars PROVE DnsInv'
  OBVIOUS
<1>1. CASE UNCHANGED dnsVars
  BY <1>1 DEF dnsVars, DnsInv, DnsTypeOK, RoutesFollowMap, LookupInv
<1> QED
  BY <1>1, ConfigureKeeps, ForgetKeeps, TargetKeeps, AnswerKeeps DEF DnsNext

\* Every step of the bridge is one of DnsRoutes or leaves it alone.
LEMMA BridgeStep == [Next]_vars => [DnsNext]_dnsVars
<1> SUFFICES ASSUME [Next]_vars PROVE [DnsNext]_dnsVars
  OBVIOUS
<1> USE NetworkAssumption
<1>1. CASE UNCHANGED vars
  BY <1>1 DEF vars
<1>2. ASSUME NEW mode \in {"cmnet", "cmwap"}, my_initNetwork(mode) PROVE UNCHANGED dnsVars
  BY <1>2 DEF my_initNetwork
<1>3. CASE my_socket
  BY <1>3 DEF my_socket
<1>4. CASE my_closeNetwork
  BY <1>4 DEF my_closeNetwork, DnsNext, Forgets
<1>5. CASE Configures
  BY <1>5 DEF Configures, DnsNext
<1>6. ASSUME NEW name \in Names, GuestLooksUp(name) PROVE DnsNext
  BY <1>6 DEF GuestLooksUp, DnsNext
<1>7. ASSUME NEW c \in Callers, LookupReturns(c) PROVE DnsNext
  BY <1>7 DEF LookupReturns, DnsNext
<1>8. ASSUME NEW c \in Callers, NEW name \in Names, ThreadLooksUp(c, name) PROVE DnsNext
  BY <1>8 DEF ThreadLooksUp, DnsNext
<1>9. ASSUME NEW id \in Ids, GuestCalls(id) PROVE [DnsNext]_dnsVars
  <2>1. CASE my_closeSocket(id)
    BY <2>1 DEF my_closeSocket
  <2>2. ASSUME NEW ip \in Known, NEW port \in Ports, my_connect(id, ip, port)
        PROVE  UNCHANGED dnsVars
    BY <2>2 DEF my_connect
  <2>3. CASE SendsPlainly(id)
    BY <2>3 DEF SendsPlainly
  <2>4. CASE SendLooksUp(id)
    BY <2>4 DEF SendLooksUp, DnsNext
  <2>5. CASE SendReturns(id)
    BY <2>5 DEF SendReturns, SendConnects, DnsNext
  <2>6. CASE RecvSeesClose(id)
    BY <2>6 DEF RecvSeesClose
  <2> QED
    BY <1>9, <2>1, <2>2, <2>3, <2>4, <2>5, <2>6 DEF GuestCalls
<1>10. ASSUME NEW id \in Ids, Connector(id) PROVE UNCHANGED dnsVars
  BY <1>10 DEF Connector, ConnectorWritesReal, ConnectorWritesState
<1> QED
  BY <1>1, <1>2, <1>3, <1>4, <1>5, <1>6, <1>7, <1>8, <1>9, <1>10 DEF Next

LEMMA DnsAlways == Spec => []DnsInv
<1>1. Init => DnsInv
  BY DnsInitial DEF Init
<1> QED
  BY <1>1, DnsInductive, BridgeStep, PTL DEF Spec

LEMMA TokensMatchOneRoute == DnsInv => TokensAreImmutable
<1> SUFFICES ASSUME DnsInv, NEW p \in promised, NEW port \in Ports,
                    p.generation = dnsMapGeneration
             PROVE  applyDnsMappedRoute(p.token, port) = Endpoint(p.ip, p.port)
  BY DEF TokensAreImmutable
<1>1. p \in dnsRoutes
  BY DEF DnsInv
<1>2. Matches(p.token) = {p}
  BY <1>1 DEF Matches, DnsInv
<1> QED
  BY <1>2 DEF applyDnsMappedRoute

\* A token handed to the guest stands for the endpoint it was made for as long as the
\* map is the one it was made under, however the table and the sequence fill up and
\* whichever threads look names up meanwhile (createDnsMappedRoute).
THEOREM TokensKeepTheirEndpoint == Spec => []TokensAreImmutable
  BY DnsAlways, TokensMatchOneRoute, PTL

\* No route is left over from an old map and none is made for one, also by a lookup
\* that began before the map was changed.
THEOREM RoutesFollowTheMap == Spec => []RoutesFollowMap
<1>1. DnsInv => RoutesFollowMap
  BY DEF DnsInv
<1> QED
  BY <1>1, DnsAlways, PTL

-----------------------------------------------------------------------------
(* The sockets and their descriptors.                                      *)

SocketTypes ==
  /\ isCMWAP \in BOOLEAN
  /\ sockets \in [Ids -> Socket]
  /\ openFds \subseteq Fds
  /\ connector \in [Ids -> [pc : {"none", "connect", "state"}, result : States,
                           heir : 0..(MaxSockets + 1)]]
  /\ sending \in {0} \cup Ids

\* A socket that is virtual or not open has no descriptor, which close and a send
\* that comes back rely on.
SocketInv ==
  /\ SocketTypes
  /\ DescriptorsOwnedOnce
  /\ \A id \in Ids : ~Open(id) \/ sockets[id].isPayVirtual => sockets[id].s = NoFd

ConnectorTypes == [pc : {"none", "connect", "state"}, result : States, heir : 0..(MaxSockets + 1)]

LEMMA Numbers ==
  /\ MaxSockets \in Nat /\ Nowhere \notin Ids /\ NoFd \notin Fds
  BY NetworkAssumption DEF Ids, Nowhere, NoFd

LEMMA StateValues == Waiting \in States /\ Success \in States /\ Failure \in States
  BY DEF States

LEMMA SocketsInitial == Init => SocketInv
<1> SUFFICES ASSUME Init PROVE SocketInv
  OBVIOUS
<1>1. New \in Socket /\ NoConnector \in ConnectorTypes /\ New.use = "new" /\ New.s = NoFd
  BY Numbers, StateValues DEF New, Socket, NoConnector, ConnectorTypes
<1>2. SocketTypes
  BY <1>1 DEF Init, SocketTypes, ConnectorTypes
<1> QED
  BY <1>1, <1>2 DEF Init, SocketInv, DescriptorsOwnedOnce, Owns, Open

\* What the descriptors depend on.
SameOwner(id) ==
  /\ sockets'[id].use = sockets[id].use /\ sockets'[id].s = sockets[id].s
  /\ sockets'[id].isPayVirtual = sockets[id].isPayVirtual

LEMMA OwnersKept ==
  ASSUME SocketInv, SocketTypes', \A id \in Ids : SameOwner(id), UNCHANGED openFds
  PROVE  SocketInv'
  BY DEF SocketInv, DescriptorsOwnedOnce, Owns, Open, SameOwner

LEMMA OwnerMade ==
  ASSUME SocketInv, my_socket
  PROVE  SocketInv'
<1>1. PICK id \in Ids, fd \in Fds \ openFds :
        /\ sockets[id].use = "new"
        /\ sockets' = [sockets EXCEPT ![id] = [New EXCEPT !.use = "open", !.s = fd,
                                                         !.cmwapMode = isCMWAP]]
        /\ openFds' = openFds \cup {fd}
  BY DEF my_socket, LowestFree, Sets
<1>2. UNCHANGED <<isCMWAP, connector, sending>>
  BY DEF my_socket
<1> DEFINE made == sockets'[id]
<1>3. /\ made.use = "open" /\ made.s = fd /\ ~made.isPayVirtual /\ made \in Socket
      /\ \A j \in Ids \ {id} : sockets'[j] = sockets[j]
  BY <1>1, StateValues DEF New, Socket, SocketInv, SocketTypes
<1>4. SocketTypes'
  BY <1>1, <1>2, <1>3 DEF SocketInv, SocketTypes
<1>5. fd # NoFd /\ \A j \in Ids : Owns(j) => sockets[j].s # fd
  BY <1>1, Numbers DEF SocketInv, DescriptorsOwnedOnce
<1>6. ~Owns(id)
  BY <1>1 DEF Owns, Open
<1>7. \A j \in Ids : Owns(j)' <=> j = id \/ Owns(j)
  BY <1>3, <1>5 DEF Owns, Open
<1>8. DescriptorsOwnedOnce'
  BY <1>1, <1>3, <1>5, <1>6, <1>7 DEF SocketInv, DescriptorsOwnedOnce, Owns, Open
<1> QED
  BY <1>3, <1>4, <1>8 DEF SocketInv, Open

LEMMA MadeBound == SocketInv => Cardinality(Made) \in 0..MaxSockets
<1>1. IsFiniteSet(1..MaxSockets) /\ Cardinality(1..MaxSockets) = MaxSockets
  BY FS_Interval, Numbers
<1>2. Made \subseteq 1..MaxSockets
  BY DEF Made, Ids
<1>3. Cardinality(Made) <= MaxSockets /\ IsFiniteSet(Made)
  BY <1>1, <1>2, FS_Subset
<1>4. Cardinality(Made) \in Nat
  BY <1>3, FS_CardinalityType
<1> QED
  BY <1>3, <1>4, Numbers

LEMMA OwnersClosed ==
  ASSUME SocketInv, NEW ids \in SUBSET Ids, \A id \in ids : Open(id),
         CloseSockets(ids), UNCHANGED <<isCMWAP, sending>>
  PROVE  SocketInv'
<1>1. /\ sockets' = [id \in Ids |-> IF id \in ids THEN [New EXCEPT !.use = "closed"]
                                                  ELSE sockets[id]]
      /\ openFds' = openFds \ Closes(ids)
  BY DEF CloseSockets
<1>2. [New EXCEPT !.use = "closed"] \in Socket
  BY StateValues DEF New, Socket
<1>3. connector' \in [Ids -> ConnectorTypes]
  <2>1. Cardinality(Made) + 1 \in 0..(MaxSockets + 1)
    BY MadeBound, Numbers
  <2>2. \A id \in Ids : [connector[id] EXCEPT !.heir = Cardinality(Made) + 1] \in ConnectorTypes
    BY <2>1 DEF SocketInv, SocketTypes, ConnectorTypes
  <2> QED
    BY <2>2 DEF CloseSockets, SocketInv, SocketTypes, ConnectorTypes
<1>4. SocketTypes'
  BY <1>1, <1>2, <1>3 DEF SocketInv, SocketTypes, ConnectorTypes
<1>5. \A id \in Ids : Owns(id)' <=> Owns(id) /\ id \notin ids
  BY <1>1 DEF Owns, Open, New
<1>6. \A id \in Ids : Open(id)' <=> Open(id) /\ id \notin ids
  BY <1>1 DEF Open, New
<1>7. \A id \in Ids : id \notin ids => sockets'[id] = sockets[id]
  BY <1>1
<1>8. Closes(ids) \cap openFds = { sockets[id].s : id \in { i \in ids : Owns(i) } }
  BY DEF Closes, SocketInv, DescriptorsOwnedOnce, Owns
<1>9. openFds' = { sockets'[id].s : id \in { i \in Ids : Owns(i)' } }
  BY <1>1, <1>5, <1>7, <1>8 DEF SocketInv, DescriptorsOwnedOnce
<1>10. DescriptorsOwnedOnce'
  BY <1>5, <1>6, <1>7, <1>9 DEF SocketInv, DescriptorsOwnedOnce
<1>11. \A id \in ids : sockets'[id].s = NoFd
  BY <1>1 DEF New
<1> QED
  BY <1>4, <1>6, <1>7, <1>10, <1>11 DEF SocketInv

\* A socket turns virtual and its descriptor is given back.
LEMMA OwnerTurnsVirtual ==
  ASSUME SocketInv, NEW id \in Ids, Sets(id, Virtual(sockets[id])), DropsDescriptor(id),
         SocketTypes'
  PROVE  SocketInv'
<1>1. /\ sockets'[id].use = sockets[id].use /\ sockets'[id].s = NoFd /\ sockets'[id].isPayVirtual
      /\ \A j \in Ids \ {id} : sockets'[j] = sockets[j]
  BY DEF Sets, Virtual, Open, SocketInv, SocketTypes, Socket
<1>2. openFds' = openFds \ {sockets[id].s}
  BY DEF DropsDescriptor
<1>3. \A j \in Ids : Owns(j)' <=> Owns(j) /\ j # id
  BY <1>1 DEF Owns, Open
<1>4. \A j \in Ids : Open(j)' <=> Open(j)
  BY <1>1 DEF Open
<1>5. \A j \in Ids : Owns(j) /\ j # id => sockets[j].s # sockets[id].s
  BY DEF SocketInv, DescriptorsOwnedOnce, Owns
<1>6. openFds' = { sockets'[j].s : j \in { i \in Ids : Owns(i)' } }
  BY <1>1, <1>2, <1>3, <1>5 DEF SocketInv, DescriptorsOwnedOnce
<1>7. DescriptorsOwnedOnce'
  BY <1>1, <1>3, <1>4, <1>6 DEF SocketInv, DescriptorsOwnedOnce
<1> QED
  BY <1>1, <1>4, <1>7 DEF SocketInv

\* A write that leaves use, descriptor and kind alone keeps the owners.
LEMMA StatesWritten ==
  ASSUME SocketInv, NEW id \in Ids, NEW socket \in Socket, Sets(id, socket),
         socket.use = sockets[id].use, socket.s = sockets[id].s,
         socket.isPayVirtual = sockets[id].isPayVirtual,
         UNCHANGED <<isCMWAP, openFds>>, connector' \in [Ids -> ConnectorTypes],
         sending' \in {0} \cup Ids
  PROVE  SocketInv'
<1>1. sockets' = [sockets EXCEPT ![id] = socket]
  BY DEF Sets
<1>2. SocketTypes'
  BY <1>1 DEF SocketInv, SocketTypes, ConnectorTypes
<1>3. \A j \in Ids : SameOwner(j)
  BY <1>1 DEF SameOwner, SocketInv, SocketTypes
<1> QED
  BY <1>2, <1>3, OwnersKept

LEMMA NothingWritten ==
  ASSUME SocketInv, UNCHANGED <<sockets, openFds>>, isCMWAP' \in BOOLEAN,
         connector' \in [Ids -> ConnectorTypes], sending' \in {0} \cup Ids
  PROVE  SocketInv'
<1>1. SocketTypes'
  BY DEF SocketInv, SocketTypes, ConnectorTypes
<1>2. \A j \in Ids : SameOwner(j)
  BY DEF SameOwner
<1> QED
  BY <1>1, <1>2, OwnersKept

LEMMA VirtualTypes ==
  ASSUME SocketInv, NEW id \in Ids, Sets(id, Virtual(sockets[id])), DropsDescriptor(id),
         UNCHANGED isCMWAP, connector' \in [Ids -> ConnectorTypes], sending' \in {0} \cup Ids
  PROVE  SocketTypes'
<1>1. Virtual(sockets[id]) \in Socket
  BY StateValues DEF Virtual, SocketInv, SocketTypes, Socket
<1> QED
  BY <1>1 DEF Sets, DropsDescriptor, SocketInv, SocketTypes, ConnectorTypes

LEMMA ConnectKeeps ==
  ASSUME SocketInv, NEW id \in Ids, NEW ip, NEW port, my_connect(id, ip, port)
  PROVE  SocketInv'
<1>1. Open(id) /\ UNCHANGED <<isCMWAP, sending>>
  BY DEF my_connect
<1>2. sockets[id] \in Socket /\ connector \in [Ids -> ConnectorTypes] /\ sending \in {0} \cup Ids
  BY DEF SocketInv, SocketTypes, ConnectorTypes
<1>3. CASE ConnectsToPay(id)
  <2>1. SocketTypes'
    BY <1>1, <1>2, <1>3, VirtualTypes DEF ConnectsToPay
  <2> QED
    BY <1>1, <1>3, <2>1, OwnerTurnsVirtual DEF ConnectsToPay
<1>4. CASE ConnectsToProxy(id)
  <2> DEFINE socket == [sockets[id] EXCEPT !.state = Success, !.realState = Waiting]
  <2>1. socket \in Socket /\ socket.use = sockets[id].use /\ socket.s = sockets[id].s
        /\ socket.isPayVirtual = sockets[id].isPayVirtual
    BY <1>2, StateValues DEF Socket
  <2> QED
    BY <1>1, <1>2, <1>4, <2>1, StatesWritten DEF ConnectsToProxy
<1>5. CASE ConnectsAsync(id)
  <2>1. [connector[id] EXCEPT !.pc = "connect"] \in ConnectorTypes
    BY <1>2 DEF ConnectorTypes
  <2>2. connector' \in [Ids -> ConnectorTypes]
    BY <1>2, <1>5, <2>1 DEF ConnectsAsync
  <2> QED
    BY <1>1, <1>2, <1>5, <2>2, NothingWritten DEF ConnectsAsync, SocketInv, SocketTypes
<1>6. CASE ConnectFails(id)
  <2> DEFINE socket == [sockets[id] EXCEPT !.state = Failure, !.realState = Failure]
  <2>1. socket \in Socket /\ socket.use = sockets[id].use /\ socket.s = sockets[id].s
        /\ socket.isPayVirtual = sockets[id].isPayVirtual
    BY <1>2, StateValues DEF Socket
  <2> QED
    BY <1>1, <1>2, <1>6, <2>1, StatesWritten DEF ConnectFails
<1>7. CASE ConnectsBlocking(id)
  BY <1>1, <1>2, <1>7, NothingWritten DEF ConnectsBlocking, SocketInv, SocketTypes
<1> QED
  BY <1>3, <1>4, <1>5, <1>6, <1>7 DEF my_connect

LEMMA ConnectorKeeps ==
  ASSUME SocketInv, NEW id \in Ids, Connector(id)
  PROVE  SocketInv'
<1>1. /\ UNCHANGED <<isCMWAP, openFds, sending>>
      /\ connector \in [Ids -> ConnectorTypes] /\ sending \in {0} \cup Ids
      /\ isCMWAP \in BOOLEAN
  BY DEF Connector, ConnectorWritesReal, ConnectorWritesState, SocketInv, SocketTypes,
         ConnectorTypes
<1>2. connector' \in [Ids -> ConnectorTypes]
  <2>1. CASE ConnectorWritesReal(id)
    <3>1. PICK result \in States : connector' = [connector EXCEPT ![id].pc = "state",
                                                                  ![id].result = result]
      BY <2>1, StateValues DEF ConnectorWritesReal
    <3>2. [connector[id] EXCEPT !.pc = "state", !.result = result] \in ConnectorTypes
      BY <1>1 DEF ConnectorTypes
    <3> QED
      BY <1>1, <3>1, <3>2
  <2>2. CASE ConnectorWritesState(id)
    <3>1. NoConnector \in ConnectorTypes
      BY Numbers, StateValues DEF NoConnector, ConnectorTypes
    <3> QED
      BY <1>1, <2>2, <3>1 DEF ConnectorWritesState
  <2> QED
    BY <2>1, <2>2 DEF Connector
<1>3. PICK at \in PointsAt(id), r \in States, t \in States :
        \/ Writes(at, [sockets[at] EXCEPT !.realState = r])
        \/ Writes(at, [sockets[at] EXCEPT !.state = t]) /\ at \in Ids
        \/ UNCHANGED sockets
  <2>1. CASE ConnectorWritesReal(id)
    BY <2>1, StateValues DEF ConnectorWritesReal
  <2>2. CASE ConnectorWritesState(id)
    <3>1. PICK at \in PointsAt(id) :
            Writes(at, [sockets[at] EXCEPT !.state = Shown(at, connector[id].result)])
      BY <2>2 DEF ConnectorWritesState
    <3>2. CASE at = Nowhere
      BY <3>1, <3>2, StateValues DEF Writes
    <3>3. CASE at # Nowhere
      <4>1. at \in Ids
        BY <3>3 DEF PointsAt
      <4>2. Shown(at, connector[id].result) \in States
        BY <4>1 DEF Shown, SocketInv, SocketTypes, Socket
      <4> QED
        BY <3>1, <4>1, <4>2
    <3> QED
      BY <3>2, <3>3
  <2> QED
    BY <2>1, <2>2 DEF Connector
<1>4. CASE UNCHANGED sockets
  BY <1>1, <1>2, <1>4, NothingWritten
<1>5. CASE sockets' # sockets
  <2>1. at # Nowhere /\ at \in Ids
    BY <1>3, <1>5 DEF Writes, PointsAt
  <2>2. PICK socket \in {[sockets[at] EXCEPT !.realState = r], [sockets[at] EXCEPT !.state = t]} :
          Sets(at, socket)
    BY <1>3, <1>5, <2>1 DEF Writes
  <2>3. /\ socket \in Socket /\ socket.use = sockets[at].use /\ socket.s = sockets[at].s
        /\ socket.isPayVirtual = sockets[at].isPayVirtual
    BY <2>1, <2>2 DEF SocketInv, SocketTypes, Socket
  <2> QED
    BY <1>1, <1>2, <2>1, <2>2, <2>3, StatesWritten
<1> QED
  BY <1>4, <1>5

LEMMA SendKeeps ==
  ASSUME SocketInv, NEW id \in Ids, SendsPlainly(id) \/ SendLooksUp(id)
  PROVE  SocketInv'
<1>1. /\ Sets(id, Counted(sockets[id])) /\ UNCHANGED <<isCMWAP, openFds, connector>>
      /\ sending' \in {0} \cup Ids
  BY DEF SendsPlainly, SendLooksUp, SocketInv, SocketTypes
<1>2. LET socket == Counted(sockets[id]) IN
      /\ socket \in Socket /\ socket.use = sockets[id].use /\ socket.s = sockets[id].s
      /\ socket.isPayVirtual = sockets[id].isPayVirtual
  BY DEF Counted, SocketInv, SocketTypes, Socket
<1> QED
  BY <1>1, <1>2, StatesWritten DEF SocketInv, SocketTypes, ConnectorTypes

LEMMA SendReturnKeeps ==
  ASSUME SocketInv, NEW id \in Ids, SendReturns(id)
  PROVE  SocketInv'
<1>1. PICK value \in Values, port \in Ports : SendConnects(id, value, port)
  BY DEF SendReturns
<1>2. /\ UNCHANGED <<isCMWAP, connector>> /\ sending' = 0
      /\ connector \in [Ids -> ConnectorTypes] /\ sockets[id] \in Socket
  BY <1>1 DEF SendConnects, SocketInv, SocketTypes, ConnectorTypes
<1>3. CASE UNCHANGED <<sockets, openFds>>
  BY <1>2, <1>3, NothingWritten DEF SocketInv, SocketTypes
<1>4. CASE SendConnectsPay(id)
  <2>1. SocketTypes'
    BY <1>2, <1>4, VirtualTypes DEF SendConnectsPay
  <2> QED
    BY <1>4, <2>1, OwnerTurnsVirtual DEF SendConnectsPay
<1>5. CASE SendConnectsProxy(id)
  <2> DEFINE socket == [sockets[id] EXCEPT !.state = Success, !.realState = Success]
  <2>1. socket \in Socket /\ socket.use = sockets[id].use /\ socket.s = sockets[id].s
        /\ socket.isPayVirtual = sockets[id].isPayVirtual
    BY <1>2, StateValues DEF Socket
  <2> QED
    BY <1>2, <1>5, <2>1, StatesWritten DEF SendConnectsProxy
<1>6. CASE SendConnectsHost(id)
  <2>1. PICK r \in {sockets[id].realState, Success} :
          Sets(id, [sockets[id] EXCEPT !.realState = r])
    BY <1>6 DEF SendConnectsHost
  <2> DEFINE socket == [sockets[id] EXCEPT !.realState = r]
  <2>2. socket \in Socket /\ socket.use = sockets[id].use /\ socket.s = sockets[id].s
        /\ socket.isPayVirtual = sockets[id].isPayVirtual
    BY <1>2, <2>1, StateValues DEF Socket
  <2> QED
    BY <1>2, <1>6, <2>1, <2>2, StatesWritten DEF SendConnectsHost
<1> QED
  BY <1>1, <1>3, <1>4, <1>5, <1>6 DEF SendConnects

LEMMA SocketsInductive == SocketInv /\ [Next]_vars => SocketInv'
<1> SUFFICES ASSUME SocketInv, [Next]_vars PROVE SocketInv'
  OBVIOUS
<1>0. isCMWAP \in BOOLEAN /\ connector \in [Ids -> ConnectorTypes] /\ sending \in {0} \cup Ids
  BY DEF SocketInv, SocketTypes, ConnectorTypes
<1>1. CASE UNCHANGED socketVars
  BY <1>0, <1>1, NothingWritten DEF socketVars
<1>2. ASSUME NEW mode \in {"cmnet", "cmwap"}, my_initNetwork(mode) PROVE SocketInv'
  BY <1>0, <1>2, NothingWritten DEF my_initNetwork, ReplacesMode
<1>3. CASE my_socket
  BY <1>3, OwnerMade
<1>4. CASE my_closeNetwork
  BY <1>4, OwnersClosed DEF my_closeNetwork
<1>5. Configures => UNCHANGED socketVars
  BY DEF Configures
<1>6. \A name \in Names : GuestLooksUp(name) => UNCHANGED socketVars
  BY DEF GuestLooksUp
<1>7. \A c \in Callers : LookupReturns(c) => UNCHANGED socketVars
  BY DEF LookupReturns
<1>8. \A c \in Callers, name \in Names : ThreadLooksUp(c, name) => UNCHANGED socketVars
  BY DEF ThreadLooksUp
<1>9. ASSUME NEW id \in Ids, GuestCalls(id) PROVE SocketInv'
  <2>1. CASE my_closeSocket(id)
    BY <2>1, OwnersClosed DEF my_closeSocket, MayClose
  <2>2. CASE RecvSeesClose(id)
    BY <2>2, OwnersClosed DEF RecvSeesClose
  <2> QED
    BY <1>9, <2>1, <2>2, ConnectKeeps, SendKeeps, SendReturnKeeps DEF GuestCalls
<1>10. ASSUME NEW id \in Ids, Connector(id) PROVE SocketInv'
  BY <1>10, ConnectorKeeps
<1>11. UNCHANGED vars => UNCHANGED socketVars
  BY DEF vars
<1> QED
  BY <1>1, <1>2, <1>3, <1>4, <1>5, <1>6, <1>7, <1>8, <1>9, <1>10, <1>11 DEF Next

LEMMA SocketsAlways == Spec => []SocketInv
  BY SocketsInitial, SocketsInductive, PTL DEF Spec

\* The values of the bridge's variables.
THEOREM NetworkTypes == Spec => []TypeOK
<1>1. DnsInv /\ SocketInv => TypeOK
  BY DEF DnsInv, SocketInv, SocketTypes, TypeOK
<1> QED
  BY <1>1, DnsAlways, SocketsAlways, PTL

\* Each descriptor the host has open for the bridge belongs to one open socket, and
\* each socket that is not virtual has one, whatever turns virtual, is closed by the
\* guest or by its peer, or is looked up while it is written to.
THEOREM DescriptorsHaveOneOwner == Spec => []DescriptorsOwnedOnce
<1>1. SocketInv => DescriptorsOwnedOnce
  BY DEF SocketInv
<1> QED
  BY <1>1, SocketsAlways, PTL

-----------------------------------------------------------------------------
(* The two states of a socket.                                             *)

Ghosts == [mode : {"cmnet", "cmwap"}, wanted : [Ids -> {"cmnet", "cmwap"}], stray : BOOLEAN]

\* Between the two writes of its thread the real state is the thread's result, which
\* the second write makes the state shown.
Agrees(id) ==
  Open(id) /\ ~sockets[id].cmwapMode =>
    /\ connector[id].pc = "state" => sockets[id].realState = connector[id].result
    /\ connector[id].pc # "state" => sockets[id].state = sockets[id].realState

\* A send that waits is on an open socket of CMWAP, which is not closed under it; while
\* no socket was closed under its thread, each thread has its own, open, socket.
StateInv ==
  /\ ghost \in Ghosts
  /\ sending # 0 => Open(sending) /\ sockets[sending].cmwapMode
  /\ ~ghost.stray => \A id \in Ids : Agrees(id) /\ (Busy(id) => Open(id))

LEMMA StateInitial == Init => StateInv
<1> SUFFICES ASSUME Init PROVE StateInv
  OBVIOUS
<1>1. \A id \in Ids : ~Open(id) /\ ~Busy(id)
  BY DEF Init, New, NoConnector, Open, Busy
<1>2. ghost \in Ghosts
  BY DEF Init, InitGhost, Ghosts
<1> QED
  BY <1>1, <1>2 DEF Init, StateInv, Agrees

\* A step that leaves threads and history alone, and states but of sockets of CMWAP or
\* sockets that have no thread at work and both states the same.
LEMMA StatesAgreeStill ==
  ASSUME StateInv, NEW id \in Ids, NEW socket, sockets \in [Ids -> Socket],
         Sets(id, socket), socket.use = sockets[id].use,
         socket.cmwapMode = sockets[id].cmwapMode,
         \/ socket.cmwapMode
         \/ socket.state = sockets[id].state /\ socket.realState = sockets[id].realState
         \/ socket.state = socket.realState /\ ~Busy(id),
         UNCHANGED <<connector, ghost>>,
         sending' # 0 => Open(sending') /\ sockets[sending'].cmwapMode /\ sending' \in Ids
  PROVE  StateInv'
<1>1. /\ sockets'[id] = socket
      /\ \A j \in Ids \ {id} : sockets'[j] = sockets[j]
  BY DEF Sets
<1>2. \A j \in Ids : Open(j)' <=> Open(j)
  BY <1>1 DEF Open
<1>3. \A j \in Ids : sockets'[j].cmwapMode = sockets[j].cmwapMode
  BY <1>1
<1>4. \A j \in Ids : Busy(j)' <=> Busy(j)
  BY DEF Busy
<1>5. ASSUME ~ghost.stray, NEW j \in Ids PROVE Agrees(j)'
  <2>1. Agrees(j)
    BY <1>5 DEF StateInv
  <2>2. CASE j # id
    BY <1>1, <2>1, <2>2 DEF Agrees, Open
  <2>3. CASE j = id
    BY <1>1, <1>2, <2>1, <2>3 DEF Agrees, Busy
  <2> QED
    BY <2>2, <2>3
<1> QED
  BY <1>2, <1>3, <1>4, <1>5 DEF StateInv

LEMMA MadeAgrees ==
  ASSUME SocketInv, StateInv, my_socket
  PROVE  StateInv'
<1>1. PICK id \in Ids, fd \in Fds :
        /\ sockets[id].use = "new"
        /\ sockets' = [sockets EXCEPT ![id] = [New EXCEPT !.use = "open", !.s = fd,
                                                         !.cmwapMode = isCMWAP]]
        /\ ghost' = [ghost EXCEPT !.wanted[id] = ghost.mode]
  BY Zenon DEF my_socket, LowestFree, Sets
<1>2. sending' = 0 /\ UNCHANGED connector
  BY DEF my_socket, GuestFree
<1>3. ghost' \in Ghosts /\ ghost'.stray = ghost.stray
  BY <1>1 DEF StateInv, Ghosts
<1>4. /\ sockets'[id].state = Waiting /\ sockets'[id].realState = Waiting
      /\ sockets'[id].use = "open"
      /\ \A j \in Ids \ {id} : sockets'[j] = sockets[j]
  BY <1>1 DEF New, SocketInv, SocketTypes
<1>5. ASSUME ~ghost.stray PROVE ~Busy(id)
  BY <1>1, <1>5 DEF StateInv, Open
<1>6. ASSUME ~ghost.stray, NEW j \in Ids PROVE Agrees(j)' /\ (Busy(j) => Open(j))'
  <2>1. Agrees(j) /\ (Busy(j) => Open(j))
    BY <1>6 DEF StateInv
  <2>2. CASE j # id
    BY <1>2, <1>4, <2>1, <2>2 DEF Agrees, Open, Busy
  <2>3. CASE j = id
    BY <1>2, <1>4, <1>5, <1>6, <2>3 DEF Agrees, Open, Busy
  <2> QED
    BY <2>2, <2>3
<1> QED
  BY <1>2, <1>3, <1>6 DEF StateInv

LEMMA ClosedAgrees ==
  ASSUME SocketInv, StateInv, NEW ids \in SUBSET Ids, CloseSockets(ids), GuestFree,
         UNCHANGED sending
  PROVE  StateInv'
<1>1. sending' = 0
  BY DEF GuestFree
<1>2. ghost' = [ghost EXCEPT !.stray = ghost.stray \/ \E id \in ids : Busy(id)]
  BY DEF CloseSockets
<1>3. /\ ghost' \in Ghosts
      /\ ghost'.stray <=> ghost.stray \/ \E id \in ids : Busy(id)
  BY <1>2 DEF StateInv, Ghosts
<1>4. \A id \in Ids : id \in ids => ~Open(id)'
  BY DEF CloseSockets, Open, New
<1>5. \A id \in Ids : id \notin ids => sockets'[id] = sockets[id] /\ connector'[id] = connector[id]
  BY DEF CloseSockets
<1>6. ASSUME ~ghost'.stray, NEW id \in Ids PROVE Agrees(id)' /\ (Busy(id) => Open(id))'
  <2>1. Agrees(id) /\ (Busy(id) => Open(id)) /\ (id \in ids => ~Busy(id))
    BY <1>3, <1>6 DEF StateInv
  <2>2. CASE id \in ids
    <3>1. connector'[id] = connector[id]
      BY <2>1, <2>2 DEF CloseSockets
    <3> QED
      BY <1>4, <2>1, <2>2, <3>1 DEF Agrees, Busy
  <2>3. CASE id \notin ids
    BY <1>5, <2>1, <2>3 DEF Agrees, Open, Busy
  <2> QED
    BY <2>2, <2>3
<1> QED
  BY <1>1, <1>3, <1>6 DEF StateInv

LEMMA ConnectAgrees ==
  ASSUME SocketInv, StateInv, NEW id \in Ids, NEW ip, NEW port, my_connect(id, ip, port)
  PROVE  StateInv'
<1>1. /\ Open(id) /\ ~Busy(id) /\ sending' = 0 /\ UNCHANGED ghost
      /\ sockets \in [Ids -> Socket] /\ connector \in [Ids -> ConnectorTypes]
  BY DEF my_connect, GuestFree, SocketInv, SocketTypes, ConnectorTypes
<1>2. CASE ConnectsToPay(id)
  <2>1. /\ Virtual(sockets[id]).use = sockets[id].use
        /\ Virtual(sockets[id]).cmwapMode = sockets[id].cmwapMode
        /\ Virtual(sockets[id]).state = Virtual(sockets[id]).realState
    BY <1>1 DEF Virtual, Socket
  <2> QED
    BY <1>1, <1>2, <2>1, StatesAgreeStill DEF ConnectsToPay
<1>3. CASE ConnectsToProxy(id) /\ sockets[id].cmwapMode
  <2> DEFINE socket == [sockets[id] EXCEPT !.state = Success, !.realState = Waiting]
  <2>1. socket.use = sockets[id].use /\ socket.cmwapMode = sockets[id].cmwapMode
    BY <1>1 DEF Socket
  <2> QED
    BY <1>1, <1>3, <2>1, StatesAgreeStill DEF ConnectsToProxy
<1>4. CASE ConnectsAsync(id)
  <2>1. /\ connector'[id].pc = "connect" /\ UNCHANGED sockets
        /\ \A j \in Ids \ {id} : connector'[j] = connector[j]
    BY <1>1, <1>4 DEF ConnectsAsync, ConnectorTypes
  <2>2. ASSUME ~ghost.stray, NEW j \in Ids PROVE Agrees(j)' /\ (Busy(j) => Open(j))'
    <3>1. Agrees(j) /\ (Busy(j) => Open(j))
      BY <2>2 DEF StateInv
    <3>2. CASE j # id
      BY <2>1, <3>1, <3>2 DEF Agrees, Open, Busy
    <3>3. CASE j = id
      BY <1>1, <2>1, <3>1, <3>3 DEF Agrees, Open, Busy
    <3> QED
      BY <3>2, <3>3
  <2> QED
    BY <1>1, <2>2 DEF StateInv
<1>5. CASE ConnectFails(id)
  <2> DEFINE socket == [sockets[id] EXCEPT !.state = Failure, !.realState = Failure]
  <2>1. /\ socket.use = sockets[id].use /\ socket.cmwapMode = sockets[id].cmwapMode
        /\ socket.state = socket.realState
    BY <1>1 DEF Socket
  <2> QED
    BY <1>1, <1>5, <2>1, StatesAgreeStill DEF ConnectFails
<1>6. CASE ConnectsBlocking(id)
  BY <1>1, <1>6 DEF ConnectsBlocking, StateInv, Agrees, Open, Busy
<1> QED
  BY <1>2, <1>3, <1>4, <1>5, <1>6 DEF my_connect, IsProxy

\* The first write makes the real state the result, the second the state shown.
LEMMA ConnectorAgrees ==
  ASSUME SocketInv, StateInv, NEW id \in Ids, Connector(id)
  PROVE  StateInv'
<1>1. /\ sockets \in [Ids -> Socket] /\ connector \in [Ids -> ConnectorTypes]
      /\ sending \in {0} \cup Ids /\ Busy(id)
      /\ UNCHANGED <<sending, ghost>>
  BY DEF Connector, ConnectorWritesReal, ConnectorWritesState, SocketInv, SocketTypes,
         ConnectorTypes, Busy
<1>2. CASE ConnectorWritesReal(id)
  <2>1. PICK result \in States, at \in PointsAt(id) :
          /\ Writes(at, [sockets[at] EXCEPT !.realState = result])
          /\ connector' = [connector EXCEPT ![id].pc = "state", ![id].result = result]
    BY <1>2, StateValues DEF ConnectorWritesReal
  <2>2. /\ connector'[id].pc = "state" /\ connector'[id].result = result
        /\ \A j \in Ids \ {id} : connector'[j] = connector[j]
    BY <1>1, <2>1 DEF ConnectorTypes
  <2>3. \A j \in Ids : /\ sockets'[j].use = sockets[j].use
                       /\ sockets'[j].cmwapMode = sockets[j].cmwapMode
    BY <1>1, <2>1 DEF Writes, Sets, Socket
  <2>4. ASSUME ~ghost.stray, NEW j \in Ids PROVE Agrees(j)' /\ (Busy(j) => Open(j))'
    <3>1. Agrees(j) /\ (Busy(j) => Open(j)) /\ Open(id)
      BY <1>1, <2>4 DEF StateInv
    <3>2. at = id /\ id # Nowhere
      BY <3>1, Numbers DEF PointsAt
    <3>3. sockets'[id].realState = result /\ \A k \in Ids \ {id} : sockets'[k] = sockets[k]
      BY <1>1, <2>1, <3>2 DEF Writes, Sets, Socket
    <3>4. CASE j # id
      BY <2>2, <3>1, <3>3, <3>4 DEF Agrees, Open, Busy
    <3>5. CASE j = id
      BY <2>2, <2>3, <3>1, <3>3, <3>5 DEF Agrees, Open
    <3> QED
      BY <3>4, <3>5
  <2> QED
    BY <1>1, <2>3, <2>4, Numbers DEF StateInv, Open
<1>3. CASE ConnectorWritesState(id)
  <2> DEFINE result == connector[id].result
  <2>1. /\ connector[id].pc = "state"
        /\ \E at \in PointsAt(id) : Writes(at, [sockets[at] EXCEPT !.state = Shown(at, result)])
        /\ connector' = [connector EXCEPT ![id] = NoConnector]
    BY <1>3 DEF ConnectorWritesState
  <2>2. PICK at \in PointsAt(id) : Writes(at, [sockets[at] EXCEPT !.state = Shown(at, result)])
    BY <2>1
  <2>3. /\ connector'[id].pc = "none"
        /\ \A j \in Ids \ {id} : connector'[j] = connector[j]
    BY <1>1, <2>1 DEF NoConnector
  <2>4. \A j \in Ids : /\ sockets'[j].use = sockets[j].use
                       /\ sockets'[j].cmwapMode = sockets[j].cmwapMode
    BY <1>1, <2>2 DEF Writes, Sets, Socket
  <2>5. ASSUME ~ghost.stray, NEW j \in Ids PROVE Agrees(j)' /\ (Busy(j) => Open(j))'
    <3>1. Agrees(j) /\ (Busy(j) => Open(j)) /\ Agrees(id) /\ Open(id)
      BY <1>1, <2>5 DEF StateInv
    <3>2. at = id /\ id # Nowhere
      BY <3>1, Numbers DEF PointsAt
    <3>3. /\ sockets'[id].state = Shown(id, result)
          /\ sockets'[id].realState = sockets[id].realState
          /\ \A k \in Ids \ {id} : sockets'[k] = sockets[k]
      BY <1>1, <2>2, <3>2 DEF Writes, Sets, Socket
    <3>4. CASE j # id
      BY <2>3, <3>1, <3>3, <3>4 DEF Agrees, Open, Busy
    <3>5. CASE j = id
      BY <2>1, <2>3, <2>4, <3>1, <3>3, <3>5 DEF Agrees, Busy, Shown
    <3> QED
      BY <3>4, <3>5
  <2> QED
    BY <1>1, <2>4, <2>5, Numbers DEF StateInv, Open
<1> QED
  BY <1>2, <1>3 DEF Connector

LEMMA SendAgrees ==
  ASSUME SocketInv, StateInv, NEW id \in Ids, SendsPlainly(id) \/ SendLooksUp(id)
  PROVE  StateInv'
<1>1. /\ Sets(id, Counted(sockets[id])) /\ UNCHANGED <<connector, ghost>>
      /\ sending' # 0 => sending' = id /\ Open(id) /\ sockets[id].cmwapMode
      /\ sockets \in [Ids -> Socket]
  BY DEF SendsPlainly, SendLooksUp, GuestFree, DefersConnect, SocketInv, SocketTypes
<1>2. LET socket == Counted(sockets[id]) IN
      /\ socket.use = sockets[id].use /\ socket.cmwapMode = sockets[id].cmwapMode
      /\ socket.state = sockets[id].state /\ socket.realState = sockets[id].realState
  BY <1>1 DEF Counted, Socket
<1> QED
  BY <1>1, <1>2, StatesAgreeStill

LEMMA SendReturnAgrees ==
  ASSUME SocketInv, StateInv, NEW id \in Ids, SendReturns(id)
  PROVE  StateInv'
<1>1. PICK value \in Values, port \in Ports : SendConnects(id, value, port)
  BY DEF SendReturns
<1>2. /\ UNCHANGED <<connector, ghost>> /\ sending' = 0 /\ id # 0
      /\ sockets \in [Ids -> Socket] /\ sockets[id].cmwapMode
  BY <1>1, Numbers DEF SendConnects, SocketInv, SocketTypes, StateInv, Nowhere
<1>3. CASE UNCHANGED sockets
  BY <1>2, <1>3 DEF StateInv, Agrees, Open, Busy
<1>4. CASE SendConnectsPay(id)
  <2>1. Virtual(sockets[id]).use = sockets[id].use /\ Virtual(sockets[id]).cmwapMode
    BY <1>2 DEF Virtual, Socket
  <2> QED
    BY <1>2, <1>4, <2>1, StatesAgreeStill DEF SendConnectsPay
<1>5. CASE SendConnectsProxy(id)
  <2> DEFINE socket == [sockets[id] EXCEPT !.state = Success, !.realState = Success]
  <2>1. socket.use = sockets[id].use /\ socket.cmwapMode
    BY <1>2 DEF Socket
  <2> QED
    BY <1>2, <1>5, <2>1, StatesAgreeStill DEF SendConnectsProxy
<1>6. CASE SendConnectsHost(id)
  <2>1. PICK r \in {sockets[id].realState, Success} :
          Sets(id, [sockets[id] EXCEPT !.realState = r])
    BY <1>6 DEF SendConnectsHost
  <2> DEFINE socket == [sockets[id] EXCEPT !.realState = r]
  <2>2. socket.use = sockets[id].use /\ socket.cmwapMode
    BY <1>2 DEF Socket
  <2> QED
    BY <1>2, <2>1, <2>2, StatesAgreeStill
<1> QED
  BY <1>1, <1>3, <1>4, <1>5, <1>6 DEF SendConnects

LEMMA NothingShown ==
  ASSUME StateInv, UNCHANGED <<sockets, connector, sending, ghost>>
  PROVE  StateInv'
  BY DEF StateInv, Agrees, Open, Busy

LEMMA StatesInductive == SocketInv /\ StateInv /\ [Next]_vars => StateInv'
<1> SUFFICES ASSUME SocketInv, StateInv, [Next]_vars PROVE StateInv'
  OBVIOUS
<1>1. CASE UNCHANGED socketVars
  BY <1>1, NothingShown DEF socketVars
<1>2. ASSUME NEW mode \in {"cmnet", "cmwap"}, my_initNetwork(mode) PROVE StateInv'
  <2>1. UNCHANGED <<sockets, connector, sending>> /\ ghost' = [ghost EXCEPT !.mode = mode]
    BY <1>2 DEF my_initNetwork
  <2>2. ghost' \in Ghosts /\ ghost'.stray = ghost.stray
    BY <2>1 DEF StateInv, Ghosts
  <2> QED
    BY <2>1, <2>2 DEF StateInv, Agrees, Open, Busy
<1>3. CASE my_socket
  BY <1>3, MadeAgrees
<1>4. CASE my_closeNetwork
  <2> DEFINE ids == { id \in Ids : Open(id) }
  <2>1. GuestFree /\ CloseSockets(ids) /\ UNCHANGED sending /\ ids \in SUBSET Ids
    BY <1>4 DEF my_closeNetwork
  <2> HIDE DEF ids
  <2> QED
    BY <2>1, ClosedAgrees
<1>5. ASSUME NEW id \in Ids, GuestCalls(id) PROVE StateInv'
  <2>1. CASE my_closeSocket(id) \/ RecvSeesClose(id)
    <3>1. GuestFree /\ CloseSockets({id}) /\ UNCHANGED sending /\ {id} \in SUBSET Ids
      BY <2>1 DEF my_closeSocket, RecvSeesClose
    <3> QED
      BY <3>1, ClosedAgrees
  <2> QED
    BY <1>5, <2>1, ConnectAgrees, SendAgrees, SendReturnAgrees DEF GuestCalls
<1>6. ASSUME NEW id \in Ids, Connector(id) PROVE StateInv'
  BY <1>6, ConnectorAgrees
<1>7. Configures => UNCHANGED socketVars
  BY DEF Configures
<1>8. \A name \in Names : GuestLooksUp(name) => UNCHANGED socketVars
  BY DEF GuestLooksUp
<1>9. \A c \in Callers : LookupReturns(c) => UNCHANGED socketVars
  BY DEF LookupReturns
<1>10. \A c \in Callers, name \in Names : ThreadLooksUp(c, name) => UNCHANGED socketVars
  BY DEF ThreadLooksUp
<1>11. UNCHANGED vars => UNCHANGED socketVars
  BY DEF vars
<1> QED
  BY <1>1, <1>2, <1>3, <1>4, <1>5, <1>6, <1>7, <1>8, <1>9, <1>10, <1>11 DEF Next

LEMMA StatesAlways == Spec => [](SocketInv /\ StateInv)
<1>1. SocketInv /\ StateInv /\ [Next]_vars => (SocketInv /\ StateInv)'
  BY SocketsInductive, StatesInductive
<1>2. Init => SocketInv /\ StateInv
  BY SocketsInitial, StateInitial
<1> QED
  BY <1>1, <1>2, PTL DEF Spec

\* In CMNET mode the guest is shown the state its connection is in, but for the moment
\* between the two writes of the connect thread (network.c:51), for any number of
\* sockets and changes of mode while they connect, unless a socket was closed under
\* its thread.
THEOREM StateShownIsReal == Spec => []StateIsReal
<1>1. SocketInv /\ StateInv => StateIsReal
  BY DEF StateInv, StateIsReal, Agrees
<1> QED
  BY <1>1, StatesAlways, PTL

\* A thread gets past its connect by its own step only.
LEMMA OnlyItsThreadWrites ==
  ASSUME SocketInv, [Next]_vars, NEW other \in Ids,
         connector[other].pc = "connect", connector'[other].pc # "connect"
  PROVE  ConnectorWritesReal(other)
<1>1. connector \in [Ids -> ConnectorTypes]
  BY DEF SocketInv, SocketTypes, ConnectorTypes
<1>2. \A ids \in SUBSET Ids : CloseSockets(ids) => connector'[other].pc = "connect"
  BY <1>1 DEF CloseSockets, ConnectorTypes
<1>3. ASSUME NEW id \in Ids, GuestCalls(id) PROVE FALSE
  <2>1. CASE my_closeSocket(id) \/ RecvSeesClose(id)
    BY <1>2, <2>1 DEF my_closeSocket, RecvSeesClose
  <2>2. ASSUME NEW ip \in Known, NEW port \in Ports, my_connect(id, ip, port) PROVE FALSE
    <3>1. UNCHANGED connector \/ connector' = [connector EXCEPT ![id].pc = "connect"]
      BY <2>2 DEF my_connect, ConnectsToPay, ConnectsToProxy, ConnectsAsync, ConnectFails,
                  ConnectsBlocking
    <3> QED
      BY <1>1, <3>1 DEF ConnectorTypes
  <2>3. CASE SendsPlainly(id) \/ SendLooksUp(id) \/ SendReturns(id)
    BY <2>3 DEF SendsPlainly, SendLooksUp, SendReturns, SendConnects
  <2> QED
    BY <1>3, <2>1, <2>2, <2>3 DEF GuestCalls
<1>4. ASSUME NEW id \in Ids, Connector(id) PROVE ConnectorWritesReal(other)
  <2>1. CASE ConnectorWritesReal(id)
    <3>1. PICK result : connector' = [connector EXCEPT ![id].pc = "state", ![id].result = result]
      BY <2>1 DEF ConnectorWritesReal
    <3> QED
      BY <1>1, <2>1, <3>1 DEF ConnectorTypes
  <2>2. CASE ConnectorWritesState(id)
    <3>1. id # other /\ connector' = [connector EXCEPT ![id] = NoConnector]
      BY <2>2 DEF ConnectorWritesState
    <3> QED
      BY <1>1, <3>1
  <2> QED
    BY <1>4, <2>1, <2>2 DEF Connector
<1>5. my_closeNetwork => \E ids \in SUBSET Ids : CloseSockets(ids)
  BY DEF my_closeNetwork
<1>6. \A mode \in {"cmnet", "cmwap"} : my_initNetwork(mode) => UNCHANGED connector
  BY DEF my_initNetwork
<1>7. my_socket => UNCHANGED connector
  BY DEF my_socket
<1>8. Configures => UNCHANGED connector
  BY DEF Configures, socketVars
<1>9. \A name \in Names : GuestLooksUp(name) => UNCHANGED connector
  BY DEF GuestLooksUp, socketVars
<1>10. \A c \in Callers : LookupReturns(c) => UNCHANGED connector
  BY DEF LookupReturns, socketVars
<1>11. \A c \in Callers, name \in Names : ThreadLooksUp(c, name) => UNCHANGED connector
  BY DEF ThreadLooksUp, socketVars
<1>12. UNCHANGED vars => UNCHANGED connector
  BY DEF vars, socketVars
<1> QED
  BY <1>2, <1>3, <1>4, <1>5, <1>6, <1>7, <1>8, <1>9, <1>10, <1>11, <1>12 DEF Next

\* ResultIsOwn, as long as no socket was closed under its connect thread.
ResultIsOwnUnlessStray ==
  [][~ghost.stray =>
       \A id, other \in Ids :
         id # other /\ connector[other].pc = "connect" /\ connector'[other].pc # "connect"
           => sockets'[id] = sockets[id]]_vars

\* Closing a socket under its thread (my_closeSocket, or my_recv that sees the peer close)
\* is the only way for a result to reach a socket it was not meant for (my_connectAsync).
THEOREM OnlyStraysWriteElsewhere == Spec => ResultIsOwnUnlessStray
<1>1. ASSUME SocketInv, StateInv, [Next]_vars, ~ghost.stray, NEW id \in Ids, NEW other \in Ids,
             id # other, connector[other].pc = "connect", connector'[other].pc # "connect"
      PROVE  sockets'[id] = sockets[id]
  <2>1. ConnectorWritesReal(other)
    BY <1>1, OnlyItsThreadWrites
  <2>2. Open(other)
    BY <1>1 DEF StateInv, Busy
  <2>3. PICK result \in {Success, Failure}, at \in PointsAt(other) :
          Writes(at, [sockets[at] EXCEPT !.realState = result])
    BY <2>1 DEF ConnectorWritesReal
  <2>4. at = other
    BY <2>2 DEF PointsAt
  <2>5. sockets \in [Ids -> Socket]
    BY <1>1 DEF SocketInv, SocketTypes
  <2> QED
    BY <1>1, <2>3, <2>4, <2>5 DEF Writes, Sets
<1>2. SocketInv /\ StateInv /\ [Next]_vars =>
        (~ghost.stray =>
           \A id, other \in Ids :
             id # other /\ connector[other].pc = "connect" /\ connector'[other].pc # "connect"
               => sockets'[id] = sockets[id])
  BY <1>1
<1> QED
  BY <1>2, StatesAlways, PTL DEF Spec, ResultIsOwnUnlessStray
=============================================================================
