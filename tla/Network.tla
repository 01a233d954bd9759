------------------------------- MODULE Network -------------------------------
(***************************************************************************)
(* The network bridge of ohos_src/network.c: the guest's sockets over the  *)
(* host's, composed with the lookups and route tokens of DnsRoutes.        *)
(*                                                                         *)
(* The guest's calls run on its one thread; a connect that does not block  *)
(* runs on a detached thread, which writes the result into the socket it   *)
(* was started for.  A socket has two connection states: realState, and    *)
(* state, which the guest polls.  Two kinds of endpoint are not connected  *)
(* to at all: the proxy of CMWAP mode, where the first send looks up and   *)
(* connects to the host named in the request, and the payment service,     *)
(* which the bridge answers itself.                                        *)
(***************************************************************************)
EXTENDS DnsRoutes

CONSTANTS
  Guest,       \* the guest's thread, one of Callers
  Fds,         \* file descriptors of the host
  MaxSockets,  \* bound on the calls of my_socket
  ProxyIp,     \* 10.0.0.172
  PayEndpoint, \* 127.0.0.1:18088
  CloseEarly   \* TRUE: the guest may close a socket that is connecting

ASSUME NetworkAssumption ==
  /\ Guest \in Callers
  /\ Fds \subseteq Nat /\ MaxSockets \in Nat
  /\ CloseEarly \in BOOLEAN

VARIABLES
  isCMWAP,
  sockets,     \* the mSocket of each guest handle
  openFds,     \* the descriptors the host has open for the bridge
  connector,   \* the connect thread of each socket (my_connectAsync); heir is the
               \* first handle made after its socket was closed
  sending,     \* the handle whose first send is looking up its host, or 0
  ghost        \* history, read by properties only

socketVars == <<isCMWAP, sockets, openFds, connector, sending, ghost>>
vars       == <<dnsVars, socketVars>>

Ids      == 1..MaxSockets
Waiting  == "waiting"   \* MR_WAITING
Success  == "success"
Failure  == "failed"
States   == {Waiting, Success, Failure}
NoFd     == -1

\* use: a handle is new, open or closed, and never used again; sent: sendCounter > 0, kept
\* only for CMWAP, where it is read.
New == [use |-> "new", s |-> NoFd, realState |-> Waiting, state |-> Waiting,
        cmwapMode |-> FALSE, sent |-> FALSE, isPayVirtual |-> FALSE]

NoConnector == [pc |-> "none", result |-> Waiting, heir |-> 0]

\* mode: what the last my_initNetwork asked for; wanted: what it was when a socket
\* was made; stray: a socket was closed under its connect thread.
InitGhost == [mode |-> "cmnet", wanted |-> [id \in Ids |-> "cmnet"],
              stray |-> FALSE]

Init ==
  /\ DnsInit
  /\ isCMWAP = FALSE
  /\ sockets = [id \in Ids |-> New]
  /\ openFds = {}
  /\ connector = [id \in Ids |-> NoConnector]
  /\ sending = 0
  /\ ghost = InitGhost

GuestFree == sending = 0 /\ lookup[Guest].pc = "idle"
Open(id)  == sockets[id].use = "open"
Busy(id)  == connector[id].pc # "none"
Known     == Ips \cup {ProxyIp} \cup { p.token : p \in promised }
Sets(id, socket) == sockets' = [sockets EXCEPT ![id] = socket]

-----------------------------------------------------------------------------
(* my_initNetwork, my_socket, my_closeSocket, my_closeNetwork              *)

\* Mutant: the mode is only ever promoted to CMWAP.
promotes_mode(mode) == isCMWAP' = (isCMWAP \/ mode = "cmwap")

ReplacesMode(mode) == isCMWAP' = (mode = "cmwap")

my_initNetwork(mode) ==
  /\ GuestFree
  /\ ReplacesMode(mode)
  /\ ghost' = [ghost EXCEPT !.mode = mode]
  /\ UNCHANGED <<dnsVars, sockets, openFds, connector, sending>>

LowestFree == { fd \in Fds \ openFds : \A f \in Fds \ openFds : fd <= f }

my_socket ==
  /\ GuestFree
  /\ \E id \in Ids : \E fd \in LowestFree :
       /\ sockets[id].use = "new" /\ \A j \in 1..(id - 1) : sockets[j].use # "new"
       /\ Sets(id, [New EXCEPT !.use = "open", !.s = fd, !.cmwapMode = isCMWAP])
       /\ openFds' = openFds \cup {fd}
       /\ ghost' = [ghost EXCEPT !.wanted[id] = ghost.mode]
  /\ UNCHANGED <<dnsVars, isCMWAP, connector, sending>>

\* The descriptors close(2) gives back; a virtual socket has none.
Closes(ids) == { sockets[id].s : id \in { i \in ids : ~sockets[i].isPayVirtual } }

Made == { id \in Ids : sockets[id].use # "new" }

CloseSockets(ids) ==
  /\ sockets' = [id \in Ids |-> IF id \in ids THEN [New EXCEPT !.use = "closed"]
                                               ELSE sockets[id]]
  /\ openFds' = openFds \ Closes(ids)
  /\ connector' = [id \in Ids |-> IF id \in ids /\ Busy(id)
                                  THEN [connector[id] EXCEPT !.heir = Cardinality(Made) + 1]
                                  ELSE connector[id]]
  /\ ghost' = [ghost EXCEPT !.stray = ghost.stray \/ \E id \in ids : Busy(id)]

MayClose(id) == Open(id) /\ (Busy(id) => CloseEarly)

my_closeSocket(id) ==
  /\ GuestFree /\ MayClose(id)
  /\ CloseSockets({id})
  /\ UNCHANGED <<dnsVars, isCMWAP, sending>>

my_closeNetwork ==
  LET ids == { id \in Ids : Open(id) } IN
  /\ GuestFree
  /\ \A id \in ids : MayClose(id)
  /\ CloseSockets(ids)
  /\ dnsMapGeneration < MaxGeneration /\ invalidateDnsRoutes
  /\ UNCHANGED <<dnsMap, dnsRouteSequence, lookup, isCMWAP, sending>>

-----------------------------------------------------------------------------
(* my_connect                                                              *)

\* The socket given to the payment service: its descriptor is closed for good.
Virtual(socket) ==
  [socket EXCEPT !.s = NoFd, !.isPayVirtual = TRUE, !.state = Success,
                 !.realState = Success]

DropsDescriptor(id) == openFds' = openFds \ {sockets[id].s}

ConnectsToPay(id) ==
  /\ Sets(id, Virtual(sockets[id]))
  /\ DropsDescriptor(id)
  /\ UNCHANGED connector

ConnectsToProxy(id) ==
  /\ Sets(id, [sockets[id] EXCEPT !.state = Success, !.realState = Waiting])
  /\ UNCHANGED <<openFds, connector>>

ConnectsAsync(id) ==
  /\ connector' = [connector EXCEPT ![id].pc = "connect"]
  /\ UNCHANGED <<sockets, openFds>>

\* No thread for the connect: the socket has failed.
ConnectFails(id) ==
  /\ Sets(id, [sockets[id] EXCEPT !.state = Failure, !.realState = Failure])
  /\ UNCHANGED <<openFds, connector>>

\* A connect that blocks returns its result and leaves both states alone.
ConnectsBlocking(id) ==
  UNCHANGED <<sockets, openFds, connector>>

IsProxy(id, ip) == ip = ProxyIp /\ sockets[id].cmwapMode

\* A guest connects a socket that has not told it of a result yet.
my_connect(id, ip, port) ==
  LET e == applyDnsMappedRoute(ip, port) IN
  /\ GuestFree /\ Open(id) /\ ~Busy(id) /\ sockets[id].state = Waiting
  /\ \/ e = PayEndpoint /\ ConnectsToPay(id)
     \/ e # PayEndpoint /\ IsProxy(id, e.ip) /\ ConnectsToProxy(id)
     \/ /\ e # PayEndpoint /\ ~IsProxy(id, e.ip)
        /\ ConnectsAsync(id) \/ ConnectFails(id) \/ ConnectsBlocking(id)
  /\ UNCHANGED <<dnsVars, isCMWAP, sending, ghost>>

-----------------------------------------------------------------------------
(* my_connectAsync, on its own thread.  It holds a pointer to the socket:  *)
(* after a close the memory is free, or that of a socket made since.       *)

Nowhere == 0
PointsAt(id) ==
  IF Open(id) THEN {id} ELSE {Nowhere} \cup { m \in Ids : m >= connector[id].heir /\ Open(m) }

Writes(at, socket) ==
  IF at = Nowhere THEN UNCHANGED sockets ELSE Sets(at, socket)

\* my_connectSync, and the first of the two writes.
ConnectorWritesReal(id) ==
  /\ connector[id].pc = "connect"
  /\ \E result \in {Success, Failure}, at \in PointsAt(id) :
       /\ Writes(at, [sockets[at] EXCEPT !.realState = result])
       /\ connector' = [connector EXCEPT ![id].pc = "state", ![id].result = result]
  /\ UNCHANGED <<dnsVars, isCMWAP, openFds, sending, ghost>>

\* Mutant: the mode of the bridge in place of the mode the socket was made in.
shows_in_cmnet(at, result) == IF isCMWAP THEN sockets[at].state ELSE result

Shown(at, result) == IF sockets[at].cmwapMode THEN sockets[at].state ELSE result

ConnectorWritesState(id) ==
  LET result == connector[id].result IN
  /\ connector[id].pc = "state"
  /\ \E at \in PointsAt(id) :
       Writes(at, [sockets[at] EXCEPT !.state = Shown(at, result)])
  /\ connector' = [connector EXCEPT ![id] = NoConnector]
  /\ UNCHANGED <<dnsVars, isCMWAP, openFds, sending, ghost>>

-----------------------------------------------------------------------------
(* my_send.  In CMWAP mode the first send on an unconnected socket looks   *)
(* up the host named in the request and connects to it.                    *)

Counted(socket) == [socket EXCEPT !.sent = socket.cmwapMode]

DefersConnect(id) ==
  sockets[id].cmwapMode /\ sockets[id].realState = Waiting /\ ~sockets[id].sent

\* Sent as it is, or refused; a request without a host ends here too.
SendsPlainly(id) ==
  /\ GuestFree /\ Open(id) /\ ~sockets[id].isPayVirtual
  /\ Sets(id, Counted(sockets[id]))
  /\ UNCHANGED <<dnsVars, isCMWAP, openFds, connector, sending, ghost>>

SendLooksUp(id) ==
  /\ GuestFree /\ Open(id) /\ ~sockets[id].isPayVirtual /\ DefersConnect(id)
  /\ \E name \in Names : getDnsLookupTarget(Guest, name)
  /\ Sets(id, Counted(sockets[id]))
  /\ sending' = id
  /\ UNCHANGED <<isCMWAP, openFds, connector, ghost>>

SendConnectsHost(id) ==
  /\ \E r \in {sockets[id].realState, Success} :
       Sets(id, [sockets[id] EXCEPT !.realState = r])
  /\ UNCHANGED openFds

SendConnectsProxy(id) ==
  /\ Sets(id, [sockets[id] EXCEPT !.state = Success, !.realState = Success])
  /\ UNCHANGED openFds

SendConnectsPay(id) ==
  /\ Sets(id, Virtual(sockets[id]))
  /\ DropsDescriptor(id)

\* The answer of the lookup, and the connect to what it stands for by then.
SendConnects(id, value, port) ==
  LET e == applyDnsMappedRoute(value, port)' IN
  /\ sending = id
  /\ LookupAnswers(Guest, value)
  /\ \/ value = Failed /\ UNCHANGED <<sockets, openFds>>
     \/ value # Failed /\ e = PayEndpoint /\ SendConnectsPay(id)
     \/ value # Failed /\ e # PayEndpoint /\ e.ip = ProxyIp /\ SendConnectsProxy(id)
     \/ value # Failed /\ e # PayEndpoint /\ e.ip # ProxyIp /\ SendConnectsHost(id)
  /\ sending' = 0
  /\ UNCHANGED <<isCMWAP, connector, ghost>>

-----------------------------------------------------------------------------
(* my_recv changes a socket in one case only: the peer has closed it, and  *)
(* the bridge does too.                                                    *)

RecvSeesClose(id) ==
  /\ GuestFree /\ Open(id)
  /\ ~sockets[id].isPayVirtual /\ sockets[id].realState = Success
  /\ CloseSockets({id})
  /\ UNCHANGED <<dnsVars, isCMWAP, sending>>

-----------------------------------------------------------------------------

GuestLooksUp(name) ==
  GuestFree /\ getDnsLookupTarget(Guest, name) /\ UNCHANGED socketVars

Configures == GuestFree /\ my_configureDnsMap /\ UNCHANGED socketVars

ThreadLooksUp(c, name) ==
  c # Guest /\ getDnsLookupTarget(c, name) /\ UNCHANGED socketVars

\* A lookup of its own comes back: the guest's call, or a callback on the thread.
LookupReturns(c) ==
  /\ c = Guest => sending = 0
  /\ \E value \in Values : LookupAnswers(c, value)
  /\ UNCHANGED socketVars

Connector(id) ==
  ConnectorWritesReal(id) \/ ConnectorWritesState(id)

SendReturns(id) ==
  \E value \in Values, port \in Ports : SendConnects(id, value, port)

GuestCalls(id) ==
  \/ my_closeSocket(id)
  \/ \E ip \in Known : \E port \in Ports : my_connect(id, ip, port)
  \/ SendsPlainly(id) \/ SendLooksUp(id)
  \/ SendReturns(id)
  \/ RecvSeesClose(id)

Next ==
  \/ \E mode \in {"cmnet", "cmwap"} : my_initNetwork(mode)
  \/ my_socket \/ my_closeNetwork \/ Configures
  \/ \E name \in Names : GuestLooksUp(name)
  \/ \E c \in Callers : LookupReturns(c)
  \/ \E c \in Callers, name \in Names : ThreadLooksUp(c, name)
  \/ \E id \in Ids : GuestCalls(id) \/ Connector(id)

Spec == Init /\ [][Next]_vars

\* connect comes back, after its timeout at the latest.
Fairness == \A id \in Ids : WF_vars(Connector(id))

FairSpec == Spec /\ Fairness

-----------------------------------------------------------------------------

Socket == [use : {"new", "open", "closed"}, s : Fds \cup {NoFd},
           realState : States, state : States, cmwapMode : BOOLEAN,
           sent : BOOLEAN, isPayVirtual : BOOLEAN]

TypeOK ==
  /\ DnsTypeOK
  /\ isCMWAP \in BOOLEAN
  /\ sockets \in [Ids -> Socket]
  /\ openFds \subseteq Fds
  /\ connector \in [Ids -> [pc : {"none", "connect", "state"}, result : States,
                           heir : 0..(MaxSockets + 1)]]
  /\ sending \in {0} \cup Ids

OpenIds == { id \in Ids : Open(id) }
Owns(id) == Open(id) /\ sockets[id].s # NoFd

\* Every open descriptor belongs to exactly one open socket, and every socket that
\* is not virtual has one: none leaks when a socket turns virtual or its peer
\* closes it, and none is closed that the host has given to another socket since.
DescriptorsOwnedOnce ==
  /\ openFds = { sockets[id].s : id \in { i \in Ids : Owns(i) } }
  /\ \A id, other \in Ids :
       Owns(id) /\ Owns(other) /\ sockets[id].s = sockets[other].s => id = other
  /\ \A id \in Ids : Open(id) /\ ~sockets[id].isPayVirtual => Owns(id)

\* "In cmnet mode [state is] always the same as realState" (network.c:51), between
\* the calls of the guest and but for the moment a connect thread writes them, also
\* when the mode changes while the thread connects, unless a socket was closed
\* under its thread.
StateIsReal ==
  \A id \in Ids :
    /\ Open(id) /\ ~sockets[id].cmwapMode
    /\ ~ghost.stray /\ connector[id].pc # "state"
    => sockets[id].state = sockets[id].realState

\* A connect thread writes its result into the socket it was started for, and into
\* no other.
ResultIsOwn ==
  [][\A id, other \in Ids :
       id # other /\ connector[other].pc = "connect" /\ connector'[other].pc # "connect"
         => sockets'[id] = sockets[id]]_vars

\* A connect that does not block is answered: a socket made after the guest asked for
\* CMNET does not stay "visibly WAITING" (network.c:881-883), whatever mode was in
\* use before or comes after.
ConnectIsAnswered ==
  \A id \in Ids :
    Busy(id) /\ ghost.wanted[id] = "cmnet"
      ~> ~Open(id) \/ sockets[id].state # Waiting
=============================================================================
