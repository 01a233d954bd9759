------------------------------ MODULE DnsRoutes ------------------------------
(***************************************************************************)
(* The DNS half of ohos_src/network.c: the map of host names the front end *)
(* configures, the lookups of the guest, and the route tokens.  A name may *)
(* be mapped to a host and a port; the guest then receives, in place of an *)
(* address, a token that stands for both until the map changes.            *)
(*                                                                         *)
(* A lookup takes its target under dnsMapLock, asks getaddrinfo with no    *)
(* lock held, and makes its route under the lock again.  Lookups run on    *)
(* the guest's thread or on detached threads nobody joins, so an answer    *)
(* may come when the map it was asked under is gone.                       *)
(***************************************************************************)
EXTENDS Integers, FiniteSets

CONSTANTS
  Names,        \* host names
  Ips,          \* addresses getaddrinfo answers with
  Ports,        \* ports that occur in maps
  Callers,      \* threads that look names up
  MaxRoutes,    \* SKYENGINE_DNS_ROUTE_MAX
  SeqRange,     \* dnsRouteSequence counts modulo this (2^28)
  Prefix,       \* VMRP_DNS_ROUTE_TOKEN_PREFIX
  MaxGeneration \* bound on dnsMapGeneration

\* No answer of getaddrinfo is an address of the class the tokens are taken from.
ASSUME DnsAssumption ==
  /\ Ips \subseteq 0..(Prefix - 1)
  /\ Ports \subseteq Nat \ {0}
  /\ MaxRoutes \in Nat /\ SeqRange \in Nat \ {0} /\ Prefix \in Nat
  /\ MaxRoutes + 1 < SeqRange
  /\ MaxGeneration \in Nat

VARIABLES
  dnsMap,             \* what each name is mapped to; the last entry of a name counts
  dnsMapGeneration,
  dnsRoutes,
  dnsRouteSequence,
  lookup,             \* the DnsLookupTarget of each thread that waits for getaddrinfo
  promised            \* history: the tokens handed out under this map, and what for

dnsVars == <<dnsMap, dnsMapGeneration, dnsRoutes, dnsRouteSequence, lookup, promised>>

Failed     == -1      \* MR_FAILED; as a token UINT32_MAX, the one that is skipped
NoPort     == 0       \* no entry, or one that gives no port: looked up all the same
Entries    == Ports \cup {NoPort}
Tokens     == { Prefix + n : n \in 0..(SeqRange - 2) }
Route      == [token : Tokens, ip : Ips, port : Ports, generation : Nat]

Idle == [pc |-> "idle"]
Target(name) ==
  [pc |-> "resolving", port |-> dnsMap[name], generation |-> dnsMapGeneration]

DnsInit ==
  /\ dnsMap = [n \in Names |-> NoPort] /\ dnsMapGeneration = 0
  /\ dnsRoutes = {} /\ dnsRouteSequence = 0
  /\ lookup = [c \in Callers |-> Idle]
  /\ promised = {}

-----------------------------------------------------------------------------

invalidateDnsRoutes ==
  /\ dnsRoutes' = {}
  /\ dnsMapGeneration' = dnsMapGeneration + 1
  /\ promised' = {}

\* An entry that cannot be parsed empties the map; the routes are gone all the same.
my_configureDnsMap ==
  /\ dnsMapGeneration < MaxGeneration
  /\ invalidateDnsRoutes
  /\ dnsMap' \in [Names -> Entries]
  /\ UNCHANGED <<dnsRouteSequence, lookup>>

-----------------------------------------------------------------------------
(* A lookup, and the route it makes.                                       *)

getDnsLookupTarget(c, name) ==
  /\ lookup[c].pc = "idle"
  /\ lookup' = [lookup EXCEPT ![c] = Target(name)]
  /\ UNCHANGED <<dnsMap, dnsMapGeneration, dnsRoutes, dnsRouteSequence, promised>>

\* Mutant: a route may be made for a map that is gone.
ignores_generation(target) == TRUE

StillCurrent(target) == target.generation = dnsMapGeneration

\* Mutant: a route for the same port serves, whatever its address.
same_port(target, ip) ==
  { r \in dnsRoutes : r.generation = target.generation /\ r.port = target.port }

SameEndpoint(target, ip) ==
  { r \in dnsRoutes : r.generation = target.generation /\ r.ip = ip /\ r.port = target.port }

InUse(token) == \E r \in dnsRoutes : r.token = token
Seq(k)       == (dnsRouteSequence + k) % SeqRange
Token(k)     == Prefix + Seq(k)

\* The first number of the sequence whose token is neither UINT32_MAX nor in use.
Usable(k)    == Seq(k) # SeqRange - 1 /\ ~InUse(Token(k))
FirstFree(k) == Usable(k) /\ \A j \in 1..(k - 1) : ~Usable(j)

Promises(token, target, ip) ==
  promised' = promised \cup {[token |-> token, ip |-> ip, port |-> target.port,
                             generation |-> target.generation]}

ReusesRoute(target, ip, token) ==
  /\ \E r \in SameEndpoint(target, ip) : token = r.token
  /\ Promises(token, target, ip)
  /\ UNCHANGED <<dnsRoutes, dnsRouteSequence>>

MakesRoute(target, ip, token) ==
  /\ SameEndpoint(target, ip) = {}
  /\ Cardinality(dnsRoutes) < MaxRoutes
  /\ \E k \in 1..SeqRange :
       /\ FirstFree(k) /\ token = Token(k)
       /\ dnsRouteSequence' = Seq(k)
  /\ dnsRoutes' = dnsRoutes \cup {[token |-> token, ip |-> ip, port |-> target.port,
                                  generation |-> target.generation]}
  /\ Promises(token, target, ip)

RouteTableFull(target, ip) ==
  SameEndpoint(target, ip) = {} /\ Cardinality(dnsRoutes) >= MaxRoutes

\* createDnsMappedRoute, for a target with a port: the lookup was overtaken by a new
\* map, the table is full, or there is a token.
createDnsMappedRoute(target, ip, value) ==
  \/ StillCurrent(target) /\ ReusesRoute(target, ip, value)
  \/ StillCurrent(target) /\ MakesRoute(target, ip, value)
  \/ /\ ~StillCurrent(target) \/ RouteTableFull(target, ip)
     /\ value = Failed
     /\ UNCHANGED <<dnsRoutes, dnsRouteSequence, promised>>

\* The rest of my_getHostByNameSync: getaddrinfo fails, or answers with ip.  The
\* caller gets value.
LookupAnswers(c, value) ==
  LET target == lookup[c] IN
  /\ target.pc = "resolving"
  /\ lookup' = [lookup EXCEPT ![c] = Idle]
  /\ \/ target.port \in Ports /\ \E ip \in Ips : createDnsMappedRoute(target, ip, value)
     \/ /\ value = Failed \/ (value \in Ips /\ target.port \notin Ports)
        /\ UNCHANGED <<dnsRoutes, dnsRouteSequence, promised>>
  /\ UNCHANGED <<dnsMap, dnsMapGeneration>>

Values == { Prefix + n : n \in 0..(SeqRange - 1) } \cup Ips \cup {Failed}

-----------------------------------------------------------------------------
(* applyDnsMappedRoute: what an address and a port of the guest stand for. *)

Matches(ip) == { r \in dnsRoutes : r.token = ip /\ r.generation = dnsMapGeneration }

Endpoint(ip, port) == [ip |-> ip, port |-> port]

applyDnsMappedRoute(ip, port) ==
  IF Matches(ip) = {} THEN Endpoint(ip, port)
  ELSE LET r == CHOOSE r \in Matches(ip) : TRUE IN Endpoint(r.ip, r.port)

-----------------------------------------------------------------------------

DnsTypeOK ==
  /\ dnsMap \in [Names -> Entries]
  /\ dnsMapGeneration \in Nat
  /\ dnsRoutes \subseteq Route /\ IsFiniteSet(dnsRoutes)
  /\ dnsRouteSequence \in 0..(SeqRange - 1)
  /\ promised \subseteq Route

\* A token stands for the endpoint it was handed out for as long as the map it was
\* made under is the current one, also while the table fills up and the sequence
\* wraps: "a distinct DNS answer gets an immutable route, so it cannot redirect a
\* token already returned to the guest" (network.c:396-397).
TokensAreImmutable ==
  \A p \in promised : \A port \in Ports :
    p.generation = dnsMapGeneration
      => applyDnsMappedRoute(p.token, port) = Endpoint(p.ip, p.port)

\* Every route was looked up in the map that is configured now: a lookup begun
\* under an old map makes no route in the new one, where it would take a place in
\* the table and its token would match nothing, and no route outlives its map.
RoutesFollowMap ==
  \A r \in dnsRoutes :
    r.generation = dnsMapGeneration /\ \E name \in Names : dnsMap[name] = r.port
=============================================================================
