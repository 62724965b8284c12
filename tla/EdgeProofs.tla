------------------------------ MODULE EdgeProofs ------------------------------
(***************************************************************************)
(* The public side of the server, in three parts that share no state.      *)
(*                                                                         *)
(* EdgeProxy: what the edge dials, for any requests, resources, clients,   *)
(* answers of the resolver and timeouts.  The inductive invariant says of  *)
(* a request in progress that it carries one published resource which      *)
(* admits its client, that what it dialled is that resource's and passed   *)
(* the guard, and of the cache that an entry in use is no older than its   *)
(* stamp and one lookup.                                                   *)
(*                                                                         *)
(* RateLimiter: the budget of a key holds for any number of request        *)
(* threads, keys and cells.  The inductive invariant ties the history      *)
(* variable to the map: what a key may still spend is a whole burst while  *)
(* the key is away, and at least what its entry has left while it is there.*)
(*                                                                         *)
(* Certificates: no failure of a renewal leaves files that the server      *)
(* would not replace and cannot load, the listeners serve what is on disk, *)
(* and the served certificate is in date while fewer than Threshold        *)
(* renewals in a row failed: for any lifetime, threshold, horizon and      *)
(* number of faults.  The invariant follows an attempt.  Until the         *)
(* certificate is renamed the one on disk is outdated, so a new key beside *)
(* it is not mistaken for a pair in force; from then on both files are     *)
(* those of the last order.  Each failed attempt costs the served          *)
(* certificate one day of its margin.                                      *)
(***************************************************************************)
EXTENDS EdgeProxy, RateLimiter, Certificates, FiniteSetTheorems, TLAPS

Request == [pc: {"idle", "manager", "peer", "lookup", "answer", "upstream"},
            host: {"app", "admin", "other", "none"}, client: Client, resource: Resource,
            manager: {"none", "live", "ended"},
            waited: 0..DNS_LOOKUP_TIMEOUT, answer: Seq(Address), since: Nat,
            upstream: [target: Target, relay: BOOLEAN, ip: Address \cup {NoAddress}, age: Nat]]

EdgeTypeOK ==
    /\ route \in Resources \cup {NoRoute}
    /\ online \in BOOLEAN
    /\ dns_cache \in [age: 0..DNS_CACHE_TTL, addrs: Seq(Address), since: Nat]

\* The request is that of one resource.
Routed(q) ==
    q.pc # "idle" =>
        /\ q.resource \in Resources \cup {ADMIN}
        /\ Admits(q.resource.allowed, q.client)
        /\ q.resource = ADMIN <=> q.host = "admin"

\* The lookup is for a target that passed the guards, and its answer came after it began.
Looking(q) ==
    /\ q.pc \in {"lookup", "answer"} => ~q.resource.relay /\ TargetAllowed(q.resource)
    /\ q.since <= q.waited

\* The upstream is the resource's, and its address passed the check of its side.
Dialled(q) ==
    q.pc = "upstream" =>
        /\ q.upstream.target = q.resource.target /\ q.upstream.relay = q.resource.relay
        /\ q.upstream.ip \in Address
        /\ q.upstream.relay => ~is_strictly_dangerous_ip(q.upstream.ip)
        /\ ~q.upstream.relay => is_local_direct_target_ip(q.upstream.ip) /\ TargetAllowed(q.resource)
        /\ q.upstream.age <= DNS_CACHE_TTL + DNS_LOOKUP_TIMEOUT

RequestOK(q) == Routed(q) /\ Looking(q) /\ Dialled(q)

CacheOK == Cached => dns_cache.since <= dns_cache.age + DNS_LOOKUP_TIMEOUT

RequestsOK ==
    /\ req \in [Requests -> Request]
    /\ \A r \in Requests : RequestOK(req[r])

EdgeInv == EdgeTypeOK /\ RequestsOK /\ CacheOK

-----------------------------------------------------------------------------
\* The constants of the proxy have the types of what they stand for.
LEMMA Constants ==
    /\ Resources \subseteq Resource /\ ADMIN \in Resource /\ NoRoute \in Resource
    /\ Idle \in Request /\ RequestOK(Idle)
<1> USE EdgeAssumption
<1>1. Resources \subseteq Resource
  BY DEF Resource, Target
<1>2. ADMIN \in Resource
  <2>1. [form |-> "v4", kind |-> "loopback"] \in Address
    BY DEF Address
  <2>2. ASSUME NEW h \in Address
        PROVE  [host |-> h, port |-> "admin", parses |-> TRUE] \in Target
    BY DEF Target
  <2>3. ASSUME NEW t \in Target
        PROVE  [target |-> t, relay |-> FALSE, allowed |-> {}] \in Resource
    BY DEF Resource
  <2> QED BY <2>1, <2>2, <2>3, Zenon DEF ADMIN
<1>3. NoRoute \in Resource
  <2>1. [host |-> Name, port |-> "none", parses |-> FALSE] \in Target
    BY DEF Target
  <2>2. Unparsable \in SUBSET Block
    BY DEF Unparsable, Block
  <2>3. ASSUME NEW t \in Target, NEW b \in SUBSET Block
        PROVE  [target |-> t, relay |-> FALSE, allowed |-> b] \in Resource
    BY DEF Resource
  <2> QED BY <2>1, <2>2, <2>3, Zenon DEF NoRoute
<1>4. NoRoute.target \in Target
  BY <1>3 DEF Resource
<1>5. Idle \in Request
  <2> DEFINE up == [target |-> NoRoute.target, relay |-> FALSE, ip |-> NoAddress, age |-> 0]
  <2>1. up \in [target: Target, relay: BOOLEAN, ip: Address \cup {NoAddress}, age: Nat]
    BY <1>4
  <2>2. NoClient \in Client
    BY DEF NoClient, Client
  <2>3. Idle = [pc |-> "idle", host |-> "none", client |-> NoClient, resource |-> NoRoute,
                manager |-> "none", waited |-> 0, answer |-> <<>>, since |-> 0, upstream |-> up]
    BY DEF Idle
  <2>4. 0 \in 0..DNS_LOOKUP_TIMEOUT /\ <<>> \in Seq(Address)
    OBVIOUS
  <2> HIDE DEF up
  <2> QED BY <1>3, <2>1, <2>2, <2>3, <2>4 DEF Request
<1>6. RequestOK(Idle)
  BY DEF Idle, RequestOK, Routed, Looking, Dialled
<1> QED
  BY <1>1, <1>2, <1>3, <1>5, <1>6

\* The proxy starts with no request, no route and an empty cache.
LEMMA StartsSafe == EdgeInit => EdgeInv
<1> SUFFICES ASSUME EdgeInit PROVE EdgeInv
  OBVIOUS
<1>1. EdgeTypeOK
  <2>1. online \in BOOLEAN /\ route = NoRoute
    BY Zenon DEF EdgeInit
  <2>2. dns_cache \in [age: 0..DNS_CACHE_TTL, addrs: Seq(Address), since: Nat]
    BY EdgeAssumption DEF EdgeInit, NoEntry
  <2> QED BY <2>1, <2>2 DEF EdgeTypeOK
<1>2. RequestsOK
  BY Constants DEF EdgeInit, RequestsOK
<1>3. CacheOK
  BY EdgeAssumption DEF EdgeInit, CacheOK, Cached, NoEntry
<1> QED
  BY <1>1, <1>2, <1>3 DEF EdgeInv

-----------------------------------------------------------------------------
\* A step of one request keeps the invariant of all if it keeps that one's.
LEMMA OneChanges ==
    ASSUME RequestsOK, NEW r \in Requests, NEW q \in Request, RequestOK(q),
           req' = [req EXCEPT ![r] = q]
    PROVE  RequestsOK'
<1>1. req' \in [Requests -> Request]
  BY DEF RequestsOK
<1>2. ASSUME NEW s \in Requests PROVE RequestOK(req'[s])
  <2>1. req'[s] = IF s = r THEN q ELSE req[s]
    BY DEF RequestsOK
  <2>2. RequestOK(req[s])
    BY DEF RequestsOK
  <2> QED BY <2>1, <2>2
<1> QED
  BY <1>1, <1>2 DEF RequestsOK

\* A request that is answered is over.
LEMMA Responds ==
    ASSUME RequestsOK, NEW r \in Requests, Respond(r)
    PROVE  RequestsOK'
BY Constants, OneChanges, Zenon DEF Respond

\* A request that goes on with what it has, to a place that asks for nothing more.
LEMMA GoesOn ==
    ASSUME RequestsOK, NEW r \in Requests, Goto(r, "peer"), ~At(r, "idle")
    PROVE  RequestsOK'
<1> DEFINE q == [req[r] EXCEPT !.pc = "peer"]
<1>1. req[r] \in Request /\ RequestOK(req[r])
  BY DEF RequestsOK
<1>2. q \in Request
  BY <1>1 DEF Request
<1>3. RequestOK(q)
  BY <1>1 DEF Request, RequestOK, Routed, Looking, Dialled, At
<1>4. req' = [req EXCEPT ![r] = q]
  BY DEF Goto, RequestsOK
<1> HIDE DEF q
<1> QED
  BY <1>2, <1>3, <1>4, OneChanges, Zenon

\* A connection to an address that passed its check.
LEMMA Opens ==
    ASSUME RequestsOK, NEW r \in Requests, NEW ip \in Address, NEW age \in Nat, ~At(r, "idle"),
           Open(r, req[r].resource.target, req[r].resource.relay, ip, age),
           req[r].resource.relay => ~is_strictly_dangerous_ip(ip),
           ~req[r].resource.relay => is_local_direct_target_ip(ip) /\ TargetAllowed(req[r].resource),
           age <= DNS_CACHE_TTL + DNS_LOOKUP_TIMEOUT
    PROVE  RequestsOK'
<1> DEFINE res == req[r].resource
           up == [target |-> res.target, relay |-> res.relay, ip |-> ip, age |-> age]
           q == [req[r] EXCEPT !.pc = "upstream", !.answer = <<>>, !.since = 0, !.waited = 0,
                               !.upstream = up]
<1>1. req[r] \in Request /\ RequestOK(req[r]) /\ res \in Resource
  BY DEF RequestsOK, Request
<1>2. up \in [target: Target, relay: BOOLEAN, ip: Address \cup {NoAddress}, age: Nat]
  BY <1>1 DEF Resource
<1>3. req' = [req EXCEPT ![r] = q]
  BY Zenon DEF Open, RequestsOK
<1>4. up.target = res.target /\ up.relay = res.relay /\ up.ip = ip /\ up.age = age
  OBVIOUS
<1> HIDE DEF up
<1>5. q \in Request
  <2>1. 0 \in 0..DNS_LOOKUP_TIMEOUT /\ <<>> \in Seq(Address) /\ 0 \in Nat
    BY EdgeAssumption
  <2> QED BY <1>1, <1>2, <2>1, Zenon DEF Request
<1>6. /\ q.pc = "upstream" /\ q.host = req[r].host /\ q.client = req[r].client
      /\ q.resource = res /\ q.since = 0 /\ q.waited = 0 /\ q.upstream = up
  BY <1>1 DEF Request
<1> HIDE DEF q
<1>7. Routed(q) /\ Looking(q)
  BY <1>1, <1>6 DEF RequestOK, Routed, Looking, At
<1>8. Dialled(q)
  BY <1>4, <1>6 DEF Dialled
<1> QED
  BY <1>3, <1>5, <1>7, <1>8, OneChanges, Zenon DEF RequestOK

\* The first address that is allowed, of a list no older than the bound.
LEMMA OpensFirst ==
    ASSUME RequestsOK, NEW r \in Requests, NEW addrs \in Seq(Address), NEW age \in Nat,
           ~At(r, "idle"), ~req[r].resource.relay, TargetAllowed(req[r].resource),
           OpenFirst(r, addrs, age), age <= DNS_CACHE_TTL + DNS_LOOKUP_TIMEOUT
    PROVE  RequestsOK'
<1>1. CASE Respond(r)
  BY <1>1, Responds
<1>2. ASSUME NEW i \in DOMAIN addrs, is_local_direct_target_ip(addrs[i]),
             Open(r, req[r].resource.target, FALSE, addrs[i], age)
      PROVE  RequestsOK'
  <2>1. addrs[i] \in Address
    OBVIOUS
  <2>2. req[r].resource.relay = FALSE
    BY DEF RequestsOK, Request, Resource
  <2> QED BY <1>2, <2>1, <2>2, Opens, Zenon
<1> QED
  BY <1>1, <1>2, Zenon DEF OpenFirst

-----------------------------------------------------------------------------
\* A new request takes the resource that is published, once.
LEMMA ArrivesSafe ==
    ASSUME EdgeInv, NEW r \in Requests, RequestArrives(r)
    PROVE  RequestsOK'
<1>1. PICK host \in {"app", "admin", "other"}, peer \in Clients :
        LET client == client_ip_from_peer(peer)
            resource == CASE host = "admin" -> ADMIN
                          [] host = "app" -> route
                          [] host = "other" -> NoRoute
        IN  /\ resource # NoRoute /\ client.form # "unknown"
            /\ Admits(resource.allowed, client)
            /\ req' = [req EXCEPT ![r].pc = "manager", ![r].host = host, ![r].client = client,
                                  ![r].resource = resource]
  BY Zenon DEF RequestArrives
<1> DEFINE client == client_ip_from_peer(peer)
           resource == CASE host = "admin" -> ADMIN
                         [] host = "app" -> route
                         [] host = "other" -> NoRoute
           q == [req[r] EXCEPT !.pc = "manager", !.host = host, !.client = client,
                               !.resource = resource]
<1>2. client \in Client
  <2>1. peer \in Client
    BY EdgeAssumption
  <2> QED BY <2>1 DEF client_ip_from_peer, Canonical, Client
<1>3. /\ resource \in Resources \cup {ADMIN}
      /\ resource = ADMIN <=> host = "admin"
  BY <1>1, EdgeAssumption DEF EdgeInv, EdgeTypeOK
<1>4. resource \in Resource /\ Admits(resource.allowed, client)
  BY <1>1, <1>3, Constants
<1>5. req' = [req EXCEPT ![r] = q]
  BY <1>1, Zenon DEF EdgeInv, RequestsOK
<1> HIDE DEF client, resource
<1>6. req[r] \in Request /\ RequestOK(req[r])
  BY DEF EdgeInv, RequestsOK
<1>7. q \in Request
  BY <1>2, <1>4, <1>6, Zenon DEF Request
<1>8. /\ q.pc = "manager" /\ q.host = host /\ q.client = client /\ q.resource = resource
      /\ q.since = req[r].since /\ q.waited = req[r].waited
  BY <1>6 DEF Request
<1> HIDE DEF q
<1>9. RequestOK(q)
  BY <1>3, <1>4, <1>6, <1>8 DEF RequestOK, Routed, Looking, Dialled
<1> QED
  BY <1>5, <1>7, <1>9, OneChanges, Zenon DEF EdgeInv

\* The lookup of a session changes nothing that the invariant speaks of.
LEMMA ManagerSafe ==
    ASSUME EdgeInv, NEW r \in Requests, GetManager(r)
    PROVE  RequestsOK'
<1> DEFINE q == [req[r] EXCEPT !.pc = "peer", !.manager = "live"]
<1>1. req[r] \in Request /\ RequestOK(req[r]) /\ ~At(r, "idle") /\ RequestsOK
  BY DEF EdgeInv, RequestsOK, GetManager, At
<1>2. CASE Goto(r, "peer")
  BY <1>1, <1>2, GoesOn
<1>3. CASE Respond(r)
  BY <1>1, <1>3, Responds
<1>4. CASE req' = [req EXCEPT ![r].pc = "peer", ![r].manager = "live"]
  <2>1. q \in Request
    BY <1>1, Zenon DEF Request
  <2>2. RequestOK(q)
    BY <1>1 DEF Request, RequestOK, Routed, Looking, Dialled, At
  <2>3. req' = [req EXCEPT ![r] = q]
    BY <1>1, <1>4, Zenon DEF RequestsOK
  <2> HIDE DEF q
  <2> QED BY <1>1, <2>1, <2>2, <2>3, OneChanges, Zenon
<1> QED
  BY <1>2, <1>3, <1>4 DEF GetManager

\* A direct peer is an address of the guarded target, or a lookup of it begins.
LEMMA PeerSafe ==
    ASSUME EdgeInv, NEW r \in Requests, Peer(r)
    PROVE  RequestsOK'
<1> DEFINE target == req[r].resource.target
<1>1. /\ req[r] \in Request /\ RequestOK(req[r]) /\ RequestsOK
      /\ At(r, "peer") /\ ~At(r, "idle") /\ ~req[r].resource.relay
  BY DEF EdgeInv, RequestsOK, Peer, At
<1>2. target \in Target /\ req[r].resource.relay = FALSE
  BY <1>1 DEF Request, Resource
<1>3. CASE Respond(r)
  BY <1>1, <1>3, Responds
<1>4. CASE /\ TargetAllowed(req[r].resource) /\ target.host # Name
           /\ is_local_direct_target_ip(target.host) /\ Open(r, target, FALSE, target.host, 0)
  <2>1. target.host \in Address
    BY <1>2, <1>4 DEF Target
  <2>2. 0 \in Nat /\ 0 <= DNS_CACHE_TTL + DNS_LOOKUP_TIMEOUT
    BY EdgeAssumption
  <2> QED BY <1>1, <1>2, <1>4, <2>1, <2>2, Opens, Zenon
<1>5. CASE /\ TargetAllowed(req[r].resource) /\ Cached
           /\ OpenFirst(r, dns_cache.addrs, dns_cache.since)
  <2>1. dns_cache \in [age: 0..DNS_CACHE_TTL, addrs: Seq(Address), since: Nat]
    BY DEF EdgeInv, EdgeTypeOK
  <2>2. dns_cache.since <= DNS_CACHE_TTL + DNS_LOOKUP_TIMEOUT
    BY <1>5, <2>1, EdgeAssumption DEF EdgeInv, CacheOK, Cached
  <2> QED BY <1>1, <1>5, <2>1, <2>2, OpensFirst
<1>6. CASE TargetAllowed(req[r].resource) /\ Goto(r, "lookup")
  <2> DEFINE q == [req[r] EXCEPT !.pc = "lookup"]
  <2>1. q \in Request
    BY <1>1 DEF Request
  <2>2. RequestOK(q)
    BY <1>1, <1>6 DEF Request, RequestOK, Routed, Looking, Dialled, At
  <2>3. req' = [req EXCEPT ![r] = q]
    BY <1>1, <1>6 DEF Goto, RequestsOK
  <2> HIDE DEF q
  <2> QED BY <1>1, <2>1, <2>2, <2>3, OneChanges, Zenon
<1> QED
  BY <1>3, <1>4, <1>5, <1>6, Zenon DEF Peer

\* An answer is kept with the request that asked.
LEMMA LookupSafe ==
    ASSUME EdgeInv, NEW r \in Requests, Lookup(r)
    PROVE  RequestsOK'
<1>1. req[r] \in Request /\ RequestOK(req[r]) /\ RequestsOK /\ At(r, "lookup")
  BY DEF EdgeInv, RequestsOK, Lookup
<1>2. CASE Respond(r)
  BY <1>1, <1>2, Responds
<1>3. ASSUME NEW addrs \in Answers, req' = [req EXCEPT ![r].pc = "answer", ![r].answer = addrs]
      PROVE  RequestsOK'
  <2> DEFINE q == [req[r] EXCEPT !.pc = "answer", !.answer = addrs]
  <2>1. addrs \in Seq(Address)
    BY EdgeAssumption
  <2>2. q \in Request
    BY <1>1, <2>1, Zenon DEF Request
  <2>3. RequestOK(q)
    BY <1>1 DEF Request, RequestOK, Routed, Looking, Dialled, At
  <2>4. req' = [req EXCEPT ![r] = q]
    BY <1>1, <1>3, Zenon DEF RequestsOK
  <2> HIDE DEF q
  <2> QED BY <1>1, <2>2, <2>3, <2>4, OneChanges, Zenon
<1> QED
  BY <1>2, <1>3 DEF Lookup

\* The answer is stamped when it is cached, at most a timeout after it came.
LEMMA ReturnsSafe ==
    ASSUME EdgeInv, NEW r \in Requests, LookupReturns(r)
    PROVE  EdgeInv'
<1>1. req[r] \in Request /\ RequestOK(req[r]) /\ RequestsOK /\ At(r, "answer") /\ ~At(r, "idle")
  BY DEF EdgeInv, RequestsOK, LookupReturns, At
<1>2. /\ req[r].answer \in Seq(Address) /\ req[r].since \in Nat
      /\ req[r].since <= DNS_LOOKUP_TIMEOUT
  BY <1>1, EdgeAssumption DEF Request, RequestOK, Looking
<1>3. req[r].since <= DNS_CACHE_TTL + DNS_LOOKUP_TIMEOUT
  BY <1>2, EdgeAssumption
<1>4. ~req[r].resource.relay /\ TargetAllowed(req[r].resource)
  BY <1>1 DEF RequestOK, Looking, At
<1>5. RequestsOK'
  <2>1. OpenFirst(r, req[r].answer, req[r].since)
    BY DEF LookupReturns
  <2> QED BY <1>1, <1>2, <1>3, <1>4, <2>1, OpensFirst
<1>6. dns_cache' = [age |-> 0, addrs |-> req[r].answer, since |-> req[r].since]
  BY DEF LookupReturns
<1>7. EdgeTypeOK'
  <2>1. dns_cache' \in [age: 0..DNS_CACHE_TTL, addrs: Seq(Address), since: Nat]
    BY <1>2, <1>6, EdgeAssumption
  <2> QED BY <2>1 DEF EdgeInv, EdgeTypeOK, LookupReturns
<1>8. CacheOK'
  BY <1>2, <1>6, EdgeAssumption DEF CacheOK
<1> QED
  BY <1>5, <1>7, <1>8 DEF EdgeInv

\* A relayed connection is to an address that connect_backend let through.
LEMMA RelaySafe ==
    ASSUME EdgeInv, NEW r \in Requests, Relay(r)
    PROVE  RequestsOK'
<1> DEFINE target == req[r].resource.target
<1>1. /\ req[r] \in Request /\ RequestsOK /\ ~At(r, "idle")
      /\ req[r].resource.relay
  BY DEF EdgeInv, RequestsOK, Relay, At
<1>2. target \in Target /\ req[r].resource.relay = TRUE
  BY <1>1 DEF Request, Resource
<1>3. CASE Respond(r)
  BY <1>1, <1>3, Responds
<1>4. ASSUME NEW ip \in connect_backend(target), Open(r, target, TRUE, ip, 0)
      PROVE  RequestsOK'
  <2>1. ~is_strictly_dangerous_ip(ip)
    BY <1>4 DEF connect_backend
  <2>2. ip \in Address
    <3>1. CASE target.host = Name
      <4>1. PICK addrs \in Answers : \E i \in DOMAIN addrs : ip = addrs[i]
        BY <1>4, <3>1 DEF connect_backend
      <4>2. addrs \in Seq(Address)
        BY EdgeAssumption
      <4> QED BY <4>1, <4>2
    <3>2. CASE target.host # Name
      <4>1. \E i \in DOMAIN <<target.host>> : ip = <<target.host>>[i]
        BY <1>4, <3>2 DEF connect_backend
      <4>2. ip = target.host
        BY <4>1
      <4> QED BY <1>2, <3>2, <4>2 DEF Target
    <3> QED BY <3>1, <3>2
  <2>3. 0 \in Nat /\ 0 <= DNS_CACHE_TTL + DNS_LOOKUP_TIMEOUT
    BY EdgeAssumption
  <2> QED BY <1>1, <1>2, <1>4, <2>1, <2>2, <2>3, Opens, Zenon
<1> QED
  BY <1>3, <1>4, Zenon DEF Relay

\* A session that ends leaves the requests that hold it as they were but for that.
LEMMA SessionsSafe ==
    ASSUME EdgeInv, SessionChanges
    PROVE  RequestsOK'
<1> SUFFICES ASSUME NEW r \in Requests
             PROVE  req'[r] \in Request /\ RequestOK(req'[r])
  BY DEF SessionChanges, RequestsOK
<1> DEFINE q == [req[r] EXCEPT !.manager = IF @ = "live" THEN "ended" ELSE @]
<1>1. req[r] \in Request /\ RequestOK(req[r])
  BY DEF EdgeInv, RequestsOK
<1>2. req'[r] = q
  BY DEF SessionChanges
<1>3. q \in Request
  BY <1>1, SMTT(60) DEF Request
<1>4. RequestOK(q)
  BY <1>1 DEF Request, RequestOK, Routed, Looking, Dialled
<1> HIDE DEF q
<1> QED
  BY <1>2, <1>3, <1>4

\* Time passes for lookups and their answers alike, and for the entry and its stamp.
LEMMA TickSafe ==
    ASSUME EdgeInv, EdgeTick
    PROVE  EdgeInv'
<1>1. RequestsOK'
  <2> SUFFICES ASSUME NEW r \in Requests
               PROVE  req'[r] \in Request /\ RequestOK(req'[r])
    BY ZenonT(60) DEF EdgeTick, RequestsOK
  <2>1. req[r] \in Request /\ RequestOK(req[r])
    BY DEF EdgeInv, RequestsOK
  <2>2. CASE req[r].pc \notin {"lookup", "answer"}
    BY <2>1, <2>2, ZenonT(60) DEF EdgeTick
  <2>3. CASE req[r].pc \in {"lookup", "answer"}
    <3> DEFINE since == IF At(r, "answer") THEN req[r].since + 1 ELSE req[r].since
               q == [req[r] EXCEPT !.waited = req[r].waited + 1, !.since = since]
    <3>1. req'[r] = q
      BY <2>1, <2>3, Zenon DEF EdgeTick, Request
    <3>2. req[r].waited + 1 \in 0..DNS_LOOKUP_TIMEOUT
      <4>1. req[r].waited \in 0..DNS_LOOKUP_TIMEOUT
        BY <2>1 DEF Request
      <4>2. req[r].waited < DNS_LOOKUP_TIMEOUT
        BY <2>3, ZenonT(60) DEF EdgeTick
      <4> QED BY <4>1, <4>2, EdgeAssumption, SMTT(60)
    <3>3. since \in Nat /\ since <= req[r].waited + 1
      BY <2>1, EdgeAssumption DEF Request, RequestOK, Looking
    <3> HIDE DEF since
    <3>4. q \in Request
      BY <2>1, <3>2, <3>3, Zenon DEF Request
    <3>5. RequestOK(q)
      BY <2>1, <2>3, <3>3, ZenonT(60) DEF Request, RequestOK, Routed, Looking, Dialled
    <3> HIDE DEF q
    <3> QED BY <3>1, <3>4, <3>5
  <2> QED BY <2>2, <2>3
<1> DEFINE oldest == DNS_CACHE_TTL + DNS_LOOKUP_TIMEOUT + 1
           age == IF dns_cache.age < DNS_CACHE_TTL THEN dns_cache.age + 1 ELSE dns_cache.age
           since == IF dns_cache.addrs # <<>> /\ dns_cache.since < oldest
                    THEN dns_cache.since + 1 ELSE dns_cache.since
<1>2. dns_cache \in [age: 0..DNS_CACHE_TTL, addrs: Seq(Address), since: Nat]
  BY DEF EdgeInv, EdgeTypeOK
<1>3. dns_cache' = [dns_cache EXCEPT !.age = age, !.since = since]
  BY <1>2, Zenon DEF EdgeTick
<1>4. age \in 0..DNS_CACHE_TTL /\ since \in Nat
  BY <1>2, EdgeAssumption
<1>5. age < DNS_CACHE_TTL =>
        Cached /\ age = dns_cache.age + 1 /\ since <= dns_cache.since + 1
  BY <1>2, EdgeAssumption DEF Cached
<1> HIDE DEF age, since
<1>6. /\ dns_cache' \in [age: 0..DNS_CACHE_TTL, addrs: Seq(Address), since: Nat]
      /\ dns_cache'.age = age /\ dns_cache'.since = since
  BY <1>2, <1>3, <1>4, Zenon
<1>7. EdgeTypeOK'
  BY <1>6, Zenon DEF EdgeInv, EdgeTypeOK, EdgeTick
<1>8. CacheOK'
  BY <1>2, <1>4, <1>5, <1>6, EdgeAssumption, SMTT(60) DEF EdgeInv, CacheOK, Cached
<1> QED
  BY <1>1, <1>7, <1>8 DEF EdgeInv

-----------------------------------------------------------------------------
\* Every step keeps the invariant.
LEMMA StepSafe == EdgeInv /\ [EdgeNext]_edgeVars => EdgeInv'
<1> SUFFICES ASSUME EdgeInv, [EdgeNext]_edgeVars PROVE EdgeInv'
  OBVIOUS
<1> USE DEF EdgeInv
<1>1. ASSUME UNCHANGED <<route, online, dns_cache>>, RequestsOK' PROVE EdgeInv'
  BY <1>1 DEF EdgeTypeOK, CacheOK, Cached
<1>2. ASSUME UNCHANGED req PROVE RequestsOK'
  BY <1>2 DEF RequestsOK
<1>3. ASSUME NEW r \in Requests, RequestArrives(r) PROVE EdgeInv'
  BY <1>1, <1>3, ArrivesSafe, Zenon DEF RequestArrives
<1>4. ASSUME NEW r \in Requests, GetManager(r) PROVE EdgeInv'
  BY <1>1, <1>4, ManagerSafe DEF GetManager
<1>5. ASSUME NEW r \in Requests, Peer(r) PROVE EdgeInv'
  BY <1>1, <1>5, PeerSafe, Zenon DEF Peer
<1>6. ASSUME NEW r \in Requests, Lookup(r) PROVE EdgeInv'
  BY <1>1, <1>6, LookupSafe DEF Lookup
<1>7. ASSUME NEW r \in Requests, LookupReturns(r) PROVE EdgeInv'
  BY <1>7, ReturnsSafe
<1>8. ASSUME NEW r \in Requests, LookupTimesOut(r) PROVE EdgeInv'
  BY <1>1, <1>8, Responds DEF LookupTimesOut
<1>9. ASSUME NEW r \in Requests, Relay(r) PROVE EdgeInv'
  BY <1>1, <1>9, RelaySafe, Zenon DEF Relay
<1>10. ASSUME NEW r \in Requests, Finish(r) PROVE EdgeInv'
  BY <1>1, <1>10, Responds DEF Finish
<1>11. CASE Publish
  BY <1>2, <1>11 DEF Publish, EdgeTypeOK, CacheOK, Cached
<1>12. CASE SessionChanges
  <2>1. RequestsOK'
    BY <1>12, SessionsSafe
  <2>2. EdgeTypeOK' /\ CacheOK'
    BY <1>12 DEF SessionChanges, EdgeTypeOK, CacheOK, Cached
  <2> QED BY <2>1, <2>2
<1>13. CASE MaintenanceTick
  <2>1. RequestsOK'
    BY <1>2, <1>13 DEF MaintenanceTick
  <2>2. CASE Cached
    BY <1>13, <2>1, <2>2 DEF MaintenanceTick, EdgeTypeOK, CacheOK, Cached
  <2>3. CASE ~Cached
    <3>1. dns_cache' = NoEntry
      BY <1>13, <2>3 DEF MaintenanceTick
    <3>2. EdgeTypeOK'
      BY <1>13, <3>1, EdgeAssumption DEF MaintenanceTick, EdgeTypeOK, NoEntry
    <3>3. CacheOK'
      BY <3>1, EdgeAssumption DEF CacheOK, Cached, NoEntry
    <3> QED BY <2>1, <3>2, <3>3
  <2> QED BY <2>2, <2>3
<1>14. CASE EdgeTick
  BY <1>14, TickSafe
<1>15. CASE UNCHANGED edgeVars
  BY <1>1, <1>2, <1>15 DEF edgeVars
<1> QED
  BY <1>3, <1>4, <1>5, <1>6, <1>7, <1>8, <1>9, <1>10, <1>11, <1>12, <1>13, <1>14, <1>15,
     ZenonT(60) DEF EdgeNext, EdgeStep

\* The invariant holds of the edge throughout.
LEMMA EdgeAlways == EdgeSpec => []EdgeInv
BY StartsSafe, StepSafe, PTL DEF EdgeSpec

\* Whatever the resolver answers and whatever is published meanwhile, a direct upstream is
\* this host and not the admin API, and a connector's passed is_strictly_dangerous_ip in
\* whatever form the address was written.
THEOREM DialsAreSafe == EdgeSpec => []SafeDial
<1>1. EdgeInv => SafeDial
  <2> SUFFICES ASSUME EdgeInv, NEW r \in Requests, At(r, "upstream")
               PROVE  LET up == req[r].upstream IN
                      IF up.relay
                      THEN Reaches(up.ip).kind \notin
                              {"link-local", "unspecified", "multicast", "broadcast", "metadata"}
                      ELSE Reaches(up.ip).here /\ (up.target.port = "admin" => req[r].host = "admin")
    BY SMTT(60) DEF SafeDial
  <2> DEFINE up == req[r].upstream
  <2>1. Routed(req[r]) /\ Dialled(req[r]) /\ up.ip \in Address
    BY DEF EdgeInv, RequestsOK, RequestOK, Dialled, At
  <2>2. CASE up.relay
    <3>1. ~is_strictly_dangerous_ip(up.ip)
      BY <2>1, <2>2 DEF Dialled, At
    <3>2. up.ip.kind \notin {"link-local", "unspecified", "multicast", "broadcast", "metadata"}
      BY <2>1, <3>1 DEF is_strictly_dangerous_ip, is_metadata_ip, to_ipv4_synthesized, Address
    <3> QED BY <2>2, <3>2 DEF Reaches
  <2>3. CASE ~up.relay
    <3>1. is_local_direct_target_ip(up.ip) /\ TargetAllowed(req[r].resource)
      BY <2>1, <2>3 DEF Dialled, At
    <3>2. up.ip.kind = "loopback" /\ up.ip.form # "nat64"
      BY <2>1, <3>1 DEF is_local_direct_target_ip, Canonical, Address
    <3>3. up.target.port = "admin" => req[r].host = "admin"
      BY <2>1, <3>1 DEF Routed, Dialled, TargetAllowed, At
    <3> QED BY <2>3, <3>2, <3>3, Zenon DEF Reaches
  <2> QED BY <2>2, <2>3, ZenonT(60)
<1> QED
  BY <1>1, EdgeAlways, PTL

\* The target, the way to it and the allowlist of a request are one published resource's,
\* since request_filter reads the table once and upstream_peer uses what it read.
THEOREM ServedByOneResource == EdgeSpec => []OneResource
<1>1. EdgeInv => OneResource
  <2> SUFFICES ASSUME EdgeInv, NEW r \in Requests, At(r, "upstream")
               PROVE  \E resource \in Resources \cup {ADMIN} :
                        /\ resource.target = req[r].upstream.target
                        /\ resource.relay = req[r].upstream.relay
                        /\ Admits(resource.allowed, req[r].client)
                        /\ resource = ADMIN <=> req[r].host = "admin"
    BY DEF OneResource
  <2>1. Routed(req[r]) /\ Dialled(req[r])
    BY DEF EdgeInv, RequestsOK, RequestOK
  <2>2. req[r].resource \in Resources \cup {ADMIN}
    BY <2>1 DEF Routed, At
  <2> QED BY <2>1, <2>2 DEF Routed, Dialled, At
<1> QED
  BY <1>1, EdgeAlways, PTL

\* No address is dialled that the resolver gave longer ago than the cache's TTL and one
\* lookup, for any TTL and timeout.
THEOREM DialsAreFresh == EdgeSpec => []FreshDial
<1>1. EdgeInv => FreshDial
  BY DEF EdgeInv, RequestsOK, RequestOK, Dialled, FreshDial, At
<1> QED
  BY <1>1, EdgeAlways, PTL

-----------------------------------------------------------------------------
\* A place of check before it holds an entry.
Empty == {"idle", "room", "clean", "cleaned", "pick", "evict", "insert"}

LimiterTypeOK ==
    /\ clients \in [Keys -> Entries \cup {0}]
    /\ cells \in [Entries -> 0..Burst]
    /\ last_seen \in [Entries -> 0..Never]
    /\ thread \in [Threads -> [at: Empty \cup {"store", "spend"}, key: Keys \cup {NoKey},
                               entry: Entries \cup {0}, oldest: Keys \cup {NoKey}]]
    /\ owed \in [Keys -> Int]

\* A thread has an entry in its last two places, and keys to insert and to evict in
\* theirs.
ThreadOK(t) ==
    /\ thread[t].at \in Empty <=> thread[t].entry = 0
    /\ thread[t].at # "idle" => thread[t].key \in Keys
    /\ thread[t].at = "evict" => thread[t].oldest \in Keys

Backed(k) ==
    /\ owed[k] <= Burst
    /\ clients[k] = 0 => owed[k] = Burst
    /\ clients[k] # 0 => cells[clients[k]] <= owed[k]

LimiterInv ==
    /\ LimiterTypeOK
    /\ \A t \in Threads : ThreadOK(t)
    /\ \A k \in Keys : Backed(k)

-----------------------------------------------------------------------------
\* The values of a function on a finite set are no more than its arguments.
LEMMA ImageBound ==
    ASSUME NEW S, IsFiniteSet(S), NEW f, DOMAIN f = S, f = [x \in S |-> f[x]]
    PROVE  /\ IsFiniteSet({f[x] : x \in S})
           /\ Cardinality({f[x] : x \in S}) \in Nat
           /\ Cardinality({f[x] : x \in S}) <= Cardinality(S)
<1> DEFINE T == {f[x] : x \in S}
<1>1. f \in Surjection(S, T)
  BY DEF Surjection
<1>2. IsFiniteSet(T) /\ Cardinality(T) <= Cardinality(S)
  <2> HIDE DEF T
  <2> QED BY <1>1, FS_Surjection
<1> QED
  BY <1>2, FS_CardinalityType

\* client_key maps finitely many peers to finitely many keys.
LEMMA KeysFinite == IsFiniteSet(Keys) /\ Cardinality(Keys) \in Nat
<1> DEFINE f == [peer \in Peers |-> client_key(peer)]
<1>1. IsFiniteSet({f[peer] : peer \in Peers})
  <2>1. DOMAIN f = Peers /\ f = [x \in Peers |-> f[x]]
    OBVIOUS
  <2> HIDE DEF f
  <2> QED BY <2>1, ImageBound, LimiterAssumption
<1>2. Keys = {f[peer] : peer \in Peers}
  BY DEF Keys
<1> QED
  BY <1>1, <1>2, FS_CardinalityType

\* A thread about to insert a key that is away finds an entry that is not in use.
LEMMA FreeEntryExists ==
    ASSUME LimiterInv, NEW t0 \in Threads, thread[t0].at = "insert", clients[thread[t0].key] = 0
    PROVE  /\ FreeEntry \in Entries
           /\ \A k \in Keys : clients[k] # FreeEntry
<1> DEFINE k0 == thread[t0].key
           K == Keys \ {k0}
           T == Threads \ {t0}
           f == [k \in K |-> clients[k]]
           g == [t \in T |-> thread[t].entry]
           A == {f[k] : k \in K}
           B == {g[t] : t \in T}
<1>1. k0 \in Keys /\ thread[t0].entry = 0
  BY DEF LimiterInv, ThreadOK, Empty
<1>2. /\ IsFiniteSet(K) /\ Cardinality(K) = Cardinality(Keys) - 1
      /\ IsFiniteSet(T) /\ Cardinality(T) = Cardinality(Threads) - 1
  BY <1>1, KeysFinite, FS_RemoveElement, LimiterAssumption
<1>3. /\ IsFiniteSet(A) /\ Cardinality(A) \in Nat /\ Cardinality(A) <= Cardinality(K)
      /\ IsFiniteSet(B) /\ Cardinality(B) \in Nat /\ Cardinality(B) <= Cardinality(T)
  <2>1. DOMAIN f = K /\ f = [k \in K |-> f[k]] /\ DOMAIN g = T /\ g = [t \in T |-> g[t]]
    OBVIOUS
  <2> HIDE DEF f, g, K, T
  <2> QED BY <1>2, <2>1, ImageBound
<1>4. /\ IsFiniteSet(A \cup B) /\ Cardinality(A \cup B) \in Nat
      /\ Cardinality(A \cup B) <= Cardinality(A) + Cardinality(B)
  <2> HIDE DEF A, B
  <2>1. IsFiniteSet(A \cap B)
    BY <1>3, FS_Subset
  <2>2. Cardinality(A \cap B) \in Nat
    BY <2>1, FS_CardinalityType
  <2>3. IsFiniteSet(A \cup B) /\ Cardinality(A \cup B) = Cardinality(A) + Cardinality(B) - Cardinality(A \cap B)
    BY <1>3, FS_Union
  <2>4. Cardinality(A \cup B) \in Nat
    BY <2>3, FS_CardinalityType
  <2> QED BY <1>3, <2>2, <2>3, <2>4
<1>5. Cardinality(Keys) \in Nat /\ Cardinality(Threads) \in Nat
  BY KeysFinite, FS_CardinalityType, LimiterAssumption
<1>6. Cardinality(A \cup B) <= Cardinality(Keys) + Cardinality(Threads) - 2
  <2> HIDE DEF A, B, K, T
  <2> QED BY <1>2, <1>3, <1>4, <1>5
<1>7. /\ IsFiniteSet(Entries)
      /\ Cardinality(Entries) = Cardinality(Keys) + Cardinality(Threads) - 1
  <2>1. Cardinality(Keys) + Cardinality(Threads) - 1 \in Int
    BY <1>5
  <2>2. Cardinality(Keys) + Cardinality(Threads) - 1 >= 1
    <3>1. Cardinality(K) \in Nat /\ Cardinality(T) \in Nat
      BY <1>2, FS_CardinalityType
    <3> QED BY <1>2, <1>5, <3>1
  <2> QED BY <1>5, <2>1, <2>2, FS_Interval DEF Entries
<1>8. ~(Entries \subseteq A \cup B)
  <2> SUFFICES ASSUME Entries \in SUBSET (A \cup B) PROVE FALSE
    BY Zenon
  <2>1. Cardinality(Entries) <= Cardinality(A \cup B)
    <3> HIDE DEF A, B
    <3> QED BY <1>4, FS_Subset
  <2> HIDE DEF A, B
  <2> QED BY <1>4, <1>5, <1>6, <1>7, <2>1
<1>9. PICK e \in Entries : e \notin A \cup B
  BY <1>8, Zenon
<1>10. e # 0
  BY DEF Entries
<1>11. (\A k \in Keys : clients[k] # e) /\ (\A t \in Threads : thread[t].entry # e)
  BY <1>1, <1>9, <1>10
<1> QED
  BY <1>11 DEF FreeEntry

-----------------------------------------------------------------------------
\* A tier starts with an empty map.
LEMMA StartsBacked == LimiterInit => LimiterInv
<1> SUFFICES ASSUME LimiterInit PROVE LimiterInv
  OBVIOUS
<1>1. LimiterTypeOK
  BY LimiterAssumption DEF LimiterInit, LimiterTypeOK, Never, Resting, Empty
<1>2. ASSUME NEW t \in Threads PROVE ThreadOK(t)
  BY DEF LimiterInit, ThreadOK, Resting, Empty
<1>3. ASSUME NEW k \in Keys PROVE Backed(k)
  BY LimiterAssumption DEF LimiterInit, Backed
<1> QED
  BY <1>1, <1>2, <1>3 DEF LimiterInv

\* What retain leaves is backed: a key that goes gets its whole burst.
LEMMA CleanupBacks ==
    ASSUME LimiterInv, cleanup_stale, UNCHANGED cells
    PROVE  /\ clients' \in [Keys -> Entries \cup {0}] /\ owed' \in [Keys -> Int]
           /\ \A k \in Keys : Backed(k)'
<1>1. clients' \in [Keys -> Entries \cup {0}] /\ owed' \in [Keys -> Int]
  BY LimiterAssumption DEF LimiterInv, LimiterTypeOK, cleanup_stale, Retained, Forgotten
<1>2. ASSUME NEW k \in Keys PROVE Backed(k)'
  <2>1. clients'[k] = clients[k] \/ clients'[k] = 0
    BY DEF cleanup_stale, Retained
  <2>2. owed'[k] = IF clients'[k] = 0 THEN Burst ELSE owed[k]
    BY DEF cleanup_stale, Forgotten
  <2> QED BY <2>1, <2>2, LimiterAssumption DEF LimiterInv, Backed
<1> QED
  BY <1>1, <1>2

\* Every step of check keeps the map backed.
LEMMA CheckBacks ==
    ASSUME LimiterInv, NEW t \in Threads, Check(t)
    PROVE  LimiterInv'
<1> USE LimiterAssumption
<1>a. ASSUME UNCHANGED <<clients, cells, owed>> PROVE \A k \in Keys : Backed(k)'
  BY <1>a DEF LimiterInv, Backed
<1>1. CASE HasRoom(t)
  <2>1. LimiterTypeOK'
    BY <1>1, SMTT(60) DEF LimiterInv, LimiterTypeOK, HasRoom, Empty
  <2>2. ASSUME NEW u \in Threads PROVE ThreadOK(u)'
    BY <1>1 DEF LimiterInv, LimiterTypeOK, ThreadOK, HasRoom, Empty
  <2> QED BY <1>1, <1>a, <2>1, <2>2 DEF LimiterInv, HasRoom
<1>2. CASE IsFull(t)
  <2>1. LimiterTypeOK'
    BY <1>2, SMTT(60) DEF LimiterInv, LimiterTypeOK, IsFull, Step, Empty
  <2>2. ASSUME NEW u \in Threads PROVE ThreadOK(u)'
    BY <1>2 DEF LimiterInv, LimiterTypeOK, ThreadOK, IsFull, Step, Empty
  <2> QED BY <1>2, <1>a, <2>1, <2>2 DEF LimiterInv, IsFull
<1>3. CASE Clean(t)
  <2>1. LimiterTypeOK'
    BY <1>3, CleanupBacks DEF LimiterInv, LimiterTypeOK, Clean, Step, Empty
  <2>2. ASSUME NEW u \in Threads PROVE ThreadOK(u)'
    BY <1>3 DEF LimiterInv, LimiterTypeOK, ThreadOK, Clean, Step, Empty
  <2> QED BY <1>3, <2>1, <2>2, CleanupBacks DEF LimiterInv, Clean
<1>4. CASE Pick(t)
  <2>1. LimiterTypeOK'
    BY <1>4, SMTT(60) DEF LimiterInv, LimiterTypeOK, Pick, Present, Empty
  <2>2. ASSUME NEW u \in Threads PROVE ThreadOK(u)'
    BY <1>4 DEF LimiterInv, LimiterTypeOK, ThreadOK, Pick, Present, Empty
  <2> QED BY <1>4, <1>a, <2>1, <2>2 DEF LimiterInv, Pick
<1>5. CASE Evict(t)
  <2>1. LimiterTypeOK'
    <3>0. /\ thread[t] \in [at: Empty \cup {"store", "spend"}, key: Keys \cup {NoKey},
                            entry: Entries \cup {0}, oldest: Keys \cup {NoKey}]
          /\ thread[t].oldest \in Keys
      BY <1>5 DEF LimiterInv, LimiterTypeOK, ThreadOK, Evict
    <3>1. thread' \in [Threads -> [at: Empty \cup {"store", "spend"}, key: Keys \cup {NoKey},
                                   entry: Entries \cup {0}, oldest: Keys \cup {NoKey}]]
      BY <1>5, <3>0, ZenonT(60) DEF LimiterInv, LimiterTypeOK, Evict, Empty
    <3>2. clients' \in [Keys -> Entries \cup {0}] /\ owed' \in [Keys -> Int]
      BY <1>5, <3>0 DEF LimiterInv, LimiterTypeOK, Evict
    <3> QED BY <1>5, <3>1, <3>2 DEF LimiterInv, LimiterTypeOK, Evict
  <2>2. ASSUME NEW u \in Threads PROVE ThreadOK(u)'
    BY <1>5 DEF LimiterInv, LimiterTypeOK, ThreadOK, Evict, Empty
  <2>3. ASSUME NEW k \in Keys PROVE Backed(k)'
    BY <1>5 DEF LimiterInv, LimiterTypeOK, Backed, Evict
  <2> QED BY <2>1, <2>2, <2>3 DEF LimiterInv
<1>6. CASE Insert(t)
  <2>1. thread[t].key \in Keys
    BY <1>6 DEF LimiterInv, ThreadOK, Insert
  <2>2. CASE clients[thread[t].key] # 0
    <3>1. LimiterTypeOK'
      BY <1>6, <2>1, <2>2 DEF LimiterInv, LimiterTypeOK, Insert, Empty
    <3>2. ASSUME NEW u \in Threads PROVE ThreadOK(u)'
      BY <1>6, <2>1, <2>2 DEF LimiterInv, LimiterTypeOK, ThreadOK, Insert, Empty
    <3> QED BY <1>6, <1>a, <2>2, <3>1, <3>2 DEF LimiterInv, Insert
  <2>3. CASE clients[thread[t].key] = 0
    <3>1. FreeEntry \in Entries /\ \A k \in Keys : clients[k] # FreeEntry
      BY <1>6, <2>3, FreeEntryExists DEF Insert
    <3> HIDE DEF FreeEntry
    <3>2. FreeEntry # 0
      BY <3>1 DEF Entries
    <3>3. LimiterTypeOK'
      BY <1>6, <2>1, <2>3, <3>1, SMTT(60) DEF LimiterInv, LimiterTypeOK, Insert, Empty, Never
    <3>4. ASSUME NEW u \in Threads PROVE ThreadOK(u)'
      BY <1>6, <2>1, <2>3, <3>1, <3>2 DEF LimiterInv, LimiterTypeOK, ThreadOK, Insert, Empty
    <3>5. ASSUME NEW k \in Keys PROVE Backed(k)'
      BY <1>6, <2>1, <2>3, <3>1, <3>2 DEF LimiterInv, LimiterTypeOK, Backed, Insert
    <3> QED BY <3>3, <3>4, <3>5 DEF LimiterInv
  <2> QED BY <2>2, <2>3
<1>7. CASE Store(t)
  <2>1. LimiterTypeOK'
    <3>1. last_seen' \in [Entries -> 0..Never]
      <4>1. last_seen \in [Entries -> 0..Never] /\ 0 \in 0..Never
        BY DEF LimiterInv, LimiterTypeOK, Never
      <4>2. last_seen' = [last_seen EXCEPT ![thread[t].entry] = 0]
        BY <1>7 DEF Store
      <4> QED BY <4>1, <4>2, Zenon
    <3> QED BY <1>7, <3>1 DEF LimiterInv, LimiterTypeOK, Store, Step, Empty
  <2>2. ASSUME NEW u \in Threads PROVE ThreadOK(u)'
    BY <1>7 DEF LimiterInv, LimiterTypeOK, ThreadOK, Store, Step, Empty
  <2> QED BY <1>7, <1>a, <2>1, <2>2 DEF LimiterInv, Store
<1>8. CASE Spend(t)
  <2>1. thread[t].key \in Keys /\ thread[t].entry \in Entries
    BY <1>8 DEF LimiterInv, LimiterTypeOK, ThreadOK, Spend, Empty
  <2>2. LimiterTypeOK'
    BY <1>8, <2>1 DEF LimiterInv, LimiterTypeOK, Spend, Empty, Resting
  <2>3. ASSUME NEW u \in Threads PROVE ThreadOK(u)'
    BY <1>8 DEF LimiterInv, LimiterTypeOK, ThreadOK, Spend, Empty, Resting
  <2>4. ASSUME NEW k \in Keys PROVE Backed(k)'
    <3> DEFINE e == thread[t].entry
    <3>1. Backed(k) /\ owed[k] \in Int /\ cells[e] \in 0..Burst
      BY <2>1 DEF LimiterInv, LimiterTypeOK
    <3>2. /\ clients'[k] = clients[k]
          /\ owed'[k] = owed[k] \/ (clients[k] = e /\ owed'[k] = owed[k] - 1 /\ cells'[e] = cells[e] - 1)
      BY <1>8, <2>1 DEF LimiterInv, LimiterTypeOK, Spend
    <3>3. CASE clients[k] = 0
      <4>1. e # 0
        BY <2>1 DEF Entries
      <4> QED BY <3>1, <3>2, <3>3, <4>1 DEF Backed
    <3>4. CASE clients[k] # 0
      <4>1. clients[k] \in Entries
        BY <3>4 DEF LimiterInv, LimiterTypeOK
      <4>2. cells[clients[k]] \in 0..Burst /\ cells'[clients[k]] \in 0..Burst
        BY <2>2, <4>1 DEF LimiterInv, LimiterTypeOK
      <4>3. cells'[clients[k]] <= cells[clients[k]]
        BY <1>8, <2>1, <4>1, <4>2 DEF LimiterInv, LimiterTypeOK, Spend
      <4> QED BY <3>1, <3>2, <3>4, <4>2, <4>3 DEF Backed
    <3> QED BY <3>3, <3>4
  <2> QED BY <2>2, <2>3, <2>4 DEF LimiterInv
<1> QED
  BY <1>1, <1>2, <1>3, <1>4, <1>5, <1>6, <1>7, <1>8 DEF Check

\* Every step of the limiter does.
LEMMA StepBacks == LimiterInv /\ [LimiterNext]_limiterVars => LimiterInv'
<1> SUFFICES ASSUME LimiterInv, [LimiterNext]_limiterVars PROVE LimiterInv'
  OBVIOUS
<1> USE LimiterAssumption
<1>1. CASE UNCHANGED limiterVars
  BY <1>1 DEF LimiterInv, LimiterTypeOK, ThreadOK, Backed, limiterVars
<1>2. ASSUME NEW t \in Threads, NEW peer \in Peers, Get(t, peer) PROVE LimiterInv'
  <2>1. client_key(peer) \in Keys
    BY DEF Keys
  <2> HIDE DEF client_key
  <2>2. LimiterTypeOK'
    BY <1>2, <2>1, ZenonT(60) DEF LimiterInv, LimiterTypeOK, Get, Resting, Empty
  <2>3. ASSUME NEW u \in Threads PROVE ThreadOK(u)'
    BY <1>2, <2>1 DEF LimiterInv, LimiterTypeOK, ThreadOK, Get, Resting, Empty
  <2> QED BY <1>2, <2>2, <2>3 DEF LimiterInv, Backed, Get
<1>3. CASE LimiterMaintenance
  <2>1. LimiterTypeOK'
    BY <1>3, CleanupBacks DEF LimiterInv, LimiterTypeOK, LimiterMaintenance
  <2>2. ASSUME NEW u \in Threads PROVE ThreadOK(u)'
    BY <1>3 DEF LimiterInv, ThreadOK, LimiterMaintenance
  <2> QED BY <1>3, <2>1, <2>2, CleanupBacks DEF LimiterInv, LimiterMaintenance
<1>4. CASE LimiterTick
  <2>1. LimiterTypeOK'
    BY <1>4 DEF LimiterInv, LimiterTypeOK, LimiterTick, Never
  <2>2. ASSUME NEW u \in Threads PROVE ThreadOK(u)'
    BY <1>4 DEF LimiterInv, ThreadOK, LimiterTick
  <2>3. ASSUME NEW k \in Keys PROVE Backed(k)'
    BY <1>4 DEF LimiterInv, LimiterTypeOK, Backed, LimiterTick
  <2> QED BY <2>1, <2>2, <2>3 DEF LimiterInv
<1> QED
  BY <1>1, <1>2, <1>3, <1>4, CheckBacks DEF LimiterNext

\* For any threads, peers, map size and burst, the requests that check lets through on the
\* entry of a key never exceed one budget for as long as the key stays in the map: two
\* threads that both miss the key end up with one entry, and none is given a second burst.
THEOREM BudgetAlwaysHolds == LimiterSpec => []BudgetHolds
<1>1. LimiterInv => BudgetHolds
  <2> SUFFICES ASSUME LimiterInv, NEW k \in Keys PROVE owed[k] >= 0
    BY DEF BudgetHolds
  <2>1. clients[k] \in Entries \cup {0} /\ owed[k] \in Int
    BY DEF LimiterInv, LimiterTypeOK
  <2>2. CASE clients[k] = 0
    BY <2>2, LimiterAssumption DEF LimiterInv, Backed
  <2>3. CASE clients[k] \in Entries
    <3>1. clients[k] # 0
      BY <2>3 DEF Entries
    <3> QED BY <2>1, <2>3, <3>1, LimiterAssumption DEF LimiterInv, LimiterTypeOK, Backed
  <2> QED BY <2>1, <2>2, <2>3
<1> QED
  BY <1>1, StartsBacked, StepBacks, PTL DEF LimiterSpec

-----------------------------------------------------------------------------
(* The files and the served certificate.                                   *)

\* The steps of an attempt that leave the certificate on disk as it was.
Busy == {"order", "rename key", "sync key", "rename cert"}

InDate(n) == expiry[n] >= day + Threshold

\* The files that a restart may find.
FilesInv ==
    removed \/ \A f \in survives : (f.cert # 0 => f.key # 0) /\ (InForce(f) => Pair(f))

\* The files and the order at each step of an attempt.
StageInv ==
    /\ task = "down" => served = 0
    /\ task \in Busy => removed \/ disk.cert = 0 \/ ~InDate(disk.cert)
    /\ task \in Busy \ {"order"} => Len(expiry) # 0 /\ expiry[Len(expiry)] = day + Lifetime
    /\ task \in {"sync key", "rename cert"} => disk.key = Len(expiry)
    /\ task \in {"sync cert", "load"} => disk.cert # 0 /\ InDate(disk.cert)

\* The served certificate and the days it has left.
ServedInv ==
    served # 0 /\ ~late =>
        /\ task \in Busy \cup {"ensure", "idle"} => served = disk.cert
        /\ task = "idle" => expiry[served] + misses >= day + Threshold
        /\ task \in Busy \cup {"ensure"} => expiry[served] + misses + 1 >= day + Threshold

CertInv == TypeOK /\ FilesInv /\ StageInv /\ ServedInv

-----------------------------------------------------------------------------
LEMMA CertInitInv == Init => CertInv
  <1> SUFFICES ASSUME Init PROVE CertInv
    OBVIOUS
  <1>1. /\ day = 0 /\ expiry = <<>> /\ disk = [key |-> 0, cert |-> 0] /\ survives = {disk}
        /\ served = 0 /\ task = "down" /\ misses = 0 /\ faults = 0
    BY DEF Init
  <1>2. late \in BOOLEAN /\ removed \in BOOLEAN
    BY Zenon DEF Init
  <1>3. TypeOK
    BY <1>1, <1>2, DaysAssumption, FaultsAssumption DEF TypeOK, Files, Issued, Tasks
  <1>4. disk.cert = 0 /\ disk.key = 0
    BY <1>1
  <1>5. FilesInv /\ StageInv /\ ServedInv
    BY <1>1, <1>4 DEF FilesInv, StageInv, ServedInv, InForce, Busy
  <1> QED
    BY <1>3, <1>5 DEF CertInv

\* The numbers of the model are natural numbers.
LEMMA Facts ==
  ASSUME TypeOK
  PROVE  /\ day \in Nat /\ misses \in Nat /\ Len(expiry) \in Nat
         /\ Lifetime \in Nat /\ Threshold \in Nat /\ Threshold > 0 /\ Threshold <= Lifetime
         /\ \A n \in 1 .. Len(expiry) : expiry[n] \in Nat
         /\ disk \in survives /\ disk \in Files
         /\ \A f \in survives : f \in Files /\ f.key \in 0 .. Len(expiry)
                                /\ f.cert \in 0 .. Len(expiry)
         /\ served \in 0 .. Len(expiry)
  BY DaysAssumption, SMTT(60) DEF TypeOK, Files, Issued

LEMMA FaultType == TypeOK /\ Fault => faults' \in 0 .. MaxFaults
  BY FaultsAssumption DEF TypeOK, Fault

LEMMA StartInv == CertInv /\ Start => CertInv'
  <1> SUFFICES ASSUME CertInv, Start PROVE CertInv'
    OBVIOUS
  <1> USE DEF Start, CertInv
  <1>1. TypeOK'
    BY DEF TypeOK, Files, Issued, Tasks
  <1>2. FilesInv'
    BY DEF FilesInv, InForce, Pair
  <1>3. StageInv' /\ ServedInv'
    BY DEF StageInv, ServedInv, Busy
  <1> QED
    BY <1>1, <1>2, <1>3

LEMMA NextDayInv == CertInv /\ NextDay => CertInv'
  <1> SUFFICES ASSUME CertInv, NextDay PROVE CertInv'
    OBVIOUS
  <1> USE DEF CertInv
  <1>1. /\ day < Horizon /\ day' = day + 1
        /\ UNCHANGED <<expiry, disk, survives, served, misses, late, removed, faults>>
        /\ (task = "idle" /\ task' = "ensure") \/ (task = "down" /\ task' = "down")
    BY DEF NextDay
  <1>2. day' \in 0 .. Horizon
    BY <1>1, DaysAssumption DEF TypeOK
  <1>3. TypeOK'
    BY <1>1, <1>2, Zenon DEF TypeOK, Files, Issued, Tasks
  <1>4. FilesInv'
    BY <1>1, Facts, SMTT(60) DEF FilesInv, InForce, Pair
  <1>5. StageInv'
    BY <1>1, Zenon DEF StageInv, Busy
  <1>6. ServedInv'
    <2> SUFFICES ASSUME served # 0, ~late, task = "idle" PROVE ServedInv'
      BY <1>1, Zenon DEF ServedInv, StageInv
    <2>1. served = disk.cert /\ expiry[served] + misses >= day + Threshold
      BY DEF ServedInv, Busy
    <2>2. expiry[served] \in Nat
      BY Facts
    <2>3. expiry[served] + misses + 1 >= (day + 1) + Threshold
      BY <2>1, <2>2, Facts, SMTT(60)
    <2> QED
      BY <1>1, <2>1, <2>3 DEF ServedInv
  <1> QED
    BY <1>3, <1>4, <1>5, <1>6

LEMMA EnsureInv == CertInv /\ Ensure => CertInv'
  <1> SUFFICES ASSUME CertInv, Ensure PROVE CertInv'
    OBVIOUS
  <1> USE DEF Ensure, CertInv
  <1>1. TypeOK'
    BY DEF TypeOK, Files, Issued, Tasks
  <1>2. FilesInv'
    BY DEF FilesInv, InForce, Pair
  <1>3. ~InForce(disk) => removed \/ disk.cert = 0 \/ ~InDate(disk.cert)
    BY Facts DEF FilesInv, InForce, InDate
  <1>4. StageInv'
    BY <1>3 DEF StageInv, Busy, InForce, InDate
  <1>5. ServedInv'
    BY Facts, SMTT(60) DEF ServedInv, Busy, InForce
  <1> QED
    BY <1>1, <1>2, <1>4, <1>5

\* An order adds a certificate and changes none of the others.
LEMMA IssueInv == CertInv /\ Issue => CertInv'
  <1> SUFFICES ASSUME CertInv, Issue PROVE CertInv'
    OBVIOUS
  <1> USE DEF CertInv
  <1>1. /\ task = "order" /\ task' = "rename key"
        /\ UNCHANGED <<day, disk, survives, served, misses, late, removed, faults>>
    BY Zenon DEF Issue
  <1> DEFINE x == day + Lifetime
  <1>2. /\ expiry' \in Seq(Nat) /\ Len(expiry') = Len(expiry) + 1
        /\ \A n \in 1 .. Len(expiry) : expiry'[n] = expiry[n]
        /\ expiry'[Len(expiry')] = day + Lifetime
    <2>1. x \in Nat /\ x = day + Lifetime
      BY Facts
    <2>2. expiry \in Seq(Nat)
      BY DEF TypeOK
    <2>3. expiry' = Append(expiry, x)
      BY Zenon DEF Issue
    <2> HIDE DEF x
    <2> QED
      BY <2>1, <2>2, <2>3
  <1>3. TypeOK'
    <2>1. Issued \subseteq Issued'
      BY <1>2, Facts DEF Issued
    <2>2. Files \subseteq Files'
      BY <2>1 DEF Files
    <2> QED
      BY <1>1, <1>2, <2>1, <2>2, Zenon DEF TypeOK, Tasks
  <1>4. /\ \A f \in survives : f.cert # 0 => expiry'[f.cert] = expiry[f.cert]
        /\ disk.cert # 0 => expiry'[disk.cert] = expiry[disk.cert]
        /\ served # 0 => expiry'[served] = expiry[served]
        /\ Len(expiry') # 0
    <2>1. \A n \in 0 .. Len(expiry) : n # 0 => n \in 1 .. Len(expiry)
      BY Facts
    <2> QED
      BY <1>2, <2>1, Facts, SMTT(60)
  <1>5. FilesInv'
    BY <1>1, <1>4, Zenon DEF FilesInv, InForce, Pair
  <1>6. StageInv'
    BY <1>1, <1>2, <1>4, Zenon DEF StageInv, Busy, InDate
  <1>7. ServedInv'
    BY <1>1, <1>4, Zenon DEF ServedInv, Busy
  <1> QED
    BY <1>3, <1>5, <1>6, <1>7

\* What a failed attempt leaves, and what it costs.
LEMMA GiveUpFacts ==
  ASSUME TypeOK, Fault, GiveUp
  PROVE  /\ \/ served = 0 /\ task' = "down" /\ misses' = misses
            \/ served # 0 /\ task' = "idle" /\ misses' = misses + 1
         /\ faults' \in 0 .. MaxFaults /\ misses' \in Nat
         /\ served # 0 /\ expiry[served] + misses + 1 >= day + Threshold
                => expiry[served] + (misses + 1) >= day + Threshold
  <1>1. \/ served = 0 /\ task' = "down" /\ misses' = misses
        \/ served # 0 /\ task' = "idle" /\ misses' = misses + 1
    BY DEF GiveUp
  <1>2. misses \in Nat /\ day \in Nat /\ Threshold \in Nat
    BY Facts
  <1>3. served # 0 => expiry[served] \in Nat
    BY Facts
  <1>4. served # 0 /\ expiry[served] + misses + 1 >= day + Threshold
                => expiry[served] + (misses + 1) >= day + Threshold
    BY <1>2, <1>3
  <1> QED
    BY <1>1, <1>2, <1>4, FaultType

\* A failed attempt, at any of its steps: the files stay as they are.
LEMMA FailureInv ==
  ASSUME CertInv, task \in Busy \cup {"sync cert"}, Fault, GiveUp,
         late' = (late \/ (task = "sync cert" /\ served # 0)),
         UNCHANGED <<day, expiry, disk, survives, served, removed>>
  PROVE  CertInv'
  <1> USE DEF CertInv
  <1>1. /\ \/ served = 0 /\ task' = "down" /\ misses' = misses
           \/ served # 0 /\ task' = "idle" /\ misses' = misses + 1
        /\ faults' \in 0 .. MaxFaults /\ misses' \in Nat
        /\ served # 0 /\ expiry[served] + misses + 1 >= day + Threshold
                => expiry[served] + (misses + 1) >= day + Threshold
    BY GiveUpFacts, Zenon
  <1>2. late' \in BOOLEAN
    BY Zenon DEF TypeOK
  <1>4. TypeOK'
    BY <1>1, <1>2, Zenon DEF TypeOK, Files, Issued, Tasks
  <1>5. FilesInv'
    BY Zenon DEF FilesInv, InForce, Pair
  <1>6. StageInv'
    BY <1>1, Zenon DEF StageInv, Busy
  <1>7. ServedInv'
    <2> SUFFICES ASSUME served # 0, ~late' PROVE ServedInv'
      BY Zenon DEF ServedInv
    <2>1. task \in Busy /\ ~late
      BY Zenon
    <2>2. served = disk.cert /\ expiry[served] + misses + 1 >= day + Threshold
      BY <2>1, ZenonT(60) DEF ServedInv
    <2> QED
      BY <1>1, <2>2, Zenon DEF ServedInv, Busy
  <1> QED
    BY <1>4, <1>5, <1>6, <1>7, Zenon

LEMMA OrderFailsInv == CertInv /\ OrderFails => CertInv'
  <1> SUFFICES ASSUME CertInv, OrderFails PROVE CertInv'
    OBVIOUS
  <1>1. late' = (late \/ (task = "sync cert" /\ served # 0)) /\ task \in Busy
    BY DEF OrderFails, CertInv, TypeOK, Busy
  <1> QED
    BY <1>1, FailureInv, Zenon DEF OrderFails

LEMMA SaveFailsInv == CertInv /\ SaveFails => CertInv'
  BY FailureInv, Zenon DEF SaveFails, Busy

\* What a save puts on disk.
LEMMA PutFacts ==
  ASSUME TypeOK
  PROVE  /\ Put(disk, "rename key").key = Len(expiry)
         /\ Put(disk, "rename key").cert = disk.cert
         /\ Put(disk, "rename cert").key = disk.key
         /\ Put(disk, "rename cert").cert = Len(expiry)
         /\ Put(disk, "rename key") \in Files /\ Put(disk, "rename cert") \in Files
  <1>1. disk \in Files /\ Len(expiry) \in Issued
    BY Facts DEF Issued
  <1> QED
    BY <1>1 DEF Put, Files

LEMMA RenameInv == CertInv /\ Rename => CertInv'
  <1> SUFFICES ASSUME CertInv, Rename PROVE CertInv'
    OBVIOUS
  <1> USE DEF CertInv
  <1>1. /\ task \in {"rename key", "rename cert"} /\ disk' = Put(disk, task)
        /\ survives' = survives \cup {disk'}
        /\ task' = (IF task = "rename key" THEN "sync key" ELSE "sync cert")
        /\ UNCHANGED <<day, expiry, served, misses, late, removed, faults>>
    BY Zenon DEF Rename
  <1>2. Len(expiry) # 0 /\ expiry[Len(expiry)] = day + Lifetime /\ InDate(Len(expiry))
    <2>1. Len(expiry) # 0 /\ expiry[Len(expiry)] = day + Lifetime
      BY <1>1, Zenon DEF StageInv, Busy
    <2>2. day \in Nat /\ Lifetime \in Nat /\ Threshold \in Nat /\ Threshold <= Lifetime
      BY Facts
    <2>3. day + Lifetime >= day + Threshold
      BY <2>2
    <2> QED
      BY <2>1, <2>3 DEF InDate
  <1>3. TypeOK'
    BY <1>1, PutFacts, ZenonT(60) DEF TypeOK, Files, Issued, Tasks
  <1>4. \A f \in survives : InForce(f)' = InForce(f)
    BY <1>1, Zenon DEF InForce
  <1>5. CASE task = "rename key"
    <2>1. /\ disk'.key = Len(expiry) /\ disk'.cert = disk.cert /\ task' = "sync key"
      BY <1>1, <1>5, PutFacts, Zenon
    <2>2. removed \/ disk.cert = 0 \/ ~InDate(disk.cert)
      BY <1>5, Zenon DEF StageInv, Busy
    <2>3. FilesInv'
      <3> SUFFICES ASSUME ~removed PROVE FilesInv'
        BY <1>1, Zenon DEF FilesInv
      <3>1. PICK d : d = disk'
        OBVIOUS
      <3>2. ~InForce(d)' /\ d.key # 0
        BY <1>1, <1>2, <2>1, <2>2, <3>1, Zenon DEF InForce, InDate
      <3>3. \A f \in survives : (f.cert # 0 => f.key # 0) /\ (InForce(f)' => Pair(f))
        BY <1>4 DEF FilesInv
      <3> QED
        BY <1>1, <3>1, <3>2, <3>3, Zenon DEF FilesInv, Pair
    <2>4. StageInv'
      BY <1>1, <1>2, <2>1, <2>2, Zenon DEF StageInv, Busy, InDate
    <2>5. ServedInv'
      BY <1>1, <1>5, <2>1, Zenon DEF ServedInv, Busy
    <2> QED
      BY <1>3, <2>3, <2>4, <2>5
  <1>6. CASE task = "rename cert"
    <2>1. /\ disk'.key = Len(expiry) /\ disk'.cert = Len(expiry) /\ task' = "sync cert"
      BY <1>1, <1>6, PutFacts, Zenon DEF StageInv
    <2>2. FilesInv'
      BY <1>1, <1>2, <1>4, <2>1, ZenonT(60) DEF FilesInv, Pair
    <2>3. StageInv'
      BY <1>1, <1>2, <2>1, Zenon DEF StageInv, Busy, InDate
    <2>4. ServedInv'
      BY <1>1, <2>1, Zenon DEF ServedInv, Busy
    <2> QED
      BY <1>3, <2>2, <2>3, <2>4
  <1> QED
    BY <1>1, <1>5, <1>6, Zenon

LEMMA SyncDirInv == CertInv /\ SyncDir => CertInv'
  <1> SUFFICES ASSUME CertInv, SyncDir PROVE CertInv'
    OBVIOUS
  <1> USE DEF CertInv
  <1>1. /\ (task = "sync key" /\ task' = "rename cert") \/ (task = "sync cert" /\ task' = "load")
        /\ survives' = {disk}
        /\ UNCHANGED <<day, expiry, disk, served, misses, late, removed, faults>>
    BY Zenon DEF SyncDir
  <1>2. TypeOK'
    BY <1>1, Zenon DEF TypeOK, Files, Issued, Tasks
  <1>3. FilesInv'
    BY <1>1, Facts, Zenon DEF FilesInv, InForce, Pair
  <1>4. StageInv'
    BY <1>1, Zenon DEF StageInv, Busy, InDate
  <1>5. ServedInv'
    BY <1>1, Zenon DEF ServedInv, Busy
  <1> QED
    BY <1>2, <1>3, <1>4, <1>5

LEMMA LoadInv == CertInv /\ Load => CertInv'
  <1> SUFFICES ASSUME CertInv, Load PROVE CertInv'
    OBVIOUS
  <1> USE DEF CertInv
  <1>1. /\ task = "load" /\ misses' = 0 /\ late' = FALSE
        /\ (Pair(disk) /\ task' = "idle" /\ served' = disk.cert)
             \/ (task' = "down" /\ served' = 0)
        /\ UNCHANGED <<day, expiry, disk, survives, removed, faults>>
    BY DEF Load
  <1>2. late' \in BOOLEAN
    BY <1>1, Zenon
  <1>3. served' \in Issued /\ (task' = "idle" => served' # 0)
    BY <1>1, Facts DEF Pair, Issued
  <1>4. TypeOK'
    BY <1>1, <1>2, <1>3, Zenon DEF TypeOK, Files, Issued, Tasks
  <1>5. FilesInv'
    BY <1>1 DEF FilesInv, InForce, Pair
  <1>6. StageInv'
    BY <1>1, Zenon DEF StageInv, Busy
  <1>7. ServedInv'
    <2>1. disk.cert # 0 /\ expiry[disk.cert] >= day + Threshold
      BY <1>1 DEF StageInv, InDate
    <2>2. expiry[disk.cert] \in Nat
      BY <2>1, Facts
    <2>3. expiry[disk.cert] + 0 >= day + Threshold
      BY <2>1, <2>2
    <2> QED
      BY <1>1, <2>3, Zenon DEF ServedInv, Busy
  <1> QED
    BY <1>4, <1>5, <1>6, <1>7

LEMMA CrashInv == CertInv /\ Crash => CertInv'
  <1> SUFFICES ASSUME CertInv, Crash PROVE CertInv'
    OBVIOUS
  <1> USE DEF CertInv
  <1>1. /\ disk' \in survives /\ survives' \subseteq survives /\ disk' \in survives'
        /\ task' = "down" /\ served' = 0 /\ misses' = 0 /\ late' = FALSE
        /\ UNCHANGED <<day, expiry, removed>>
    BY Facts DEF Crash
  <1>2. late' \in BOOLEAN
    BY <1>1, Zenon
  <1>3. faults' \in 0 .. MaxFaults
    BY FaultType DEF Crash
  <1>4. TypeOK'
    <2>1. Files' = Files /\ 0 \in Issued'
      BY <1>1, Facts DEF Files, Issued
    <2> QED
      BY <1>1, <1>2, <1>3, <2>1, Zenon DEF TypeOK, Tasks
  <1>5. FilesInv' /\ StageInv' /\ ServedInv'
    BY <1>1, Zenon DEF FilesInv, InForce, Pair, StageInv, ServedInv, Busy
  <1> QED
    BY <1>4, <1>5

LEMMA RemoveKeyInv == CertInv /\ RemoveKey => CertInv'
  <1> SUFFICES ASSUME CertInv, RemoveKey PROVE CertInv'
    OBVIOUS
  <1> USE DEF CertInv
  <1>1. /\ task \in {"idle", "down"} /\ disk' = [disk EXCEPT !.key = 0]
        /\ survives' = survives \cup {disk'} /\ removed' = TRUE
        /\ UNCHANGED <<day, expiry, served, task, misses, late>>
    BY DEF RemoveKey
  <1>2. removed' \in BOOLEAN
    BY <1>1, Zenon
  <1>3. faults' \in 0 .. MaxFaults
    BY FaultType DEF RemoveKey
  <1>4. disk' \in Files /\ disk'.cert = disk.cert
    BY <1>1, Facts DEF Files, Issued
  <1>5. TypeOK'
    BY <1>1, <1>2, <1>3, <1>4, Zenon DEF TypeOK, Files, Issued, Tasks
  <1>6. FilesInv' /\ StageInv' /\ ServedInv'
    BY <1>1, <1>4, Zenon DEF FilesInv, StageInv, ServedInv, Busy
  <1> QED
    BY <1>5, <1>6

LEMMA CertNextInv == CertInv /\ [Next]_vars => CertInv'
  <1> SUFFICES ASSUME CertInv, [Next]_vars PROVE CertInv'
    OBVIOUS
  <1>1. CASE UNCHANGED vars
    BY <1>1, ZenonT(60) DEF vars, CertInv, TypeOK, Files, Issued, FilesInv, StageInv,
               ServedInv, InForce,
               Pair, InDate
  <1>2. CASE Over
    BY <1>1, <1>2 DEF Over
  <1> QED
    BY <1>1, <1>2, StartInv, NextDayInv, EnsureInv, IssueInv, OrderFailsInv, RenameInv,
       SyncDirInv, SaveFailsInv, LoadInv, CrashInv, RemoveKeyInv DEF Next, Attempt

LEMMA CertAlways == Spec => []CertInv
  BY CertInitInv, CertNextInv, PTL DEF Spec

-----------------------------------------------------------------------------
(* Theorems. *)

\* Every variable keeps its type, for any lifetime, threshold and bounds.
THEOREM CertTypeCorrect == Spec => []TypeOK
  <1>1. CertInv => TypeOK
    BY DEF CertInv
  <1> QED
    BY <1>1, CertAlways, PTL

\* Whatever a crash or a failed write leaves, files that ensure_certs takes for good
\* do load, unless a key was removed (obtain_certificate saves the key first).
THEOREM RenewalNeverSticks == Spec => []NeverStuck
  <1>1. CertInv => NeverStuck
    BY DEF CertInv, FilesInv, NeverStuck
  <1> QED
    BY <1>1, CertAlways, PTL

\* Between attempts the listeners serve the certificate on disk, unless its save
\* failed after the rename (CertStore::reload in the renewal task).
THEOREM RenewedIsServed == Spec => []InService
  <1>1. CertInv => InService
    BY DEF CertInv, TypeOK, ServedInv, InService
  <1> QED
    BY <1>1, CertAlways, PTL

\* Each failed renewal costs the served certificate one of its Threshold days of
\* margin, and nothing else does (RENEWAL_THRESHOLD_DAYS).
THEOREM ServedStaysInDate == Spec => []ServedInDate
  <1>1. CertInv => ServedInDate
    <2> SUFFICES ASSUME CertInv, task = "idle", ~late, misses < Threshold
                 PROVE  day < expiry[served]
      BY DEF ServedInDate
    <2>1. served # 0 /\ expiry[served] + misses >= day + Threshold
      BY DEF CertInv, TypeOK, ServedInv
    <2>2. expiry[served] \in Nat
      BY <2>1, Facts DEF CertInv
    <2> QED
      BY <2>1, <2>2, Facts DEF CertInv
  <1> QED
    BY <1>1, CertAlways, PTL
=============================================================================
