------------------------------ MODULE EdgeProxy ------------------------------
(***************************************************************************)
(* The HTTPS edge (crates/server/src/proxy.rs): how a request goes from    *)
(* its Host to an upstream connection, while routes are published and      *)
(* withdrawn, connector sessions come and go, and names resolve anew; with *)
(* the allowlist (allowlist.rs), the address guards (proto/src/ssrf.rs)    *)
(* and connect_backend of the connector (connector/src/transport.rs).      *)
(*                                                                         *)
(* request_filter awaits nothing, but other threads run between its reads  *)
(* of what they share.  The rate limit is RateLimiter's, the tunnel behind *)
(* a relay that of WssTunnel and QuicTunnels; here either just succeeds or *)
(* fails.                                                                  *)
(***************************************************************************)
EXTENDS Integers, Sequences

CONSTANTS
    Requests,
    Resources,      \* the ProxyResources that may be published for the host "app"
    Clients,        \* peer addresses
    Answers,        \* what the one name of the targets may resolve to, at any time
    DNS_CACHE_TTL, DNS_LOOKUP_TIMEOUT

VARIABLES
    req,            \* each request in progress, with its RequestCtx
    route,          \* resources: the route of "app", or NoRoute
    online,         \* is a session of the connector registered
    dns_cache       \* the entry of the name, with the age of its answer

edgeVars == <<req, route, online, dns_cache>>

-----------------------------------------------------------------------------
\* Addresses.  `form` is how one is written: plain v4 or v6, or a v4 address embedded in
\* a v6 one, "mapped" or by "nat64".  `kind` is the range of the plain or embedded one.

Address == [form: {"v4", "v6", "mapped", "nat64"},
            kind: {"loopback", "private", "public", "metadata", "link-local", "unspecified",
                   "multicast", "broadcast"}]

\* The v4 address that the v6 forms carry.
to_ipv4_synthesized(ip) == [ip EXCEPT !.form = "v4"]

is_metadata_ip(ip) == ip.form \in {"v4", "v6"} /\ ip.kind = "metadata"

\* Mutant: an embedded v4 address is looked at as a v6 one.
DangerousByForm(ip) ==
    \/ is_metadata_ip(ip)
    \/ ip.form \in {"v4", "v6"} /\ ip.kind \in {"link-local", "unspecified", "multicast", "broadcast"}

is_strictly_dangerous_ip(ip) ==
    LET plain == IF ip.form \in {"mapped", "nat64"} THEN to_ipv4_synthesized(ip) ELSE ip
    IN  \/ is_metadata_ip(plain)
        \/ plain.kind \in {"link-local", "unspecified", "multicast", "broadcast"}

\* IpAddr::to_canonical
Canonical(ip) == IF ip.form = "mapped" THEN [ip EXCEPT !.form = "v4"] ELSE ip

is_local_direct_target_ip(ip) == Canonical(ip).form \in {"v4", "v6"} /\ ip.kind = "loopback"

\* A client is [form, net, host]; a peer without an address is of the form "unknown".  A
\* block of an allowlist is [form, net]; no blocks admit everyone, and an allowlist that
\* does not parse (from_resource) admits no one.
Client == [form: {"v4", "v6", "mapped", "unknown", "none"}, net: Nat, host: Nat]
Block == [form: {"v4", "v6", "none"}, net: Nat]
Unparsable == {[form |-> "none", net |-> 0]}

client_ip_from_peer(peer) == Canonical(peer)

Admits(allowed, client) ==
    \/ allowed = {}
    \/ [form |-> Canonical(client).form, net |-> client.net] \in allowed

-----------------------------------------------------------------------------
\* A ProxyResource: a target [host, port, parses], whose host is an address or Name;
\* whether it goes through the connector; its allowlist.
Name == [form |-> "name", kind |-> "name"]
Target == [host: Address \cup {Name}, port: {"admin", "other", "none"}, parses: BOOLEAN]
Resource == [target: Target, relay: BOOLEAN, allowed: SUBSET Block]
NoRoute == [target |-> [host |-> Name, port |-> "none", parses |-> FALSE], relay |-> FALSE,
            allowed |-> Unparsable]

\* The resource of the admin console.
ADMIN == [target |-> [host |-> [form |-> "v4", kind |-> "loopback"], port |-> "admin",
                      parses |-> TRUE], relay |-> FALSE, allowed |-> {}]

NoAddress == [form |-> "none", kind |-> "none"]
NoClient == [form |-> "none", net |-> 0, host |-> 0]

\* resource, manager: the RequestCtx; a manager is "live" until its session ends.  waited:
\* ticks in the lookup.  answer, since: what it brought, and how long ago.  upstream: what
\* was dialled.
Idle == [pc |-> "idle", host |-> "none", client |-> NoClient, resource |-> NoRoute,
         manager |-> "none", waited |-> 0, answer |-> <<>>, since |-> 0,
         upstream |-> [target |-> NoRoute.target, relay |-> FALSE, ip |-> NoAddress, age |-> 0]]

\* The entry of dns_cache: its age since it was inserted, the addresses, and the age of
\* the answer they came in.
NoEntry == [age |-> DNS_CACHE_TTL, addrs |-> <<>>, since |-> 0]

\* A subdomain of a resource has no underscore, so none is the admin console's.
ASSUME EdgeAssumption ==
    /\ Resources \subseteq Resource
    /\ ADMIN \notin Resources
    /\ Clients \subseteq Client
    /\ Answers \subseteq Seq(Address)
    /\ DNS_CACHE_TTL \in Nat /\ DNS_LOOKUP_TIMEOUT \in Nat

\* ProxyContext::new; the stored routes are then set one by one.
EdgeInit ==
    /\ req = [r \in Requests |-> Idle]
    /\ route = NoRoute
    /\ online = FALSE
    /\ dns_cache = NoEntry

-----------------------------------------------------------------------------
\* request_filter

At(r, place) == req[r].pc = place
Goto(r, place) == req' = [req EXCEPT ![r].pc = place]

\* send_error_response, fail_to_proxy and logging end a request.
Respond(r) == req' = [req EXCEPT ![r] = Idle]

\* What request_filter does before it asks for a session: the Host, RateTier::check (a
\* 429, at any time), the admin console or the table (a 404) and the allowlist (a 403).
\* The table is the one thing here that other threads change, and is read once.  A
\* request that is refused is over.
RequestArrives(r) ==
    /\ At(r, "idle")
    /\ \E host \in {"app", "admin", "other"}, peer \in Clients :
        LET client == client_ip_from_peer(peer)
            resource == CASE host = "admin" -> ADMIN
                          [] host = "app" -> route
                          [] host = "other" -> NoRoute
        IN  /\ resource # NoRoute /\ client.form # "unknown"
            /\ Admits(resource.allowed, client)
            /\ req' = [req EXCEPT ![r].pc = "manager", ![r].host = host, ![r].client = client,
                                  ![r].resource = resource]
    /\ UNCHANGED <<route, online, dns_cache>>

\* connectors.get: the session of the moment; a 503.
GetManager(r) ==
    /\ At(r, "manager")
    /\ \/ ~req[r].resource.relay /\ Goto(r, "peer")
       \/ req[r].resource.relay /\ online /\ req' = [req EXCEPT ![r].pc = "peer", ![r].manager = "live"]
       \/ req[r].resource.relay /\ ~online /\ Respond(r)
    /\ UNCHANGED <<route, online, dns_cache>>

-----------------------------------------------------------------------------
\* upstream_peer

\* The peer is connected to; `age` is how old the answer is that its address came in.
Open(r, target, relay, ip, age) ==
    req' = [req EXCEPT ![r].pc = "upstream", ![r].answer = <<>>, ![r].since = 0, ![r].waited = 0,
                       ![r].upstream = [target |-> target, relay |-> relay, ip |-> ip, age |-> age]]

\* The first address that is allowed, or an error.
OpenFirst(r, addrs, age) ==
    \/ \E i \in DOMAIN addrs :
        /\ is_local_direct_target_ip(addrs[i])
        /\ \A j \in 1..(i - 1) : ~is_local_direct_target_ip(addrs[j])
        /\ Open(r, req[r].resource.target, FALSE, addrs[i], age)
    \/ (\A i \in DOMAIN addrs : ~is_local_direct_target_ip(addrs[i])) /\ Respond(r)

\* The guards before the name is resolved: the URL parses, and the port is not the admin
\* API's unless this is the admin console.
TargetAllowed(resource) ==
    resource.target.parses /\ (resource.target.port = "admin" => resource = ADMIN)

\* Mutant: an entry is used for as long as it is there.
CachedAnyAge == dns_cache.addrs # <<>>

\* An entry of the cache that is young enough.
Cached == dns_cache.age < DNS_CACHE_TTL

\* Mutant: upstream_peer looks the route up again.
PeerRereads(r) ==
    /\ At(r, "peer") /\ ~req[r].resource.relay
    /\ LET target == (IF req[r].host = "admin" THEN ADMIN ELSE route).target IN
       IF ~TargetAllowed(req[r].resource) \/ ~target.parses THEN Respond(r)
       ELSE IF target.host # Name
       THEN IF is_local_direct_target_ip(target.host) THEN Open(r, target, FALSE, target.host, 0)
            ELSE Respond(r)
       ELSE IF Cached THEN OpenFirst(r, dns_cache.addrs, dns_cache.since)
       ELSE Goto(r, "lookup")
    /\ UNCHANGED <<route, online, dns_cache>>

\* A direct resource: its address, the cached ones, or a lookup.
Peer(r) ==
    /\ At(r, "peer") /\ ~req[r].resource.relay
    /\ LET target == req[r].resource.target IN
       IF ~TargetAllowed(req[r].resource) THEN Respond(r)
       ELSE IF target.host # Name
       THEN IF is_local_direct_target_ip(target.host) THEN Open(r, target, FALSE, target.host, 0)
            ELSE Respond(r)
       ELSE IF Cached THEN OpenFirst(r, dns_cache.addrs, dns_cache.since)
       ELSE Goto(r, "lookup")
    /\ UNCHANGED <<route, online, dns_cache>>

\* The resolver has an answer, and the task goes on later; or has none.
Lookup(r) ==
    /\ At(r, "lookup")
    /\ \/ \E addrs \in Answers : req' = [req EXCEPT ![r].pc = "answer", ![r].answer = addrs]
       \/ Respond(r)
    /\ UNCHANGED <<route, online, dns_cache>>

\* The answer is cached as of now, and used.
LookupReturns(r) ==
    /\ At(r, "answer")
    /\ dns_cache' = [age |-> 0, addrs |-> req[r].answer, since |-> req[r].since]
    /\ OpenFirst(r, req[r].answer, req[r].since)
    /\ UNCHANGED <<route, online>>

\* Mutant: the lookup is awaited without a timeout.
LookupAwaited(r) ==
    /\ At(r, "answer") /\ req[r].waited = DNS_LOOKUP_TIMEOUT
    /\ Respond(r)
    /\ UNCHANGED <<route, online, dns_cache>>

LookupTimesOut(r) ==
    /\ req[r].pc \in {"lookup", "answer"} /\ req[r].waited = DNS_LOOKUP_TIMEOUT
    /\ Respond(r)
    /\ UNCHANGED <<route, online, dns_cache>>

\* connect_backend of the connector: the addresses it may end up connected to, of whatever
\* the name resolves to there.
connect_backend(target) ==
    LET answers == IF target.host = Name THEN Answers ELSE {<<target.host>>}
        resolved == UNION {{addrs[i] : i \in DOMAIN addrs} : addrs \in answers}
    IN  {ip \in resolved : target.parses /\ ~is_strictly_dangerous_ip(ip)}

\* RelayConnect::connect: bridge, and connect_backend at the other end.  No slot, an ended
\* session, no address and a refused connection all come back as a failed connection.
Relay(r) ==
    /\ At(r, "peer") /\ req[r].resource.relay
    /\ \/ Respond(r)
       \/ /\ req[r].manager = "live"
          /\ \E ip \in connect_backend(req[r].resource.target) :
                Open(r, req[r].resource.target, TRUE, ip, 0)
    /\ UNCHANGED <<route, online, dns_cache>>

\* The response, a failed upstream, a timeout, or a client that hangs up.
Finish(r) ==
    /\ At(r, "upstream")
    /\ Respond(r)
    /\ UNCHANGED <<route, online, dns_cache>>

-----------------------------------------------------------------------------
\* The rest of the server, and the world.

\* set_resource and remove_resource
Publish ==
    /\ \E r \in Resources \cup {NoRoute} : route' = r
    /\ UNCHANGED <<req, online, dns_cache>>

\* register, and unregister; a session that is replaced ends too.
SessionChanges ==
    /\ online' \in BOOLEAN
    /\ req' = [r \in Requests |->
                [req[r] EXCEPT !.manager = IF @ = "live" THEN "ended" ELSE @]]
    /\ UNCHANGED <<route, dns_cache>>

\* maintenance_tick
MaintenanceTick ==
    /\ dns_cache' = IF Cached THEN dns_cache ELSE NoEntry
    /\ UNCHANGED <<req, route, online>>

\* A tick does not pass the timeout of a lookup.  The addresses of an entry that is too
\* old are kept until maintenance; their age goes on.
EdgeTick ==
    /\ \A r \in Requests : req[r].pc \in {"lookup", "answer"} => req[r].waited < DNS_LOOKUP_TIMEOUT
    /\ req' = [r \in Requests |->
                IF req[r].pc \in {"lookup", "answer"}
                THEN [req[r] EXCEPT !.waited = @ + 1, !.since = IF At(r, "answer") THEN @ + 1 ELSE @]
                ELSE req[r]]
    /\ LET oldest == DNS_CACHE_TTL + DNS_LOOKUP_TIMEOUT + 1
       IN  dns_cache' = [dns_cache EXCEPT
                !.age = IF @ < DNS_CACHE_TTL THEN @ + 1 ELSE @,
                !.since = IF dns_cache.addrs # <<>> /\ @ < oldest THEN @ + 1 ELSE @]
    /\ UNCHANGED <<route, online>>

EdgeStep(r) ==
    GetManager(r) \/ Peer(r) \/ LookupReturns(r) \/ LookupTimesOut(r) \/ Relay(r) \/ Finish(r)

EdgeNext ==
    \/ \E r \in Requests : RequestArrives(r) \/ EdgeStep(r) \/ Lookup(r)
    \/ Publish \/ SessionChanges \/ MaintenanceTick \/ EdgeTick

EdgeSpec == EdgeInit /\ [][EdgeNext]_edgeVars

\* Tasks are scheduled, the timers of a lookup and of an upstream fire, and time passes.  A
\* resolver may never answer.
EdgeFairness ==
    /\ \A r \in Requests : WF_edgeVars(EdgeStep(r))
    /\ WF_edgeVars(EdgeTick)

-----------------------------------------------------------------------------
\* Where a connection to an address goes: a mapped one to the v4 address, a nat64 one to
\* the v4 address too, but through a translator and so never to this host.
Reaches(ip) ==
    [kind |-> ip.kind, here |-> ip.kind = "loopback" /\ ip.form # "nat64"]

\* Whatever the name resolves to, now or when it was cached, and whatever is published
\* meanwhile, no request opens a direct connection to another host or to the admin API
\* (but the console's), and no connector one to a metadata, link-local, multicast or
\* unspecified address however it is written.
SafeDial ==
    \A r \in Requests : At(r, "upstream") =>
        LET up == req[r].upstream IN
        IF up.relay
        THEN Reaches(up.ip).kind \notin
                {"link-local", "unspecified", "multicast", "broadcast", "metadata"}
        ELSE Reaches(up.ip).here /\ (up.target.port = "admin" => req[r].host = "admin")

\* A request is served as one published resource says: the target it reaches, the way it
\* goes there and the allowlist that let its client in are of the same resource, however
\* routes change while it is in progress.
OneResource ==
    \A r \in Requests : At(r, "upstream") =>
        \E resource \in Resources \cup {ADMIN} :
            /\ resource.target = req[r].upstream.target
            /\ resource.relay = req[r].upstream.relay
            /\ Admits(resource.allowed, req[r].client)
            /\ resource = ADMIN <=> req[r].host = "admin"

\* An address that is dialled was in an answer of the resolver no longer ago than the TTL
\* of the cache and the timeout of a lookup, though entries are stamped when the lookup
\* returns and a slow lookup may replace a later one's.
FreshDial ==
    \A r \in Requests : At(r, "upstream") =>
        req[r].upstream.age <= DNS_CACHE_TTL + DNS_LOOKUP_TIMEOUT

\* Every request is ended, with a response or because its client has gone.
EveryRequestEnds == \A r \in Requests : []<>At(r, "idle")

=============================================================================
