------------------------------- MODULE MCEdge --------------------------------
EXTENDS EdgeProxy, RateLimiter

Ip(form, kind) == [form |-> form, kind |-> kind]
To(host, port) == [host |-> host, port |-> port, parses |-> TRUE]
Net(net) == [form |-> "v4", net |-> net]

\* A local name, open to all; the same name on the admin port; a relay with another
\* allowlist; a local address.
MCResources ==
    {[target |-> To(Name, "other"), relay |-> FALSE, allowed |-> {}],
     [target |-> To(Name, "admin"), relay |-> FALSE, allowed |-> {Net(1)}],
     [target |-> To(Name, "other"), relay |-> TRUE, allowed |-> {Net(2)}],
     [target |-> To(Ip("v6", "loopback"), "other"), relay |-> FALSE, allowed |-> {Net(1)}]}

MCClients ==
    {[form |-> "v4", net |-> 1, host |-> 1], [form |-> "mapped", net |-> 2, host |-> 1],
     [form |-> "unknown", net |-> 2, host |-> 1]}

MCAnswers ==
    {<<Ip("nat64", "loopback"), Ip("mapped", "loopback")>>,
     <<Ip("nat64", "metadata"), Ip("v4", "private")>>}

\* One host over v4 and over v6, and two hosts of one /64.
MCPeers ==
    {[form |-> "v4", net |-> 1, host |-> 1], [form |-> "mapped", net |-> 1, host |-> 1],
     [form |-> "v6", net |-> 2, host |-> 1], [form |-> "v6", net |-> 2, host |-> 2]}

-----------------------------------------------------------------------------
\* The proxy and the limiter share no state: each is run while the other rests in its
\* initial states, so that their states add up and do not multiply.
MCEdgeInit == EdgeInit /\ LimiterInit

MCEdgeNext ==
    \/ LimiterInit /\ EdgeNext /\ UNCHANGED limiterVars
    \/ EdgeInit /\ LimiterNext /\ UNCHANGED edgeVars

MCEdgeSpec ==
    MCEdgeInit /\ [][MCEdgeNext]_<<edgeVars, limiterVars>> /\ EdgeFairness

=============================================================================
