------------------------------ MODULE Discovery ------------------------------
(***************************************************************************)
(* How the nodes find each other: SetupDHTDiscovery and internal/network/   *)
(* dht.go.  A node connects to the bootstrap peers once, when it starts;    *)
(* at every tick it advertises itself and connects to who else has, and a   *)
(* peer it could not connect to is ignored from then on.  Only bootstrap    *)
(* nodes run the DHT in server mode: a node connected to none has nobody to *)
(* advertise to or to ask.  The servers answer as one, with any of the      *)
(* advertised peers, and with no address of a peer that has only private   *)
(* ones or was cut off for long.  mDNS on a local network, which connects   *)
(* without asking dht.go, and the connection manager are left out.         *)
(***************************************************************************)
EXTENDS Naturals, FiniteSets

CONSTANTS
    Bootstraps,  \* the bootstrap nodes, in server mode: they only answer
    Peers,       \* all the other nodes, in client mode
    Public,      \* the peers with an address that FilterOutPrivateAddrs leaves
    MaxFailures, \* bound: attempts to connect that fail
    MaxLosses    \* bound: connections lost

Hosts == Bootstraps \cup Peers

ASSUME DiscoveryAssumption ==
    /\ Bootstraps \cap Peers = {}
    /\ Public \subseteq Peers
    /\ {MaxFailures, MaxLosses} \subseteq Nat

VARIABLES
    started,     \* the peers whose DHT runs
    connections, \* pairs of connected hosts
    advertised,  \* the peers under the rendezvous string
    addressed,   \* the ones the DHT has addresses of
    ignored,     \* per peer, IgnoredPeers
    failed,      \* the attempts that failed
    losses       \* connections lost so far

vars == <<started, connections, advertised, addressed, ignored, failed, losses>>

Connected(p, q) == {p, q} \in connections
Online(p)       == \E b \in Bootstraps : Connected(p, b)

Init ==
    /\ started = {}
    /\ connections = {}
    /\ advertised = {}
    /\ addressed = {}
    /\ ignored = [p \in Peers |-> {}]
    /\ failed = {}
    /\ losses = 0

\* bootstrapPeers: one attempt for each bootstrap peer that is not connected.
Start(p) ==
    /\ p \notin started
    /\ started' = started \cup {p}
    /\ \E unreached \in SUBSET {b \in Bootstraps : ~Connected(p, b)} :
          /\ failed' = failed \cup ({p} \X unreached)
          /\ connections' = connections \cup {{p, b} : b \in Bootstraps \ unreached}
    /\ Cardinality(failed') <= MaxFailures
    /\ UNCHANGED <<advertised, addressed, ignored, losses>>

\* A tick advertises before it looks for others.
Announce(p) ==
    /\ p \in started /\ Online(p)
    /\ advertised' = advertised \cup {p}
    /\ addressed' = addressed \cup ({p} \cap Public)
    /\ UNCHANGED <<started, connections, ignored, failed, losses>>

\* The DHT keeps the addresses of a peer that does not advertise any more for a while.
ForgetAddresses(p) ==
    /\ p \in addressed /\ ~Online(p)
    /\ addressed' = addressed \ {p}
    /\ UNCHANGED <<started, connections, advertised, ignored, failed, losses>>

\* announceAndConnect comes to q among the peers it found, and tries.
Found(p, q) ==
    /\ p \in started \cap advertised /\ Online(p)
    /\ q \in addressed \ {p} /\ q \notin ignored[p]
    /\ ~Connected(p, q)

\* Mutant of Connect: who was ever tried is not tried again.
ConnectOnce(p, q) ==
    /\ Found(p, q)
    /\ connections' = connections \cup {{p, q}}
    /\ ignored' = [ignored EXCEPT ![p] = @ \cup {q}]
    /\ UNCHANGED <<started, advertised, addressed, failed, losses>>

Connect(p, q) ==
    /\ Found(p, q)
    /\ connections' = connections \cup {{p, q}}
    /\ UNCHANGED <<started, advertised, addressed, ignored, failed, losses>>

ConnectFails(p, q) ==
    /\ Found(p, q)
    /\ Cardinality(failed) < MaxFailures
    /\ failed' = failed \cup {<<p, q>>}
    /\ ignored' = [ignored EXCEPT ![p] = @ \cup {q}]
    /\ UNCHANGED <<started, connections, advertised, addressed, losses>>

Lose(pair) ==
    /\ losses < MaxLosses
    /\ losses' = losses + 1
    /\ connections' = connections \ {pair}
    /\ UNCHANGED <<started, advertised, addressed, ignored, failed>>

Next ==
    \/ \E p \in Peers : \/ Start(p) \/ Announce(p) \/ ForgetAddresses(p)
                        \/ \E q \in Peers : Connect(p, q) \/ ConnectFails(p, q)
    \/ \E pair \in connections : Lose(pair)

Spec == Init /\ [][Next]_vars

\* Every node's ticker goes on, and each time asks for everyone.  Nothing obliges a node
\* to start, or brings one that lost its bootstrap nodes back to them.
Fairness ==
    \A p \in Peers : WF_vars(Announce(p)) /\ \A q \in Peers : WF_vars(Connect(p, q))

FairSpec == Spec /\ Fairness

-----------------------------------------------------------------------------

TypeOK ==
    /\ started \subseteq Peers
    /\ connections \subseteq {{p, q} : p \in Peers, q \in Hosts} \ {{p} : p \in Peers}
    /\ advertised \subseteq started
    /\ addressed \subseteq advertised \cap Public
    /\ ignored \in [Peers -> SUBSET Peers]
    /\ \A p \in Peers : \A q \in ignored[p] : <<p, q>> \in failed
    /\ losses \in 0 .. MaxLosses

\* A node that keeps a bootstrap node is in the end connected to everyone the DHT has an
\* address of, but for those an attempt of its own failed with, who are not tried again:
\* however often connections were lost, and whoever was there first.
PeersConnect ==
    \A p, q \in Peers : p # q =>
        <>[](Online(p) /\ q \in addressed => Connected(p, q) \/ <<p, q>> \in failed)
=============================================================================
