--------------------------- MODULE DiscoveryProofs ---------------------------
(***************************************************************************)
(* Discovery for any set of nodes and any bounds: who is ignored was tried  *)
(* in vain before, nobody is advertised before its DHT runs, the DHT has     *)
(* addresses only of those who are and have a public one, and no node is    *)
(* ever connected to itself.                                               *)
(***************************************************************************)
EXTENDS Discovery, TLAPS

\* The type invariant of the discovery: connections are between two different hosts, one of
\* them a peer, and IgnoredPeers of dht.go holds only peers a connection to which failed.
THEOREM TypeCorrect == Spec => []TypeOK
<1>1. Init => TypeOK
  BY DiscoveryAssumption DEF Init, TypeOK
<1>2. TypeOK /\ [Next]_vars => TypeOK'
  <2> SUFFICES ASSUME TypeOK, [Next]_vars PROVE TypeOK'
    OBVIOUS
  <2> USE DEF TypeOK
  <2>1. ASSUME NEW p \in Peers, Start(p) PROVE TypeOK'
    <3>1. PICK unreached \in SUBSET {b \in Bootstraps : ~Connected(p, b)} :
             /\ failed' = failed \cup ({p} \X unreached)
             /\ connections' = connections \cup {{p, b} : b \in Bootstraps \ unreached}
      BY <2>1 DEF Start
    <3>2. \A b \in Bootstraps : {p, b} \in {{x, y} : x \in Peers, y \in Hosts} \ {{x} : x \in Peers}
      <4> SUFFICES ASSUME NEW b \in Bootstraps, NEW x \in Peers, {p, b} = {x} PROVE FALSE
        BY DEF Hosts
      <4> QED BY DiscoveryAssumption
    <3>3. connections' \subseteq {{x, y} : x \in Peers, y \in Hosts} \ {{x} : x \in Peers}
      BY <3>1, <3>2
    <3>4. failed \subseteq failed'
      BY <3>1
    <3>5. started' = started \cup {p} /\ UNCHANGED <<advertised, addressed, ignored, losses>>
      BY <2>1 DEF Start
    <3> QED BY <3>3, <3>4, <3>5
  <2>2. ASSUME NEW p \in Peers, Announce(p) PROVE TypeOK'
    BY <2>2 DEF Announce
  <2>9. ASSUME NEW p \in Peers, ForgetAddresses(p) PROVE TypeOK'
    BY <2>9 DEF ForgetAddresses
  <2>3. ASSUME NEW p \in Peers, NEW q \in Peers, Connect(p, q) PROVE TypeOK'
    <3>1. {p, q} \in {{x, y} : x \in Peers, y \in Hosts} \ {{x} : x \in Peers}
      <4>1. p # q
        BY <2>3 DEF Connect, Found
      <4> QED BY <4>1 DEF Hosts
    <3> QED BY <2>3, <3>1 DEF Connect
  <2>4. ASSUME NEW p \in Peers, NEW q \in Peers, ConnectFails(p, q) PROVE TypeOK'
    <3>1. \A x \in Peers : \A r \in ignored'[x] : r \in ignored[x] \/ <<x, r>> = <<p, q>>
      BY <2>4 DEF ConnectFails
    <3>2. ignored' \in [Peers -> SUBSET Peers]
      BY <2>4 DEF ConnectFails
    <3> QED BY <2>4, <3>1, <3>2 DEF ConnectFails
  <2>5. ASSUME NEW pair \in connections, Lose(pair) PROVE TypeOK'
    BY <2>5, DiscoveryAssumption DEF Lose
  <2>6. CASE UNCHANGED vars
    BY <2>6 DEF vars
  <2> QED BY <2>1, <2>2, <2>3, <2>4, <2>5, <2>6, <2>9 DEF Next
<1> QED BY <1>1, <1>2, PTL DEF Spec
=============================================================================
