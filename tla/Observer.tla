------------------------------- MODULE Observer -------------------------------
(***************************************************************************)
(* The observer node: the reports that the nodes publish about their        *)
(* connections (internal/node/networkVisualisation_pubsub.go), their merge  *)
(* and its diffs, the blocks and the signals it sees, and the web pages it  *)
(* sends all that to (cmd/securachain-observer-node/main.go with            *)
(* internal/visualisation, web-front/src/NetworkData.js and                *)
(* BlockchainData.js).                                                     *)
(*                                                                         *)
(* Goroutines share `data` without a lock; only the broadcasts exclude each *)
(* other.  The merge is one step per assignment that others can see.        *)
(***************************************************************************)
EXTENDS Naturals, Sequences, SequencesExt, FiniteSets

CONSTANTS
    Bootstraps,   \* the bootstrap nodes
    Peers,        \* the other nodes
    observer,     \* the observer among them
    Initially,    \* per node, the hosts it is connected to at first
    MaxChanges,   \* bound: connections made and lost
    Pages,        \* the web pages, each for one connection
    BlockIDs,     \* the blocks announced
    JoinedTopics, \* the topics every node but a bootstrap node joins
    ListedTopics, \* the topics a report has a list of peers for
    SignalTopics, \* the topics whose messages the observer signals
    ChannelSize   \* the capacity of peersDataChan

Hosts == Bootstraps \cup Peers

ASSUME ObserverAssumption ==
    /\ Bootstraps \cap Peers = {} /\ observer \in Peers
    /\ Initially \in [Peers -> SUBSET Hosts]
    /\ "none" \notin Hosts \* which is what tells Nothing from the data
    /\ MaxChanges \in Nat /\ ChannelSize \in Nat \ {0}

VARIABLES
    connected,  \* per node, the hosts it is connected to
    changes,    \* connections made and lost so far
    mapData,    \* the last report of each host
    data,       \* what the pages are shown of it; nil while it is rebuilt
    before,     \* the last entry of each host in oldData
    merge,      \* where the merge is
    reports,    \* peersDataChan
    pages,      \* per page, its connection, the snapshots its handler holds, what it shows
    blockchain, \* the blocks seen
    signal,     \* the last signal sent
    stale       \* history: pages whose last initData was older than the updates before it

vars == <<connected, changes, mapData, data, before, merge, reports, pages, blockchain, signal, stale>>

Nothing == [none |-> TRUE]
NoNodes == [h \in {} |-> <<>>]

NewPage == [connection |-> "new", nodes |-> NoNodes, held |-> Nothing, blocks |-> {}]

Init ==
    /\ connected = Initially
    /\ changes = 0
    /\ mapData = NoNodes /\ data = NoNodes /\ before = NoNodes
    /\ merge = "starting"
    /\ reports = <<>>
    /\ pages = [c \in Pages |-> NewPage]
    /\ blockchain = {}
    /\ signal = Nothing
    /\ stale = {}

-----------------------------------------------------------------------------
(* Reports *)

\* A connection of p is made or lost; Discovery says when.
Change(p, q) ==
    /\ p # q /\ changes < MaxChanges
    /\ connected' = [connected EXCEPT ![p] = IF q \in @ THEN @ \ {q} ELSE @ \cup {q}]
    /\ changes' = changes + 1
    /\ UNCHANGED <<mapData, data, before, merge, reports, pages, blockchain, signal, stale>>

\* What a host tells: its connected peers, in the order a Go map gives them.
Report(p, s) == [peerID |-> p, connectedPeers |-> s]

\* The observer enters the bootstrap peers itself: they have no pubsub.
AddBootstrapPeers ==
    /\ merge = "starting"
    /\ mapData' = [b \in Bootstraps \cap connected[observer] |-> Report(b, <<observer>>)]
    /\ data' = mapData'
    /\ merge' = "idle"
    /\ UNCHANGED <<connected, changes, before, reports, pages, blockchain, signal, stale>>

\* A node publishes every few seconds; a message that finds no room in the channel and
\* the subscription before it is lost.
Publish(p) ==
    /\ merge # "starting"
    /\ Len(reports) < ChannelSize
    /\ \E s \in SetToSeqs(connected[p]) : reports' = Append(reports, Report(p, s))
    /\ UNCHANGED <<connected, changes, mapData, data, before, merge, pages, blockchain, signal, stale>>

-----------------------------------------------------------------------------
(* Messages to the pages *)

Registered == {c \in Pages : pages[c].connection \in {"registered", "open"}}

\* SendDataToClients: shown says what each page makes of the message.
Broadcast(shown) == pages' = [c \in Pages |-> IF c \in Registered THEN shown[c] ELSE pages[c]]

ConnectedPeers(nodes) == [h \in DOMAIN nodes |-> nodes[h].connectedPeers]

\* processInitData replaces what is shown; it throws, and changes nothing, on a nil slice.
ProcessInitData(page, init) ==
    IF init = Nothing THEN page ELSE [page EXCEPT !.nodes = ConnectedPeers(init)]

FindAddedNodes(old, new)   == DOMAIN new \ DOMAIN old
FindRemovedNodes(old, new) == DOMAIN old \ DOMAIN new

\* As the code has it: the nodes whose connected peers are the same as before.
FindUpdatedNodes(old, new) ==
    {h \in DOMAIN new \cap DOMAIN old : old[h].connectedPeers = new[h].connectedPeers}

NewDiffData(old, new) ==
    [added   |-> FindAddedNodes(old, new),
     removed |-> FindRemovedNodes(old, new),
     updated |-> FindUpdatedNodes(old, new)]

\* processDiffData: what is added is shown if it is not yet, what is updated if it is.
ProcessDiffData(page, diff, new) ==
    LET known == DOMAIN page.nodes \cup diff.added IN
    [page EXCEPT !.nodes =
        [h \in known \ diff.removed |->
            IF h \in diff.updated \/ h \notin DOMAIN page.nodes
            THEN new[h].connectedPeers ELSE page.nodes[h]]]

-----------------------------------------------------------------------------
(* The merge *)

Merged(r) == [h \in DOMAIN mapData \cup {r.peerID} |-> IF h = r.peerID THEN r ELSE mapData[h]]

\* Mutant of Known: a node is asked for once.
KnownNode(r) == r.peerID \in DOMAIN mapData

Known(r) == r.peerID \in DOMAIN mapData /\ mapData[r.peerID] = r

\* A report that says what the last one said is dropped.
DropReport ==
    /\ merge = "idle" /\ reports # <<>> /\ Known(Head(reports))
    /\ reports' = Tail(reports)
    /\ UNCHANGED <<connected, changes, mapData, data, before, merge, pages, blockchain, signal, stale>>

\* The first report of all is sent as it is.
FirstData ==
    /\ merge = "idle" /\ reports # <<>> /\ data = NoNodes /\ before = NoNodes
    /\ reports' = Tail(reports)
    /\ mapData' = Merged(Head(reports))
    /\ data' = mapData'
    /\ merge' = "first"
    /\ UNCHANGED <<connected, changes, before, pages, blockchain, signal, stale>>

SendFirst ==
    /\ merge = "first"
    /\ Broadcast([c \in Pages |-> ProcessInitData(pages[c], data)])
    /\ stale' = stale \ Registered
    /\ merge' = "idle"
    /\ UNCHANGED <<connected, changes, mapData, data, before, reports, blockchain, signal>>

\* Mutant of OldData: an entry of oldData is never replaced by a later one.
OldestData ==
    [h \in DOMAIN before \cup DOMAIN data |-> IF h \in DOMAIN before THEN before[h] ELSE data[h]]

\* What append(oldData, data...) says of each host: the later entry.
OldData ==
    [h \in DOMAIN before \cup DOMAIN data |-> IF h \in DOMAIN data THEN data[h] ELSE before[h]]

\* Any other is merged: data is nil until it is made anew from the map.
TakeReport ==
    /\ merge = "idle" /\ reports # <<>> /\ ~Known(Head(reports))
    /\ ~(data = NoNodes /\ before = NoNodes)
    /\ reports' = Tail(reports)
    /\ mapData' = Merged(Head(reports))
    /\ before' = OldData
    /\ data' = NoNodes
    /\ merge' = "cleared"
    /\ UNCHANGED <<connected, changes, pages, blockchain, signal, stale>>

\* Mutant of NewData: nodes that have lost all their connections are left out.
NewDataOfConnected ==
    /\ merge = "cleared"
    /\ data' = [h \in {x \in DOMAIN mapData : mapData[x].connectedPeers # <<>>} |-> mapData[h]]
    /\ merge' = "filled"
    /\ UNCHANGED <<connected, changes, mapData, before, reports, pages, blockchain, signal, stale>>

NewData ==
    /\ merge = "cleared"
    /\ data' = mapData
    /\ merge' = "filled"
    /\ UNCHANGED <<connected, changes, mapData, before, reports, pages, blockchain, signal, stale>>

SendUpdate ==
    /\ merge = "filled"
    /\ Broadcast([c \in Pages |-> ProcessDiffData(pages[c], NewDiffData(before, data), data)])
    /\ merge' = "idle"
    /\ UNCHANGED <<connected, changes, mapData, data, before, reports, blockchain, signal, stale>>

Merge == DropReport \/ FirstData \/ SendFirst \/ TakeReport \/ NewData \/ SendUpdate

-----------------------------------------------------------------------------
(* Pages *)

\* The handler is called with the slices of that moment, and only then upgrades.
Call(c) ==
    /\ pages[c].connection = "new" /\ merge # "starting"
    /\ pages' = [pages EXCEPT ![c].connection = "called",
                              ![c].held = [data   |-> IF merge = "cleared" THEN Nothing ELSE data,
                                           blocks |-> blockchain]]
    /\ UNCHANGED <<connected, changes, mapData, data, before, merge, reports, blockchain, signal, stale>>

Register(c) ==
    /\ pages[c].connection = "called"
    /\ pages' = [pages EXCEPT ![c].connection = "registered"]
    /\ stale' = stale \cup {c}
    /\ UNCHANGED <<connected, changes, mapData, data, before, merge, reports, blockchain, signal>>

\* What a page would show that has had every update sent so far.
Sent == IF merge \in {"cleared", "filled"} THEN before ELSE data

\* The initial data, and then the blocks, go to every page, not only to the new one.  A page
\* adds the blocks to those it has.  Nothing but the two is on a page, so they go at once.
SendInitData(c) ==
    /\ pages[c].connection = "registered"
    /\ LET init == pages[c].held.data
           shown(page) == [ProcessInitData(page, init) EXCEPT !.blocks = @ \cup pages[c].held.blocks]
       IN
       /\ pages' = [p \in Pages |->
              IF p \notin Registered THEN pages[p]
              ELSE IF p # c THEN shown(pages[p])
              ELSE [shown(pages[p]) EXCEPT !.connection = "open", !.held = Nothing]]
       /\ stale' = CASE init = Nothing -> stale
                     [] init = Sent \/ (merge = "filled" /\ init = data) -> stale \ Registered
                     [] OTHER -> stale \cup Registered
    /\ UNCHANGED <<connected, changes, mapData, data, before, merge, reports, blockchain, signal>>

\* A page that left is removed by its handler or by the first message it cannot be sent.
Leave(c) ==
    /\ pages[c].connection = "open"
    /\ pages' = [pages EXCEPT ![c] = [NewPage EXCEPT !.connection = "left"]]
    /\ stale' = stale \ {c}
    /\ UNCHANGED <<connected, changes, mapData, data, before, merge, reports, blockchain, signal>>

-----------------------------------------------------------------------------
(* Blocks and signals *)

\* GetPeersSubscribedToTopic, on the data of the moment.
GetPeersSubscribedToTopic(t, nodes) ==
    LET peers == {h \in DOMAIN nodes : h \notin Bootstraps /\ t \in JoinedTopics}
    IN  [subscribers |-> peers,
         connections |-> {e \in peers \X Peers :
                             t \in ListedTopics /\ e[2] \in ToSet(nodes[e[1]].connectedPeers)}]

\* A message on a topic is signalled to the pages.
Signal(t) ==
    /\ Registered # {}
    /\ signal' = GetPeersSubscribedToTopic(t, data)
    /\ UNCHANGED <<connected, changes, mapData, data, before, merge, reports, pages, blockchain, stale>>

\* A block is signalled too, then kept, unchecked, and sent: a page that is called in between
\* gets it twice, and has it once.
AnnounceBlock(b) ==
    /\ merge # "starting" /\ b \notin blockchain
    /\ signal' = GetPeersSubscribedToTopic("BlockAnnouncement", data)
    /\ blockchain' = blockchain \cup {b}
    /\ Broadcast([c \in Pages |-> [pages[c] EXCEPT !.blocks = @ \cup {b}]])
    /\ UNCHANGED <<connected, changes, mapData, data, before, merge, reports, stale>>

-----------------------------------------------------------------------------

Next ==
    \/ AddBootstrapPeers \/ Merge
    \/ \E p \in Peers : Publish(p) \/ \E q \in Hosts : Change(p, q)
    \/ \E c \in Pages : Call(c) \/ Register(c) \/ SendInitData(c) \/ Leave(c)
    \/ \E t \in SignalTopics : Signal(t)
    \/ \E b \in BlockIDs : AnnounceBlock(b)

Spec == Init /\ [][Next]_vars

\* The goroutines go on; reports are lost, but not all of a node's; a page that does not
\* read stops them all, and is assumed not to.
Fairness ==
    /\ WF_vars(AddBootstrapPeers) /\ WF_vars(Merge)
    /\ \A p \in Peers : SF_vars(Publish(p))

FairSpec == Spec /\ Fairness

-----------------------------------------------------------------------------

TypeOK ==
    /\ connected \in [Peers -> SUBSET Hosts]
    /\ changes \in 0 .. MaxChanges
    /\ DOMAIN data \subseteq DOMAIN mapData /\ DOMAIN before \subseteq DOMAIN mapData
    /\ merge # "cleared" => DOMAIN before \subseteq DOMAIN data
    /\ merge = "idle" => data = mapData
    /\ \A c \in Pages : pages[c].blocks \subseteq blockchain /\ stale \subseteq Registered

\* A page shows the connections that were last reported of every node but one: however odd
\* "updated" is, only the node whose report was merged last may be shown with older ones.
\* This is so of the pages whose initial data was not overtaken by an update on its way.
PagesOneReportBehind ==
    merge = "idle" =>
        \A c \in Registered \ stale :
            /\ DOMAIN pages[c].nodes = DOMAIN data
            /\ Cardinality({h \in DOMAIN data : pages[c].nodes[h] # data[h].connectedPeers}) <= 1

\* When connections stay as they are, the data shows them in the end, whenever it is not
\* being rebuilt: no report that was dropped as known, merged late or lost leaves an older
\* one in place.
ConnectionsShown ==
    \A p \in Peers :
        <>[](merge # "cleared" =>
                /\ p \in DOMAIN data
                /\ ToSet(data[p].connectedPeers) = connected[p])
=============================================================================
