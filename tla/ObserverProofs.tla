--------------------------- MODULE ObserverProofs ---------------------------
(***************************************************************************)
(* Proofs about Observer, for any nodes, pages and blocks: what the pages   *)
(* show against the data they are sent, whatever the handlers overtake.     *)
(***************************************************************************)
EXTENDS Observer, TLAPS, FiniteSetTheorems

-----------------------------------------------------------------------------
(* The inductive invariant.                                                *)

\* The later of two maps has one report more, or one other report.
OneReport(old, new) ==
    \E x : /\ DOMAIN new = DOMAIN old \cup {x}
           /\ \A h \in DOMAIN old : h # x => new[h] = old[h]

\* What is shown are the connections of all hosts, one of them not as they are now.
ShowsAllButOne(nodes, new) ==
    /\ DOMAIN nodes = DOMAIN new
    /\ \E x : \A h \in DOMAIN new : h # x => nodes[h] = new[h].connectedPeers

PageOK(page, seen) ==
    /\ page = [connection |-> page.connection, nodes |-> page.nodes,
               held |-> page.held, blocks |-> page.blocks]
    /\ page.connection \in {"new", "called", "registered", "open", "left"}
    /\ page.blocks \subseteq seen
    /\ page.connection \in {"called", "registered"} => page.held.blocks \subseteq seen

PagesOK ==
    /\ pages = [c \in Pages |-> pages[c]]
    /\ \A c \in Pages : PageOK(pages[c], blockchain)
    /\ stale \subseteq Registered

Reports == [peerID : Peers, connectedPeers : UNION {SetToSeqs(H) : H \in SUBSET Hosts}]

\* The maps and what the merge has done of them.
MergeInv ==
    /\ merge \in {"starting", "idle", "first", "cleared", "filled"}
    /\ DOMAIN mapData \subseteq Hosts
    /\ DOMAIN data \subseteq DOMAIN mapData
    /\ DOMAIN before \subseteq DOMAIN mapData
    /\ merge # "cleared" => DOMAIN before \subseteq DOMAIN data
    /\ merge \in {"idle", "first", "filled"} => data = mapData
    /\ merge \in {"cleared", "filled"} => OneReport(before, mapData)
    /\ merge = "starting" => /\ before = NoNodes
                             /\ \A c \in Pages : pages[c].connection = "new"

\* What a page shows that was not overtaken, at each point of the merge.
ShownInv ==
    \A c \in Registered \ stale :
        /\ merge = "idle" => ShowsAllButOne(pages[c].nodes, data)
        /\ merge = "cleared" => DOMAIN pages[c].nodes = DOMAIN before
        /\ merge = "filled" => DOMAIN pages[c].nodes \in {DOMAIN before, DOMAIN data}

ObserverInv ==
    /\ connected \in [Peers -> SUBSET Hosts]
    /\ changes \in 0 .. MaxChanges
    /\ PagesOK /\ reports \in Seq(Reports) /\ MergeInv /\ ShownInv

-----------------------------------------------------------------------------
(* What a message does to a page.                                          *)

WithNodes(page, nodes) == [page EXCEPT !.nodes = nodes]

LEMMA NodesShown ==
    ASSUME NEW page, NEW seen, NEW nodes, NEW q, PageOK(page, seen), q = WithNodes(page, nodes)
    PROVE  /\ PageOK(q, seen) /\ q.connection = page.connection /\ q.nodes = nodes
           /\ q.held = page.held /\ q.blocks = page.blocks
<1>1. q = [connection |-> page.connection, nodes |-> nodes,
           held |-> page.held, blocks |-> page.blocks]
  BY DEF PageOK, WithNodes
<1> QED BY <1>1 DEF PageOK

\* A page that is sent blocks as well.
WithBlocks(page, blocks) == [page EXCEPT !.blocks = blocks]

LEMMA BlocksShown ==
    ASSUME NEW page, NEW seen, NEW blocks, NEW all, NEW q, PageOK(page, seen),
           seen \subseteq all, blocks \subseteq all, q = WithBlocks(page, blocks)
    PROVE  /\ PageOK(q, all) /\ q.connection = page.connection /\ q.nodes = page.nodes
           /\ q.held = page.held
<1>1. q = [connection |-> page.connection, nodes |-> page.nodes,
           held |-> page.held, blocks |-> blocks]
  BY DEF PageOK, WithBlocks
<1> QED BY <1>1 DEF PageOK

\* Initial data shows every connection as it is there.
LEMMA InitialData ==
    ASSUME NEW page, NEW seen, NEW init, NEW q, PageOK(page, seen), init # Nothing,
           q = ProcessInitData(page, init)
    PROVE  /\ PageOK(q, seen) /\ q.connection = page.connection
           /\ q.held = page.held
           /\ DOMAIN q.nodes = DOMAIN init /\ ShowsAllButOne(q.nodes, init)
<1>1. PICK nodes : nodes = ConnectedPeers(init)
  OBVIOUS
<1>2. q = WithNodes(page, nodes)
  BY <1>1 DEF ProcessInitData, WithNodes
<1>3. DOMAIN nodes = DOMAIN init /\ \A h \in DOMAIN init : nodes[h] = init[h].connectedPeers
  BY <1>1 DEF ConnectedPeers
<1>4. /\ PageOK(q, seen) /\ q.connection = page.connection /\ q.nodes = nodes
      /\ q.held = page.held
  BY <1>2, NodesShown
<1> QED BY <1>3, <1>4 DEF ShowsAllButOne

\* An update between maps that differ in one report leaves at most that one behind, because
\* it is the others that are "updated".
LEMMA UpdateShown ==
    ASSUME NEW page, NEW seen, NEW old, NEW new, NEW q,
           PageOK(page, seen), OneReport(old, new),
           DOMAIN page.nodes \in {DOMAIN old, DOMAIN new},
           q = ProcessDiffData(page, NewDiffData(old, new), new)
    PROVE  ShowsAllButOne(q.nodes, new)
<1>1. PICK x : /\ DOMAIN new = DOMAIN old \cup {x}
               /\ \A h \in DOMAIN old : h # x => new[h] = old[h]
  BY DEF OneReport
<1>2. PICK diff : diff = NewDiffData(old, new)
  OBVIOUS
<1>3. /\ diff.added = DOMAIN new \ DOMAIN old /\ diff.removed = {}
      /\ \A h : h \in diff.updated
            <=> h \in DOMAIN new \cap DOMAIN old /\ old[h].connectedPeers = new[h].connectedPeers
  BY <1>1, <1>2 DEF NewDiffData, FindAddedNodes, FindRemovedNodes, FindUpdatedNodes
<1>4. PICK nodes : nodes = [h \in (DOMAIN page.nodes \cup diff.added) \ diff.removed |->
                               IF h \in diff.updated \/ h \notin DOMAIN page.nodes
                               THEN new[h].connectedPeers ELSE page.nodes[h]]
  OBVIOUS
<1>5. q = WithNodes(page, nodes)
  BY <1>2, <1>4 DEF ProcessDiffData, WithNodes
<1>6. q.nodes = nodes
  BY <1>5, NodesShown
<1>7. (DOMAIN page.nodes \cup diff.added) \ diff.removed = DOMAIN new
  BY <1>1, <1>3
<1>8. DOMAIN nodes = DOMAIN new
  BY <1>4, <1>7
<1>9. ASSUME NEW h \in DOMAIN new, h # x PROVE nodes[h] = new[h].connectedPeers
  <2>1. h \in DOMAIN old /\ new[h] = old[h]
    BY <1>1, <1>9
  <2>2. h \in diff.updated
    BY <1>3, <2>1
  <2> QED BY <1>4, <1>7, <2>2
<1> QED BY <1>6, <1>8, <1>9 DEF ShowsAllButOne

\* The data is never nil to the pages: a host is not called like the field of Nothing.
LEMMA DataIsSomething ==
    ASSUME NEW nodes, DOMAIN nodes \subseteq Hosts
    PROVE  nodes # Nothing
<1>1. DOMAIN Nothing = {"none"}
  BY DEF Nothing
<1> QED BY <1>1, ObserverAssumption

-----------------------------------------------------------------------------
(* The steps.                                                              *)

LEMMA HoldsAtFirst == Init => ObserverInv
<1> SUFFICES ASSUME Init PROVE ObserverInv
  OBVIOUS
<1>1. connected \in [Peers -> SUBSET Hosts] /\ changes \in 0 .. MaxChanges
  BY ObserverAssumption DEF Init
<1>2. reports \in Seq(Reports)
  BY DEF Init
<1>3. DOMAIN NoNodes = {}
  BY DEF NoNodes
<1>4. MergeInv
  BY <1>3 DEF Init, MergeInv, NewPage
<1>5. Registered = {} /\ PagesOK
  <2>1. \A c \in Pages : pages[c] = NewPage
    BY DEF Init
  <2>2. Registered = {}
    BY <2>1 DEF Registered, NewPage
  <2>3. PageOK(NewPage, blockchain)
    BY DEF PageOK, NewPage
  <2>4. pages = [c \in Pages |-> pages[c]] /\ stale = {}
    BY DEF Init
  <2> QED BY <2>1, <2>2, <2>3, <2>4 DEF PagesOK
<1>6. ShownInv
  BY <1>5 DEF ShownInv
<1> QED BY <1>1, <1>2, <1>4, <1>5, <1>6 DEF ObserverInv

\* Nothing that the maps or the pages are about.
LEMMA Elsewhere ==
    ASSUME PagesOK, MergeInv, ShownInv,
           UNCHANGED <<mapData, data, before, merge, pages, blockchain, stale>>
    PROVE  PagesOK' /\ MergeInv' /\ ShownInv'
<1>1. Registered' = Registered
  BY DEF Registered
<1> QED BY <1>1 DEF PagesOK, MergeInv, ShownInv

\* The pages are left alone, and stay right: what they have to show is the same.
LEMMA PagesLeftAlone ==
    ASSUME PagesOK, UNCHANGED <<pages, blockchain, stale>>
    PROVE  PagesOK' /\ Registered' = Registered
BY DEF PagesOK, Registered

\* A broadcast leaves the connections as they are.
LEMMA BroadcastPages ==
    ASSUME PagesOK, NEW shown, Broadcast(shown), stale' \subseteq stale, NEW all, blockchain' = all,
           blockchain \subseteq all,
           \A c \in Registered : PageOK(shown[c], all) /\ shown[c].connection = pages[c].connection
    PROVE  /\ PagesOK' /\ Registered' = Registered
           /\ \A c \in Registered : pages'[c] = shown[c]
           /\ \A c \in Pages : pages'[c].connection = pages[c].connection
<1>1. /\ pages' = [c \in Pages |-> pages'[c]]
      /\ \A c \in Pages : pages'[c] = IF c \in Registered THEN shown[c] ELSE pages[c]
  BY DEF Broadcast
<1>2. \A c \in Pages : pages'[c].connection = pages[c].connection
  BY <1>1
<1>3. Registered' = Registered
  BY <1>2 DEF Registered
<1>4. ASSUME NEW c \in Pages PROVE PageOK(pages'[c], all)
  <2>1. PageOK(pages[c], blockchain)
    BY DEF PagesOK
  <2>2. PageOK(pages[c], all)
    BY <2>1 DEF PageOK
  <2> QED BY <1>1, <2>2
<1>5. Registered \subseteq Pages
  BY DEF Registered
<1>6. PagesOK'
  BY <1>1, <1>3, <1>4 DEF PagesOK
<1> QED BY <1>1, <1>2, <1>3, <1>5, <1>6

LEMMA AddBootstrapPeersStep == ObserverInv /\ AddBootstrapPeers => ObserverInv'
<1> SUFFICES ASSUME ObserverInv, AddBootstrapPeers PROVE ObserverInv'
  OBVIOUS
<1>1. PagesOK' /\ Registered' = Registered
  BY PagesLeftAlone DEF AddBootstrapPeers, ObserverInv
<1>2. Registered = {}
  BY DEF ObserverInv, MergeInv, AddBootstrapPeers, Registered
<1>3. DOMAIN mapData' \subseteq Hosts
  BY DEF AddBootstrapPeers, Hosts
<1>4. MergeInv'
  <2>1. DOMAIN before = {}
    BY DEF AddBootstrapPeers, ObserverInv, MergeInv, NoNodes
  <2> QED BY <1>3, <2>1 DEF AddBootstrapPeers, MergeInv
<1>5. ShownInv'
  BY <1>1, <1>2 DEF ShownInv
<1> QED BY <1>1, <1>4, <1>5 DEF AddBootstrapPeers, ObserverInv

LEMMA ChangeStep ==
    ASSUME ObserverInv, NEW p \in Peers, NEW q \in Hosts, Change(p, q)
    PROVE  ObserverInv'
<1>1. PagesOK' /\ MergeInv' /\ ShownInv'
  BY Elsewhere DEF Change, ObserverInv
<1>2. connected' \in [Peers -> SUBSET Hosts]
  BY DEF Change, ObserverInv
<1>3. changes' \in 0 .. MaxChanges
  BY ObserverAssumption DEF Change, ObserverInv
<1> QED BY <1>1, <1>2, <1>3 DEF Change, ObserverInv

LEMMA PublishStep ==
    ASSUME ObserverInv, NEW p \in Peers, Publish(p)
    PROVE  ObserverInv'
<1>1. PagesOK' /\ MergeInv' /\ ShownInv'
  BY Elsewhere DEF Publish, ObserverInv
<1>2. PICK s \in SetToSeqs(connected[p]) : reports' = Append(reports, Report(p, s))
  BY DEF Publish
<1>3. s \in UNION {SetToSeqs(H) : H \in SUBSET Hosts}
  <2>1. connected[p] \in SUBSET Hosts
    BY DEF ObserverInv
  <2> QED BY <2>1
<1>4. Report(p, s) \in Reports
  BY <1>3 DEF Report, Reports
<1>5. reports' \in Seq(Reports)
  BY <1>2, <1>4 DEF ObserverInv
<1> QED BY <1>1, <1>5 DEF Publish, ObserverInv

LEMMA SignalStep == ASSUME ObserverInv, NEW t, Signal(t) PROVE ObserverInv'
BY Elsewhere DEF Signal, ObserverInv

LEMMA AnnounceBlockStep == ASSUME ObserverInv, NEW b, AnnounceBlock(b) PROVE ObserverInv'
<1>1. PICK shown : shown = [c \in Pages |-> [pages[c] EXCEPT !.blocks = @ \cup {b}]]
  OBVIOUS
<1>2. Broadcast(shown) /\ stale' = stale /\ blockchain' = blockchain \cup {b}
  BY <1>1 DEF AnnounceBlock
<1>3. PICK all : all = blockchain'
  OBVIOUS
<1>4. ASSUME NEW c \in Registered
      PROVE  /\ PageOK(shown[c], all) /\ shown[c].connection = pages[c].connection
             /\ shown[c].nodes = pages[c].nodes
  <2>1. c \in Pages /\ PageOK(pages[c], blockchain)
    BY DEF ObserverInv, PagesOK, Registered
  <2>2. shown[c] = [pages[c] EXCEPT !.blocks = @ \cup {b}]
    BY <1>1, <2>1
  <2>3. PICK page, q, blocks :
           page = pages[c] /\ q = shown[c] /\ blocks = pages[c].blocks \cup {b}
    OBVIOUS
  <2>4. q = WithBlocks(page, blocks) /\ PageOK(page, blockchain)
    BY <2>1, <2>2, <2>3 DEF WithBlocks
  <2>5. blockchain \subseteq all /\ blocks \subseteq all
    BY <1>2, <1>3, <2>1, <2>3 DEF PageOK
  <2>6. PageOK(q, all) /\ q.connection = page.connection /\ q.nodes = page.nodes
    BY <2>4, <2>5, BlocksShown
  <2> QED BY <2>3, <2>6
<1>5. /\ PagesOK' /\ Registered' = Registered
      /\ \A c \in Registered : pages'[c] = shown[c]
      /\ \A c \in Pages : pages'[c].connection = pages[c].connection
  BY <1>2, <1>3, <1>4, BroadcastPages DEF ObserverInv
<1>6. MergeInv'
  BY <1>5 DEF AnnounceBlock, MergeInv, ObserverInv
<1>7. ShownInv'
  <2>1. \A c \in Registered : pages'[c].nodes = pages[c].nodes
    BY <1>4, <1>5
  <2> QED BY <1>5, <2>1 DEF AnnounceBlock, ShownInv, ObserverInv
<1> QED BY <1>5, <1>6, <1>7 DEF AnnounceBlock, ObserverInv

LEMMA DropReportStep == ObserverInv /\ DropReport => ObserverInv'
<1> SUFFICES ASSUME ObserverInv, DropReport PROVE ObserverInv'
  OBVIOUS
<1>1. PagesOK' /\ MergeInv' /\ ShownInv'
  BY Elsewhere DEF DropReport, ObserverInv
<1>2. reports' \in Seq(Reports)
  BY DEF DropReport, ObserverInv
<1> QED BY <1>1, <1>2 DEF DropReport, ObserverInv

\* A report that is merged.
LEMMA MergedReport ==
    ASSUME ObserverInv, reports # <<>>, NEW m, m = Merged(Head(reports))
    PROVE  OneReport(mapData, m) /\ DOMAIN mapData \subseteq DOMAIN m /\ DOMAIN m \subseteq Hosts
<1>1. PICK r : r = Head(reports)
  OBVIOUS
<1>2. r.peerID \in Hosts
  <2>1. r \in Reports
    BY <1>1 DEF ObserverInv
  <2> QED BY <2>1 DEF Reports, Hosts
<1>3. DOMAIN mapData \subseteq Hosts
  BY DEF ObserverInv, MergeInv
<1>4. m = [h \in DOMAIN mapData \cup {r.peerID} |-> IF h = r.peerID THEN r ELSE mapData[h]]
  BY <1>1 DEF Merged
<1>5. /\ DOMAIN m = DOMAIN mapData \cup {r.peerID}
      /\ \A h \in DOMAIN mapData : h # r.peerID => m[h] = mapData[h]
  BY <1>4
<1> QED BY <1>2, <1>3, <1>5 DEF OneReport

LEMMA FirstDataStep == ObserverInv /\ FirstData => ObserverInv'
<1> SUFFICES ASSUME ObserverInv, FirstData PROVE ObserverInv'
  OBVIOUS
<1>1. PagesOK' /\ Registered' = Registered
  BY PagesLeftAlone DEF FirstData, ObserverInv
<1>2. reports' \in Seq(Reports)
  BY DEF FirstData, ObserverInv
<1>3. DOMAIN mapData \subseteq DOMAIN mapData' /\ DOMAIN mapData' \subseteq Hosts
  BY MergedReport DEF FirstData
<1>4. MergeInv'
  BY <1>3 DEF FirstData, ObserverInv, MergeInv
<1>5. ShownInv'
  BY DEF FirstData, ShownInv
<1> QED BY <1>1, <1>2, <1>4, <1>5 DEF FirstData, ObserverInv

LEMMA SendFirstStep == ObserverInv /\ SendFirst => ObserverInv'
<1> SUFFICES ASSUME ObserverInv, SendFirst PROVE ObserverInv'
  OBVIOUS
<1>1. PICK shown : shown = [c \in Pages |-> ProcessInitData(pages[c], data)]
  OBVIOUS
<1>2. Broadcast(shown) /\ stale' \subseteq stale /\ blockchain' = blockchain
  BY <1>1 DEF SendFirst
<1>3. data # Nothing
  BY DataIsSomething DEF ObserverInv, MergeInv
<1>4. ASSUME NEW c \in Registered
      PROVE  /\ PageOK(shown[c], blockchain) /\ shown[c].connection = pages[c].connection
             /\ ShowsAllButOne(shown[c].nodes, data)
  <2>1. c \in Pages /\ PageOK(pages[c], blockchain)
    BY DEF ObserverInv, PagesOK, Registered
  <2>2. PICK page, q : page = pages[c] /\ q = shown[c]
    OBVIOUS
  <2>3. PageOK(page, blockchain) /\ q = ProcessInitData(page, data)
    BY <1>1, <2>1, <2>2
  <2>4. PageOK(q, blockchain) /\ q.connection = page.connection /\ ShowsAllButOne(q.nodes, data)
    BY <1>3, <2>3, InitialData
  <2> QED BY <2>2, <2>4
<1>5. /\ PagesOK' /\ Registered' = Registered
      /\ \A c \in Registered : pages'[c] = shown[c]
      /\ \A c \in Pages : pages'[c].connection = pages[c].connection
  <2>1. PICK all : all = blockchain
    OBVIOUS
  <2>2. \A c \in Registered : PageOK(shown[c], all) /\ shown[c].connection = pages[c].connection
    BY <1>4, <2>1
  <2> QED BY <1>2, <2>1, <2>2, BroadcastPages DEF ObserverInv
<1>6. MergeInv'
  BY DEF SendFirst, MergeInv, ObserverInv
<1>7. ShownInv'
  <2>1. \A c \in Registered : ShowsAllButOne(pages'[c].nodes, data)
    BY <1>4, <1>5
  <2> QED BY <1>5, <2>1 DEF SendFirst, ShownInv
<1> QED BY <1>5, <1>6, <1>7 DEF SendFirst, ObserverInv

LEMMA TakeReportStep == ObserverInv /\ TakeReport => ObserverInv'
<1> SUFFICES ASSUME ObserverInv, TakeReport PROVE ObserverInv'
  OBVIOUS
<1>1. PagesOK' /\ Registered' = Registered
  BY PagesLeftAlone DEF TakeReport, ObserverInv
<1>2. reports' \in Seq(Reports)
  BY DEF TakeReport, ObserverInv
<1>3. /\ OneReport(mapData, mapData') /\ DOMAIN mapData \subseteq DOMAIN mapData'
      /\ DOMAIN mapData' \subseteq Hosts
  BY MergedReport DEF TakeReport
<1>4. data = mapData /\ DOMAIN before \subseteq DOMAIN data
  BY DEF TakeReport, ObserverInv, MergeInv
<1>5. DOMAIN before' = DOMAIN mapData /\ \A h \in DOMAIN mapData : before'[h] = mapData[h]
  BY <1>4 DEF TakeReport, OldData
<1>6. OneReport(before', mapData')
  BY <1>3, <1>5 DEF OneReport
<1>7. MergeInv'
  <2>1. DOMAIN data' = {}
    BY DEF TakeReport, NoNodes
  <2> QED BY <1>3, <1>5, <1>6, <2>1 DEF TakeReport, MergeInv
<1>8. ShownInv'
  BY <1>1, <1>4, <1>5 DEF TakeReport, ObserverInv, ShownInv, ShowsAllButOne
<1> QED BY <1>1, <1>2, <1>7, <1>8 DEF TakeReport, ObserverInv

LEMMA NewDataStep == ObserverInv /\ NewData => ObserverInv'
<1> SUFFICES ASSUME ObserverInv, NewData PROVE ObserverInv'
  OBVIOUS
<1>1. PagesOK' /\ Registered' = Registered
  BY PagesLeftAlone DEF NewData, ObserverInv
<1>2. MergeInv'
  BY DEF NewData, ObserverInv, MergeInv
<1>3. ShownInv'
  BY <1>1 DEF NewData, ObserverInv, ShownInv
<1> QED BY <1>1, <1>2, <1>3 DEF NewData, ObserverInv

LEMMA SendUpdateStep == ObserverInv /\ SendUpdate => ObserverInv'
<1> SUFFICES ASSUME ObserverInv, SendUpdate PROVE ObserverInv'
  OBVIOUS
<1>1. PICK shown : shown = [c \in Pages |-> ProcessDiffData(pages[c], NewDiffData(before, data), data)]
  OBVIOUS
<1>2. Broadcast(shown) /\ stale' \subseteq stale /\ blockchain' = blockchain
  BY <1>1 DEF SendUpdate
<1>3. data = mapData /\ OneReport(before, data)
  BY DEF SendUpdate, ObserverInv, MergeInv
<1>4. ASSUME NEW c \in Registered
      PROVE  /\ c \in Pages /\ PageOK(pages[c], blockchain)
             /\ shown[c] = ProcessDiffData(pages[c], NewDiffData(before, data), data)
  BY <1>1 DEF ObserverInv, PagesOK, Registered
<1>5. /\ PagesOK' /\ Registered' = Registered
      /\ \A c \in Registered : pages'[c] = shown[c]
      /\ \A c \in Pages : pages'[c].connection = pages[c].connection
  <2>1. PICK all : all = blockchain
    OBVIOUS
  <2>2. ASSUME NEW c \in Registered
        PROVE  PageOK(shown[c], all) /\ shown[c].connection = pages[c].connection
    <3>1. PICK page, q : page = pages[c] /\ q = shown[c]
      OBVIOUS
    <3>2. PICK nodes : q = WithNodes(page, nodes)
      BY <1>4, <3>1 DEF ProcessDiffData, WithNodes
    <3>3. PageOK(page, all)
      BY <1>4, <2>1, <3>1
    <3>4. PageOK(q, all) /\ q.connection = page.connection
      BY <3>2, <3>3, NodesShown
    <3> QED BY <3>1, <3>4
  <2> QED BY <1>2, <2>1, <2>2, BroadcastPages DEF ObserverInv
<1>6. MergeInv'
  BY DEF SendUpdate, MergeInv, ObserverInv
<1>7. ShownInv'
  <2>1. ASSUME NEW c \in Registered \ stale PROVE ShowsAllButOne(pages'[c].nodes, data)
    <3>1. DOMAIN pages[c].nodes \in {DOMAIN before, DOMAIN data}
      BY DEF SendUpdate, ObserverInv, ShownInv
    <3>2. pages'[c] = ProcessDiffData(pages[c], NewDiffData(before, data), data)
      BY <1>4, <1>5
    <3>3. PageOK(pages[c], blockchain)
      BY <1>4
    <3> QED BY <1>3, <3>1, <3>2, <3>3, UpdateShown
  <2> QED BY <1>5, <2>1 DEF SendUpdate, ShownInv
<1> QED BY <1>5, <1>6, <1>7 DEF SendUpdate, ObserverInv

\* A page that is called holds what there is, and is not sent anything yet.
LEMMA CallStep == ASSUME ObserverInv, NEW c \in Pages, Call(c) PROVE ObserverInv'
<1>1. PICK held : /\ held.blocks = blockchain
                  /\ pages' = [pages EXCEPT ![c].connection = "called", ![c].held = held]
  <2>1. PICK d : d = IF merge = "cleared" THEN Nothing ELSE data
    OBVIOUS
  <2>2. pages' = [pages EXCEPT ![c].connection = "called",
                               ![c].held = [data |-> d, blocks |-> blockchain]]
    BY <2>1 DEF Call
  <2> QED BY <2>2
<1>2. PageOK(pages[c], blockchain) /\ pages[c].connection = "new"
  BY DEF Call, ObserverInv, PagesOK
<1>3. /\ pages' = [p \in Pages |-> pages'[p]]
      /\ \A p \in Pages : p # c => pages'[p] = pages[p]
      /\ pages'[c] = [pages[c] EXCEPT !.connection = "called", !.held = held]
  BY <1>1 DEF ObserverInv, PagesOK
<1>4. pages'[c] = [connection |-> "called", nodes |-> pages[c].nodes,
                   held |-> held, blocks |-> pages[c].blocks]
  BY <1>2, <1>3 DEF PageOK
<1>5. PageOK(pages'[c], blockchain)
  <2>1. PICK page : page = pages'[c]
    OBVIOUS
  <2>2. /\ page.connection = "called" /\ page.held = held
        /\ page.nodes = pages[c].nodes /\ page.blocks = pages[c].blocks
        /\ page = [connection |-> page.connection, nodes |-> page.nodes,
                   held |-> page.held, blocks |-> page.blocks]
    BY <1>4, <2>1
  <2> QED BY <1>1, <1>2, <2>1, <2>2 DEF PageOK
<1>6. Registered' = Registered /\ c \notin Registered
  BY <1>2, <1>3, <1>4 DEF Registered
<1>7. PagesOK'
  BY <1>3, <1>5, <1>6 DEF Call, ObserverInv, PagesOK
<1>8. MergeInv'
  BY DEF Call, ObserverInv, MergeInv
<1>9. ShownInv'
  <2>1. \A p \in Registered : pages'[p] = pages[p]
    BY <1>3, <1>6 DEF Registered
  <2> QED BY <1>6, <2>1 DEF Call, ObserverInv, ShownInv
<1> QED BY <1>7, <1>8, <1>9 DEF Call, ObserverInv

\* A page that registers may have missed updates: it counts as overtaken.
LEMMA RegisterStep == ASSUME ObserverInv, NEW c \in Pages, Register(c) PROVE ObserverInv'
<1>1. PageOK(pages[c], blockchain) /\ pages[c].connection = "called"
  BY DEF Register, ObserverInv, PagesOK
<1>2. /\ pages' = [p \in Pages |-> pages'[p]]
      /\ \A p \in Pages : p # c => pages'[p] = pages[p]
      /\ pages'[c] = [pages[c] EXCEPT !.connection = "registered"]
  BY DEF Register, ObserverInv, PagesOK
<1>3. pages'[c] = [connection |-> "registered", nodes |-> pages[c].nodes,
                   held |-> pages[c].held, blocks |-> pages[c].blocks]
  BY <1>1, <1>2 DEF PageOK
<1>4. PageOK(pages'[c], blockchain)
  BY <1>1, <1>3 DEF PageOK
<1>5. Registered' = Registered \cup {c}
  BY <1>2, <1>3 DEF Registered
<1>6. PagesOK'
  BY <1>2, <1>4, <1>5 DEF Register, ObserverInv, PagesOK
<1>7. MergeInv'
  <2>1. merge # "starting"
    BY <1>1 DEF ObserverInv, MergeInv
  <2> QED BY <2>1 DEF Register, ObserverInv, MergeInv
<1>8. ShownInv'
  <2>1. \A p \in Registered \ {c} : pages'[p] = pages[p]
    BY <1>2 DEF Registered
  <2> QED BY <1>5, <2>1 DEF Register, ObserverInv, ShownInv
<1> QED BY <1>6, <1>7, <1>8 DEF Register, ObserverInv

LEMMA LeaveStep == ASSUME ObserverInv, NEW c \in Pages, Leave(c) PROVE ObserverInv'
<1>1. pages[c].connection = "open"
  BY DEF Leave
<1>2. /\ pages' = [p \in Pages |-> pages'[p]]
      /\ \A p \in Pages : p # c => pages'[p] = pages[p]
      /\ pages'[c] = [NewPage EXCEPT !.connection = "left"]
  BY DEF Leave, ObserverInv, PagesOK
<1>3. pages'[c] = [connection |-> "left", nodes |-> NoNodes, held |-> Nothing, blocks |-> {}]
  BY <1>2 DEF NewPage
<1>4. PageOK(pages'[c], blockchain)
  BY <1>3 DEF PageOK
<1>5. Registered' = Registered \ {c}
  BY <1>2, <1>3 DEF Registered
<1>6. PagesOK'
  BY <1>2, <1>4, <1>5 DEF Leave, ObserverInv, PagesOK
<1>7. MergeInv'
  <2>1. merge # "starting"
    BY <1>1 DEF ObserverInv, MergeInv
  <2> QED BY <2>1 DEF Leave, ObserverInv, MergeInv
<1>8. ShownInv'
  <2>1. \A p \in Registered' : pages'[p] = pages[p]
    BY <1>2, <1>5 DEF Registered
  <2> QED BY <1>5, <2>1 DEF Leave, ObserverInv, ShownInv
<1> QED BY <1>6, <1>7, <1>8 DEF Leave, ObserverInv

\* What initial data and blocks make of a page.
LEMMA InitialMessages ==
    ASSUME NEW page, NEW seen, NEW init, NEW blocks, NEW q, PageOK(page, seen),
           blocks \subseteq seen, q = WithBlocks(ProcessInitData(page, init), blocks)
    PROVE  /\ PageOK(q, seen) /\ q.connection = page.connection
           /\ init = Nothing => q.nodes = page.nodes
           /\ init # Nothing => DOMAIN q.nodes = DOMAIN init /\ ShowsAllButOne(q.nodes, init)
<1>1. PICK x : x = ProcessInitData(page, init)
  OBVIOUS
<1>2. /\ PageOK(x, seen) /\ x.connection = page.connection
      /\ init = Nothing => x.nodes = page.nodes
      /\ init # Nothing => DOMAIN x.nodes = DOMAIN init /\ ShowsAllButOne(x.nodes, init)
  <2>1. CASE init = Nothing
    BY <1>1, <2>1 DEF ProcessInitData
  <2>2. CASE init # Nothing
    BY <1>1, <2>2, InitialData
  <2> QED BY <2>1, <2>2
<1>3. PageOK(q, seen) /\ q.connection = x.connection /\ q.nodes = x.nodes
  <2>1. q = WithBlocks(x, blocks) /\ seen \subseteq seen
    BY <1>1
  <2> QED BY <1>2, <2>1, BlocksShown
<1> QED BY <1>2, <1>3

\* Its initial data goes to every page: up to date it sets all right, overtaken it sets
\* all back, and nil does nothing.
LEMMA SendInitDataStep == ASSUME ObserverInv, NEW c \in Pages, SendInitData(c) PROVE ObserverInv'
<1>1. PICK init, more : init = pages[c].held.data /\ more = pages[c].held.blocks
  OBVIOUS
<1>2. PICK shown : shown = [p \in Pages |->
                               [ProcessInitData(pages[p], init) EXCEPT !.blocks = @ \cup more]]
  OBVIOUS
<1>3. /\ pages[c].connection = "registered"
      /\ pages' = [p \in Pages |->
            IF p \notin Registered THEN pages[p]
            ELSE IF p # c THEN shown[p]
            ELSE [shown[p] EXCEPT !.connection = "open", !.held = Nothing]]
      /\ stale' = CASE init = Nothing -> stale
                    [] init = Sent \/ (merge = "filled" /\ init = data) -> stale \ Registered
                    [] OTHER -> stale \cup Registered
  BY <1>1, <1>2 DEF SendInitData
<1>4. \A p \in Pages : PageOK(pages[p], blockchain)
  BY DEF ObserverInv, PagesOK
<1>5. more \subseteq blockchain
  BY <1>1, <1>3, <1>4 DEF PageOK
<1>6. ASSUME NEW p \in Pages
      PROVE  /\ PageOK(shown[p], blockchain) /\ shown[p].connection = pages[p].connection
             /\ init = Nothing => shown[p].nodes = pages[p].nodes
             /\ init # Nothing => /\ DOMAIN shown[p].nodes = DOMAIN init
                                  /\ ShowsAllButOne(shown[p].nodes, init)
  <2>1. PICK page, q : page = pages[p] /\ q = shown[p]
    OBVIOUS
  <2>2. PICK blocks : blocks = ProcessInitData(page, init).blocks \cup more
    OBVIOUS
  <2>3. PageOK(page, blockchain)
    BY <1>4, <2>1
  <2>4. q = WithBlocks(ProcessInitData(page, init), blocks)
    BY <1>2, <2>1, <2>2 DEF WithBlocks
  <2>5. blocks \subseteq blockchain
    <3>1. ProcessInitData(page, init).blocks = page.blocks
      BY <2>3 DEF ProcessInitData, PageOK
    <3> QED BY <1>5, <2>2, <2>3, <3>1 DEF PageOK
  <2>6. /\ PageOK(q, blockchain) /\ q.connection = page.connection
        /\ init = Nothing => q.nodes = page.nodes
        /\ init # Nothing => DOMAIN q.nodes = DOMAIN init /\ ShowsAllButOne(q.nodes, init)
    BY <2>3, <2>4, <2>5, InitialMessages
  <2> QED BY <2>1, <2>6
<1>7. Registered \subseteq Pages /\ c \in Registered
  BY <1>3 DEF Registered
<1>8. ASSUME NEW p \in Registered
      PROVE  PageOK(pages'[p], blockchain) /\ pages'[p].nodes = shown[p].nodes
             /\ pages'[p].connection \in {"registered", "open"}
  <2>1. CASE p # c
    <3>1. pages'[p] = shown[p]
      BY <1>3, <1>7, <2>1
    <3> QED BY <1>6, <1>7, <3>1 DEF Registered
  <2>2. CASE p = c
    <3>1. PICK page : page = shown[p]
      OBVIOUS
    <3>2. pages'[p] = [page EXCEPT !.connection = "open", !.held = Nothing] /\ PageOK(page, blockchain)
      BY <1>3, <1>6, <1>7, <2>2, <3>1
    <3>3. pages'[p] = [connection |-> "open", nodes |-> page.nodes,
                       held |-> Nothing, blocks |-> page.blocks]
      BY <3>2 DEF PageOK
    <3> QED BY <3>1, <3>2, <3>3 DEF PageOK
  <2> QED BY <2>1, <2>2
<1>9. /\ pages' = [p \in Pages |-> pages'[p]]
      /\ \A p \in Pages : p \notin Registered => pages'[p] = pages[p]
  BY <1>3
<1>10. Registered' = Registered
  BY <1>7, <1>8, <1>9 DEF Registered
<1>11. PagesOK'
  <2>1. stale' \subseteq Registered
    BY <1>3 DEF ObserverInv, PagesOK
  <2>2. \A p \in Pages : PageOK(pages'[p], blockchain)
    BY <1>4, <1>8, <1>9
  <2> QED BY <1>9, <1>10, <2>1, <2>2 DEF SendInitData, PagesOK
<1>12. MergeInv'
  <2>1. merge # "starting"
    BY <1>3 DEF ObserverInv, MergeInv
  <2> QED BY <2>1 DEF SendInitData, ObserverInv, MergeInv
<1>13. ShownInv'
  <2>1. CASE init = Nothing
    <3>1. stale' = stale
      <4>1. data # Nothing /\ Sent # Nothing
        BY DataIsSomething DEF ObserverInv, MergeInv, Sent
      <4> QED BY <1>3, <2>1, <4>1
    <3>2. \A p \in Registered : pages'[p].nodes = pages[p].nodes
      BY <1>6, <1>7, <1>8, <2>1
    <3> QED BY <1>10, <3>1, <3>2 DEF SendInitData, ObserverInv, ShownInv
  <2>2. CASE init # Nothing /\ (init = Sent \/ (merge = "filled" /\ init = data))
    <3>1. \A p \in Registered : /\ DOMAIN pages'[p].nodes = DOMAIN init
                                /\ ShowsAllButOne(pages'[p].nodes, init)
      BY <1>6, <1>7, <1>8, <2>2
    <3>2. /\ merge = "idle" => init = data
          /\ merge = "cleared" => init = before
          /\ merge = "filled" => init = before \/ init = data
      BY <2>2 DEF Sent
    <3> QED BY <1>10, <3>1, <3>2 DEF SendInitData, ShownInv
  <2>3. CASE init # Nothing /\ ~(init = Sent \/ (merge = "filled" /\ init = data))
    <3>1. stale' = stale \cup Registered
      BY <1>3, <2>3
    <3> QED BY <1>10, <3>1 DEF ShownInv
  <2> QED BY <2>1, <2>2, <2>3
<1> QED BY <1>11, <1>12, <1>13 DEF SendInitData, ObserverInv

-----------------------------------------------------------------------------
(* The invariant holds in every behaviour, and what it says.               *)

LEMMA StepsKeep == ObserverInv /\ [Next]_vars => ObserverInv'
<1> SUFFICES ASSUME ObserverInv, [Next]_vars PROVE ObserverInv'
  OBVIOUS
<1>1. CASE AddBootstrapPeers
  BY <1>1, AddBootstrapPeersStep
<1>2. CASE Merge
  BY <1>2, DropReportStep, FirstDataStep, SendFirstStep, TakeReportStep, NewDataStep,
     SendUpdateStep DEF Merge
<1>3. ASSUME NEW p \in Peers, Publish(p) \/ \E q \in Hosts : Change(p, q) PROVE ObserverInv'
  BY <1>3, PublishStep, ChangeStep
<1>4. ASSUME NEW c \in Pages, Call(c) \/ Register(c) \/ SendInitData(c) \/ Leave(c)
      PROVE  ObserverInv'
  BY <1>4, CallStep, RegisterStep, SendInitDataStep, LeaveStep
<1>5. ASSUME NEW t \in SignalTopics, Signal(t) PROVE ObserverInv'
  BY <1>5, SignalStep
<1>6. ASSUME NEW b \in BlockIDs, AnnounceBlock(b) PROVE ObserverInv'
  BY <1>6, AnnounceBlockStep
<1>7. CASE UNCHANGED vars
  <2>1. PagesOK' /\ MergeInv' /\ ShownInv'
    BY <1>7, Elsewhere DEF vars, ObserverInv
  <2> QED BY <1>7, <2>1 DEF vars, ObserverInv
<1> QED BY <1>1, <1>2, <1>3, <1>4, <1>5, <1>6, <1>7 DEF Next

LEMMA TypeFollows == ObserverInv => TypeOK
BY DEF ObserverInv, PagesOK, PageOK, MergeInv, TypeOK

LEMMA OneBehindFollows == ObserverInv => PagesOneReportBehind
<1> SUFFICES ASSUME ObserverInv, merge = "idle", NEW c \in Registered \ stale
             PROVE  /\ DOMAIN pages[c].nodes = DOMAIN data
                    /\ Cardinality({h \in DOMAIN data :
                                       pages[c].nodes[h] # data[h].connectedPeers}) <= 1
  BY DEF PagesOneReportBehind
<1>1. PICK nodes : nodes = pages[c].nodes
  OBVIOUS
<1>2. ShowsAllButOne(nodes, data)
  BY <1>1 DEF ObserverInv, ShownInv
<1>3. PICK x : \A h \in DOMAIN data : h # x => nodes[h] = data[h].connectedPeers
  BY <1>2 DEF ShowsAllButOne
<1>4. PICK behind : behind = {h \in DOMAIN data : nodes[h] # data[h].connectedPeers}
  OBVIOUS
<1>5. behind \subseteq {x}
  BY <1>3, <1>4
<1>6. IsFiniteSet({x}) /\ Cardinality({x}) = 1
  BY FS_Singleton
<1>7. Cardinality(behind) <= 1
  BY <1>5, <1>6, FS_Subset
<1> QED BY <1>1, <1>2, <1>4, <1>7 DEF ShowsAllButOne

\* The types, and that the pages show no block that was not seen, whatever is merged or sent.
THEOREM TypeCorrect == Spec => []TypeOK
<1>1. Spec => []ObserverInv
  BY HoldsAtFirst, StepsKeep, PTL DEF Spec
<1> QED BY <1>1, TypeFollows, PTL

\* A page whose initial data was not overtaken shows what was last reported of every node
\* but one, although the diffs call "updated" what did not change: each update mends what
\* the one before it left behind.
THEOREM OneReportBehind == Spec => []PagesOneReportBehind
<1>1. Spec => []ObserverInv
  BY HoldsAtFirst, StepsKeep, PTL DEF Spec
<1> QED BY <1>1, OneBehindFollows, PTL
=============================================================================
