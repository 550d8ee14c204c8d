------------------------------- MODULE PeerMesh -----------------------------
(***************************************************************************)
(* How the nodes of a session find each other, connect their queue pairs   *)
(* and route commands to the right peer: the bootstrap and the QP          *)
(* transitions of create_session (comm/internode/session.h), the peer-slot *)
(* arithmetic of types.h, the FIFO choice of d2h_fifo.cuh and the QP       *)
(* routing of proxy.h.                                                     *)
(*                                                                         *)
(* Each GPU has a session of its own, so a node is here the session of GPU *)
(* Dev of that node.  With more than one peer the session is channelized:  *)
(* each peer owns a block of QPs, and a command names its channel          *)
(* (reserved0), peer_slot * Devices + Dev.                                 *)
(***************************************************************************)
EXTENDS Integers, FiniteSets, FiniteSetsExt

CONSTANTS NumNodes,      \* num_peers + 1
          CfgQPs,        \* cfg.num_qps
          KMaxQPs,       \* kMaxQPs
          Devices,       \* NUM_DEVICES, the 8 of num_peers * 8
          Dev,           \* dev_idx of the GPU
          ProxyThreads,  \* cfg.num_proxy_threads
          Lanes,         \* lane ids the kernel uses
          FifoByChannel, \* whether a kernel picks the FIFO by channel or by lane
          None           \* a QP that is not connected

NumPeers == NumNodes - 1

\* kMaxPeers is 16 and kMaxQPs 24: there is a QP for every peer.
ASSUME MeshAssumption ==
    /\ NumNodes \in Nat \ {0, 1} /\ CfgQPs \in Nat \ {0} /\ KMaxQPs \in Nat
    /\ Devices \in Nat \ {0} /\ NumPeers <= KMaxQPs
    /\ None \notin (0..(NumNodes - 1)) \X Nat

ASSUME RouteAssumption ==
    /\ Dev \in 0..(Devices - 1) /\ ProxyThreads \in Nat \ {0} /\ Lanes \subseteq Nat

Nodes == 0..(NumNodes - 1)
PeerSlots == 0..(NumPeers - 1)

-----------------------------------------------------------------------------
\* The ring order of peers and its inverse.

\* The node in peer slot p of node r.
PeerRankForSlot(r, p) ==
    LET n == r + 1 + p IN IF n >= NumNodes THEN n - NumNodes ELSE n

\* The slot of node r in the table of its peer m.
SlotAtPeer(r, m) ==
    LET s == r - m - 1 IN IF s < 0 THEN s + NumNodes ELSE s

-----------------------------------------------------------------------------
\* QPs, proxy threads and FIFOs.

Channelize == NumPeers > 1

AtMost(a, b) == IF a <= b THEN a ELSE b
AtLeast(a, b) == IF a >= b THEN a ELSE b

NumQPs ==
    AtMost(KMaxQPs, IF Channelize THEN AtLeast(CfgQPs, NumPeers * Devices) ELSE CfgQPs)

QPs == 0..(NumQPs - 1)

QpsPerPeer == IF Channelize THEN AtLeast(1, NumQPs \div NumPeers) ELSE NumQPs

\* The QPs of peer slot p: local_qp_base up to local_qp_end.
Base(p) == p * QpsPerPeer
Block(p) == Base(p)..(AtMost(NumQPs, Base(p) + QpsPerPeer) - 1)

NumThreads == AtMost(ProxyThreads, NumQPs)
QpsPerProxy == AtLeast(1, (NumQPs + NumThreads - 1) \div NumThreads)

\* route_global_qp: the QP the proxy sends a command on.
RouteGlobalQp(c) == (IF Channelize THEN c.chan ELSE c.lane) % NumQPs

\* The FIFO, and so the proxy thread, that the kernel hands the command to.
SelectFifo(c) ==
    LET lane == IF FifoByChannel THEN c.chan ELSE c.lane
    IN  AtMost(NumThreads - 1, (lane % NumQPs) \div QpsPerProxy)

\* The QPs of proxy thread t.
OwnedBy(t) == {q \in QPs : t * QpsPerProxy <= q /\ q < (t + 1) * QpsPerProxy}

-----------------------------------------------------------------------------
VARIABLES met,       \* peers each node has exchanged ConnectionInfo with
          connected, \* peer slots each node has brought its QPs up for
          qp,        \* what each QP is connected to: <<node, QP>> or None
          issued,    \* commands the kernels have pushed
          landed,    \* ... that were written to a peer, and where
          dropped    \* ... that the proxy threw away

meshVars == <<met, connected, qp, issued, landed, dropped>>

MeshInit ==
    /\ met = [n \in Nodes |-> {}]
    /\ connected = [n \in Nodes |-> 0]
    /\ qp = [n \in Nodes |-> [i \in QPs |-> None]]
    /\ issued = {} /\ landed = {} /\ dropped = {}

-----------------------------------------------------------------------------
\* The bug the comment in create_session tells of: each node goes round its
\* own peer table.
TurnLocalOrder(n) ==
    LET left == {p \in PeerSlots : PeerRankForSlot(n, p) \notin met[n]}
    IN  IF left = {} THEN n ELSE PeerRankForSlot(n, Min(left))

\* The peer node n is waiting for: it takes its pairs <<lo, hi>> in the order of
\* lo, then hi, which for n is the order of the other node.
Turn(n) ==
    LET left == (Nodes \ {n}) \ met[n] IN IF left = {} THEN n ELSE Min(left)

\* exchange_info_tcp: the lower node listens, the higher connects and retries;
\* it takes place when both have come to this pair.
Exchange(lo, hi) ==
    /\ lo < hi /\ Turn(lo) = hi /\ Turn(hi) = lo
    /\ met' = [met EXCEPT ![lo] = @ \cup {hi}, ![hi] = @ \cup {lo}]
    /\ UNCHANGED <<connected, qp, issued, landed, dropped>>

\* The bug of assuming that two nodes are in the same slot of each other.
ConnectPeerSameSlot(n) ==
    LET p == connected[n]
        m == PeerRankForSlot(n, p)
    IN  /\ met[n] = Nodes \ {n} /\ p < NumPeers
        /\ qp' = [qp EXCEPT ![n] = [i \in QPs |->
                    IF i \in Block(p) THEN <<m, Base(p) + (i - Base(p))>> ELSE @[i]]]
        /\ connected' = [connected EXCEPT ![n] = p + 1]
        /\ UNCHANGED <<met, issued, landed, dropped>>

\* INIT -> RTR -> RTS of the QPs of the next peer slot, each connected to the QP
\* at the same place in the block that the peer has for this node.
ConnectPeer(n) ==
    LET p == connected[n]
        m == PeerRankForSlot(n, p)
    IN  /\ met[n] = Nodes \ {n} /\ p < NumPeers
        /\ qp' = [qp EXCEPT ![n] = [i \in QPs |->
                    IF i \in Block(p)
                      THEN <<m, Base(SlotAtPeer(n, m)) + (i - Base(p))>> ELSE @[i]]]
        /\ connected' = [connected EXCEPT ![n] = p + 1]
        /\ UNCHANGED <<met, issued, landed, dropped>>

Up == \A n \in Nodes : connected[n] = NumPeers

\* The bug of numbering the channels GPU by GPU.
CommandByDevice(n, p, l) ==
    LET m == PeerRankForSlot(n, p)
    IN  [src |-> n, dst |-> m, slot |-> SlotAtPeer(n, m),
         chan |-> Dev * NumPeers + p, lane |-> l]

\* What a kernel of node n pushes to send to peer slot p on lane l.
Command(n, p, l) ==
    LET m == PeerRankForSlot(n, p)
    IN  [src |-> n, dst |-> m, slot |-> SlotAtPeer(n, m),
         chan |-> p * Devices + Dev, lane |-> l]

\* The proxy of the chosen FIFO routes the command to a QP; it drops it when the
\* QP is not its own, and loses it when the QP is not connected.  The write lands
\* in the bank `slot` of the node at the other end.
Issue(n, p, l) ==
    LET c == Command(n, p, l)
        q == RouteGlobalQp(c)
        kept == q \in OwnedBy(SelectFifo(c)) /\ qp[n][q] # None
    IN  /\ Up /\ c \notin issued
        /\ issued' = issued \cup {c}
        /\ IF kept
             THEN landed' = landed \cup {[cmd |-> c, at |-> qp[n][q][1]]} /\ UNCHANGED dropped
             ELSE dropped' = dropped \cup {c} /\ UNCHANGED landed
        /\ UNCHANGED <<met, connected, qp>>

Finished ==
    /\ Up /\ issued = {Command(n, p, l) : n \in Nodes, p \in PeerSlots, l \in Lanes}
    /\ UNCHANGED meshVars

MeshNext ==
    \/ \E lo \in Nodes, hi \in Nodes : Exchange(lo, hi)
    \/ \E n \in Nodes : ConnectPeer(n)
    \/ \E n \in Nodes, p \in PeerSlots, l \in Lanes : Issue(n, p, l)
    \/ Finished

MeshSpec == MeshInit /\ [][MeshNext]_meshVars

\* The processes of create_session run, and a listener and its client meet.
MeshFairSpec ==
    /\ MeshSpec
    /\ WF_meshVars((\E lo \in Nodes, hi \in Nodes : Exchange(lo, hi))
                 \/ \E n \in Nodes : ConnectPeer(n))

-----------------------------------------------------------------------------
\* Types of the bootstrap's and the mesh's state.
MeshTypeOK ==
    /\ met \in [Nodes -> SUBSET Nodes]
    /\ connected \in [Nodes -> 0..NumPeers]
    /\ qp \in [Nodes -> [QPs -> (Nodes \X QPs) \cup {None}]]

\* Connected QPs come in pairs: a QP that reached RTS points at a QP that, once
\* its node has come to that peer slot, points back at it.  An RC pair whose ends
\* disagree drops everything.
LinksArePairs ==
    \A n \in Nodes : \A i \in QPs : qp[n][i] # None =>
        LET m == qp[n][i][1]  j == qp[n][i][2]
        IN  m # n /\ (connected[m] > SlotAtPeer(n, m) => qp[m][j] = <<n, i>>)

\* Where the QPs of the slots a node has been through point, and that no other QP
\* is connected: the inductive strengthening of LinksArePairs.
BlockInv ==
    \A n \in Nodes : \A p \in PeerSlots : p < connected[n] =>
        \A i \in Block(p) :
            LET m == PeerRankForSlot(n, p)
            IN  qp[n][i] = <<m, Base(SlotAtPeer(n, m)) + (i - Base(p))>>

OnlyInv ==
    \A n \in Nodes : \A i \in QPs : qp[n][i] # None =>
        \E p \in PeerSlots : p < connected[n] /\ i \in Block(p)

\* The conjunction the proof carries from state to state.
MeshIInv == MeshTypeOK /\ BlockInv /\ OnlyInv

\* Every write lands on the node it is meant for, in the bank that is its sender's
\* peer slot there, and no command is thrown away for being handed to the wrong proxy
\* thread.
LandsAtAddressee ==
    /\ \A w \in landed : /\ w.at = w.cmd.dst
                          /\ PeerRankForSlot(w.at, w.cmd.slot) = w.cmd.src
    /\ dropped = {}

\* When the routes of the kernels and of the proxy agree: the channels of all peers
\* have a QP each, as they do for up to kMaxQPs / 8 peers unless cfg.num_qps asks for
\* more QPs than channels, and the kernel picks the FIFO by what the proxy routes by,
\* or there is one FIFO only.
RoutesAgree ==
    /\ Channelize => NumPeers * Devices <= KMaxQPs /\ CfgQPs <= NumPeers * Devices
    /\ (FifoByChannel <=> Channelize) \/ ProxyThreads = 1

\* The pairwise bootstrap comes to an end on every node.
MeshConnects == <>Up
=============================================================================
