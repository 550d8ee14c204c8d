---------------------------- MODULE EpochBoundary ---------------------------
(***************************************************************************)
(* The boundary between two iterations of a multi-node operator: how the   *)
(* nodes reuse their receive buffers and arrival flags from one epoch to   *)
(* the next without losing an arrival or reading a stale one.              *)
(*                                                                         *)
(* In an iteration every node writes its tiles into the receive buffers of *)
(* its peers, each write followed by its arrival flag, and waits for the   *)
(* tiles of the others.  Between iterations its host runs Program, a cycle *)
(* of steps: prepare_epoch and commit_epoch of comm/internode/session.h,   *)
(* cross-rank barriers (external, torch.distributed) and the kernel.  The  *)
(* gemm_ar kernel ends with a boundary of its own: its reduce CTAs clear   *)
(* the flags and one of them exchanges BARRIER_NOTIFYs with the peers.     *)
(*                                                                         *)
(* Writes in flight are unordered, between QPs as between nodes; a write   *)
(* and its flag land together.  The buffers hold the epoch of their data.  *)
(***************************************************************************)
EXTENDS Integers, Sequences, FiniteSets

CONSTANTS Configs,  \* the ways the operators and benchmarks use a session
          MaxEpoch  \* bound on the epochs of a behaviour

Steps == {"prepare", "commit", "barrier", "kernel"}

ASSUME BoundaryAssumption == MaxEpoch \in Nat \ {0} /\ \A c \in Configs :
    /\ c.num_tiles \in Nat /\ c.num_reduce \in Nat \ {0}
    /\ c.program \in Seq(Steps) /\ c.program # <<>>
    /\ {c.queue_layout, c.host_reset, c.kernel_reset} \subseteq BOOLEAN

VARIABLE cfg              \* the configuration, the same on every node

Nodes == cfg.nodes              \* the nodes of the session
NumTiles == cfg.num_tiles       \* tiles each node sends to each peer
Program == cfg.program          \* the host's steps of an iteration, repeated
QueueLayout == cfg.queue_layout \* arrival queue (packed work) or flat flags (epoch)
HostReset == cfg.host_reset     \* commit_epoch resets the arrival flags
KernelReset == cfg.kernel_reset \* the kernel ends with gemm_ar's reset and barrier
NumReduce == cfg.num_reduce     \* num_inter_reduce_store_sms: CTAs sharing the reset

VARIABLES epoch,    \* s->epoch of each node
          at,       \* index in Program of the host's current step
          sent,     \* tiles the running kernel has sent, as <<peer, tile>>
          got,      \* tiles it has consumed, as <<peer, tile>>
          read,     \* the epoch of the data it found in each of them
          cleared,  \* reduce CTAs that have done their share of the reset
          rung,     \* whether the driver CTA has pushed BARRIER_NOTIFY
          wire,     \* data writes in flight
          bells,    \* barrier writes in flight
          buf,      \* receive buffer: epoch of the data in each tile
          flag,     \* arrival flags: epoch of the write that set it, or 0
          slot      \* stage_barrier slot 0: the last epoch written to it

kernel == <<sent, got, read, cleared, rung>>
net == <<wire, bells, buf, flag, slot>>
vars == <<cfg, epoch, at, kernel, net>>

Tiles == 0..(NumTiles - 1)
CTAs == 0..(NumReduce - 1)
Peers(n) == Nodes \ {n}
Words(n) == Peers(n) \X Tiles
Step(n) == Program[at[n]]

-----------------------------------------------------------------------------
\* A fresh session on every node; the ranks have met in a barrier.
Init ==
    /\ cfg \in Configs
    /\ epoch = [n \in Nodes |-> 1]
    /\ at = [n \in Nodes |-> 1]
    /\ sent = [n \in Nodes |-> {}] /\ got = [n \in Nodes |-> {}]
    /\ read = [n \in Nodes |-> [w \in Words(n) |-> 0]]
    /\ cleared = [n \in Nodes |-> {}] /\ rung = [n \in Nodes |-> FALSE]
    /\ wire = {} /\ bells = {}
    /\ buf = [n \in Nodes |-> [w \in Words(n) |-> 0]]
    /\ flag = [n \in Nodes |-> [w \in Words(n) |-> 0]]
    /\ slot = [n \in Nodes |-> 0]

Advance(n) == at' = [at EXCEPT ![n] = (@ % Len(Program)) + 1]

-----------------------------------------------------------------------------
\* The kernel of node n.

\* The bug of losing the last tile on the way to the NIC.
SendLosesLast(n, m, t) ==
    /\ Step(n) = "kernel" /\ <<m, t>> \notin sent[n]
    /\ sent' = [sent EXCEPT ![n] = @ \cup {<<m, t>>}]
    /\ wire' = wire \cup {r \in {[src |-> n, dst |-> m, tile |-> t, epoch |-> epoch[n]]} :
                           t < NumTiles - 1}
    /\ UNCHANGED <<cfg, epoch, at, got, read, cleared, rung, bells, buf, flag, slot>>

\* It pushes a transfer; the proxy posts it to the peer.
Send(n, m, t) ==
    /\ Step(n) = "kernel" /\ <<m, t>> \notin sent[n]
    /\ sent' = [sent EXCEPT ![n] = @ \cup {<<m, t>>}]
    /\ wire' = wire \cup {[src |-> n, dst |-> m, tile |-> t, epoch |-> epoch[n]]}
    /\ UNCHANGED <<cfg, epoch, at, got, read, cleared, rung, bells, buf, flag, slot>>

\* The bug of a flat waiter that takes any non-zero word.
ArrivedNonZero(n, w) == flag[n][w] # 0

\* What a waiting CTA accepts as an arrival: the queue layout takes any non-zero
\* word, the flat layout the word of the current epoch.
Arrived(n, w) == IF QueueLayout THEN flag[n][w] # 0 ELSE flag[n][w] = epoch[n]

\* A CTA finds the arrival of a tile and reads its data.
Consume(n, w) ==
    /\ Step(n) = "kernel" /\ w \notin got[n] /\ Arrived(n, w)
    /\ got' = [got EXCEPT ![n] = @ \cup {w}]
    /\ read' = [read EXCEPT ![n][w] = buf[n][w]]
    /\ UNCHANGED <<cfg, epoch, at, sent, cleared, rung, net>>

\* gemm_ar_iter_end_reset_arrival_flags: reduce CTA k zeroes its share of the
\* flags, once the kernel has no more use for them.
Share(n, k) == {w \in Words(n) : w[2] % NumReduce = k}

ClearFlags(n, k) ==
    /\ KernelReset /\ Step(n) = "kernel" /\ k \notin cleared[n]
    /\ got[n] = Words(n) /\ sent[n] = Words(n)
    /\ flag' = [flag EXCEPT ![n] = [w \in Words(n) |-> IF w \in Share(n, k) THEN 0 ELSE @[w]]]
    /\ cleared' = [cleared EXCEPT ![n] = @ \cup {k}]
    /\ UNCHANGED <<cfg, epoch, at, sent, got, read, rung, wire, bells, buf, slot>>

\* The bug of notifying the peers before the flags are clear.
RingEarly(n) ==
    /\ KernelReset /\ Step(n) = "kernel" /\ ~rung[n]
    /\ got[n] = Words(n) /\ sent[n] = Words(n)
    /\ rung' = [rung EXCEPT ![n] = TRUE]
    /\ bells' = bells \cup {[src |-> n, dst |-> m, epoch |-> epoch[n]] : m \in Peers(n)}
    /\ UNCHANGED <<cfg, epoch, at, sent, got, read, cleared, wire, buf, flag, slot>>

\* gemm_ar_hierarchical_xnode_barrier: the driver CTA, when its own share is
\* clear, pushes BARRIER_NOTIFY; the proxy writes the epoch to every peer.
Ring(n) ==
    /\ KernelReset /\ Step(n) = "kernel" /\ ~rung[n] /\ 0 \in cleared[n]
    /\ rung' = [rung EXCEPT ![n] = TRUE]
    /\ bells' = bells \cup {[src |-> n, dst |-> m, epoch |-> epoch[n]] : m \in Peers(n)}
    /\ UNCHANGED <<cfg, epoch, at, sent, got, read, cleared, wire, buf, flag, slot>>

\* The kernel ends when all its CTAs have; the driver waits for slot >= epoch.
KernelEnds(n) ==
    /\ Step(n) = "kernel" /\ sent[n] = Words(n) /\ got[n] = Words(n)
    /\ KernelReset => cleared[n] = CTAs /\ rung[n] /\ slot[n] >= epoch[n]
    /\ Advance(n)
    /\ UNCHANGED <<cfg, epoch, kernel, net>>

-----------------------------------------------------------------------------
\* The host of node n.

\* prepare_epoch: the proxy's writes have completed, that is, landed.
Prepare(n) ==
    /\ Step(n) = "prepare" /\ \A r \in wire \cup bells : r.src # n
    /\ Advance(n)
    /\ UNCHANGED <<cfg, epoch, kernel, net>>

\* commit_epoch: the new epoch and, unless the environment says otherwise, a
\* memset of the arrival flags.  The next kernel starts with nothing done.
Commit(n) ==
    /\ Step(n) = "commit" /\ epoch[n] < MaxEpoch
    /\ epoch' = [epoch EXCEPT ![n] = @ + 1]
    /\ flag' = IF HostReset THEN [flag EXCEPT ![n] = [w \in Words(n) |-> 0]] ELSE flag
    /\ sent' = [sent EXCEPT ![n] = {}] /\ got' = [got EXCEPT ![n] = {}]
    /\ cleared' = [cleared EXCEPT ![n] = {}] /\ rung' = [rung EXCEPT ![n] = FALSE]
    /\ Advance(n)
    /\ UNCHANGED <<cfg, read, wire, bells, buf, slot>>

\* dist.barrier(): all hosts leave it when the last has come.
Barrier ==
    /\ \A n \in Nodes : Step(n) = "barrier"
    /\ at' = [n \in Nodes |-> (at[n] % Len(Program)) + 1]
    /\ UNCHANGED <<cfg, epoch, kernel, net>>

-----------------------------------------------------------------------------
\* The network: a data write lands with its flag, a barrier write overwrites
\* the one slot that all the peers of a node share.
Land(r) ==
    /\ r \in wire
    /\ wire' = wire \ {r}
    /\ buf' = [buf EXCEPT ![r.dst][<<r.src, r.tile>>] = r.epoch]
    /\ flag' = [flag EXCEPT ![r.dst][<<r.src, r.tile>>] = r.epoch]
    /\ UNCHANGED <<cfg, epoch, at, kernel, bells, slot>>

LandBell(r) ==
    /\ r \in bells
    /\ bells' = bells \ {r}
    /\ slot' = [slot EXCEPT ![r.dst] = r.epoch]
    /\ UNCHANGED <<cfg, epoch, at, kernel, wire, buf, flag>>

-----------------------------------------------------------------------------
NodeStep(n) ==
    \/ \E w \in Words(n) : Send(n, w[1], w[2]) \/ Consume(n, w)
    \/ \E k \in CTAs : ClearFlags(n, k)
    \/ Ring(n) \/ KernelEnds(n) \/ Prepare(n) \/ Commit(n)

\* The bound on epochs is reached.
Finished ==
    /\ \A n \in Nodes : Step(n) = "commit" /\ epoch[n] = MaxEpoch
    /\ UNCHANGED vars

Next ==
    \/ \E n \in Nodes : NodeStep(n)
    \/ Barrier
    \/ \E r \in wire : Land(r)
    \/ \E r \in bells : LandBell(r)
    \/ Finished

Spec == Init /\ [][Next]_vars

\* Kernels, hosts and NICs keep going, and a posted write lands.
FairSpec ==
    /\ Spec
    /\ \A n \in UNION {c.nodes : c \in Configs} : WF_vars(n \in Nodes /\ NodeStep(n))
    /\ WF_vars(Barrier)
    /\ WF_vars((\E r \in wire : Land(r)) \/ (\E r \in bells : LandBell(r)))

-----------------------------------------------------------------------------
\* A kernel reads the data of its own epoch in every tile it consumes: it is not
\* taken in by an arrival left over from an earlier one, and no write of a later
\* one has replaced the data.
ReadsOwnEpoch ==
    \A n \in Nodes : \A w \in got[n] : read[n][w] = epoch[n]

\* No reset wipes out an arrival that is still to be consumed: from landing to
\* consumption the flag stays up.  The sender never repeats a lost one.
NoArrivalLost ==
    \A n \in Nodes : \A w \in Words(n) :
        buf[n][w] > epoch[n] \/ (buf[n][w] = epoch[n] /\ w \notin got[n])
            => flag[n][w] = buf[n][w]

\* Every iteration completes on every node.
IterationsComplete == <>(\A n \in Nodes : Step(n) = "commit" /\ epoch[n] = MaxEpoch)
=============================================================================
