------------------------------- MODULE AgGemm -------------------------------
(***************************************************************************)
(* The fused all-gather + GEMM kernel (src/ag_gemm.cu, operators/ag_gemm/  *)
(* ag_gemm.cuh) on every GPU of every node, with the proxy-side forwarding *)
(* of received rows (comm/internode/proxy.h) and the host loop around it.  *)
(*                                                                         *)
(* Each GPU starts with its share of the rows of its node's A.  The        *)
(* intra-node CTAs gather A over the node and, hop by hop of a ring of     *)
(* nodes, republish the rows that came by RDMA; the compute CTAs multiply  *)
(* each row block with the columns of B once a flag says that it is there. *)
(*                                                                         *)
(* A row of A is a pair of row blocks, which travel separately.  Buffers   *)
(* hold, for each row block and column, whose rows of which launch are in  *)
(* it.  How a work request reaches its peer is the subject of the Proxy    *)
(* and PeerMesh modules: here data, flag and notification arrive together. *)
(***************************************************************************)
EXTENDS Integers, FiniteSets, FiniteSetsExt

CONSTANT Configs    \* shapes, CTA splits and environment flags

ASSUME ConfigAssumption == \A c \in Configs :
    /\ {c.rows, c.cols, c.b_cols, c.super_m, c.halves, c.warps, c.num_intra, c.num_comp,
        c.launches} \subseteq Nat \ {0}
    /\ c.nodes \in Nat \ {0, 1} /\ c.devices \in Nat \ {0}
    \* Of two nodes, one may be left out but for the rows that it sends.
    /\ c.watched \in {1, c.nodes} /\ (c.watched = 1 => c.nodes = 2)
    /\ {c.per_col, c.proxy_forward, c.sync} \subseteq BOOLEAN

VARIABLE cfg

-----------------------------------------------------------------------------
\* Layout.

Nodes == 0..(cfg.nodes - 1)
Gpus == Nodes \X (0..(cfg.devices - 1))
NodeOf(g) == g[1]
OnNode(g) == {h \in Gpus : NodeOf(h) = NodeOf(g)}
NumPeers == cfg.nodes - 1
Slots == 0..(NumPeers * NumPeers - 1)      \* virtual: a bank of peer slots for each hop

Rows == 0..(cfg.devices * cfg.rows - 1)    \* of a node, in units of two row blocks
Blocks == 0..(cfg.halves * cfg.devices * cfg.rows - 1)
BlocksOf(row) == {cfg.halves * row + h : h \in 0..(cfg.halves - 1)}
RowOf(rb) == rb \div cfg.halves
Cols == 0..(cfg.cols - 1)                  \* of A
OwnRows(g) == {row \in Rows : row \div cfg.rows = g[2]}

IntraCtas == 0..(cfg.num_intra - 1)
CompCtas == cfg.num_intra..(cfg.num_intra + cfg.num_comp - 1)
Ctas == IntraCtas \cup CompCtas

\* The gather and republish tasks of a GPU, striped over the CTAs and their warps.
Tasks == 0..(cfg.rows * cfg.cols - 1)
TaskRow(g, t) == t \div cfg.cols + g[2] * cfg.rows
TaskCol(t) == t % cfg.cols
TasksOf(c) == {t \in Tasks : (t \div cfg.warps) % cfg.num_intra = c}
ForwardRows(g, c) == {row \in OwnRows(g) : (row - g[2] * cfg.rows) % cfg.num_intra = c}

peer_rank_for_slot(node, slot) == (node + 1 + slot) % cfg.nodes
slot_at_peer(rank, peer) == (rank - peer - 1) % cfg.nodes
Steps == 0..(NumPeers - 1)                 \* hops of the ring
OriginOf(n, step) == (n - 1 - step) % cfg.nodes
Next1(g) == <<peer_rank_for_slot(NodeOf(g), 0), g[2]>>

\* decode_comp_task: groups of SUPER_M row blocks, column by column, then the rest.
decode_comp_task(flat) ==
    LET super_rows == (Cardinality(Blocks) \div cfg.super_m) * cfg.super_m
        super_blocks == cfg.super_m * cfg.b_cols
        final_rows == Cardinality(Blocks) - super_rows
        rem == flat - super_rows * cfg.b_cols
    IN  IF rem < 0
          THEN [rb |-> cfg.super_m * (flat \div super_blocks) + (flat % cfg.super_m),
                col |-> (flat % super_blocks) \div cfg.super_m]
          ELSE [rb |-> super_rows + (rem % Max({1, final_rows})),
                col |-> rem \div Max({1, final_rows})]

NodeTiles == Cardinality(Blocks) * cfg.b_cols
TotalTiles == NodeTiles * cfg.nodes
ShardOf(g, task) == (NodeOf(g) + task \div NodeTiles) % cfg.nodes

-----------------------------------------------------------------------------
VARIABLES
    launch,         \* launches of each GPU so far, the one that runs included
    host,           \* "run", or "reset" between the two host barriers
    pos,            \* each CTA: "gather", "work", "reset", "barrier" or "over"
    done,           \* tasks of this launch: <<0, t>> gathered, <<1 + step, t>> republished
    forwarded,      \* <<step, row, warp>>
    load,           \* each compute CTA: the task and the column it loads next
    C,              \* each tile: what was loaded for it
    A, A_recv,      \* A_recv is also where the RDMA writes land
    arrival_flags, forward_notify, forward_seen_epoch,
    plane0, plane2, \* readiness counts, a replica on each GPU
    counter,        \* the monotonic counters: phase-1 gate, grid sync, barrier_all
    target,         \* what a CTA waits for at its counter
    posted          \* work requests on their way

data == <<C, A, A_recv>>
flags == <<arrival_flags, forward_notify>>
planes == <<plane0, plane2>>
vars == <<cfg, launch, host, pos, done, forwarded, load, data, flags,
          forward_seen_epoch, planes, counter, target, posted>>

Epoch(g) == IF cfg.sync THEN launch[g] ELSE 1
OwnA == -1           \* the source of a work request that is not a slot of A_recv
Empty == [origin |-> -1, launch |-> 0]

KernelOver(g) == \A c \in Ctas : pos[g][c] = "over"

\* The prologue kernel posts the GPU's own rows: post_merge_wrs_for_intra_row, straight
\* from A to the next node.  Deliver may take them at any time from then on, so that
\* nothing depends on the stream it runs on.
Prologue(g, epoch) ==
    {[from |-> OwnA, block |-> rb, slot |-> slot_at_peer(NodeOf(g), NodeOf(Next1(g))),
      epoch |-> epoch, warp |-> 0, chained |-> TRUE] :
        rb \in UNION {BlocksOf(row) : row \in OwnRows(g)}}

NoTiles == [x \in Nodes \X Blocks \X (0..(cfg.b_cols - 1)) |-> {}]
Start(g) == [c \in Ctas |-> IF NodeOf(g) >= cfg.watched THEN "over"
                           ELSE IF c \in IntraCtas THEN "gather" ELSE "work"]

Init ==
    /\ cfg \in Configs
    /\ launch = [g \in Gpus |-> 1] /\ host = [g \in Gpus |-> "run"]
    /\ pos = [g \in Gpus |-> Start(g)]
    /\ done = [g \in Gpus |-> {}] /\ forwarded = [g \in Gpus |-> {}]
    /\ load = [g \in Gpus |-> [c \in CompCtas |-> <<c - cfg.num_intra, 0>>]]
    /\ C = [g \in Gpus |-> NoTiles]
    /\ A = [g \in Gpus |-> [x \in Blocks \X Cols |-> IF RowOf(x[1]) \in OwnRows(g) THEN 1 ELSE 0]]
    /\ A_recv = [g \in Gpus |-> [x \in Slots \X Blocks \X Cols |-> Empty]]
    /\ arrival_flags = [g \in Gpus |-> [x \in Slots \X Blocks |-> 0]]
    /\ forward_notify = arrival_flags /\ forward_seen_epoch = arrival_flags
    /\ plane0 = [g \in Gpus |-> [x \in Rows \X Cols |-> 0]]
    /\ plane2 = [g \in Gpus |-> [x \in Steps \X Rows \X Cols |-> 0]]
    /\ counter = [g \in Gpus |-> [k \in {"gate", "grid", "all"} |-> 0]]
    /\ target = [g \in Gpus |-> [c \in Ctas |-> 0]]
    /\ posted = [g \in Gpus |-> Prologue(g, 1)]

-----------------------------------------------------------------------------
\* A warp takes its tasks in order.
WarpReady(g, step, t) ==
    t < cfg.num_intra * cfg.warps \/ <<step, t - cfg.num_intra * cfg.warps>> \in done[g]

\* Phase 1 of intra_comm_sm: multicast a tile of the GPU's own rows, and signal it.
Gather(g, c, t) ==
    LET x == <<TaskRow(g, t), TaskCol(t)>>
    IN  /\ host[g] = "run" /\ pos[g][c] = "gather" /\ <<0, t>> \notin done[g] /\ WarpReady(g, 0, t)
        /\ A' = [h \in Gpus |-> [y \in Blocks \X Cols |->
             IF h \in OnNode(g) /\ RowOf(y[1]) = x[1] /\ y[2] = x[2] THEN A[g][y] ELSE A[h][y]]]
        /\ plane0' = [h \in Gpus |-> IF h \in OnNode(g) THEN [plane0[h] EXCEPT ![x] = @ + 1]
                                     ELSE plane0[h]]
        /\ done' = [done EXCEPT ![g] = @ \cup {<<0, t>>}]
        /\ UNCHANGED <<cfg, launch, host, pos, forwarded, load, C, A_recv, flags,
                       forward_seen_epoch, plane2, counter, target, posted>>

\* A CTA takes the hops one after the other: it is in the first one that is not over.
\* The bug of leaving out the last forward.
ForwardingShort(step) == ~cfg.proxy_forward /\ step + 2 < NumPeers

Forwarding(step) == ~cfg.proxy_forward /\ step + 1 < NumPeers

TasksOver(g, c, step) == \A t \in TasksOf(c) : <<1 + step, t>> \in done[g]
HopOver(g, c, step) ==
    /\ TasksOver(g, c, step)
    /\ Forwarding(step) => \A row \in ForwardRows(g, c), w \in 0..(cfg.warps - 1) :
                              <<step, row, w>> \in forwarded[g]
InHop(g, c, step) ==
    /\ pos[g][c] = "work" /\ counter[g]["gate"] >= target[g][c]
    /\ ~HopOver(g, c, step) /\ \A before \in 0..(step - 1) : HopOver(g, c, before)

\* The gate after phase 1, and grid_sync_at_epoch: the counters only grow, and a CTA
\* works out what it waits for from the number of its arrival.
Arrives(g, c, k, crowd, to) ==
    /\ counter' = [counter EXCEPT ![g][k] = @ + 1]
    /\ target' = [target EXCEPT ![g][c] = (counter[g][k] \div crowd + 1) * crowd]
    /\ pos' = [pos EXCEPT ![g][c] = to]
    /\ UNCHANGED <<cfg, launch, host, done, forwarded, load, data, flags,
                   forward_seen_epoch, planes, posted>>

ArriveGate(g, c) ==
    /\ host[g] = "run" /\ pos[g][c] = "gather" /\ \A t \in TasksOf(c) : <<0, t>> \in done[g]
    /\ Arrives(g, c, "gate", cfg.num_intra, "work")

ArriveGrid(g, c) ==
    /\ host[g] = "run" /\ pos[g][c] = "work"
    /\ IF c \in CompCtas THEN load[g][c][1] >= TotalTiles
       ELSE counter[g]["gate"] >= target[g][c] /\ \A step \in Steps : HopOver(g, c, step)
    /\ Arrives(g, c, "grid", Cardinality(Ctas), "reset")

SlotFor(g, step) == slot_at_peer(OriginOf(NodeOf(g), step), NodeOf(g))

\* The bug of waiting for the first of the two row blocks only.
ArrivedFirst(g, v, row) == arrival_flags[g][<<v, Min(BlocksOf(row))>>] = Epoch(g)

Arrived(g, v, row) == \A rb \in BlocksOf(row) : arrival_flags[g][<<v, rb>>] = Epoch(g)

\* Phase 2: a received tile goes to the node's copies of the peer's slot, and is signalled.
Republish(g, c, step, t) ==
    LET slot == SlotFor(g, step)
        v == slot + NumPeers * step
        row == TaskRow(g, t)
        col == TaskCol(t)
        at == <<slot, row, IF cfg.per_col THEN col ELSE 0>>
    IN  /\ InHop(g, c, step)
        /\ <<1 + step, t>> \notin done[g] /\ WarpReady(g, 1 + step, t)
        /\ Arrived(g, v, row)
        /\ A_recv' = [h \in Gpus |-> [y \in Slots \X Blocks \X Cols |->
             IF h \in OnNode(g) /\ y[1] = slot /\ RowOf(y[2]) = row /\ y[3] = col
               THEN A_recv[g][<<v, y[2], col>>] ELSE A_recv[h][y]]]
        /\ plane2' = [h \in Gpus |-> IF h \in OnNode(g) THEN [plane2[h] EXCEPT ![at] = @ + 1]
                                     ELSE plane2[h]]
        /\ done' = [done EXCEPT ![g] = @ \cup {<<1 + step, t>>}]
        /\ UNCHANGED <<cfg, launch, host, pos, forwarded, load, C, A, flags,
                       forward_seen_epoch, plane0, counter, target, posted>>

RowRepublished(g, slot, row) ==
    IF cfg.per_col THEN \A col \in Cols : plane2[g][<<slot, row, col>>] = 1
    ELSE plane2[g][<<slot, row, 0>>] = cfg.cols

\* When the CTA is through with its tasks: post_ring_forward_wrs_for_intra_row, once in
\* each warp of the CTA that has the row.
Forward(g, c, step, row, w) ==
    LET next == Next1(g)
        origin == OriginOf(NodeOf(g), step)
    IN  /\ InHop(g, c, step) /\ TasksOver(g, c, step) /\ Forwarding(step)
        /\ <<step, row, w>> \notin forwarded[g]
        /\ \A r \in ForwardRows(g, c) : r < row => <<step, r, w>> \in forwarded[g]
        /\ RowRepublished(g, SlotFor(g, step), row)
        /\ forwarded' = [forwarded EXCEPT ![g] = @ \cup {<<step, row, w>>}]
        /\ posted' = [posted EXCEPT ![g] = @ \cup
             {[from |-> SlotFor(g, step), block |-> rb, warp |-> w, epoch |-> Epoch(g),
               slot |-> slot_at_peer(origin, NodeOf(next)) + NumPeers * (step + 1),
               chained |-> TRUE] : rb \in BlocksOf(row)}]
        /\ UNCHANGED <<cfg, launch, host, pos, done, load, data, flags,
                       forward_seen_epoch, planes, counter, target>>

-----------------------------------------------------------------------------
\* The proxies and the NIC.

\* forward_notify_enabled_for_cmd: a further hop follows, and the work request came
\* through the FIFO.
NotifiesNext(wr) ==
    cfg.proxy_forward /\ wr.chained /\ wr.slot \div NumPeers + 1 < NumPeers

Deliver(g, wr) ==
    LET h == Next1(g)
        read(col) == IF wr.from = OwnA
                       THEN [origin |-> NodeOf(g), launch |-> A[g][<<wr.block, col>>]]
                       ELSE A_recv[g][<<wr.from, wr.block, col>>]
    IN  /\ wr \in posted[g]
        /\ posted' = [posted EXCEPT ![g] = @ \ {wr}]
        /\ A_recv' = [A_recv EXCEPT ![h] = [y \in Slots \X Blocks \X Cols |->
             IF y[1] = wr.slot /\ y[2] = wr.block THEN read(y[3]) ELSE @[y]]]
        /\ arrival_flags' = [arrival_flags EXCEPT ![h][<<wr.slot, wr.block>>] = wr.epoch]
        /\ forward_notify' = IF ~NotifiesNext(wr) THEN forward_notify
             ELSE [forward_notify EXCEPT ![h][<<wr.slot, wr.block>>] = wr.epoch]
        /\ UNCHANGED <<cfg, launch, host, pos, done, forwarded, load, C, A,
                       forward_seen_epoch, planes, counter, target>>

\* poll_forward_notifications: the proxy forwards what a notification names, straight
\* from where it landed, and without a notification to the node after the next.
ProxyForward(g, x) ==
    LET src_slot == x[1] % NumPeers
        src_bank == x[1] \div NumPeers
        origin == peer_rank_for_slot(NodeOf(g), src_slot)
    IN  /\ cfg.proxy_forward /\ forward_seen_epoch[g][x] # Epoch(g)
        /\ forward_notify[g][x] = Epoch(g)
        /\ forward_seen_epoch' = [forward_seen_epoch EXCEPT ![g][x] = Epoch(g)]
        /\ posted' = [posted EXCEPT ![g] = @ \cup
             {[from |-> x[1], block |-> x[2], epoch |-> Epoch(g), warp |-> 0,
               slot |-> slot_at_peer(origin, NodeOf(Next1(g))) + NumPeers * (src_bank + 1),
               chained |-> FALSE]}]
        /\ UNCHANGED <<cfg, launch, host, pos, done, forwarded, load, data, flags,
                       planes, counter, target>>

-----------------------------------------------------------------------------
\* Compute CTAs: the load warp of fused_comp_sm, a column of A at a time.

TileReady(g, shard, rb, col) ==
    LET slot == slot_at_peer(shard, NodeOf(g))
    IN  IF shard = NodeOf(g) THEN plane0[g][<<RowOf(rb), col>>] = 1
        ELSE IF cfg.per_col THEN plane2[g][<<slot, RowOf(rb), col>>] = 1
        ELSE plane2[g][<<slot, RowOf(rb), 0>>] = cfg.cols

Load(g, c) ==
    LET task == load[g][c][1]
        col == load[g][c][2]
        shard == ShardOf(g, task)
        t == decode_comp_task(task % NodeTiles)
        got == IF shard = NodeOf(g)
                 THEN [origin |-> shard, launch |-> A[g][<<t.rb, col>>]]
                 ELSE A_recv[g][<<slot_at_peer(shard, NodeOf(g)), t.rb, col>>]
    IN  /\ host[g] = "run" /\ task < TotalTiles /\ TileReady(g, shard, t.rb, col)
        /\ C' = [C EXCEPT ![g][<<shard, t.rb, t.col>>] = @ \cup {<<col, got>>}]
        /\ load' = [load EXCEPT ![g][c] =
             IF col + 1 < cfg.cols THEN <<task, col + 1>> ELSE <<task + cfg.num_comp, 0>>]
        /\ UNCHANGED <<cfg, launch, host, pos, done, forwarded, A, A_recv, flags,
                       forward_seen_epoch, planes, counter, target, posted>>

-----------------------------------------------------------------------------
\* The end of the kernel: barrier_reset, each CTA its share of the planes.

Number(x, width) == x[1] * width + x[2]
MyShare(c, i) == i % Cardinality(Ctas) = c

ResetPlanes(g, c) ==
    /\ pos[g][c] = "reset" /\ counter[g]["grid"] >= target[g][c]
    /\ plane0' = [plane0 EXCEPT ![g] = [x \in Rows \X Cols |->
         IF MyShare(c, Number(x, cfg.cols)) THEN 0 ELSE @[x]]]
    /\ plane2' = [plane2 EXCEPT ![g] = [x \in Steps \X Rows \X Cols |->
         LET r == x[1] * Cardinality(Rows) + x[2]
         IN  IF MyShare(c, IF cfg.per_col THEN r * cfg.cols + x[3] ELSE r) THEN 0 ELSE @[x]]]
    /\ pos' = [pos EXCEPT ![g][c] = IF c = 0 THEN "barrier" ELSE "over"]
    /\ counter' = IF c # 0 THEN counter
         ELSE [h \in Gpus |-> IF h \in OnNode(g) THEN [counter[h] EXCEPT !["all"] = @ + 1]
                              ELSE counter[h]]
    /\ UNCHANGED <<cfg, launch, host, done, forwarded, load, data, flags,
                   forward_seen_epoch, target, posted>>

\* barrier_all over the GPUs of the node, by the first CTA of each.
NodeBarrier(g) ==
    /\ pos[g][0] = "barrier" /\ counter[g]["all"] = cfg.devices
    /\ counter' = [counter EXCEPT ![g]["all"] = @ - cfg.devices]
    /\ pos' = [pos EXCEPT ![g][0] = "over"]
    /\ UNCHANGED <<cfg, launch, host, done, forwarded, load, data, flags,
                   forward_seen_epoch, planes, target, posted>>

\* The next input of a GPU, in its own rows.
NewInput(g, n) == [x \in Blocks \X Cols |-> IF RowOf(x[1]) \in OwnRows(g) THEN n ELSE A[g][x]]

Relaunched(g) ==
    /\ pos' = [pos EXCEPT ![g] = Start(g)]
    /\ done' = [done EXCEPT ![g] = {}] /\ forwarded' = [forwarded EXCEPT ![g] = {}]
    /\ load' = [load EXCEPT ![g] = [c \in CompCtas |-> <<c - cfg.num_intra, 0>>]]
    /\ launch' = [launch EXCEPT ![g] = @ + 1]
    /\ A' = [A EXCEPT ![g] = NewInput(g, launch[g] + 1)]
    /\ C' = [C EXCEPT ![g] = NoTiles]

\* With a synchronisation of all ranks between launches: reset_state and set_epoch, when
\* every kernel is over and the GPU's own proxies are drained; the launch waits for all.
HostReset(g) ==
    /\ cfg.sync /\ host[g] = "run" /\ launch[g] < cfg.launches
    /\ \A h \in Gpus : \/ launch[h] = launch[g] /\ KernelOver(h)
                       \/ host[h] = "reset"
    /\ posted[g] = {} /\ KernelOver(g)
    /\ host' = [host EXCEPT ![g] = "reset"]
    /\ Relaunched(g)
    /\ A_recv' = [A_recv EXCEPT ![g] = [x \in DOMAIN @ |-> Empty]]
    /\ arrival_flags' = [arrival_flags EXCEPT ![g] = [x \in DOMAIN @ |-> 0]]
    /\ forward_notify' = [forward_notify EXCEPT ![g] = [x \in DOMAIN @ |-> 0]]
    /\ plane0' = [plane0 EXCEPT ![g] = [x \in DOMAIN @ |-> 0]]
    /\ plane2' = [plane2 EXCEPT ![g] = [x \in DOMAIN @ |-> 0]]
    /\ counter' = [counter EXCEPT ![g] = [k \in DOMAIN @ |-> 0]]
    /\ UNCHANGED <<cfg, forward_seen_epoch, target, posted>>

HostLaunch(g) ==
    /\ host[g] = "reset" /\ \A h \in Gpus : launch[h] >= launch[g]
    /\ host' = [host EXCEPT ![g] = "run"]
    /\ posted' = [posted EXCEPT ![g] = Prologue(g, Epoch(g))]
    /\ UNCHANGED <<cfg, launch, pos, done, forwarded, load, data, flags,
                   forward_seen_epoch, planes, counter, target>>

\* Without it a GPU goes on at once, in the same epoch.
Relaunch(g) ==
    /\ ~cfg.sync /\ launch[g] < cfg.launches /\ KernelOver(g) /\ NodeOf(g) < cfg.watched
    /\ Relaunched(g)
    /\ posted' = [posted EXCEPT ![g] = @ \cup Prologue(g, Epoch(g))]
    /\ UNCHANGED <<cfg, host, A_recv, flags, forward_seen_epoch, planes, counter, target>>

-----------------------------------------------------------------------------
Intra(g, c) ==
    \/ \E t \in TasksOf(c) : Gather(g, c, t) \/ \E step \in Steps : Republish(g, c, step, t)
    \/ \E step \in Steps, row \in ForwardRows(g, c), w \in 0..(cfg.warps - 1) :
          Forward(g, c, step, row, w)
    \/ ArriveGate(g, c)

Cta(g, c) ==
    \/ c \in IntraCtas /\ Intra(g, c)
    \/ c \in CompCtas /\ Load(g, c)
    \/ ArriveGrid(g, c) \/ ResetPlanes(g, c)
    \/ c = 0 /\ NodeBarrier(g)

Network(g) ==
    \/ \E wr \in posted[g] : Deliver(g, wr)
    \/ \E x \in Slots \X Blocks : ProxyForward(g, x)

Host(g) == HostReset(g) \/ HostLaunch(g) \/ Relaunch(g)

AllOver ==
    \A g \in Gpus : NodeOf(g) < cfg.watched =>
        launch[g] = cfg.launches /\ host[g] = "run" /\ KernelOver(g)
Finished == AllOver /\ UNCHANGED vars

Next == (\E g \in Gpus : Host(g) \/ Network(g) \/ \E c \in Ctas : Cta(g, c)) \/ Finished

Spec == Init /\ [][Next]_vars

\* All CTAs of the grid are resident, the NIC completes what is posted, a proxy goes
\* round its loop, and the hosts go on: as long as one of them can move, one does.  No
\* more is needed, because no step can be repeated without end.
FairSpec == Spec /\ WF_vars(Next)

-----------------------------------------------------------------------------
\* Properties.

\* Whatever the order of gathers, hops and forwards: at the end of a kernel every tile
\* of C, of every node's rows, was computed from the rows of that node, all columns of
\* them, as they were in this launch.
ProductOfOwnLaunch ==
    \A g \in Gpus : KernelOver(g) /\ NodeOf(g) < cfg.watched => \A x \in DOMAIN C[g] :
        C[g][x] = {<<col, [origin |-> x[1], launch |-> launch[g]]>> : col \in Cols}

\* The readiness flags are cleared when no CTA signals into them any more: no signal of
\* the launch that follows is taken back.
NoSignalCleared ==
    [][\A g \in Gpus : \A h \in OnNode(g), t \in Tasks :
         LET x == <<TaskRow(h, t), TaskCol(t)>>
         IN  plane0'[g][x] < plane0[g][x] => <<0, t>> \notin done[h] \/ launch[h] <= launch[g]]_vars

\* Every launch ends on every GPU: nobody waits at a gate, for a row or for another hop
\* for ever.
LaunchesEnd == <>AllOver

=============================================================================
