---------------------------- MODULE RingAttention ---------------------------
(***************************************************************************)
(* ring_attention (src/ring_attention.cu, operators/ring_attention/) on    *)
(* the GPUs of one node.  A launch is a sequence of kernels on the stream  *)
(* of each GPU: K and V are posted to the other nodes straight from K0 and *)
(* V0, go round the GPUs of the node between two pairs of buffers, are     *)
(* replaced by what a peer sent and go round again.  Between the kernels   *)
(* the GPUs of the node meet in barrier_all, a counter that is waited for  *)
(* with equality.  The other nodes are environment.                        *)
(*                                                                         *)
(* K and V are a set of tiles; the contents of a tile are the node (0 is   *)
(* this one) and GPU they come from and the launch.  The result of a block *)
(* of queries is the sequence of tiles it has attended to.                 *)
(***************************************************************************)
EXTENDS Integers, Sequences, FiniteSets

CONSTANT Configs    \* shapes of the node and of the tensors

ASSUME RingAssumption == \A c \in Configs :
    /\ {c.devices, c.nodes, c.tiles, c.lanes, c.num_send, c.num_copy, c.resident, c.reductions,
        c.launches,     \* in an epoch: one in the loops with a sync, n_iters in the default one
        c.max_epoch} \subseteq Nat \ {0}
    /\ c.late \subseteq Nat \X Nat    \* nodes and GPUs whose tiles the NIC may find late
    /\ c.devices % 2 = 0    \* an odd ring leaves the buffers of a round swapped

VARIABLE cfg

Gpus == 0..(cfg.devices - 1)
Peers == 0..(cfg.nodes - 2)               \* peer slots
Tiles == 0..(cfg.tiles - 1)               \* of K and V
Blocks == 0..(2 * cfg.reductions - 1)     \* attn_partial blocks, two for each reduction

-----------------------------------------------------------------------------
\* The kernels of a launch, in stream order: entrypoint.  A kernel is known by its stage;
\* a round is cfg.devices stages, the copy comes before the first one of a later round.

Kernel(op, s) == [op |-> op, stage |-> s]
First == Kernel("send", 0)
Last == Kernel("over", 0)
Stages == cfg.nodes * cfg.devices

Following(k) ==
    CASE k.op \in {"send", "copy"} -> Kernel("meet_in", k.stage)
      [] k.op = "meet_in" -> Kernel("stage", k.stage)
      [] k.op = "stage" /\ k.stage > 0 -> Kernel("reduce", k.stage)
      [] k.op = "stage" /\ k.stage = 0 -> Kernel("meet_out", 0)
      [] k.op = "reduce" -> Kernel("meet_out", k.stage)
      [] k.op = "meet_out" ->
           IF k.stage + 1 = Stages THEN Last
           ELSE Kernel(IF (k.stage + 1) % cfg.devices = 0 THEN "copy" ELSE "stage", k.stage + 1)

-----------------------------------------------------------------------------
VARIABLES
    epoch,
    launch,     \* of the epoch that is in each GPU's stream
    kernel,     \* that runs on each GPU's stream
    done,       \* what its CTAs have done: chunks, tiles or blocks
    smem,       \* tiles that the communication CTAs have loaded
    KV,         \* the two pairs of buffers of each GPU: <<K0, V0>> and <<K1, V1>>
    part,       \* what each attention block has read in this stage
    O, O_block,
    posted,     \* commands <<peer, tile>> that the NIC has not carried out
    recv, arrival_flags,    \* receive buffer and flag of each peer's tiles
    met,        \* whether the GPU has signalled the barrier it is in
    barrier     \* the word that barrier_all counts in, a replica on each GPU

net == <<posted, recv, arrival_flags>>
meeting == <<met, barrier>>
result == <<part, O, O_block>>
vars == <<cfg, epoch, launch, kernel, done, smem, KV, result, net, meeting>>

Tile(n, g, e) == [node |-> n, gpu |-> g, epoch |-> e]
Own(g, e) == Tile(0, g, e)
Zero == [node |-> 0, gpu |-> 0, epoch |-> 0]

\* K0 and V0 hold the GPU's own when an epoch begins.
Loaded(e) == [g \in Gpus |-> <<[t \in Tiles |-> Own(g, e)], [t \in Tiles |-> Zero]>>]
Empty == [g \in Gpus |-> [b \in Blocks |-> <<>>]]

Init ==
    /\ cfg \in Configs /\ epoch = 1
    /\ launch = [g \in Gpus |-> 1]
    /\ kernel = [g \in Gpus |-> First] /\ done = [g \in Gpus |-> {}]
    /\ smem = [g \in Gpus |-> [t \in Tiles |-> Zero]]
    /\ KV = Loaded(1)
    /\ part = Empty /\ O = Empty /\ O_block = Empty
    /\ posted = [g \in Gpus |-> {}]
    /\ recv = [g \in Gpus |-> [w \in Peers \X Tiles |-> Zero]]
    /\ arrival_flags = [g \in Gpus |-> [w \in Peers \X Tiles |-> 0]]
    /\ met = [g \in Gpus |-> FALSE] /\ barrier = [g \in Gpus |-> 0]

Op(g) == kernel[g].op
Stage(g) == kernel[g].stage
Over(g) == Op(g) = "over"
Slot(g) == Stage(g) \div cfg.devices - 1    \* the peer_slot of a copy

Did(g, x) == done' = [done EXCEPT ![g] = @ \cup {x}]

\* A CTA takes every n-th item of a kernel's work, in order.
InTurn(g, t, n) == t \notin done[g] /\ (t >= n => t - n \in done[g])

\* The kernel ends when its CTAs have done all their work, and the next one starts.
KernelEnds(g, work) ==
    /\ done[g] = work
    /\ done' = [done EXCEPT ![g] = {}]
    /\ kernel' = [kernel EXCEPT ![g] = Following(@)]

-----------------------------------------------------------------------------
\* kv_send_kernel: a command for each peer, the data read later, where it lies.
SendTile(g, t) ==
    /\ Op(g) = "send" /\ InTurn(g, t, cfg.num_send)
    /\ Did(g, t)
    /\ posted' = [posted EXCEPT ![g] = @ \cup (Peers \X {t})]
    /\ UNCHANGED <<cfg, epoch, launch, kernel, smem, KV, result, recv, arrival_flags, meeting>>

SendEnds(g) ==
    /\ Op(g) = "send" /\ KernelEnds(g, Tiles)
    /\ UNCHANGED <<cfg, epoch, launch, smem, KV, result, net, meeting>>

\* The proxy and the NIC: a write from the registered K0 or V0, at some later time.
NicReads(g, w) ==
    /\ w \in posted[g]
    /\ posted' = [posted EXCEPT ![g] = @ \ {w}]
    /\ UNCHANGED <<cfg, epoch, launch, kernel, done, smem, KV, result, recv, arrival_flags, meeting>>

\* The same kernel on another node: what its NIC found in K0 and V0 when it read the
\* tile, then its flag.
PeerSends(g, w) ==
    /\ \E x \in {<<w[1] + 1, g>>} \cup cfg.late :
          recv' = [recv EXCEPT ![g][w] = Tile(x[1], x[2], epoch)]
    /\ arrival_flags' = [arrival_flags EXCEPT ![g][w] = epoch]
    /\ UNCHANGED <<cfg, epoch, launch, kernel, done, smem, KV, result, posted, meeting>>

PeerWrites(g, w) == arrival_flags[g][w] # epoch /\ PeerSends(g, w)

\* Its later launches of the same epoch write the same words again.
PeerWritesAgain(g, w) == arrival_flags[g][w] = epoch /\ cfg.launches > 1 /\ PeerSends(g, w)

Arrived(g, w) == arrival_flags[g][w] = epoch

\* kv_copy_kernel: waits for the flag of each tile and copies it to K0 and V0.
CopyTile(g, t) ==
    /\ Op(g) = "copy" /\ InTurn(g, t, cfg.num_copy) /\ Arrived(g, <<Slot(g), t>>)
    /\ Did(g, t)
    /\ KV' = [KV EXCEPT ![g][1][t] = recv[g][<<Slot(g), t>>]]
    /\ UNCHANGED <<cfg, epoch, launch, kernel, smem, result, net, meeting>>

CopyEnds(g) ==
    /\ Op(g) = "copy" /\ KernelEnds(g, Tiles)
    /\ UNCHANGED <<cfg, epoch, launch, smem, KV, result, net, meeting>>

-----------------------------------------------------------------------------
\* attn_comm_partial_stage_kernel: the communication CTAs pass the tiles on while the
\* attention blocks read them.

\* The bug of reading K0 and V0 in every stage.
HereFirst(g) == 1

Here(g) == (Stage(g) % 2) + 1        \* K0 and V0 in even stages
There(g) == 3 - Here(g)
NextGpu(g) == (g + 1) % cfg.devices  \* dst_dev_idx

CommLoad(g, t) ==
    /\ Op(g) = "stage" /\ <<"loaded", t>> \notin done[g]
    /\ t >= cfg.lanes => <<"stored", t - cfg.lanes>> \in done[g]
    /\ Did(g, <<"loaded", t>>)
    /\ smem' = [smem EXCEPT ![g][t] = KV[g][Here(g)][t]]
    /\ UNCHANGED <<cfg, epoch, launch, kernel, KV, result, net, meeting>>

CommStore(g, t) ==
    /\ Op(g) = "stage" /\ <<"loaded", t>> \in done[g] /\ <<"stored", t>> \notin done[g]
    /\ Did(g, <<"stored", t>>)
    /\ KV' = [KV EXCEPT ![NextGpu(g)][There(g)][t] = smem[g][t]]
    /\ UNCHANGED <<cfg, epoch, launch, kernel, smem, result, net, meeting>>

\* attn_partial: tile after tile; the result goes to O in the first stage and to O_block
\* in the others.  There are more blocks than the GPU holds at a time.
Attend(g, b) ==
    LET read == Append(part[g][b], KV[g][Here(g)][Len(part[g][b])])
    IN  /\ Op(g) = "stage" /\ <<"block", b>> \notin done[g]
        /\ b >= cfg.resident => <<"block", b - cfg.resident>> \in done[g]
        /\ IF Len(read) < cfg.tiles
             THEN part' = [part EXCEPT ![g][b] = read] /\ UNCHANGED <<done, O, O_block>>
             ELSE /\ part' = [part EXCEPT ![g][b] = <<>>]
                  /\ Did(g, <<"block", b>>)
                  /\ IF Stage(g) = 0
                       THEN O' = [O EXCEPT ![g][b] = read] /\ UNCHANGED O_block
                       ELSE O_block' = [O_block EXCEPT ![g][b] = read] /\ UNCHANGED O
        /\ UNCHANGED <<cfg, epoch, launch, kernel, smem, KV, net, meeting>>

StageEnds(g) ==
    /\ Op(g) = "stage" /\ KernelEnds(g, ({"loaded", "stored"} \X Tiles) \cup ({"block"} \X Blocks))
    /\ UNCHANGED <<cfg, epoch, launch, smem, KV, result, net, meeting>>

\* attn_reduction_stage_kernel: a reduction block takes the rows of two attention blocks.
Reduce(g, r) ==
    /\ Op(g) = "reduce" /\ r \notin done[g]
    /\ Did(g, r)
    /\ O' = [O EXCEPT ![g] = [b \in Blocks |->
                IF b \div 2 = r THEN @[b] \o O_block[g][b] ELSE @[b]]]
    /\ UNCHANGED <<cfg, epoch, launch, kernel, smem, KV, part, O_block, net, meeting>>

ReduceEnds(g) ==
    /\ Op(g) = "reduce" /\ KernelEnds(g, 0..(cfg.reductions - 1))
    /\ UNCHANGED <<cfg, epoch, launch, smem, KV, result, net, meeting>>

-----------------------------------------------------------------------------
Meets(g) == Op(g) \in {"meet_in", "meet_out"}

\* The bug of adding to the words of the others only.
SignalOthers(g) ==
    /\ Meets(g) /\ ~met[g]
    /\ met' = [met EXCEPT ![g] = TRUE]
    /\ barrier' = [h \in Gpus |-> barrier[h] + IF h = g THEN 0 ELSE 1]
    /\ UNCHANGED <<cfg, epoch, launch, kernel, done, smem, KV, result, net>>

\* barrier_only_kernel: barrier_all adds one to the word of every GPU ...
Signal(g) ==
    /\ Meets(g) /\ ~met[g]
    /\ met' = [met EXCEPT ![g] = TRUE]
    /\ barrier' = [h \in Gpus |-> barrier[h] + 1]
    /\ UNCHANGED <<cfg, epoch, launch, kernel, done, smem, KV, result, net>>

\* ... waits until the GPU's own equals their number, no matter how far it gets
\* meanwhile, and takes that away again.
MeetAll(g) ==
    /\ Meets(g) /\ met[g] /\ barrier[g] = cfg.devices
    /\ met' = [met EXCEPT ![g] = FALSE]
    /\ barrier' = [barrier EXCEPT ![g] = @ - cfg.devices]
    /\ kernel' = [kernel EXCEPT ![g] = Following(@)]
    /\ UNCHANGED <<cfg, epoch, launch, done, smem, KV, result, net>>

-----------------------------------------------------------------------------
\* The default loop of the host launches again on each stream, in the same epoch and
\* without restoring K0, V0, O or the barrier.
LaunchAgain(g) ==
    /\ Over(g) /\ launch[g] < cfg.launches
    /\ launch' = [launch EXCEPT ![g] = @ + 1]
    /\ kernel' = [kernel EXCEPT ![g] = First]
    /\ UNCHANGED <<cfg, epoch, done, smem, KV, result, net, meeting>>

Through(g) == Over(g) /\ launch[g] = cfg.launches

\* The next epoch, after all GPUs of all nodes have met: the peers have received what
\* this node posted.  All but the receive buffer and its flags is reset.
Relaunch ==
    /\ \A g \in Gpus : Through(g) /\ posted[g] = {}
    /\ epoch < cfg.max_epoch
    /\ epoch' = epoch + 1
    /\ launch' = [g \in Gpus |-> 1]
    /\ kernel' = [g \in Gpus |-> First]
    /\ KV' = Loaded(epoch + 1) /\ O' = Empty /\ O_block' = Empty
    /\ barrier' = [g \in Gpus |-> 0]
    /\ UNCHANGED <<cfg, done, smem, part, net, met>>

Gpu(g) ==
    \/ \E t \in Tiles : SendTile(g, t) \/ CopyTile(g, t) \/ CommLoad(g, t) \/ CommStore(g, t)
    \/ \E b \in Blocks : Attend(g, b)
    \/ \E r \in 0..(cfg.reductions - 1) : Reduce(g, r)
    \/ SendEnds(g) \/ CopyEnds(g) \/ StageEnds(g) \/ ReduceEnds(g)
    \/ Signal(g) \/ MeetAll(g)

Outside(g) == \E w \in Peers \X Tiles : NicReads(g, w) \/ PeerWrites(g, w)

Finished ==
    /\ \A g \in Gpus : Through(g) /\ posted[g] = {}
    /\ epoch = cfg.max_epoch /\ UNCHANGED vars

Progress == (\E g \in Gpus : Gpu(g) \/ LaunchAgain(g) \/ Outside(g)) \/ Relaunch \/ Finished

Next == Progress \/ \E g \in Gpus, w \in Peers \X Tiles : PeerWritesAgain(g, w)

Spec == Init /\ [][Next]_vars

\* The streams, the NIC and the other nodes go on; no step undoes another, so that some
\* step being taken is enough.
FairSpec == Spec /\ WF_vars(Progress)

-----------------------------------------------------------------------------
\* Properties.

\* The tiles that the GPUs of the node bring into a launch: their own, and of each peer
\* what has come from it, pristine or not.
Given(n, g, t) == IF n = 0 THEN Own(g, epoch) ELSE recv[g][<<n - 1, t>>]

\* Though the tiles go round while they are read, in buffers that are filled and emptied
\* by the neighbours and refilled from the network: when a GPU is through a launch, each
\* block of its queries has attended to as many tiles as there are, all of this epoch.
\* Where the host restores K0 and V0 for every launch, it has attended exactly once to
\* every tile of every GPU of its node and to every one that they received.
AttendedOnce ==
    \A g \in Gpus : Over(g) => \A b \in Blocks :
        /\ Len(O[g][b]) = cfg.nodes * cfg.devices * cfg.tiles
        /\ \A i \in DOMAIN O[g][b] : O[g][b][i].epoch = epoch
        /\ cfg.launches = 1 => \A j \in DOMAIN O[g][b] :
             Cardinality({i \in DOMAIN O[g][b] : O[g][b][i] = O[g][b][j]})
               = Cardinality({x \in (0..(cfg.nodes - 1)) \X Gpus \X Tiles :
                                Given(x[1], x[2], x[3]) = O[g][b][j]})

\* Each launch of the default loop, too, attends to every tile of the node's own GPUs.
AttendsToOwn ==
    \A g \in Gpus : Over(g) => \A b \in Blocks, d \in Gpus :
        Own(d, epoch) \in {O[g][b][i] : i \in DOMAIN O[g][b]}

\* The send takes no copy: what the NIC reads is still the GPU's own K and V, although
\* the neighbour fills K0 and V0 again from the second stage on.
SentOwn ==
    [][\A g \in Gpus : \A w \in posted[g] \ posted'[g] : KV[g][1][w[2]] = Own(g, epoch)]_vars

\* A GPU waits in barrier_all for a word that has gone past the value it waits for.
Missed(g) == met[g] /\ barrier[g] > cfg.devices

\* Every launch ends on every GPU, or somebody has missed the moment at which its barrier
\* word was right: there is no other way to be stuck, although everyone waits for every
\* other GPU and for every peer.
EndsUnlessMissed ==
    <>((epoch = cfg.max_epoch /\ \A g \in Gpus : Through(g)) \/ \E g \in Gpus : Missed(g))
=============================================================================
