------------------------------- MODULE GemmAr -------------------------------
(***************************************************************************)
(* The fused kernel of gemm_ar (src/gemm_ar.cu, operators/gemm_ar/         *)
(* gemm_ar.cuh) on the GPUs of one node, launched once per epoch in the    *)
(* steady-state loop: no host barrier between the launches, and the        *)
(* barrier buffer that the GPUs share is never zeroed.                     *)
(*                                                                         *)
(* Every GPU computes the tiles of all slices; a GPU owns one slice, sums  *)
(* it over the node, sends it, adds what the other nodes sent and          *)
(* publishes it to the final output of every GPU.  The other nodes are     *)
(* environment: they obey the barrier that ends an iteration.              *)
(*                                                                         *)
(* A CTA takes its work in a fixed order, so its position is the work that *)
(* is done.  A buffer holds, for each tile, the epoch of its contents and  *)
(* whose contributions are in it.                                          *)
(***************************************************************************)
EXTENDS Integers, Sequences, FiniteSets, FiniteSetsExt

CONSTANTS Configs,   \* shapes, CTA splits, thresholds and environment flags
          MaxGpus,   \* bound on the GPUs of a node
          MaxReducers    \* bound on the reduce CTAs of a GPU

ASSUME ConfigAssumption == {MaxGpus, MaxReducers} \subseteq Nat \ {0} /\ \A c \in Configs :
    /\ {c.rows, c.cols, c.chunk_tiles, c.device_chunk_tiles, c.num_blocks, c.num_intra,
        c.window, c.slot_rows, c.max_epoch, c.queues} \subseteq Nat \ {0}
    /\ c.devices \in 1..MaxGpus /\ c.nodes \in Nat \ {0, 1} /\ c.num_inter \in 2..MaxReducers + 1
    /\ {c.send_sms, c.recv_sms, c.static_max, c.steal_min, c.inline_max} \subseteq Nat
    /\ {c.multimem, c.early} \subseteq BOOLEAN
    /\ c.queues >= c.nodes - 1    \* with fewer queues a peer's lane has no reader

VARIABLE cfg

-----------------------------------------------------------------------------
\* Layout: gemm_ar_compute_role_split, gemm_ar_compute_scratch_layout and the decoders.

Gpus == 0..(cfg.devices - 1)
Peers == 0..(cfg.nodes - 2)                  \* peer slots
ChunkTiles == Min({cfg.chunk_tiles, cfg.cols})
ChunksPerRow == (cfg.cols + ChunkTiles - 1) \div ChunkTiles
TotalChunks == cfg.rows * ChunksPerRow
Chunks == 0..(TotalChunks - 1)
Tiles == 0..(cfg.rows * cfg.cols - 1)        \* of a slice

NumSend ==
    LET asked == IF cfg.send_sms > 0 THEN cfg.send_sms ELSE cfg.num_inter \div 2
    IN  Min({cfg.rows, Max({1, Min({cfg.num_inter - 1, asked})})})
NumRecv == Min({cfg.recv_sms, Max({0, cfg.num_blocks - cfg.num_intra - cfg.num_inter})})
NumReduce == cfg.num_inter - NumSend
NumComp == cfg.num_blocks - cfg.num_intra - NumSend - NumRecv - NumReduce

Reducers == 0..(NumReduce - 1)
Progress == 0..(NumRecv - 1)

ChunkOf(t) == (t \div cfg.cols) * ChunksPerRow + (t % cfg.cols) \div ChunkTiles

\* How many tiles the chunk has for the CTAs that count them ...
TilesOf(ch) == Min({ChunkTiles, cfg.cols - (ch % ChunksPerRow) * ChunkTiles})

\* ... and which ones gemm_ar_chunk_decode yields on the GPU, where gemm_ar_chunk_tiles
\* does not see the environment.
DeviceChunksPerRow ==
    LET n == Min({cfg.device_chunk_tiles, cfg.cols}) IN (cfg.cols + n - 1) \div n
Decode(ch) ==
    LET rb == ch \div DeviceChunksPerRow
        start == (ch % DeviceChunksPerRow) * ChunkTiles
    IN  {rb * cfg.cols + k : k \in start..(start + Min({ChunkTiles, cfg.cols - start}) - 1)}

\* Compute tasks: round-robin over the slices, by row block (gemm_ar_decode_comp_task).
Tasks == 0..(cfg.devices * cfg.rows * cfg.cols - 1)
SliceOf(k) == (k % (cfg.devices * cfg.cols)) \div cfg.cols
TileOf(k) == (k \div (cfg.devices * cfg.cols)) * cfg.cols + (k % cfg.cols)

\* Arrival queues: a block of them for each peer, by row block within it.
Queues == 0..(cfg.queues - 1)
QueuesPerPeer == Max({1, cfg.queues \div Cardinality(Peers)})
QueueFrom(p, ch) ==
    p * QueuesPerPeer + (((Min(Decode(ch)) \div cfg.cols) % cfg.queues) % QueuesPerPeer)
Drainer(q) == IF NumRecv > 0 THEN q % NumRecv ELSE q % NumReduce

\* shared_reduce_my_slice: who takes which chunk.
Static == TotalChunks <= cfg.static_max
Steal == TotalChunks >= cfg.steal_min
Early == cfg.early /\ Static
ScanStart(r) == IF Static THEN r ELSE (cfg.num_blocks - NumReduce + r) % TotalChunks
Epilogue == TotalChunks > cfg.inline_max

-----------------------------------------------------------------------------
VARIABLES
    epoch,          \* of the launch that runs on each GPU
    computed, comp_chunk_tiles_done,
    C,              \* multicast buffer: epoch of each tile of each slice, 0 when zeroed
    barrier,        \* plane 0: a word for each chunk of each slice, a replica on each GPU
    summed,         \* tiles that the intra-node CTAs have reduced in this launch
    counted, intra_chunk_tiles_done,
    staging,        \* the sum of each tile, kept as the epochs that went into it
    local_done_flag,
    issued,         \* chunks posted in this launch
    posted,         \* commands <<peer, chunk, epoch>> that the NIC has not read yet
    sent,           \* what the NIC read
    recv,           \* receive buffer: epoch of each <<peer, chunk>>
    words,          \* arrival flags: the word in each slot of each queue, <<>> when cleared
    arrival_queue_head, peer_mask, remote_arrived_flag, remote_arrived_chunks,
    at, scan,       \* each reduce CTA: its position, and where it looks next
    reduce_cursor,
    accum,          \* C_remote_accum of each chunk: the epochs added for each peer
    published_chunks,
    final,          \* C_final on each GPU: what was published for each tile of each slice
    final_slot,     \* plane 1: the word of each GPU in each row
    final_publish_done,
    rung, bell      \* epochs announced to the peers, and by them

gemm == <<computed, comp_chunk_tiles_done, C>>
intra == <<summed, counted, intra_chunk_tiles_done, staging>>
send == <<issued, posted, sent>>
net == <<recv, words>>
drain == <<arrival_queue_head, peer_mask, remote_arrived_flag, remote_arrived_chunks>>
reduce == <<at, scan, reduce_cursor, accum, published_chunks>>
finish == <<final_slot, final_publish_done, rung, bell>>
vars == <<cfg, epoch, gemm, barrier, intra, local_done_flag, send, net, drain, reduce,
          final, finish>>

NoPeers == [p \in Peers |-> <<>>]

Init ==
    /\ cfg \in Configs
    /\ epoch = [g \in Gpus |-> 1]
    /\ computed = [g \in Gpus |-> {}]
    /\ comp_chunk_tiles_done = [g \in Gpus |-> [w \in Gpus \X Chunks |-> 0]]
    /\ C = [g \in Gpus |-> [w \in Gpus \X Tiles |-> 0]]
    /\ barrier = [g \in Gpus |-> [w \in Gpus \X Chunks |-> 0]]
    /\ summed = [g \in Gpus |-> {}] /\ counted = [g \in Gpus |-> {}]
    /\ intra_chunk_tiles_done = [g \in Gpus |-> [ch \in Chunks |-> 0]]
    /\ staging = [g \in Gpus |-> [t \in Tiles |-> [d \in Gpus |-> 0]]]
    /\ local_done_flag = [g \in Gpus |-> [ch \in Chunks |-> 0]]
    /\ issued = [g \in Gpus |-> {}] /\ posted = [g \in Gpus |-> {}]
    /\ sent = [g \in Gpus |-> {}]
    /\ recv = [g \in Gpus |-> [w \in Peers \X Chunks |-> 0]]
    /\ words = [g \in Gpus |-> [q \in Queues |-> [i \in 1..TotalChunks |-> <<>>]]]
    /\ arrival_queue_head = [g \in Gpus |-> [q \in Queues |-> 0]]
    /\ peer_mask = [g \in Gpus |-> [ch \in Chunks |-> {}]]
    /\ remote_arrived_flag = [g \in Gpus |-> {}]
    /\ remote_arrived_chunks = [g \in Gpus |-> 0]
    /\ at = [g \in Gpus |-> [r \in Reducers |-> "look"]]
    /\ scan = [g \in Gpus |-> [r \in Reducers |-> ScanStart(r)]]
    /\ reduce_cursor = [g \in Gpus |-> 0]
    /\ accum = [g \in Gpus |-> [ch \in Chunks |-> NoPeers]]
    /\ published_chunks = [g \in Gpus |-> 0]
    /\ final = [g \in Gpus |-> [w \in Gpus \X Tiles |-> <<>>]]
    /\ final_slot = [row \in 0..(cfg.slot_rows - 1) |-> [g \in Gpus |-> 0]]
    /\ final_publish_done = [g \in Gpus |-> FALSE]
    /\ rung = [g \in Gpus |-> 0] /\ bell = [g \in Gpus |-> 0]

-----------------------------------------------------------------------------
\* Compute CTAs: fused_comp_sm.  The warp that stores a tile counts it, and the last
\* tile of a chunk signals the GPU that owns the slice.

InOrder(k, stride, over) == k - stride \in over \/ k < stride

Compute(g, k) ==
    LET w == <<SliceOf(k), ChunkOf(TileOf(k))>>
        last == comp_chunk_tiles_done[g][w] = TilesOf(w[2]) - 1
    IN  /\ k \notin computed[g] /\ InOrder(k, NumComp, computed[g])
        /\ computed' = [computed EXCEPT ![g] = @ \cup {k}]
        /\ C' = [C EXCEPT ![g][<<w[1], TileOf(k)>>] = epoch[g]]
        /\ comp_chunk_tiles_done' = [comp_chunk_tiles_done EXCEPT ![g][w] = @ + 1]
        /\ barrier' = IF ~last THEN barrier
                      ELSE IF cfg.multimem THEN [barrier EXCEPT ![g][w] = epoch[g]]
                      ELSE [barrier EXCEPT ![w[1]][w] = @ + 1]
        /\ UNCHANGED <<cfg, epoch, intra, local_done_flag, send, net, drain, reduce, final,
                       finish>>

-----------------------------------------------------------------------------
\* Intra-node CTAs: fused_intra_ar_sm.

\* The bug of going ahead when a GPU has signalled.
SignalledOnce(g, ch) == barrier[g][<<g, ch>>] >= 1

\* Every GPU has signalled the chunk: wait is an equality.
Signalled(g, ch) ==
    IF cfg.multimem THEN \A d \in Gpus : barrier[d][<<g, ch>>] >= epoch[g]
    ELSE barrier[g][<<g, ch>>] = cfg.devices

\* gemm_ar_pipelined_rs_tile: the sum over the GPUs, to the GPU's own copy and to the
\* send buffer.
SumTile(g, t) ==
    /\ t \notin summed[g] /\ InOrder(t, cfg.num_intra, counted[g]) /\ Signalled(g, ChunkOf(t))
    /\ summed' = [summed EXCEPT ![g] = @ \cup {t}]
    /\ staging' = [staging EXCEPT ![g][t] = [d \in Gpus |-> C[d][<<g, t>>]]]
    /\ UNCHANGED <<cfg, epoch, gemm, barrier, counted, intra_chunk_tiles_done,
                   local_done_flag, send, net, drain, reduce, final, finish>>

\* The bug of taking the signals back with the first tile of a chunk.
CountTileFirst(g, t) ==
    LET ch == ChunkOf(t)
        last == intra_chunk_tiles_done[g][ch] + 1 = TilesOf(ch)
    IN  /\ t \in summed[g] \ counted[g]
        /\ counted' = [counted EXCEPT ![g] = @ \cup {t}]
        /\ intra_chunk_tiles_done' =
             [intra_chunk_tiles_done EXCEPT ![g][ch] = IF last THEN 0 ELSE @ + 1]
        /\ barrier' = IF intra_chunk_tiles_done[g][ch] = 0 /\ ~cfg.multimem
             THEN [barrier EXCEPT ![g][<<g, ch>>] = @ - cfg.devices] ELSE barrier
        /\ local_done_flag' =
             IF last THEN [local_done_flag EXCEPT ![g][ch] = 1] ELSE local_done_flag
        /\ UNCHANGED <<cfg, epoch, gemm, summed, staging, send, net, drain, reduce, final,
                       finish>>

\* The last tile of a chunk takes the signals back, for the next launch.
CountTile(g, t) ==
    LET ch == ChunkOf(t)
        last == intra_chunk_tiles_done[g][ch] + 1 = TilesOf(ch)
    IN  /\ t \in summed[g] \ counted[g]
        /\ counted' = [counted EXCEPT ![g] = @ \cup {t}]
        /\ intra_chunk_tiles_done' =
             [intra_chunk_tiles_done EXCEPT ![g][ch] = IF last THEN 0 ELSE @ + 1]
        /\ barrier' = IF last /\ ~cfg.multimem
             THEN [barrier EXCEPT ![g][<<g, ch>>] = @ - cfg.devices] ELSE barrier
        /\ local_done_flag' =
             IF last THEN [local_done_flag EXCEPT ![g][ch] = 1] ELSE local_done_flag
        /\ UNCHANGED <<cfg, epoch, gemm, summed, staging, send, net, drain, reduce, final,
                       finish>>

-----------------------------------------------------------------------------
\* Send CTAs: fused_inter_send_sm.  A CTA has every NumSend-th row block, and posts its
\* chunks in order.

SendBefore(ch) ==
    {c \in Chunks : c < ch /\ ((c \div ChunksPerRow) % NumSend) = ((ch \div ChunksPerRow) % NumSend)}

SendChunk(g, ch) ==
    /\ ch \notin issued[g] /\ SendBefore(ch) \subseteq issued[g] /\ local_done_flag[g][ch] # 0
    /\ issued' = [issued EXCEPT ![g] = @ \cup {ch}]
    /\ posted' = [posted EXCEPT ![g] = @ \cup (Peers \X {ch} \X {epoch[g]})]
    /\ UNCHANGED <<cfg, epoch, gemm, barrier, intra, local_done_flag, sent, net, drain,
                   reduce, final, finish>>

NicReads(g, m) ==
    /\ m \in posted[g]
    /\ posted' = [posted EXCEPT ![g] = @ \ {m}]
    /\ sent' = [sent EXCEPT ![g] =
         @ \cup {[to |-> m[1], epoch |-> m[3], tile |-> t, sum |-> staging[g][t]]
                : t \in Decode(m[2])}]
    /\ UNCHANGED <<cfg, epoch, gemm, barrier, intra, local_done_flag, issued, net, drain,
                   reduce, final, finish>>

\* Peer p has ended epoch e, and let its own peers go on, only when it has all that was
\* sent to it and its own chunks have landed.
Ended(g, p, e) ==
    /\ epoch[g] > e \/ (epoch[g] = e /\ issued[g] = Chunks)
    /\ \A m \in posted[g] : m[1] = p => m[3] > e
    /\ \A ch \in Chunks : recv[g][<<p, ch>>] >= e

\* A peer is in the next epoch when it has ended the last one and some other node, this
\* GPU's or a third one, has let it go on.  Its words fill a queue from the first slot, in
\* every epoch.
PeerWrites(g, p, ch) ==
    LET e == recv[g][<<p, ch>>] + 1
        q == QueueFrom(p, ch)
        sender_seq == Cardinality({c \in Chunks : recv[g][<<p, c>>] = e /\ QueueFrom(p, c) = q})
    IN
    /\ e <= cfg.max_epoch /\ Ended(g, p, e - 1)
    /\ rung[g] >= e - 1 \/ \E third \in Peers \ {p} : Ended(g, third, e - 1)
    /\ recv' = [recv EXCEPT ![g][<<p, ch>>] = e]
    /\ words' = [words EXCEPT ![g][q][sender_seq + 1] = <<p, ch, e>>]
    /\ UNCHANGED <<cfg, epoch, gemm, barrier, intra, local_done_flag, send, drain, reduce,
                   final, finish>>

\* All peers write to the one word that the barrier looks at: the first that has ended the
\* epoch is enough.
PeerRings(g) ==
    /\ bell[g] < epoch[g] /\ \E p \in Peers : Ended(g, p, epoch[g])
    /\ bell' = [bell EXCEPT ![g] = epoch[g]]
    /\ UNCHANGED <<cfg, epoch, gemm, barrier, intra, local_done_flag, send, net, drain,
                   reduce, final, final_slot, final_publish_done, rung>>

-----------------------------------------------------------------------------
\* Arrival queues: gemm_ar_drain_arrival_queue_publish_flags, by the one CTA that owns
\* the queue, as long as it runs.

ProgressRuns(g) == remote_arrived_chunks[g] < TotalChunks
Runs(g, r) == IF NumRecv > 0 THEN ProgressRuns(g) ELSE at[g][r] = "look"

DrainWord(g, q) ==
    LET w == words[g][q][arrival_queue_head[g][q] + 1]
        old == peer_mask[g][w[2]]
    IN  /\ Runs(g, Drainer(q)) /\ arrival_queue_head[g][q] < TotalChunks /\ w # <<>>
        /\ arrival_queue_head' = [arrival_queue_head EXCEPT ![g][q] = @ + 1]
        /\ peer_mask' = [peer_mask EXCEPT ![g][w[2]] = @ \cup {w[1]}]
        /\ IF Cardinality(old) < cfg.nodes - 1 /\ Cardinality(old \cup {w[1]}) >= cfg.nodes - 1
             THEN /\ remote_arrived_flag' = [remote_arrived_flag EXCEPT ![g] = @ \cup {w[2]}]
                  /\ remote_arrived_chunks' = [remote_arrived_chunks EXCEPT ![g] = @ + 1]
             ELSE UNCHANGED <<remote_arrived_flag, remote_arrived_chunks>>
        /\ UNCHANGED <<cfg, epoch, gemm, barrier, intra, local_done_flag, send, net, reduce,
                       final, finish>>

-----------------------------------------------------------------------------
\* Reduce CTAs: shared_reduce_my_slice.

\* The sum of chunk ch goes to the final output of every GPU of the node.
Publish(g, ch, sum) ==
    /\ final' = [d \in Gpus |-> [w \in Gpus \X Tiles |->
         IF w[1] = g /\ w[2] \in Decode(ch)
           THEN Append(final[d][w], [local |-> staging[g][w[2]], peers |-> sum])
           ELSE final[d][w]]]
    /\ published_chunks' = [published_chunks EXCEPT ![g] = @ + 1]

Received(g, ch) == [p \in Peers |-> <<recv[g][<<p, ch>>]>>]

\* shared_reduce_my_slice_static: chunk after chunk, every NumReduce-th; scan is the
\* chunk waited for.
ReduceStatic(g, r) ==
    LET ch == scan[g][r]
    IN  /\ Static /\ ~Early /\ at[g][r] = "look" /\ ch < TotalChunks
        /\ ch \in remote_arrived_flag[g] /\ local_done_flag[g][ch] = 1
        /\ Publish(g, ch, Received(g, ch))
        /\ scan' = [scan EXCEPT ![g][r] = @ + NumReduce]
        /\ UNCHANGED <<cfg, epoch, gemm, barrier, intra, local_done_flag, send, net, drain,
                       at, reduce_cursor, accum, finish>>

\* With early accumulation a look adds the peers that have come since the last one and
\* publishes if that was all.
ReduceEarly(g, r) ==
    LET ch == scan[g][r]
        before == {p \in Peers : accum[g][ch][p] # <<>>}
        new == peer_mask[g][ch] \ before
        sum == [p \in Peers |-> IF p \in new THEN accum[g][ch][p] \o Received(g, ch)[p]
                                ELSE accum[g][ch][p]]
        ready == local_done_flag[g][ch] = 1 /\ before \cup new = Peers
    IN  /\ Early /\ at[g][r] = "look" /\ ch < TotalChunks /\ (new # {} \/ ready)
        /\ accum' = [accum EXCEPT ![g][ch] = sum]
        /\ IF ready
             THEN Publish(g, ch, sum) /\ scan' = [scan EXCEPT ![g][r] = @ + NumReduce]
             ELSE UNCHANGED <<final, published_chunks, scan>>
        /\ UNCHANGED <<cfg, epoch, gemm, barrier, intra, local_done_flag, send, net, drain,
                       at, reduce_cursor, finish>>

\* Otherwise a look goes through a window of chunks, from the CTA's own position or, for
\* many chunks (shared_reduce_my_slice_worksteal), from a shared cursor, and claims the
\* first that is ready.
Origin(g, r) == IF Steal THEN reduce_cursor[g] % TotalChunks ELSE scan[g][r]
Window(g, r) ==
    [i \in 0..(Min({cfg.window, TotalChunks}) - 1) |-> (Origin(g, r) + i) % TotalChunks]
ReadyAt(g, r) ==
    {i \in DOMAIN Window(g, r) :
       LET ch == Window(g, r)[i] IN ch \in remote_arrived_flag[g] /\ local_done_flag[g][ch] = 1}

ReduceClaimed(g, r) ==
    LET found == ReadyAt(g, r)
        ch == Window(g, r)[Min(found)]
    IN  /\ ~Static /\ at[g][r] = "look" /\ published_chunks[g] < TotalChunks
        /\ IF found # {}
             THEN /\ local_done_flag' = [local_done_flag EXCEPT ![g][ch] = 2]
                  /\ Publish(g, ch, Received(g, ch))
                  /\ scan' = [scan EXCEPT ![g][r] = IF Steal THEN @ ELSE (ch + 1) % TotalChunks]
             ELSE /\ scan' = [scan EXCEPT ![g][r] = IF Steal THEN @
                                ELSE (@ + Cardinality(DOMAIN Window(g, r))) % TotalChunks]
                  /\ UNCHANGED <<local_done_flag, final, published_chunks>>
        /\ reduce_cursor' = IF ~Steal THEN reduce_cursor
             ELSE [reduce_cursor EXCEPT ![g] = (@ + 1) % TotalChunks]
        /\ UNCHANGED <<cfg, epoch, gemm, barrier, intra, send, net, drain, at, accum, finish>>

Goes(g, r, to) == at' = [at EXCEPT ![g][r] = to]

\* All is published; in the static scheme a CTA must be through with its own chunks.
ReduceEnds(g, r) ==
    /\ at[g][r] = "look" /\ published_chunks[g] >= TotalChunks
    /\ Static => scan[g][r] >= TotalChunks
    /\ Goes(g, r, "finish")
    /\ UNCHANGED <<cfg, epoch, gemm, barrier, intra, local_done_flag, send, net, drain,
                   scan, reduce_cursor, accum, published_chunks, final, finish>>

-----------------------------------------------------------------------------
\* The end of an iteration: inline for few chunks, in a kernel of its own for many.

MainOver(g) ==
    /\ computed[g] = Tasks /\ counted[g] = Tiles /\ issued[g] = Chunks
    /\ \A r \in Reducers : at[g][r] # "look"
    /\ NumRecv > 0 => ~ProgressRuns(g)

Row(g) == epoch[g] % cfg.slot_rows

\* gemm_ar_finish_multicast_publication: the first reduce CTA announces the slice to the
\* node ...
FinishSignals(g) ==
    /\ at[g][0] = "finish" /\ (Epilogue => MainOver(g))
    /\ final_slot' = [final_slot EXCEPT ![Row(g)][g] = @ + 1]
    /\ Goes(g, 0, "slices")
    /\ UNCHANGED <<cfg, epoch, gemm, barrier, intra, local_done_flag, send, net, drain,
                   scan, reduce_cursor, accum, published_chunks, final,
                   final_publish_done, rung, bell>>

\* The bug of waiting for the GPU's own slice only.
FinishSeesOwn(g) ==
    /\ at[g][0] = "slices" /\ final_slot[Row(g)][g] = 1
    /\ final_publish_done' = [final_publish_done EXCEPT ![g] = TRUE]
    /\ Goes(g, 0, "reset")
    /\ UNCHANGED <<cfg, epoch, gemm, barrier, intra, local_done_flag, send, net, drain,
                   scan, reduce_cursor, accum, published_chunks, final, final_slot, rung,
                   bell>>

\* ... waits for the slices of the others, and lets the other reduce CTAs go on.
FinishSees(g) ==
    /\ at[g][0] = "slices" /\ \A d \in Gpus : final_slot[Row(g)][d] = 1
    /\ final_publish_done' = [final_publish_done EXCEPT ![g] = TRUE]
    /\ Goes(g, 0, "reset")
    /\ UNCHANGED <<cfg, epoch, gemm, barrier, intra, local_done_flag, send, net, drain,
                   scan, reduce_cursor, accum, published_chunks, final, final_slot, rung,
                   bell>>

FinishWaits(g, r) ==
    /\ r # 0 /\ at[g][r] = "finish" /\ (Epilogue => MainOver(g)) /\ final_publish_done[g]
    /\ Goes(g, r, "reset")
    /\ UNCHANGED <<cfg, epoch, gemm, barrier, intra, local_done_flag, send, net, drain,
                   scan, reduce_cursor, accum, published_chunks, final, finish>>

\* gemm_ar_iter_end_reset_arrival_flags: each reduce CTA clears its share of the words.
\* gemm_ar_hierarchical_xnode_barrier: the first one then notifies the peers.
ResetFlags(g, r) ==
    /\ at[g][r] = "reset"
    /\ words' = [words EXCEPT ![g] = [q \in Queues |->
         [i \in 1..TotalChunks |-> IF (i - 1) % NumReduce = r THEN <<>> ELSE words[g][q][i]]]]
    /\ rung' = IF r = 0 THEN [rung EXCEPT ![g] = epoch[g]] ELSE rung
    /\ Goes(g, r, IF r = 0 THEN "barrier" ELSE "exit")
    /\ UNCHANGED <<cfg, epoch, gemm, barrier, intra, local_done_flag, send, recv, drain,
                   scan, reduce_cursor, accum, published_chunks, final, final_slot,
                   final_publish_done, bell>>

\* The wait for the peers is monotonic: an epoch at or after this one will do.
BarrierOver(g) ==
    /\ at[g][0] = "barrier" /\ bell[g] >= epoch[g]
    /\ Goes(g, 0, "exit")
    /\ UNCHANGED <<cfg, epoch, gemm, barrier, intra, local_done_flag, send, net, drain,
                   scan, reduce_cursor, accum, published_chunks, final, finish>>

KernelOver(g) == MainOver(g) /\ \A r \in Reducers : at[g][r] = "exit"

\* The host's next iteration: C, C_final and the scratch are zeroed on the GPU's own
\* stream, gemm_ar_init_debug_scratch included, and the kernel is launched.
Launch(g) ==
    /\ KernelOver(g) /\ epoch[g] < cfg.max_epoch
    /\ epoch' = [epoch EXCEPT ![g] = @ + 1]
    /\ computed' = [computed EXCEPT ![g] = {}]
    /\ comp_chunk_tiles_done' = [comp_chunk_tiles_done EXCEPT ![g] = [w \in DOMAIN @ |-> 0]]
    /\ C' = [C EXCEPT ![g] = [w \in DOMAIN @ |-> 0]]
    /\ summed' = [summed EXCEPT ![g] = {}] /\ counted' = [counted EXCEPT ![g] = {}]
    /\ intra_chunk_tiles_done' = [intra_chunk_tiles_done EXCEPT ![g] = [ch \in Chunks |-> 0]]
    /\ local_done_flag' = [local_done_flag EXCEPT ![g] = [ch \in Chunks |-> 0]]
    /\ issued' = [issued EXCEPT ![g] = {}] /\ sent' = [sent EXCEPT ![g] = {}]
    /\ arrival_queue_head' = [arrival_queue_head EXCEPT ![g] = [q \in Queues |-> 0]]
    /\ peer_mask' = [peer_mask EXCEPT ![g] = [ch \in Chunks |-> {}]]
    /\ remote_arrived_flag' = [remote_arrived_flag EXCEPT ![g] = {}]
    /\ remote_arrived_chunks' = [remote_arrived_chunks EXCEPT ![g] = 0]
    /\ at' = [at EXCEPT ![g] = [r \in Reducers |-> "look"]]
    /\ scan' = [scan EXCEPT ![g] = [r \in Reducers |-> ScanStart(r)]]
    /\ reduce_cursor' = [reduce_cursor EXCEPT ![g] = 0]
    /\ accum' = [accum EXCEPT ![g] = [ch \in Chunks |-> NoPeers]]
    /\ published_chunks' = [published_chunks EXCEPT ![g] = 0]
    /\ final' = [final EXCEPT ![g] = [w \in DOMAIN @ |-> <<>>]]
    /\ final_publish_done' = [final_publish_done EXCEPT ![g] = FALSE]
    /\ UNCHANGED <<cfg, barrier, staging, posted, net, final_slot, rung, bell>>

-----------------------------------------------------------------------------
Gpu(g) ==
    \/ \E k \in Tasks : Compute(g, k)
    \/ \E t \in Tiles : SumTile(g, t) \/ CountTile(g, t)
    \/ \E ch \in Chunks : SendChunk(g, ch)
    \/ \E q \in Queues : DrainWord(g, q)
    \/ \E r \in Reducers : \/ ReduceStatic(g, r) \/ ReduceEarly(g, r) \/ ReduceClaimed(g, r)
                           \/ ReduceEnds(g, r) \/ FinishWaits(g, r) \/ ResetFlags(g, r)
    \/ FinishSignals(g) \/ FinishSees(g) \/ BarrierOver(g) \/ Launch(g)

Outside(g) ==
    \/ \E m \in posted[g] : NicReads(g, m)
    \/ \E p \in Peers, ch \in Chunks : PeerWrites(g, p, ch)
    \/ PeerRings(g)

Finished == (\A g \in Gpus : KernelOver(g) /\ epoch[g] = cfg.max_epoch) /\ UNCHANGED vars

Next == (\E g \in Gpus : Gpu(g) \/ Outside(g)) \/ Finished

Spec == Init /\ [][Next]_vars

\* The CTAs are all resident; a reduce or progress CTA drains its queues each time round
\* its loop.  The NIC and the other nodes go on.
FairSpec ==
    /\ Spec
    /\ \A g \in 0..(MaxGpus - 1) :
         /\ WF_vars(g \in Gpus /\ \E k \in Tasks : Compute(g, k))
         /\ WF_vars(g \in Gpus /\ \E t \in Tiles : SumTile(g, t) \/ CountTile(g, t))
         /\ WF_vars(g \in Gpus /\ \E ch \in Chunks : SendChunk(g, ch))
         /\ WF_vars(g \in Gpus /\ \E q \in Queues : DrainWord(g, q))
         /\ WF_vars(g \in Gpus /\ (FinishSignals(g) \/ FinishSees(g) \/ BarrierOver(g) \/ Launch(g)))
         /\ WF_vars(g \in Gpus /\ Outside(g))
         /\ \A r \in 0..(MaxReducers - 1) :
              WF_vars(g \in Gpus /\ r \in Reducers /\
                      (\/ ReduceStatic(g, r) \/ ReduceEarly(g, r) \/ ReduceClaimed(g, r)
                       \/ ReduceEnds(g, r) \/ FinishWaits(g, r) \/ ResetFlags(g, r)))

-----------------------------------------------------------------------------
\* Properties.

Whole(e) == [d \in Gpus |-> e]

\* Though the GPUs are launched without a barrier and zero their outputs on their own:
\* when the kernel of a GPU ends, every tile of its final output was published once,
\* with the contribution of every GPU of the node and of every other node in it, all of
\* them of this epoch.
FinalComplete ==
    \A d \in Gpus : KernelOver(d) => \A w \in Gpus \X Tiles :
        final[d][w] = <<[local |-> Whole(epoch[d]), peers |-> [p \in Peers |-> <<epoch[d]>>]]>>

\* What the NIC reads for a peer is the node's sum of the epoch the chunk was posted in,
\* although the intra-node CTAs of a later launch write to the same buffer and nothing
\* waits for the NIC.
SentWhole == \A g \in Gpus : \A x \in sent[g] : x.sum = Whole(x.epoch)

\* The arrival flags are cleared before the peers may write to them again: what is
\* cleared is of the epoch that ends.
ResetBeforeNextWords ==
    [][\A g \in Gpus : \A q \in Queues, i \in 1..TotalChunks :
         words'[g][q][i] = <<>> => words[g][q][i] = <<>> \/ words[g][q][i][3] <= epoch[g]]_vars

\* Each launch ends on every GPU.
LaunchesEnd == <>(\A g \in Gpus : KernelOver(g) /\ epoch[g] = cfg.max_epoch)

=============================================================================
