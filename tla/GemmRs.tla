------------------------------- MODULE GemmRs -------------------------------
(***************************************************************************)
(* The fused kernel of gemm_rs (src/gemm_rs.cu, operators/gemm_rs/         *)
(* gemm_rs.cuh), seen from one GPU: the tiles that the GPUs of its node    *)
(* add to its staging buffer, its send CTAs, the arrivals from the other   *)
(* nodes, and the CTAs that reduce.  A CTA is resident for the whole       *)
(* launch; compute and send CTAs turn into reduce CTAs when they are done. *)
(*                                                                         *)
(* A chunk is a run of tiles of one row block.  What a chunk holds is      *)
(* kept as which tiles and which peers have been added to it.              *)
(***************************************************************************)
EXTENDS Integers, Sequences, FiniteSets, FiniteSetsExt

CONSTANTS Configs,    \* shapes, CTA splits and environment flags of a launch
          CtaIds,     \* <<GPU, block index>> of the CTAs there may be
          RunLimit    \* tiles that the run field of an arrival word can count

ASSUME ConfigAssumption == \A c \in Configs :
    /\ {c.devices, c.rows, c.cols, c.chunk_tiles, c.num_blocks, c.num_comp, c.num_send,
        c.qps, c.nodes} \subseteq Nat \ {0}
    /\ {c.num_intra, c.num_reduce, c.progress_sms, c.node} \subseteq Nat /\ c.nodes >= 2
    /\ {c.receiver_owner, c.incremental, c.transport, c.ready_queue} \subseteq BOOLEAN
    /\ ({0} \X (0..(c.num_blocks - 1))) \cup ((1..(c.devices - 1)) \X {0}) \subseteq CtaIds

ASSUME RunAssumption == RunLimit \in Nat \ {0}

VARIABLE cfg

-----------------------------------------------------------------------------
\* The launch: entrypoint_fused.

Dev == 0                                     \* the GPU the module looks at
NumPeers == cfg.nodes - 1
Peers == 0..(NumPeers - 1)                   \* peer slots
ChunkTiles == Min({cfg.chunk_tiles, cfg.cols})
ChunksPerRow == (cfg.cols + ChunkTiles - 1) \div ChunkTiles
Chunks == 0..(cfg.rows * ChunksPerRow - 1)
TotalChunks == Cardinality(Chunks)
SinglePeerTiles == cfg.rows * cfg.cols

\* Each flag defaults to the one before it.
ReceiverOwner == cfg.receiver_owner
Incremental == cfg.incremental
Transport == cfg.transport
ReadyQueue == Incremental \/ Transport \/ cfg.ready_queue

Owns(ch) == ReceiverOwner => ch % cfg.nodes = cfg.node
OwnerChunksTotal ==
    IF ~ReceiverOwner THEN TotalChunks
    ELSE IF cfg.node < TotalChunks THEN 1 + (TotalChunks - 1 - cfg.node) \div cfg.nodes ELSE 0

\* The bands of CTAs: intra-node CTAs are folded into compute, and compute fills up
\* or gives way to what the others need.
NumComp ==
    LET comp == cfg.num_comp + cfg.num_intra
        total == comp + cfg.num_send + cfg.num_reduce
        overflow == total - cfg.num_blocks
    IN  IF overflow <= 0 THEN comp - overflow
        ELSE IF comp > overflow THEN comp - overflow
        ELSE Max({1, cfg.num_blocks - (cfg.num_send + cfg.num_reduce)})
NumReduce ==
    LET remaining == cfg.num_blocks - (NumComp + cfg.num_send + cfg.num_reduce)
    IN  IF remaining < 0 THEN Max({1, cfg.num_reduce + remaining}) ELSE cfg.num_reduce
Progress == IF Transport THEN Min({cfg.progress_sms, NumReduce}) ELSE 0

\* Own CTAs by block index, and one compute CTA for each other GPU of the node.
Blocks == {<<Dev, b>> : b \in 0..(cfg.num_blocks - 1)}
OthersCompute == {<<d, 0>> : d \in 1..(cfg.devices - 1)}
IsCompute(c) == c[1] # Dev \/ c[2] < NumComp
IsSend(c) == c[1] = Dev /\ c[2] \in NumComp..(NumComp + cfg.num_send - 1)
IsProgress(c) ==
    LET id == c[2] - NumComp - cfg.num_send
    IN  c[1] = Dev /\ id \in 0..(Progress - 1)
SendId(c) == c[2] - NumComp

-----------------------------------------------------------------------------
\* Tiles and tasks.

Stride(c) == IF c[1] = Dev THEN NumComp ELSE 1
NumBlocksOfWork == cfg.devices * cfg.rows * cfg.cols

\* gemm_rs_slice_interleaved_devrel_decode: each GPU begins a round with its slice.
SliceOf(t, dev) == ((t % (cfg.devices * cfg.cols)) \div cfg.cols + dev) % cfg.devices
RowOf(t) == t \div (cfg.devices * cfg.cols)
ColOf(t) == t % cfg.cols
ChunkOf(t) == RowOf(t) * ChunksPerRow + ColOf(t) \div ChunkTiles
TileOf(t) == RowOf(t) * cfg.cols + ColOf(t)

FirstTile(ch) == (ch \div ChunksPerRow) * cfg.cols + (ch % ChunksPerRow) * ChunkTiles
TilesOf(ch) == Min({ChunkTiles, cfg.cols - (ch % ChunksPerRow) * ChunkTiles})
TilesIn(ch) == FirstTile(ch)..(FirstTile(ch) + TilesOf(ch) - 1)

\* The next task of CTA c, from t on, whose slice belongs to this GPU; tasks of other
\* slices do the same to their owners.
NextTask(c, t) ==
    Min({NumBlocksOfWork} \cup {u \in t..(NumBlocksOfWork - 1) :
                                  (u - t) % Stride(c) = 0 /\ SliceOf(u, c[1]) = Dev})

\* The queue of an arrival: the slot this node has at the sender picks the block of
\* queues, the chunk one of the block.
Queues == 0..(cfg.qps - 1)
QueuesPerPeer == Max({1, cfg.qps \div NumPeers})
QueueFrom(p, ch) == (NumPeers - 1 - p) * QueuesPerPeer + (ch % QueuesPerPeer)

\* pack_arrival_work and its inverses; the slot of the sender selects the tiles.
pack_arrival_work(first, n) == [tile |-> first + 1, run |-> (Max({n, 1}) - 1) % RunLimit]
unpack_arrival_first_tile(w) == w.tile - 1
unpack_arrival_num_tiles(w) == w.run + 1

-----------------------------------------------------------------------------
VARIABLES
    pc,             \* where each CTA is
    task, did,      \* compute CTA: the task, and which of its two halves are over
    chunk, peer, slot,  \* the chunk, the peer and the queue slot a CTA is busy with
    marks,          \* chunks of an arrival word that a CTA has still to publish
    copy,           \* a CTA's copy of what it is adding to
    posted,         \* chunks each send CTA has posted
    stored,         \* tiles <<GPU, tile>> added to the staging buffer
    comp_gemm_done, ready_count, ready_bits, sender_done,
    pushed,         \* commands <<peer, chunk>> in the FIFO
    sent,           \* what the NIC has read of the staging buffer for a command
    arrived,        \* data and flag <<peer, chunk>> that have landed here
    queue, arrival_queue_head, peer_mask, remote_arrived_flag,
    next_reduce, chunks_processed, scan,
    ready_slots, ready_head, ready_tail,
    accum_slots, accum_head, accum_tail,
    accum,          \* how often each peer was added to a chunk of the staging buffer
    accum_lock, accum_done, chunk_reduce_done,
    output          \* what was written of each chunk, as a sequence of the writes

computing == <<task, did, stored, comp_gemm_done, ready_count, ready_bits>>
sending == <<posted, sender_done, pushed, sent>>
arriving == <<arrived, queue>>
draining == <<arrival_queue_head, peer_mask, remote_arrived_flag>>
readyq == <<ready_slots, ready_head, ready_tail>>
accumq == <<accum_slots, accum_head, accum_tail>>
adding == <<copy, accum, accum_lock, accum_done, chunk_reduce_done>>
done == <<next_reduce, chunks_processed, scan, output>>
local == <<chunk, peer, slot, marks>>
vars == <<cfg, pc, local, computing, sending, arriving, draining, readyq, accumq, adding,
          done>>

\* The scratch buffers are zeroed by a kernel ahead of this one in the stream.
Init ==
    /\ cfg \in Configs
    /\ LET C == Blocks \cup OthersCompute
       IN  /\ task = [c \in C |-> IF IsCompute(c) THEN NextTask(c, c[2]) ELSE 0]
           /\ pc = [c \in C |-> IF IsCompute(c) THEN "compute" ELSE IF IsSend(c) THEN "send"
                                ELSE IF IsProgress(c) THEN "progress" ELSE "claim"]
           /\ did = [c \in C |-> {}]
           /\ chunk = [c \in C |-> 0] /\ peer = [c \in C |-> 0]
           /\ slot = [c \in C |-> IF IsProgress(c) THEN c[2] - NumComp - cfg.num_send ELSE 0]
           /\ marks = [c \in C |-> {}]
           /\ copy = [c \in C |-> [p \in Peers |-> 0]]
           /\ posted = [c \in C |-> 0]
    /\ stored = {}
    /\ comp_gemm_done = [d \in 0..(cfg.devices - 1) |-> [ch \in Chunks |-> 0]]
    /\ ready_count = [ch \in Chunks |-> 0]
    /\ ready_bits = [s \in 0..(cfg.num_send - 1) |-> {}]
    /\ sender_done = {} /\ pushed = {} /\ sent = {}
    /\ arrived = {} /\ queue = [q \in Queues |-> <<>>]
    /\ arrival_queue_head = [q \in Queues |-> 0]
    /\ peer_mask = [ch \in Chunks |-> {}] /\ remote_arrived_flag = [ch \in Chunks |-> 0]
    /\ next_reduce = 0 /\ chunks_processed = 0 /\ scan = 0
    /\ ready_slots = [i \in 0..(TotalChunks - 1) |-> 0] /\ ready_head = 0 /\ ready_tail = 0
    /\ accum_slots = [i \in 0..(TotalChunks * NumPeers - 1) |-> <<>>]
    /\ accum_head = 0 /\ accum_tail = 0
    /\ accum = [ch \in Chunks |-> [p \in Peers |-> 0]]
    /\ accum_lock = {} /\ accum_done = [ch \in Chunks |-> 0] /\ chunk_reduce_done = {}
    /\ output = [ch \in Chunks |-> <<>>]

Goes(c, to) == pc' = [pc EXCEPT ![c] = to]
At(c, place) == pc[c] = place
Takes(c, ch) == chunk' = [chunk EXCEPT ![c] = ch] /\ UNCHANGED <<peer, slot, marks>>

-----------------------------------------------------------------------------
\* Compute CTAs.  The store warp adds the tile to the owner's staging buffer; thread 0,
\* which belongs to another warp and does not wait for it, counts the tile.  The tile
\* after next needs the shared memory back, so neither runs a whole tile ahead.

Finish(c, half) ==
    IF did[c] \cup {half} = {"store", "count"}
      THEN /\ did' = [did EXCEPT ![c] = {}]
           /\ task' = [task EXCEPT ![c] = NextTask(c, @ + Stride(c))]
      ELSE did' = [did EXCEPT ![c] = @ \cup {half}] /\ UNCHANGED task

StoreTile(c) ==
    /\ At(c, "compute") /\ task[c] < NumBlocksOfWork /\ "store" \notin did[c]
    /\ stored' = stored \cup {<<c[1], TileOf(task[c])>>}
    /\ Finish(c, "store")
    /\ UNCHANGED <<cfg, pc, local, comp_gemm_done, ready_count, ready_bits, sending,
                   arriving, draining, readyq, accumq, adding, done>>

\* Which send CTA posts a chunk, and its number there.
SenderOf(ch) == (ch \div ChunksPerRow) % cfg.num_send
QueueIdx(ch) == ((ch \div ChunksPerRow) \div cfg.num_send) * ChunksPerRow + (ch % ChunksPerRow)

\* The bug of raising the ready bit when the first GPU is done.
CountTileEarly(c) ==
    LET ch == ChunkOf(task[c])
        last == comp_gemm_done[c[1]][ch] = TilesOf(ch) - 1
    IN  /\ At(c, "compute") /\ task[c] < NumBlocksOfWork /\ "count" \notin did[c]
        /\ comp_gemm_done' = [comp_gemm_done EXCEPT ![c[1]][ch] = @ + 1]
        /\ ready_count' = [ready_count EXCEPT ![ch] = @ + (IF last THEN 1 ELSE 0)]
        /\ ready_bits' = IF last /\ ready_count[ch] = 0
             THEN [ready_bits EXCEPT ![SenderOf(ch)] = @ \cup {QueueIdx(ch)}] ELSE ready_bits
        /\ Finish(c, "count")
        /\ UNCHANGED <<cfg, pc, local, stored, sending, arriving, draining, readyq, accumq,
                       adding, done>>

\* The last tile of a chunk on a GPU counts the GPU, and the last GPU raises the bit.
CountTile(c) ==
    LET ch == ChunkOf(task[c])
        last == comp_gemm_done[c[1]][ch] = TilesOf(ch) - 1
    IN  /\ At(c, "compute") /\ task[c] < NumBlocksOfWork /\ "count" \notin did[c]
        /\ comp_gemm_done' = [comp_gemm_done EXCEPT ![c[1]][ch] = @ + 1]
        /\ ready_count' = [ready_count EXCEPT ![ch] = @ + (IF last THEN 1 ELSE 0)]
        /\ ready_bits' = IF last /\ ready_count[ch] = cfg.devices - 1
             THEN [ready_bits EXCEPT ![SenderOf(ch)] = @ \cup {QueueIdx(ch)}] ELSE ready_bits
        /\ Finish(c, "count")
        /\ UNCHANGED <<cfg, pc, local, stored, sending, arriving, draining, readyq, accumq,
                       adding, done>>

ComputeEnds(c) ==
    /\ At(c, "compute") /\ task[c] = NumBlocksOfWork
    /\ Goes(c, IF c[1] = Dev THEN "claim" ELSE "exit")
    /\ UNCHANGED <<cfg, local, computing, sending, arriving, draining, readyq, accumq,
                   adding, done>>

-----------------------------------------------------------------------------
\* Send CTAs: send_tiles_coalesced.

RowsOf(c) == IF SendId(c) < cfg.rows
               THEN (cfg.rows - SendId(c) + cfg.num_send - 1) \div cfg.num_send ELSE 0

\* The bug of clearing the word that the bit is in.
TakeReadyWord(c) ==
    LET s == SendId(c)
        idx == Min(ready_bits[s])
        ch == (s + (idx \div ChunksPerRow) * cfg.num_send) * ChunksPerRow + (idx % ChunksPerRow)
    IN  /\ At(c, "send") /\ posted[c] < RowsOf(c) * ChunksPerRow /\ ready_bits[s] # {}
        /\ ready_bits' = [ready_bits EXCEPT ![s] = {}]
        /\ sender_done' = sender_done \cup {ch}
        /\ Takes(c, ch) /\ Goes(c, "push")
        /\ UNCHANGED <<cfg, task, did, stored, comp_gemm_done, ready_count, posted, pushed,
                       sent, arriving, draining, readyq, accumq, adding, done>>

\* Take the first ready bit; the chunk is marked as sent before it is pushed.
TakeReady(c) ==
    LET s == SendId(c)
        idx == Min(ready_bits[s])
        ch == (s + (idx \div ChunksPerRow) * cfg.num_send) * ChunksPerRow + (idx % ChunksPerRow)
    IN  /\ At(c, "send") /\ posted[c] < RowsOf(c) * ChunksPerRow /\ ready_bits[s] # {}
        /\ ready_bits' = [ready_bits EXCEPT ![s] = @ \ {idx}]
        /\ sender_done' = sender_done \cup {ch}
        /\ Takes(c, ch) /\ Goes(c, "push")
        /\ UNCHANGED <<cfg, task, did, stored, comp_gemm_done, ready_count, posted, pushed,
                       sent, arriving, draining, readyq, accumq, adding, done>>

PeerRank(p) == (cfg.node + 1 + p) % cfg.nodes

\* The bug of sending to the owner of the chunk and from it as well.
ReceiversIgnoreOwner(ch) == Peers

\* The peers a chunk goes to: all, or its owner if that is another node.
Receivers(ch) ==
    IF ReceiverOwner THEN {p \in Peers : PeerRank(p) = ch % cfg.nodes /\ ~Owns(ch)} ELSE Peers

PushChunk(c) ==
    /\ At(c, "push")
    /\ pushed' = pushed \cup {<<p, chunk[c]>> : p \in Receivers(chunk[c])}
    /\ posted' = [posted EXCEPT ![c] = @ + 1]
    /\ Goes(c, "send")
    /\ UNCHANGED <<cfg, local, computing, sender_done, sent, arriving, draining, readyq,
                   accumq, adding, done>>

SendEnds(c) ==
    /\ At(c, "send") /\ posted[c] = RowsOf(c) * ChunksPerRow
    /\ Goes(c, "claim")
    /\ UNCHANGED <<cfg, local, computing, sending, arriving, draining, readyq, accumq,
                   adding, done>>

\* The NIC reads the staging buffer for a command some time after the push.
NicReads(m) ==
    LET ch == m[2]
    IN  /\ m \in pushed /\ pushed' = pushed \ {m}
        /\ sent' = sent \cup {[to |-> m[1], chunk |-> ch,
                               own |-> \A p \in Peers : accum[ch][p] = 0,
                               whole |-> (0..(cfg.devices - 1)) \X TilesIn(ch) \subseteq stored]}
        /\ UNCHANGED <<cfg, pc, local, computing, posted, sender_done, arriving, draining,
                       readyq, accumq, adding, done>>

\* Data and flag of a peer land: an arrival word in the queue layout, the epoch in the
\* flag of the chunk's first tile otherwise.
PeerWrites(p, ch) ==
    /\ Owns(ch) /\ <<p, ch>> \notin arrived
    /\ arrived' = arrived \cup {<<p, ch>>}
    /\ queue' = IF Transport
         THEN [queue EXCEPT ![QueueFrom(p, ch)] =
                 Append(@, pack_arrival_work(p * SinglePeerTiles + FirstTile(ch), TilesOf(ch)))]
         ELSE queue
    /\ UNCHANGED <<cfg, pc, local, computing, sending, draining, readyq, accumq, adding, done>>

-----------------------------------------------------------------------------
\* Arrival queues: gemm_rs_recv_progress_once goes through the queues of the CTA and
\* takes words until they are empty.

MyQueues(c) ==
    IF Incremental THEN Queues ELSE {q \in Queues : q % Max({1, Progress}) = slot[c]}
Waiting(q) == arrival_queue_head[q] < Len(queue[q])

\* The chunks an arrival word covers, with the sender.
Covered(w) ==
    LET first == unpack_arrival_first_tile(w)
        tile == first % SinglePeerTiles
        col == tile % cfg.cols
        n == Min({unpack_arrival_num_tiles(w), cfg.cols - col})
    IN  {<<first \div SinglePeerTiles,
           (tile \div cfg.cols) * ChunksPerRow + k \div ChunkTiles>> : k \in col..(col + n - 1)}

\* gemm_rs_drain_arrival_queue_publish_flags: claim a word ...
DrainWord(c, q) ==
    /\ At(c, "drain") /\ q \in MyQueues(c) /\ Waiting(q)
    /\ arrival_queue_head' = [arrival_queue_head EXCEPT ![q] = @ + 1]
    /\ marks' = [marks EXCEPT ![c] =
         {m \in Covered(queue[q][arrival_queue_head[q] + 1]) : Owns(m[2])}]
    /\ Goes(c, "publish")
    /\ UNCHANGED <<cfg, chunk, peer, slot, computing, sending, arriving, peer_mask,
                   remote_arrived_flag, readyq, accumq, adding, done>>

\* ... and mark its chunks one by one: with the last peer the chunk has arrived, or,
\* incrementally, each new peer is queued to be added.
Publish(c, m) ==
    /\ At(c, "publish") /\ m \in marks[c]
    /\ marks' = [marks EXCEPT ![c] = @ \ {m}]
    /\ peer_mask' = [peer_mask EXCEPT ![m[2]] = @ \cup {m[1]}]
    /\ IF Incremental /\ m[1] \notin peer_mask[m[2]]
         THEN /\ slot' = [slot EXCEPT ![c] = accum_tail] /\ accum_tail' = accum_tail + 1
              /\ chunk' = [chunk EXCEPT ![c] = m[2]] /\ peer' = [peer EXCEPT ![c] = m[1]]
              /\ Goes(c, "enqueue_accum") /\ UNCHANGED remote_arrived_flag
         ELSE /\ remote_arrived_flag' =
                   IF /\ ~Incremental /\ Cardinality(peer_mask[m[2]]) < NumPeers
                      /\ Cardinality(peer_mask[m[2]] \cup {m[1]}) >= NumPeers
                     THEN [remote_arrived_flag EXCEPT ![m[2]] = 1] ELSE remote_arrived_flag
              /\ UNCHANGED <<pc, chunk, peer, slot, accum_tail>>
    /\ UNCHANGED <<cfg, computing, sending, arriving, arrival_queue_head, readyq,
                   accum_slots, accum_head, adding, done>>

\* gemm_rs_enqueue_peer_accum_work: the slot was taken, the work is stored.
EnqueueAccum(c) ==
    /\ At(c, "enqueue_accum")
    /\ accum_slots' = IF slot[c] < TotalChunks * NumPeers
         THEN [accum_slots EXCEPT ![slot[c]] = <<peer[c], chunk[c]>>] ELSE accum_slots
    /\ Goes(c, "publish")
    /\ UNCHANGED <<cfg, local, computing, sending, arriving, draining, readyq, accum_head,
                   accum_tail, adding, done>>

Published(c) ==
    /\ At(c, "publish") /\ marks[c] = {}
    /\ Goes(c, "drain")
    /\ UNCHANGED <<cfg, local, computing, sending, arriving, draining, readyq, accumq,
                   adding, done>>

DrainEnds(c) ==
    /\ At(c, "drain") /\ \A q \in MyQueues(c) : ~Waiting(q)
    /\ Goes(c, IF IsProgress(c) THEN "progress" ELSE IF Incremental THEN "pop" ELSE "try")
    /\ UNCHANGED <<cfg, local, computing, sending, arriving, draining, readyq, accumq,
                   adding, done>>

\* gemm_rs_recv_progress_loop, of the CTAs that do nothing else.
ProgressLoop(c) ==
    /\ At(c, "progress")
    /\ Goes(c, IF chunks_processed < OwnerChunksTotal THEN "drain" ELSE "exit")
    /\ UNCHANGED <<cfg, local, computing, sending, arriving, draining, readyq, accumq,
                   adding, done>>

-----------------------------------------------------------------------------
\* Claiming a chunk: reduce_tiles_ws.

\* The shared counter ...
ClaimNext(c) ==
    /\ At(c, "claim") /\ ~ReadyQueue
    /\ next_reduce' = next_reduce + 1
    /\ chunk' = [chunk EXCEPT ![c] = next_reduce]
    /\ Goes(c, IF next_reduce >= TotalChunks THEN "exit"
               ELSE IF Owns(next_reduce) THEN "wait" ELSE "claim")
    /\ UNCHANGED <<cfg, peer, slot, marks, computing, sending, arriving, draining, readyq,
                   accumq, adding, chunks_processed, scan, output>>

\* ... or the ready queue.  gemm_rs_ready_reduce_queue_progress looks at one chunk after
\* the other (one for each pop here, kScansPerProgress in the code) ...
Scan(c) ==
    LET ch == scan % TotalChunks
        skip == IF Transport THEN remote_arrived_flag[ch] = 2 ELSE remote_arrived_flag[ch] # 0
    IN  /\ At(c, "claim") /\ ReadyQueue
        /\ scan' = IF Incremental THEN scan
                   ELSE (scan + 1) % (TotalChunks * Max({1, Progress}))
        /\ chunk' = [chunk EXCEPT ![c] = ch]
        /\ slot' = [slot EXCEPT ![c] = scan % Max({1, Progress})]
        /\ Goes(c, IF Incremental THEN "drain" ELSE IF skip THEN "pop"
                   ELSE IF Transport THEN "drain" ELSE "try")
        /\ UNCHANGED <<cfg, peer, marks, computing, sending, arriving, draining, readyq,
                       accumq, adding, next_reduce, chunks_processed, output>>

\* gemm_rs_chunk_prereqs_ready: once true it stays so, up to the claim below.
Ready(ch) ==
    /\ ch \in sender_done
    /\ IF Transport THEN remote_arrived_flag[ch] = 1 ELSE \A p \in Peers : <<p, ch>> \in arrived

\* ... and the CTA whose compare-and-swap succeeds takes a slot of the queue for it.
TryReady(c) ==
    LET ch == chunk[c]
        won == Ready(ch) /\ remote_arrived_flag[ch] = IF Transport THEN 1 ELSE 0
    IN  /\ At(c, "try")
        /\ IF won
             THEN /\ remote_arrived_flag' = [remote_arrived_flag EXCEPT ![ch] = 2]
                  /\ slot' = [slot EXCEPT ![c] = ready_tail] /\ ready_tail' = ready_tail + 1
                  /\ Goes(c, "enqueue_ready")
             ELSE Goes(c, "pop") /\ UNCHANGED <<remote_arrived_flag, slot, ready_tail>>
        /\ UNCHANGED <<cfg, chunk, peer, marks, computing, sending, arriving,
                       arrival_queue_head, peer_mask, ready_slots, ready_head, accumq,
                       adding, done>>

EnqueueReady(c) ==
    /\ At(c, "enqueue_ready")
    /\ ready_slots' = IF slot[c] < TotalChunks
                        THEN [ready_slots EXCEPT ![slot[c]] = chunk[c] + 1] ELSE ready_slots
    /\ Goes(c, IF Incremental THEN "claim" ELSE "pop")
    /\ UNCHANGED <<cfg, local, computing, sending, arriving, draining, ready_head,
                   ready_tail, accumq, adding, done>>

\* gemm_rs_ready_reduce_queue_pop: the head is claimed, and its slot waited for.
Pop(c) ==
    /\ At(c, "pop")
    /\ IF ready_head < ready_tail
         THEN /\ ready_head' = ready_head + 1 /\ slot' = [slot EXCEPT ![c] = ready_head]
              /\ Goes(c, "pop_wait")
         ELSE Goes(c, "check") /\ UNCHANGED <<ready_head, slot>>
    /\ UNCHANGED <<cfg, chunk, peer, marks, computing, sending, arriving, draining,
                   ready_slots, ready_tail, accumq, adding, done>>

PopWait(c) ==
    /\ At(c, "pop_wait") /\ ready_slots[slot[c]] # 0
    /\ chunk' = [chunk EXCEPT ![c] = ready_slots[slot[c]] - 1]
    /\ Goes(c, IF Owns(ready_slots[slot[c]] - 1) THEN "wait" ELSE "claim")
    /\ UNCHANGED <<cfg, peer, slot, marks, computing, sending, arriving, draining, readyq,
                   accumq, adding, done>>

\* Nothing to pop: leave when every chunk is processed, else look again.
Check(c) ==
    /\ At(c, "check")
    /\ Goes(c, IF chunks_processed >= OwnerChunksTotal THEN "exit"
               ELSE IF Incremental THEN "accum_pop" ELSE "claim")
    /\ UNCHANGED <<cfg, local, computing, sending, arriving, draining, readyq, accumq,
                   adding, done>>

-----------------------------------------------------------------------------
\* Adding one peer to a chunk of the staging buffer: gemm_rs_process_peer_accum_work.

AccumPop(c) ==
    /\ At(c, "accum_pop")
    /\ IF accum_head < accum_tail
         THEN /\ accum_head' = accum_head + 1 /\ slot' = [slot EXCEPT ![c] = accum_head]
              /\ Goes(c, "accum_wait")
         ELSE Goes(c, "claim") /\ UNCHANGED <<accum_head, slot>>
    /\ UNCHANGED <<cfg, chunk, peer, marks, computing, sending, arriving, draining, readyq,
                   accum_slots, accum_tail, adding, done>>

AccumWait(c) ==
    LET w == accum_slots[slot[c]]
    IN  /\ At(c, "accum_wait") /\ w # <<>>
        /\ peer' = [peer EXCEPT ![c] = w[1]] /\ chunk' = [chunk EXCEPT ![c] = w[2]]
        /\ Goes(c, IF Owns(w[2]) THEN "accum_lock" ELSE "claim")
        /\ UNCHANGED <<cfg, slot, marks, computing, sending, arriving, draining, readyq,
                       accumq, adding, done>>

\* The bug of adding without the chunk's lock.
AccumNoLock(c) ==
    /\ At(c, "accum_lock") /\ chunk[c] \in sender_done
    /\ copy' = [copy EXCEPT ![c] = accum[chunk[c]]]
    /\ Goes(c, "accum_store")
    /\ UNCHANGED <<cfg, local, computing, sending, arriving, draining, readyq, accumq,
                   accum, accum_lock, accum_done, chunk_reduce_done, done>>

\* The chunk must have been sent; under its lock it is read ...
AccumLock(c) ==
    /\ At(c, "accum_lock") /\ chunk[c] \in sender_done /\ chunk[c] \notin accum_lock
    /\ accum_lock' = accum_lock \cup {chunk[c]}
    /\ copy' = [copy EXCEPT ![c] = accum[chunk[c]]]
    /\ Goes(c, "accum_store")
    /\ UNCHANGED <<cfg, local, computing, sending, arriving, draining, readyq, accumq,
                   accum, accum_done, chunk_reduce_done, done>>

\* ... the peer's data added, and the sum written back.
AccumStore(c) ==
    /\ At(c, "accum_store")
    /\ accum' = [accum EXCEPT ![chunk[c]] =
         [copy[c] EXCEPT ![peer[c]] = @ + IF <<peer[c], chunk[c]>> \in arrived THEN 1 ELSE 0]]
    /\ accum_lock' = accum_lock \ {chunk[c]}
    /\ Goes(c, "accum_count")
    /\ UNCHANGED <<cfg, local, computing, sending, arriving, draining, readyq, accumq, copy,
                   accum_done, chunk_reduce_done, done>>

\* The last peer makes the chunk ready.
AccumCount(c) ==
    LET ch == chunk[c]
        last == accum_done[ch] + 1 = NumPeers
    IN  /\ At(c, "accum_count")
        /\ accum_done' = [accum_done EXCEPT ![ch] = @ + 1]
        /\ IF last
             THEN /\ chunk_reduce_done' = chunk_reduce_done \cup {ch}
                  /\ slot' = [slot EXCEPT ![c] = ready_tail] /\ ready_tail' = ready_tail + 1
                  /\ Goes(c, "enqueue_ready")
             ELSE Goes(c, "claim") /\ UNCHANGED <<chunk_reduce_done, slot, ready_tail>>
        /\ UNCHANGED <<cfg, chunk, peer, marks, computing, sending, arriving, draining,
                       ready_slots, ready_head, accumq, copy, accum, accum_lock, done>>

-----------------------------------------------------------------------------
\* Reducing a chunk.

\* Wait for the peers (a flag of their own, then remembered in remote_arrived_flag)
\* and for the sender; incrementally, for the last peer to be added.
WaitPrereqs(c) ==
    LET ch == chunk[c]
    IN  /\ At(c, "wait")
        /\ IF Incremental THEN ch \in chunk_reduce_done /\ UNCHANGED remote_arrived_flag
           ELSE /\ ch \in sender_done
                /\ \/ remote_arrived_flag[ch] # 0 /\ UNCHANGED remote_arrived_flag
                   \/ /\ remote_arrived_flag[ch] = 0 /\ \A p \in Peers : <<p, ch>> \in arrived
                      /\ remote_arrived_flag' = [remote_arrived_flag EXCEPT ![ch] = 1]
        /\ Goes(c, "reduce")
        /\ UNCHANGED <<cfg, local, computing, sending, arriving, arrival_queue_head,
                       peer_mask, readyq, accumq, adding, done>>

\* The chunk's own sum, and what has been received from each peer if that is not in it.
Reduce(c) ==
    LET ch == chunk[c]
        sum == IF Incremental THEN accum[ch]
               ELSE [p \in Peers |-> IF <<p, ch>> \in arrived THEN 1 ELSE 0]
    IN  /\ At(c, "reduce")
        /\ output' = [output EXCEPT ![ch] = Append(@, sum)]
        /\ chunks_processed' = IF ReadyQueue THEN chunks_processed + 1 ELSE chunks_processed
        /\ Goes(c, "claim")
        /\ UNCHANGED <<cfg, local, computing, sending, arriving, draining, readyq, accumq,
                       adding, next_reduce, scan>>

-----------------------------------------------------------------------------
Cta(c) ==
    \/ StoreTile(c) \/ CountTile(c) \/ ComputeEnds(c)
    \/ TakeReady(c) \/ PushChunk(c) \/ SendEnds(c)
    \/ \E q \in Queues : DrainWord(c, q)
    \/ \E m \in marks[c] : Publish(c, m)
    \/ EnqueueAccum(c) \/ Published(c) \/ DrainEnds(c) \/ ProgressLoop(c)
    \/ ClaimNext(c) \/ Scan(c) \/ TryReady(c) \/ EnqueueReady(c) \/ Pop(c) \/ PopWait(c)
    \/ Check(c) \/ AccumPop(c) \/ AccumWait(c) \/ AccumLock(c) \/ AccumStore(c)
    \/ AccumCount(c) \/ WaitPrereqs(c) \/ Reduce(c)

KernelEnds == \A c \in DOMAIN pc : pc[c] = "exit"
Finished == KernelEnds /\ pushed = {} /\ UNCHANGED vars

Next ==
    \/ \E c \in DOMAIN pc : Cta(c)
    \/ \E m \in pushed : NicReads(m)
    \/ \E p \in Peers, ch \in Chunks : PeerWrites(p, ch)
    \/ Finished

Spec == Init /\ [][Next]_vars

\* Every CTA is resident, its two warps both run, the NIC and the peers go on.
FairSpec ==
    /\ Spec
    /\ \A c \in CtaIds : WF_vars(c \in DOMAIN pc /\ Cta(c))
    /\ WF_vars(\E m \in pushed : NicReads(m))
    /\ WF_vars(\E p \in Peers, ch \in Chunks : PeerWrites(p, ch))

-----------------------------------------------------------------------------
\* Properties.

\* Whichever CTAs claim, publish and add, in whatever order the peers' chunks come: a
\* chunk of the output is written once, with each peer in it exactly once.
ReducedOnce ==
    \A ch \in Chunks : /\ Len(output[ch]) <= 1
                       /\ \A i \in DOMAIN output[ch] : \A p \in Peers : output[ch][i][p] = 1

\* A chunk leaves once for each receiver, and not before every GPU of the node has
\* counted all of its tiles.
SentAfterCounts ==
    /\ \A x, y \in sent : x.to = y.to /\ x.chunk = y.chunk => x = y
    /\ \A x \in sent : \A d \in DOMAIN comp_gemm_done :
         comp_gemm_done[d][x.chunk] = TilesOf(x.chunk)

\* Peers are added to the same buffer that the NIC reads from, and sender_done is set
\* before the command is even pushed; what is sent has no peer's part in it all the
\* same, where only chunks that are not sent are added to (receiver-owner mode) or the
\* sum goes elsewhere.
SentUnmodified ==
    (Incremental => ReceiverOwner) =>
        \A x \in sent : x.own

\* The signal a send CTA waits for marks that the tiles of the chunk were added to the
\* staging buffer by every GPU.
StagedBeforeSend == \A x \in sent : x.whole

\* No CTA waits for ever, every chunk owned here is reduced and every other one sent.
KernelCompletes ==
    <>(/\ KernelEnds /\ \A ch \in Chunks : Owns(ch) => output[ch] # <<>>
       /\ \A ch \in Chunks : \A p \in Receivers(ch) :
            \E x \in sent : x.to = p /\ x.chunk = ch)

=============================================================================
