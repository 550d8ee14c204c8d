-------------------------------- MODULE Proxy -------------------------------
(***************************************************************************)
(* The CX7 proxy thread of comm/internode/proxy.h, the host thread that    *)
(* drives it through the epoch transition of comm/internode/session.h, the *)
(* GPU kernel that feeds it, and the NIC it posts to.                      *)
(*                                                                         *)
(* The proxy loops: pause gate, collect a batch of commands for one QP     *)
(* from the FIFO (a command for another QP is stashed), post its work      *)
(* requests (WRs) in one call, poll the completion queue, release FIFO     *)
(* slots.  Host and proxy share paused, ack_paused, inflight, cpu_head.    *)
(*                                                                         *)
(* The ring itself is abstracted to what D2HFifo is proved to implement:   *)
(* commands are polled whole, once and in order.  A transfer command is    *)
(* its tile (which names it), its kind and what routes it.  Forwarding     *)
(* (enable_forward_notify) is off, there is one proxy thread, and the NIC  *)
(* completes every WR it accepts successfully.                             *)
(***************************************************************************)
EXTENDS Integers, Sequences, FiniteSets, FiniteSetsExt

CONSTANTS Configs,      \* the ProxyConfigs a session may be created with
          QpSqDepth,    \* kQpSqDepth, and the depth of the real SQ
          SafetyMargin, \* kSafetyMargin
          BatchSize,    \* BATCH_SIZE
          CqPoll,       \* completions taken by one poll_cq
          MaxSendSge,   \* cfg.max_send_sge
          MaxRows,      \* kMaxRows of a strided post
          MaxDataWrs,   \* kMaxDataWrs of a strided post
          Capacity,     \* slots of the D2H FIFO
          MaxEpoch      \* bound on the epochs of a behaviour

\* A configuration: the fields of ProxyConfig that the loop looks at, and what
\* the session is used for (the kernels, whether drain_proxy may give up).
ASSUME ConfigAssumption == \A c \in Configs :
    /\ {c.num_qps, c.global_num_qps} \subseteq Nat \ {0} /\ c.qp_base_idx \in Nat
    /\ c.logical_queues_per_qp \in 1..16 /\ c.num_nodes \in Nat \ {0, 1}
    /\ c.max_inflight \in Nat \ {0}
    /\ {c.use_arrival_queue, c.channelize_gpu_peers, c.enable_remote_tail,
        c.direct_dmabuf_enabled, c.drain_may_time_out} \subseteq BOOLEAN

\* What a kernel asks for: type, the source view (2 is strided, of `rows`
\* rows), the lane and the peer/GPU channel that route it.
ASSUME KernelAssumption ==
    \A f \in Configs : \A k \in f.kernels : \A c \in k :
        c \in [type : {"WRITE", "FENCE", "BARRIER_NOTIFY"}, view : 0..2, rows : Nat,
               tile : Nat, lane : Nat, chan : Nat]

ASSUME LimitAssumption ==
    /\ QpSqDepth \in Nat /\ SafetyMargin \in Nat
    /\ BatchSize \in Nat \ {0} /\ CqPoll \in Nat \ {0}
    /\ MaxSendSge \in Nat \ {0} /\ {MaxRows, MaxDataWrs} \subseteq Nat
    /\ Capacity \in Nat \ {0}

VARIABLE cfg             \* cfg_: the configuration of this session

NumQPs == cfg.num_qps                   \* QPs this proxy owns
GlobalNumQPs == cfg.global_num_qps      \* QPs of the session
QpBase == cfg.qp_base_idx               \* first global QP it owns
LogicalQueuesPerQP == cfg.logical_queues_per_qp
NumNodes == cfg.num_nodes
UseArrivalQueue == cfg.use_arrival_queue        \* queue or flat layout
ChannelizeGpuPeers == cfg.channelize_gpu_peers  \* route by reserved0
EnableRemoteTail == cfg.enable_remote_tail
DirectDmabuf == cfg.direct_dmabuf_enabled
MaxInflightCfg == cfg.max_inflight
Kernels == cfg.kernels                  \* what a kernel may push: sets of commands
DrainMayTimeOut == cfg.drain_may_time_out  \* whether drain_proxy's 5 s may expire

QPs == 0..(NumQPs - 1)
TotalLogicalQueues == GlobalNumQPs * LogicalQueuesPerQP
LogicalQueues == 0..(TotalLogicalQueues - 1)

\* kWrsPerChunk and effective_max_inflight_ of the constructor.
WrsPerChunk == 2 + (IF EnableRemoteTail THEN 1 ELSE 0)

PerQpChunkCap == Max({1, QpSqDepth \div WrsPerChunk - SafetyMargin})
EffectiveMaxInflight == Min({MaxInflightCfg, PerQpChunkCap}) * NumQPs

VARIABLES
    todo,        \* GPU: commands the running kernel has still to push
    fifo,        \* commands pushed since the FIFO was reset; head is its length
    cpu_head,    \* how many of them the proxy polled
    tail,        \* how many of them it released
    ppc,         \* proxy: where run() is
    batch,       \* proxy: commands collected this iteration
    batch_qp,    \* proxy: local QP of the batch
    pending,     \* proxy: pending_cmd_, as a sequence of at most one command
    pre_inflight,\* proxy: inflight_ as loaded before collecting
    strided_posted, \* proxy: WRs of strided commands posted, not yet counted
    sender_seq,  \* proxy: next arrival slot of each logical queue
    qp_rr_idx,   \* proxy: next QP of the flat layout
    running, paused, ack_paused, inflight,  \* the atomics of the class
    epoch,       \* cfg_.epoch
    hpc,         \* host thread: where the epoch transition is
    posted,      \* NIC: all WRs accepted on each QP, in order
    done,        \* NIC: how many of them it has carried out
    freed,       \* NIC: how many of them have given back their SQ entry
    cq           \* NIC: completions not yet polled

gpu  == <<todo, fifo>>
loop == <<batch, batch_qp, pending, pre_inflight, strided_posted, sender_seq,
          qp_rr_idx>>
flow == <<running, paused, ack_paused>>
nic  == <<posted, done, freed, cq>>
vars == <<cfg, todo, fifo, cpu_head, tail, ppc, loop, flow, inflight, epoch, hpc, nic>>

-----------------------------------------------------------------------------
\* The NIC.  A WR is refused when the send queue of its QP is full; an entry
\* comes back only when the completion of a signaled WR at or after it has
\* been polled.  ibv_post_send accepts the prefix of a chain that fits.

\* WRs of a chain of n that QP q accepts, and whether it accepts them all.
Room(q) == QpSqDepth - (Len(posted[q]) - freed[q])
Accepts(q, n) == Min({n, Room(q)})
Fits(q, n) == n <= Room(q)

\* The NIC carries out the next WR of a QP: RC keeps the order of a QP, and a
\* signaled WR leaves a completion.
Execute(q) ==
    /\ done[q] < Len(posted[q])
    /\ done' = [done EXCEPT ![q] = @ + 1]
    /\ cq' = IF posted[q][done'[q]].wr_count > 0
               THEN Append(cq, [qp |-> q, wr |-> done'[q]]) ELSE cq
    /\ UNCHANGED <<cfg, gpu, cpu_head, tail, ppc, loop, flow, inflight, epoch, hpc,
                   posted, freed>>

\* poll_cq: at most CqPoll completions leave the queue, each gives back the
\* SQ entries up to its WR and takes the count in its wr_id off inflight_.
PollCq ==
    LET n == Min({CqPoll, Len(cq)})
        last(q) == Max({freed[q]} \cup {cq[i].wr : i \in {j \in 1..n : cq[j].qp = q}})
    IN  /\ cq' = SubSeq(cq, n + 1, Len(cq))
        /\ freed' = [q \in QPs |-> last(q)]
        /\ inflight' = inflight
             - MapThenSumSet(LAMBDA i : posted[cq[i].qp][cq[i].wr].wr_count, 1..n)
        /\ UNCHANGED <<posted, done>>

-----------------------------------------------------------------------------
\* Routing and work requests.

\* route_global_qp less qp_base_idx: the local QP of a command.
RouteQp(c) == ((IF ChannelizeGpuPeers THEN c.chan ELSE c.lane) % GlobalNumQPs) - QpBase

Routed == UseArrivalQueue \/ ChannelizeGpuPeers

LogicalQueue(c) == c.lane % TotalLogicalQueues

Wr(op, c, s, n) == [op |-> op, cmd |-> c, slot |-> s, epoch |-> epoch, wr_count |-> n]

\* The WRs of one command after its data: the arrival flag in slot s and, when
\* the sender publishes tails, the tail s + 1.  The last one is signaled with
\* wr_count n, or not when n = 0.
FlagWrs(c, s, n) ==
    IF UseArrivalQueue /\ EnableRemoteTail
      THEN <<Wr("flag", c, s, 0), Wr("tail", c, s + 1, n)>>
      ELSE <<Wr("flag", c, s, n)>>

\* Slot of the i-th command of batch b: the queue layout takes the next one of
\* its logical queue, the flat layout has one per tile.
SlotOf(b, i) ==
    IF UseArrivalQueue
      THEN sender_seq[LogicalQueue(b[i])]
             + Cardinality({h \in 1..(i - 1) : LogicalQueue(b[h]) = LogicalQueue(b[i])})
      ELSE b[i].tile

ChainFlagFirst(b) ==
    LET w == 1 + Len(FlagWrs(b[1], 0, 0))
        wrs(i) == FlagWrs(b[i], SlotOf(b, i), IF i = Len(b) THEN Len(b) ELSE 0)
                    \o <<Wr("data", b[i], 0, 0)>>
    IN  [k \in 1..(w * Len(b)) |-> wrs((k - 1) \div w + 1)[((k - 1) % w) + 1]]

\* The chained WR list of a batch: data, flag (and tail) of each command, the
\* last WR signaled with the number of commands.
Chain(b) ==
    LET w == 1 + Len(FlagWrs(b[1], 0, 0))
        wrs(i) == <<Wr("data", b[i], 0, 0)>>
                    \o FlagWrs(b[i], SlotOf(b, i), IF i = Len(b) THEN Len(b) ELSE 0)
    IN  [k \in 1..(w * Len(b)) |-> wrs((k - 1) \div w + 1)[((k - 1) % w) + 1]]

\* sender_seq_ after the commands of b took their slots.
SeqAfter(b) ==
    [l \in LogicalQueues |-> sender_seq[l] +
        IF UseArrivalQueue
          THEN Cardinality({i \in 1..Len(b) : LogicalQueue(b[i]) = l}) ELSE 0]

\* The bug of signalling peer 0 only.
BarrierFirstPeerOnly == {0}

\* QPs on which post_stage_barrier posts: the first of every peer's block, or
\* QP 0 alone.
BarrierQPs ==
    LET peers == NumNodes - 1
    IN  IF ChannelizeGpuPeers /\ peers > 1 /\ NumQPs >= peers
          THEN {p * (NumQPs \div peers) : p \in 0..(peers - 1)} ELSE {0}

\* Each barrier WR is posted on its own; one that is refused is not counted.
PostStageBarrier(c) ==
    LET ok == {q \in BarrierQPs : Fits(q, 1)}
    IN  /\ posted' = [q \in QPs |->
                        IF q \in ok THEN Append(posted[q], Wr("barrier", c, 0, 1))
                                    ELSE posted[q]]
        /\ inflight' = inflight + Cardinality(ok)
        /\ UNCHANGED <<done, freed, cq>>

-----------------------------------------------------------------------------
\* create_session: epoch 1, a clean FIFO, the proxy thread started.
Init ==
    /\ cfg \in Configs
    /\ todo = {} /\ fifo = <<>> /\ cpu_head = 0 /\ tail = 0
    /\ ppc = "top" /\ batch = <<>> /\ batch_qp = 0 /\ pending = <<>>
    /\ pre_inflight = 0 /\ strided_posted = 0
    /\ sender_seq = [l \in LogicalQueues |-> 0] /\ qp_rr_idx = 0
    /\ running = TRUE /\ paused = FALSE /\ ack_paused = FALSE
    /\ inflight = 0 /\ epoch = 1 /\ hpc = "idle"
    /\ posted = [q \in QPs |-> <<>>] /\ done = [q \in QPs |-> 0]
    /\ freed = [q \in QPs |-> 0] /\ cq = <<>>

-----------------------------------------------------------------------------
\* The proxy thread: run().

\* Top of the loop: leave when stop() cleared running_ ...
Leave ==
    /\ ppc = "top" /\ ~running
    /\ ppc' = "exit"
    /\ UNCHANGED <<cfg, gpu, cpu_head, tail, loop, flow, inflight, epoch, hpc, nic>>

\* ... acknowledge a pause ...
Acknowledge ==
    /\ ppc = "top" /\ running /\ paused
    /\ ack_paused' = TRUE /\ ppc' = "spin"
    /\ UNCHANGED <<cfg, gpu, cpu_head, tail, loop, running, paused, inflight, epoch,
                   hpc, nic>>

\* ... spin on paused_ until it is seen clear, then withdraw the acknowledgement
\* and start afresh ...
SpinEnds ==
    /\ ppc = "spin" /\ ~paused
    /\ ppc' = "unack"
    /\ UNCHANGED <<cfg, gpu, cpu_head, tail, loop, flow, inflight, epoch, hpc, nic>>

Withdraw ==
    /\ ppc = "unack"
    /\ ack_paused' = FALSE /\ ppc' = "top"
    /\ UNCHANGED <<cfg, gpu, cpu_head, tail, loop, running, paused, inflight, epoch,
                   hpc, nic>>

\* The bug of seeding the batch and keeping the stash.
StartBatchKeepsPending ==
    LET seed == Routed /\ pending # <<>> /\ inflight < EffectiveMaxInflight
    IN  /\ ppc = "top" /\ running /\ ~paused
        /\ pre_inflight' = inflight
        /\ batch' = IF seed THEN pending ELSE <<>>
        /\ pending' = pending
        /\ batch_qp' = IF seed THEN RouteQp(pending[1]) ELSE qp_rr_idx
        /\ ppc' = "collect"
        /\ UNCHANGED <<cfg, gpu, cpu_head, tail, strided_posted, sender_seq, qp_rr_idx,
                       flow, inflight, epoch, hpc, nic>>

\* ... or start a batch, with the stashed command first when there is room.
StartBatch ==
    LET seed == Routed /\ pending # <<>> /\ inflight < EffectiveMaxInflight
    IN  /\ ppc = "top" /\ running /\ ~paused
        /\ pre_inflight' = inflight
        /\ batch' = IF seed THEN pending ELSE <<>>
        /\ pending' = IF seed THEN <<>> ELSE pending
        /\ batch_qp' = IF seed THEN RouteQp(pending[1]) ELSE qp_rr_idx
        /\ ppc' = "collect"
        /\ UNCHANGED <<cfg, gpu, cpu_head, tail, strided_posted, sender_seq, qp_rr_idx,
                       flow, inflight, epoch, hpc, nic>>

\* One round of the collect loop polls the FIFO while the batch has room.
CanCollect == Len(batch) < BatchSize /\ pre_inflight + Len(batch) < EffectiveMaxInflight

Polls(c) ==
    /\ ppc = "collect" /\ CanCollect
    /\ cpu_head < Len(fifo) /\ c = fifo[cpu_head + 1]
    /\ cpu_head' = cpu_head + 1
    /\ UNCHANGED <<cfg, gpu, tail, pre_inflight, strided_posted, sender_seq, qp_rr_idx,
                   flow, epoch, hpc>>

\* BARRIER_NOTIFY: posted at once, ahead of the batch being collected.
CollectBarrier(c) ==
    /\ c.type = "BARRIER_NOTIFY" /\ PostStageBarrier(c)
    /\ UNCHANGED <<ppc, batch, batch_qp, pending>>

\* Any other type, and a command routed to a QP of another proxy, is dropped.
Collectable(c) == c.type = "WRITE" /\ (Routed => RouteQp(c) \in QPs)

CollectNothing(c) ==
    /\ c.type # "BARRIER_NOTIFY" /\ ~Collectable(c)
    /\ UNCHANGED <<ppc, batch, batch_qp, pending, inflight, nic>>

\* A WRITE for the batch's QP (the first one decides it) joins the batch ...
Joins(c) == Routed => batch = <<>> \/ RouteQp(c) = batch_qp

CollectWrite(c) ==
    /\ Collectable(c) /\ Joins(c)
    /\ batch' = Append(batch, c)
    /\ batch_qp' = IF Routed THEN RouteQp(c) ELSE batch_qp
    /\ UNCHANGED <<ppc, pending, inflight, nic>>

\* ... one for another QP is stashed and ends the collection.
CollectStash(c) ==
    /\ Collectable(c) /\ ~Joins(c)
    /\ pending' = <<c>> /\ ppc' = "strided"
    /\ UNCHANGED <<batch, batch_qp, inflight, nic>>

Collect(c) == Polls(c) /\ (\/ CollectBarrier(c) \/ CollectNothing(c)
                           \/ CollectWrite(c) \/ CollectStash(c))

CollectEnds ==
    /\ ppc = "collect" /\ ~(CanCollect /\ cpu_head < Len(fifo))
    /\ ppc' = "strided"
    /\ UNCHANGED <<cfg, gpu, cpu_head, tail, loop, flow, inflight, epoch, hpc, nic>>

\* post_strided_direct: the first strided command leaves the batch and is
\* posted as a chain of its own, its data gathered MaxSendSge rows at a time.
\* An impossible shape returns 0 early; a refused chain returns 0 as well, but
\* its arrival slot is spent.  The WRs, not the command, count as in flight,
\* from the end of the posting step on.
Strided(c) == DirectDmabuf /\ c.view = 2
DataWrs(c) == (c.rows + MaxSendSge - 1) \div MaxSendSge
StridedShapeOk(c) == c.rows \in 1..MaxRows /\ DataWrs(c) <= MaxDataWrs

\* The bug of a completion that retires the command, where its WRs are counted.
StridedChainCountsOne(c) ==
    [k \in 1..DataWrs(c) |-> Wr("data", c, 0, 0)] \o FlagWrs(c, SlotOf(<<c>>, 1), 1)

StridedChain(c) ==
    LET n == DataWrs(c) + Len(FlagWrs(c, 0, 0))
    IN  [k \in 1..DataWrs(c) |-> Wr("data", c, 0, 0)]
          \o FlagWrs(c, SlotOf(<<c>>, 1), n)

PostStrided ==
    /\ ppc = "strided"
    /\ \E i \in 1..Len(batch) :
         /\ Strided(batch[i]) /\ \A h \in 1..(i - 1) : ~Strided(batch[h])
         /\ batch' = SubSeq(batch, 1, i - 1) \o SubSeq(batch, i + 1, Len(batch))
         /\ IF StridedShapeOk(batch[i])
              THEN LET ch == StridedChain(batch[i])
                   IN  /\ sender_seq' = SeqAfter(<<batch[i]>>)
                       /\ posted' = [posted EXCEPT ![batch_qp] =
                                       @ \o SubSeq(ch, 1, Accepts(batch_qp, Len(ch)))]
                       /\ strided_posted' = strided_posted
                            + IF Fits(batch_qp, Len(ch)) THEN Len(ch) ELSE 0
              ELSE UNCHANGED <<cfg, sender_seq, posted, strided_posted>>
    /\ UNCHANGED <<cfg, gpu, cpu_head, tail, ppc, batch_qp, pending, pre_inflight,
                   qp_rr_idx, flow, inflight, epoch, hpc, done, freed, cq>>

NoStrided == \A i \in 1..Len(batch) : ~Strided(batch[i])

\* The bug of counting WRs on posting and commands on completion.
PostBatchCountsWrs ==
    /\ ppc = "strided" /\ NoStrided /\ batch # <<>>
    /\ LET ch == Chain(batch)
       IN  /\ posted' = [posted EXCEPT ![batch_qp] =
                           @ \o SubSeq(ch, 1, Accepts(batch_qp, Len(ch)))]
           /\ inflight' = inflight + strided_posted
                + IF Fits(batch_qp, Len(ch)) THEN Len(ch) ELSE 0
    /\ strided_posted' = 0
    /\ sender_seq' = SeqAfter(batch)
    /\ qp_rr_idx' = IF UseArrivalQueue THEN qp_rr_idx ELSE (qp_rr_idx + 1) % NumQPs
    /\ ppc' = "poll_cq"
    /\ UNCHANGED <<cfg, gpu, cpu_head, tail, batch, batch_qp, pending, pre_inflight,
                   flow, epoch, hpc, done, freed, cq>>

\* The batch is posted in one call.  When a WR is refused the WRs before it
\* stay posted, nothing is counted, and the commands are gone.  The flat layout
\* moves on to the next QP either way.
PostBatch ==
    /\ ppc = "strided" /\ NoStrided /\ batch # <<>>
    /\ LET ch == Chain(batch)
       IN  /\ posted' = [posted EXCEPT ![batch_qp] =
                           @ \o SubSeq(ch, 1, Accepts(batch_qp, Len(ch)))]
           /\ inflight' = inflight + strided_posted
                + IF Fits(batch_qp, Len(ch)) THEN Len(batch) ELSE 0
    /\ strided_posted' = 0
    /\ sender_seq' = SeqAfter(batch)
    /\ qp_rr_idx' = IF UseArrivalQueue THEN qp_rr_idx ELSE (qp_rr_idx + 1) % NumQPs
    /\ ppc' = "poll_cq"
    /\ UNCHANGED <<cfg, gpu, cpu_head, tail, batch, batch_qp, pending, pre_inflight,
                   flow, epoch, hpc, done, freed, cq>>

\* Nothing but strided commands, or no command at all.
PostNothing ==
    /\ ppc = "strided" /\ batch = <<>>
    /\ inflight' = inflight + strided_posted /\ strided_posted' = 0
    /\ ppc' = "poll_cq"
    /\ UNCHANGED <<cfg, gpu, cpu_head, tail, batch, batch_qp, pending, pre_inflight,
                   sender_seq, qp_rr_idx, flow, epoch, hpc, nic>>

ProxyPollCq ==
    /\ ppc = "poll_cq" /\ PollCq
    /\ ppc' = "advance_tail"
    /\ UNCHANGED <<cfg, gpu, cpu_head, tail, loop, flow, epoch, hpc>>

\* FIFO slots are released only by an iteration that batched something.
AdvanceTail ==
    /\ ppc = "advance_tail"
    /\ tail' = IF batch # <<>> THEN cpu_head ELSE tail
    /\ ppc' = "top" /\ batch' = <<>>
    /\ UNCHANGED <<cfg, gpu, cpu_head, batch_qp, pending, pre_inflight, strided_posted,
                   sender_seq, qp_rr_idx, flow, inflight, epoch, hpc, nic>>

\* After the loop: poll until inflight_ is 0, then the thread ends.
ExitDrain ==
    /\ ppc = "exit" /\ inflight > 0 /\ cq # <<>> /\ PollCq
    /\ UNCHANGED <<cfg, gpu, cpu_head, tail, ppc, loop, flow, epoch, hpc>>

Exit ==
    /\ ppc = "exit" /\ inflight <= 0
    /\ ppc' = "ended"
    /\ UNCHANGED <<cfg, gpu, cpu_head, tail, loop, flow, inflight, epoch, hpc, nic>>

ProxyStep ==
    \/ Leave \/ Acknowledge \/ SpinEnds \/ Withdraw \/ StartBatch
    \/ cpu_head < Len(fifo) /\ Collect(fifo[cpu_head + 1])
    \/ CollectEnds \/ PostStrided \/ PostBatch \/ PostNothing
    \/ ProxyPollCq \/ AdvanceTail \/ ExitDrain \/ Exit

-----------------------------------------------------------------------------
\* The host thread and the kernel it launches.

\* Command c as a kernel of epoch e pushes it.
Of(c, e) == [type |-> c.type, view |-> c.view, rows |-> c.rows, tile |-> c.tile,
             lane |-> c.lane, chan |-> c.chan, gen |-> e]

\* A kernel of the current epoch starts; its commands carry the epoch.
Launch(k) ==
    /\ hpc = "idle"
    /\ todo' = {Of(c, epoch) : c \in k}
    /\ hpc' = "kernel"
    /\ UNCHANGED <<cfg, fifo, cpu_head, tail, ppc, loop, flow, inflight, epoch, nic>>

\* Any of its threads pushes next, once the ring has room.
Push(c) ==
    /\ c \in todo /\ Len(fifo) < Capacity + tail
    /\ fifo' = Append(fifo, c) /\ todo' = todo \ {c}
    /\ UNCHANGED <<cfg, cpu_head, tail, ppc, loop, flow, inflight, epoch, hpc, nic>>

\* cudaDeviceSynchronize: the kernel has pushed everything.
Synchronize ==
    /\ hpc = "kernel" /\ todo = {}
    /\ hpc' = "drain"
    /\ UNCHANGED <<cfg, gpu, cpu_head, tail, ppc, loop, flow, inflight, epoch, nic>>

\* The bug of draining what is in flight but not what is still in the FIFO.
DrainProxyInflightOnly ==
    /\ hpc = "drain" /\ inflight = 0
    /\ hpc' = "drained"
    /\ UNCHANGED <<cfg, gpu, cpu_head, tail, ppc, loop, flow, inflight, epoch, nic>>

\* drain_proxy: all commands polled and nothing in flight, or five seconds.
DrainProxy ==
    /\ hpc = "drain"
    /\ DrainMayTimeOut \/ (cpu_head >= Len(fifo) /\ inflight = 0)
    /\ hpc' = "drained"
    /\ UNCHANGED <<cfg, gpu, cpu_head, tail, ppc, loop, flow, inflight, epoch, nic>>

\* prepare_epoch: pause() stores paused_ ...
Pause ==
    /\ hpc = "drained" /\ paused' = TRUE
    /\ hpc' = "pausing"
    /\ UNCHANGED <<cfg, gpu, cpu_head, tail, ppc, loop, running, ack_paused, inflight,
                   epoch, nic>>

\* ... and waits for the acknowledgement.
PauseReturns ==
    /\ hpc = "pausing" /\ ack_paused
    /\ hpc' = "drain_cq"
    /\ UNCHANGED <<cfg, gpu, cpu_head, tail, ppc, loop, flow, inflight, epoch, nic>>

\* drain_cq polls while inflight_ > 0 ...
DrainCq ==
    /\ hpc = "drain_cq" /\ inflight > 0 /\ cq # <<>> /\ PollCq
    /\ UNCHANGED <<cfg, gpu, cpu_head, tail, ppc, loop, flow, epoch, hpc>>

\* The bug of trusting drain_proxy and not draining the CQ again.
PreparedNoDrain ==
    /\ hpc = "drain_cq"
    /\ inflight' = 0 /\ hpc' = "prepared"
    /\ UNCHANGED <<cfg, gpu, cpu_head, tail, ppc, loop, flow, epoch, nic>>

\* ... then reset_inflight ends the first phase.
Prepared ==
    /\ hpc = "drain_cq" /\ inflight <= 0
    /\ inflight' = 0 /\ hpc' = "prepared"
    /\ UNCHANGED <<cfg, gpu, cpu_head, tail, ppc, loop, flow, epoch, nic>>

\* The bug of a new epoch that goes on with the old arrival slots.
CommitEpochKeepsSeq ==
    /\ hpc = "prepared" /\ epoch < MaxEpoch
    /\ epoch' = epoch + 1
    /\ fifo' = <<>> /\ cpu_head' = 0 /\ tail' = 0
    /\ hpc' = "resume"
    /\ UNCHANGED <<cfg, todo, ppc, loop, flow, inflight, nic>>

\* commit_epoch: the next epoch, arrival slots from 0 again, an empty FIFO.
CommitEpoch ==
    /\ hpc = "prepared" /\ epoch < MaxEpoch
    /\ epoch' = epoch + 1
    /\ sender_seq' = [l \in LogicalQueues |-> 0]
    /\ fifo' = <<>> /\ cpu_head' = 0 /\ tail' = 0
    /\ hpc' = "resume"
    /\ UNCHANGED <<cfg, todo, ppc, batch, batch_qp, pending, pre_inflight,
                   strided_posted, qp_rr_idx, flow, inflight, nic>>

\* resume(): two stores, in this order.
ResumeAck ==
    /\ hpc = "resume" /\ ack_paused' = FALSE
    /\ hpc' = "resuming"
    /\ UNCHANGED <<cfg, gpu, cpu_head, tail, ppc, loop, running, paused, inflight,
                   epoch, nic>>

Resume ==
    /\ hpc = "resuming" /\ paused' = FALSE
    /\ hpc' = "idle"
    /\ UNCHANGED <<cfg, gpu, cpu_head, tail, ppc, loop, running, ack_paused, inflight,
                   epoch, nic>>

\* destroy_session: after draining, stop() clears running_ and joins.
Stop ==
    /\ hpc = "drained" /\ running' = FALSE
    /\ hpc' = "join"
    /\ UNCHANGED <<cfg, gpu, cpu_head, tail, ppc, loop, paused, ack_paused, inflight,
                   epoch, nic>>

Join ==
    /\ hpc = "join" /\ ppc = "ended"
    /\ hpc' = "destroyed"
    /\ UNCHANGED <<cfg, gpu, cpu_head, tail, ppc, loop, flow, inflight, epoch, nic>>

HostStep ==
    \/ \E k \in Kernels : Launch(k)
    \/ Synchronize \/ DrainProxy \/ Pause \/ PauseReturns \/ DrainCq \/ Prepared
    \/ CommitEpoch \/ ResumeAck \/ Resume \/ Stop \/ Join

\* The session is gone, or the bound on epochs is reached: nothing more happens.
Finished ==
    /\ hpc = "destroyed" \/ (hpc = "prepared" /\ epoch = MaxEpoch)
    /\ UNCHANGED vars

Next ==
    \/ ProxyStep
    \/ HostStep
    \/ \E c \in todo : Push(c)
    \/ \E q \in QPs : Execute(q)
    \/ Finished

Spec == Init /\ [][Next]_vars

\* The proxy thread, the host thread and the NIC keep running, and the threads
\* of a kernel are scheduled: weak fairness of each.  Which of the two ends of
\* an epoch the host chooses is left open.
FairSpec ==
    /\ Spec
    /\ WF_vars(ProxyStep)
    /\ WF_vars(HostStep)
    /\ WF_vars(\E c \in todo : Push(c))
    /\ \A q \in UNION {0..(c.num_qps - 1) : c \in Configs} :
         WF_vars(q \in QPs /\ Execute(q))

-----------------------------------------------------------------------------
\* What the properties talk about.

Executed(q) == {posted[q][i] : i \in 1..done[q]}
AllPosted == UNION {{posted[q][i] : i \in 1..Len(posted[q])} : q \in QPs}
AllExecuted == UNION {Executed(q) : q \in QPs}

\* WRs whose completion the proxy still has to see, as inflight_ counts them.
Outstanding ==
    MapThenSumSet(LAMBDA q : MapThenSumSet(LAMBDA i : posted[q][i].wr_count,
                                           (freed[q] + 1)..Len(posted[q])), QPs)

\* The proxy may transfer c: it is routed here and, if strided, well formed.
Transferable(c) == Collectable(c) /\ (Strided(c) => StridedShapeOk(c))

\* Commands pushed, and those polled, since the FIFO was reset.
Pushed == {fifo[i] : i \in 1..Len(fifo)}
Polled == {fifo[i] : i \in 1..cpu_head}

-----------------------------------------------------------------------------
\* Properties.

\* inflight_, with what the posting step has still to add, is exactly what the
\* unpolled completions will take off it, whatever was refused or timed out: if
\* it ran high drain_cq would spin for ever, if it ran low the transition would
\* go on with writes outstanding.
InflightExact == inflight + strided_posted = Outstanding

\* When the NIC writes an arrival flag, all the data of that command has been
\* written on the same QP.
DataBeforeFlag ==
    \A q \in QPs : \A i \in 1..done[q] :
        posted[q][i].op = "flag" =>
          LET c == posted[q][i].cmd
          IN  Cardinality({j \in 1..(i - 1) : posted[q][j].op = "data"
                                               /\ posted[q][j].cmd = c})
                = IF Strided(c) THEN DataWrs(c) ELSE 1

\* Arrival slots of a logical queue fill from 0 without a hole and without two
\* commands in one slot, and a published tail never covers an empty slot: the
\* receiver walks each queue slot by slot and stops at the first empty one.
ArrivalSlotsDense == UseArrivalQueue =>
    \A l \in LogicalQueues, e \in 1..epoch :
        LET of(op) == {w \in AllExecuted : w.op = op /\ w.epoch = e
                                           /\ LogicalQueue(w.cmd) = l}
        IN  /\ {w.slot : w \in of("flag")} = 0..(Cardinality(of("flag")) - 1)
            /\ \A w \in of("tail") : w.slot <= Cardinality(of("flag"))

\* Nothing can be left in pending_cmd_ when drain_proxy is satisfied (one QP, or
\* no routing by command), and drain_proxy does not give up.
DrainsAll == ~(Routed /\ NumQPs > 1) /\ ~DrainMayTimeOut

\* No command is transferred twice; and where drain_proxy drains everything, the WRs
\* of a command are posted in the epoch whose kernel pushed it.
TransferredOnce ==
    /\ \A w \in AllPosted : w.op = "flag" =>
         Cardinality(UNION {{<<q, i>> : i \in {j \in 1..Len(posted[q]) :
                              posted[q][j].op = "flag" /\ posted[q][j].cmd = w.cmd}}
                            : q \in QPs}) = 1
    /\ DrainsAll => \A w \in AllPosted : w.epoch = w.cmd.gen

\* Everything the kernel pushed has reached the peer, and the NIC is idle.
Quiescent ==
    /\ cpu_head = Len(fifo) /\ pending = <<>> /\ batch = <<>> /\ cq = <<>>
    /\ \A q \in QPs : done[q] = Len(posted[q])
    /\ \A i \in 1..Len(fifo) : Transferable(fifo[i]) =>
         \E w \in AllExecuted : w.op = "flag" /\ w.cmd = fifo[i]

\* When prepare_epoch returns, and when destroy_session has joined the proxy, the
\* session is quiescent: what drain_proxy is said to wait for.
DrainedAtBoundary == hpc \in {"prepared", "destroyed"} => Quiescent

\* The same, under the condition under which the code achieves it.
QuiescentWhenPrepared == DrainsAll => DrainedAtBoundary

\* The peer at the other end of a QP: create_session gives each peer a block.
PeerOf(q) ==
    IF ChannelizeGpuPeers
      THEN Min({NumNodes - 2, (QpBase + q) \div Max({1, GlobalNumQPs \div (NumNodes - 1)})})
      ELSE 0

\* Once the transition has drained the proxy, a barrier it polled has been
\* written to every peer: each of them waits for it.
BarrierReachesEveryPeer ==
    hpc = "prepared" =>
        \A c \in Polled : c.type = "BARRIER_NOTIFY" =>
            \A p \in 0..(NumNodes - 2) : \E q \in QPs :
                PeerOf(q) = p /\ \E w \in Executed(q) : w.op = "barrier" /\ w.cmd = c

\* The epoch transition and the shutdown go through: the host gets to the end.
SessionEnds == <>(hpc = "destroyed" \/ (hpc = "prepared" /\ epoch = MaxEpoch))

\* Every transfer a kernel pushes reaches the peer in the end, through full
\* rings, full send queues and the epoch transitions.
Delivered ==
    \A c \in UNION UNION {f.kernels : f \in Configs} : \A e \in 1..MaxEpoch :
        (Of(c, e) \in Pushed /\ Transferable(Of(c, e)))
          ~> \E w \in AllExecuted : w.op = "flag" /\ w.cmd = Of(c, e)

=============================================================================
