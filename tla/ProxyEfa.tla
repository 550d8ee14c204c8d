------------------------------ MODULE ProxyEfa ------------------------------
(***************************************************************************)
(* The EFA proxy thread of comm/internode/proxy_efa.h with the epoch       *)
(* transition of comm/internode/session_efa.h: one proxy thread with its   *)
(* FIFOs and SRD queue pairs, the host thread, the kernel and the peer     *)
(* whose transfers arrive here.                                            *)
(*                                                                         *)
(* What differs from Proxy: SRD carries out the WRs of a QP in any order;  *)
(* every WR leaves a completion, and only the last of a command counts;    *)
(* ibv_wr_complete takes a batch whole or not at all, and a refused batch  *)
(* is replayed; a barrier waits until the batch before it is posted and    *)
(* the CQ is drained; in write_imm mode a peer's arrival is a completion   *)
(* on the same CQ, which stamps the local flag with the local epoch.       *)
(***************************************************************************)
EXTENDS Integers, Sequences, FiniteSets, FiniteSetsExt

CONSTANTS Configs,    \* the ProxyConfigs a session may be created with
          BatchSize,  \* BATCH_SIZE
          SqDepth,    \* entries of a send queue
          Capacity    \* slots of a D2H FIFO

\* The fast transition does not pause the proxy: the bench that asks for it has
\* commit_epoch leave the FIFOs alone.
ASSUME ConfigAssumption == \A c \in Configs :
    /\ {c.num_qps, c.num_peers, c.max_inflight, c.max_epoch} \subseteq Nat \ {0}
    /\ {c.write_imm, c.use_arrival_queue, c.enable_remote_tail, c.fifo_per_qp,
        c.refuses, c.fast, c.skip_reset, c.peer_ahead, c.drain_may_time_out} \subseteq BOOLEAN
    /\ c.fast => c.skip_reset

\* What a kernel asks for.
ASSUME KernelAssumption ==
    \A f \in Configs : \A k \in f.kernels : \A c \in k :
        c \in [type : {"WRITE", "FENCE", "BARRIER_NOTIFY"}, tile : Nat, lane : Nat, dst : Nat]

ASSUME LimitAssumption == {BatchSize, SqDepth, Capacity} \subseteq Nat \ {0}

VARIABLE cfg       \* cfg_, the environment variables read, what the session is used for

WriteImm == cfg.write_imm                   \* notify_mode_
UseArrivalQueue == cfg.use_arrival_queue
HasTail == cfg.enable_remote_tail
QPs == 0..(cfg.num_qps - 1)
Peers == 0..(cfg.num_peers - 1)
NumFifos == IF cfg.fifo_per_qp THEN cfg.num_qps ELSE 1      \* MKERNEL_FIFO_PER_QP
Fifos == 0..(NumFifos - 1)
DrainMayTimeOut == cfg.drain_may_time_out   \* whether drain_proxy's 5 s may expire
MaxEpoch == cfg.max_epoch                   \* bound on the epochs of a behaviour

\* effective_max_inflight_ of the constructor.
EffectiveMaxInflight ==
    LET quarter == SqDepth \div 4
        cap == IF WriteImm THEN cfg.max_inflight
               ELSE IF quarter > BatchSize THEN quarter - BatchSize ELSE quarter
    IN  Max({1, Min({cap, cfg.max_inflight})}) * cfg.num_qps

VARIABLES
    todo,         \* GPU: commands the running kernel has still to push
    fifo,         \* commands pushed to each FIFO since it was reset
    cpu_head,     \* how many of them were polled
    tail,         \* how many of them were released
    tail_cache,   \* GPU: the tail as last read
    ppc,          \* proxy: where run() is
    cur,          \* proxy: current_fifo_idx
    batch,        \* proxy: the batch collected, or saved for a replay
    refused,      \* proxy: pending_count > 0, the batch is to be replayed
    pending_cpu_head,   \* proxy: cpu_head when the batch was collected
    stash,        \* proxy: pending_cmd_, as a sequence of at most one command
    barrier,      \* proxy: has_pending_barrier_, as a sequence of the barrier it stands for
    pre_inflight, \* proxy: inflight_ as loaded before collecting
    sender_seq,   \* proxy: next arrival slot of each logical queue
    running, paused, ack_paused, inflight, epoch,
    hpc,          \* host thread: where the epoch transition is
    wire,         \* NIC: WRs accepted and not carried out
    cq,           \* NIC: completions not polled, the peer's immediates among them
    landed,       \* NIC: WRs carried out
    flag,         \* the local arrival flag of each incoming tile
    sent          \* the last epoch in which the peer sent each incoming tile

gpu   == <<todo, fifo>>
rings == <<cpu_head, tail, tail_cache>>
loop  == <<cur, batch, refused, pending_cpu_head, stash, barrier, pre_inflight, sender_seq>>
flow  == <<running, paused, ack_paused>>
nic   == <<wire, cq, landed>>
vars  == <<cfg, gpu, rings, ppc, loop, flow, inflight, epoch, hpc, nic, flag, sent>>

-----------------------------------------------------------------------------
\* Commands and work requests.

\* What poll() leaves in a slot.
Empty == [type |-> "EMPTY", tile |-> 0, lane |-> 0, dst |-> 0, gen |-> 0]

\* Command c of the kernel launched in epoch e.
Of(c, e) == [type |-> c.type, tile |-> c.tile, lane |-> c.lane, dst |-> c.dst, gen |-> e]

LocalQp(c) == c.lane % cfg.num_qps             \* map_to_local_qp
FifoOf(c) == (c.lane % cfg.num_qps) \div (cfg.num_qps \div NumFifos)

\* n is the wr_id, 1 or 0: what the completion takes off inflight_.
Wr(op, c, q, s, n) == [op |-> op, cmd |-> c, qp |-> q, slot |-> s, epoch |-> epoch, n |-> n]

\* post_write_imm_batch: one WR per command.
ImmWrs(b) == {Wr("imm", b[i], LocalQp(b[1]), b[i].tile, 1) : i \in 1..Len(b)}

\* Slot of the i-th command's flag: one per tile in the flat layout, the next of
\* the logical queue otherwise (there are as many queues as QPs).
SlotOf(b, i) ==
    IF UseArrivalQueue
      THEN sender_seq[LocalQp(b[i])]
             + Cardinality({h \in 1..(i - 1) : LocalQp(b[h]) = LocalQp(b[i])})
      ELSE b[i].tile

\* post_remote_flag_batch: data, flag and, in the queue layout, a tail; every one
\* is signaled, the last one of a command counts.
FlagWrs(b) ==
    LET q == LocalQp(b[1])
        tails == UseArrivalQueue /\ HasTail
    IN  UNION {{Wr("data", b[i], q, 0, 0),
                Wr("flag", b[i], q, SlotOf(b, i), IF tails THEN 0 ELSE 1)}
               \cup (IF tails THEN {Wr("tail", b[i], q, SlotOf(b, i) + 1, 1)} ELSE {})
               : i \in 1..Len(b)}

BatchWrs(b) == IF WriteImm THEN ImmWrs(b) ELSE FlagWrs(b)

\* sender_seq_ after a call of post_remote_flag_batch, refused or not.
SeqAfter(b) ==
    [l \in QPs |-> sender_seq[l] +
        IF UseArrivalQueue /\ ~WriteImm
          THEN Cardinality({i \in 1..Len(b) : LocalQp(b[i]) = l}) ELSE 0]

-----------------------------------------------------------------------------
\* The NIC.  An entry of the send queue is given back when its completion has been
\* polled.  A post may be refused while the queue holds entries, and is when it
\* does not fit.

Occupied(q) == {w \in wire \cup cq : w.op # "arrival" /\ w.qp = q}
MayRefuse(q, ws) ==
    \/ cfg.refuses /\ Occupied(q) # {}
    \/ Cardinality(Occupied(q)) + Cardinality(ws) > SqDepth
MayAccept(q, ws) == Cardinality(Occupied(q)) + Cardinality(ws) <= SqDepth

\* SRD: any accepted WR may be the next to be carried out.
Execute(w) ==
    /\ w \in wire
    /\ wire' = wire \ {w} /\ cq' = cq \cup {w} /\ landed' = landed \cup {w}
    /\ UNCHANGED <<cfg, gpu, rings, ppc, loop, flow, inflight, epoch, hpc, flag, sent>>

\* The peer of a tile is in this epoch, or, past the barrier that follows
\* prepare_epoch, in the next one already.
PeerEpoch ==
    IF hpc = "kernel" THEN epoch
    ELSE IF cfg.peer_ahead /\ hpc = "prepared" THEN epoch + 1
    ELSE IF cfg.peer_ahead /\ hpc \in {"resume", "resuming", "idle"} THEN epoch ELSE 0

\* The peer's transfer of tile t: in write_imm mode a receive completion, in
\* remote_flag mode the flag itself is written.
PeerWrites(t) ==
    /\ sent[t] < PeerEpoch /\ PeerEpoch <= MaxEpoch
    /\ sent' = [sent EXCEPT ![t] = PeerEpoch]
    /\ IF WriteImm
         THEN cq' = cq \cup {[op |-> "arrival", tile |-> t]} /\ UNCHANGED flag
         ELSE flag' = [flag EXCEPT ![t] = PeerEpoch] /\ UNCHANGED cq
    /\ UNCHANGED <<cfg, gpu, rings, ppc, loop, flow, inflight, epoch, hpc, wire, landed>>

\* What polling the whole CQ takes off inflight_ and which tiles it announces.
Counted(s) == {w \in s : w.op # "arrival" /\ w.n > 0}
Retired == Cardinality(Counted(cq))
Arrivals == {w.tile : w \in {x \in cq : x.op = "arrival"}}

\* drain_cq: send completions are counted, receive completions are dropped.
DrainsCq ==
    /\ inflight > 0 /\ cq # {}
    /\ inflight' = inflight - Retired /\ cq' = {}
    /\ UNCHANGED <<wire, landed, flag>>

-----------------------------------------------------------------------------
\* create_session: epoch 1, clean FIFOs, the proxy thread started.
Init ==
    /\ cfg \in Configs
    /\ todo = {} /\ fifo = [f \in Fifos |-> <<>>]
    /\ cpu_head = [f \in Fifos |-> 0] /\ tail = [f \in Fifos |-> 0]
    /\ tail_cache = [f \in Fifos |-> 0]
    /\ ppc = "top" /\ cur = 0 /\ batch = <<>> /\ refused = FALSE /\ pending_cpu_head = 0
    /\ stash = <<>>
    /\ barrier = <<>> /\ pre_inflight = 0 /\ sender_seq = [l \in QPs |-> 0]
    /\ running = TRUE /\ paused = FALSE /\ ack_paused = FALSE
    /\ inflight = 0 /\ epoch = 1 /\ hpc = "idle"
    /\ wire = {} /\ cq = {} /\ landed = {}
    /\ flag = [t \in cfg.incoming |-> 0] /\ sent = [t \in cfg.incoming |-> 0]

-----------------------------------------------------------------------------
\* The proxy thread: run().

Leave ==
    /\ ppc = "top" /\ ~running
    /\ ppc' = "exit"
    /\ UNCHANGED <<cfg, gpu, rings, loop, flow, inflight, epoch, hpc, nic, flag, sent>>

\* The pause gate.
Acknowledge ==
    /\ ppc = "top" /\ running /\ paused
    /\ ack_paused' = TRUE /\ ppc' = "spin"
    /\ UNCHANGED <<cfg, gpu, rings, loop, running, paused, inflight, epoch, hpc, nic, flag, sent>>

SpinEnds ==
    /\ ppc = "spin" /\ ~paused
    /\ ppc' = "unack"
    /\ UNCHANGED <<cfg, gpu, rings, loop, flow, inflight, epoch, hpc, nic, flag, sent>>

Withdraw ==
    /\ ppc = "unack"
    /\ ack_paused' = FALSE /\ ppc' = "top"
    /\ UNCHANGED <<cfg, gpu, rings, loop, running, paused, inflight, epoch, hpc, nic, flag, sent>>

\* The barrier gate: a stashed barrier is posted once nothing is saved or stashed.
GateReady == barrier # <<>> /\ ~refused /\ stash = <<>>

OpenGate ==
    /\ ppc = "top" /\ running /\ ~paused /\ GateReady
    /\ ppc' = "gate"
    /\ UNCHANGED <<cfg, gpu, rings, loop, flow, inflight, epoch, hpc, nic, flag, sent>>

\* A batch that was refused is replayed as it is, on the same QP ...
Replay ==
    /\ ppc = "top" /\ running /\ ~paused /\ ~GateReady /\ refused
    /\ pre_inflight' = inflight /\ ppc' = "post"
    /\ UNCHANGED <<cfg, gpu, rings, cur, batch, refused, pending_cpu_head, stash, barrier,
                   sender_seq, flow, inflight, epoch, hpc, nic, flag, sent>>

\* ... or a new one starts on the next FIFO, with the stashed command first.
StartBatch ==
    LET seed == stash # <<>> /\ inflight < EffectiveMaxInflight
    IN  /\ ppc = "top" /\ running /\ ~paused /\ ~GateReady /\ ~refused
        /\ pre_inflight' = inflight
        /\ cur' = (cur + 1) % NumFifos
        /\ batch' = IF seed THEN stash ELSE <<>>
        /\ stash' = IF seed THEN <<>> ELSE stash
        /\ ppc' = "collect"
        /\ UNCHANGED <<cfg, gpu, rings, refused, pending_cpu_head, barrier, sender_seq,
                       flow, inflight, epoch, hpc, nic, flag, sent>>

CanCollect == Len(batch) < BatchSize /\ pre_inflight + Len(batch) < EffectiveMaxInflight
More == cpu_head[cur] < Len(fifo[cur]) /\ fifo[cur][cpu_head[cur] + 1].type # "EMPTY"
Joins(c) == batch # <<>> => LocalQp(c) = LocalQp(batch[1]) /\ c.dst = batch[1].dst

\* The accumulate loop is entered with a batch that is neither empty nor closed.
AfterCollect == IF batch # <<>> /\ Len(batch) < BatchSize /\ stash = <<>>
                  THEN "accumulate" ELSE "post"

Polls(c) ==
    /\ CanCollect /\ More /\ c = fifo[cur][cpu_head[cur] + 1]
    /\ cpu_head' = [cpu_head EXCEPT ![cur] = @ + 1]
    /\ UNCHANGED <<cfg, gpu, tail, tail_cache, cur, refused, pending_cpu_head, pre_inflight,
                   sender_seq, flow, inflight, epoch, hpc, nic, flag, sent>>

\* A WRITE for the QP and peer of the batch joins it ...
TakeWrite(c) ==
    /\ c.type = "WRITE" /\ Joins(c)
    /\ batch' = Append(batch, c)
    /\ UNCHANGED <<ppc, stash, barrier>>

\* ... another one is stashed and closes the batch ...
TakeStash(c) ==
    /\ c.type = "WRITE" /\ ~Joins(c)
    /\ stash' = <<c>> /\ ppc' = "post"
    /\ UNCHANGED <<batch, barrier>>

\* The bug of posting a barrier ahead of the batch being collected.
TakeBarrierAtOnce(c) ==
    /\ c.type = "BARRIER_NOTIFY"
    /\ ppc' = "inline" /\ UNCHANGED <<batch, stash, barrier>>

\* ... a barrier is posted at once before the first command of a batch, and stashed
\* behind one; either loop then stops, the first one to enter the second ...
TakeBarrier(c) ==
    /\ c.type = "BARRIER_NOTIFY"
    /\ UNCHANGED <<batch, stash>>
    /\ IF batch = <<>>
         THEN ppc' = "inline" /\ UNCHANGED barrier
         ELSE barrier' = <<c>> /\ ppc' = IF ppc = "collect" THEN AfterCollect ELSE "post"

\* ... and anything else is dropped.
TakeNothing(c) ==
    /\ c.type \notin {"WRITE", "BARRIER_NOTIFY"}
    /\ UNCHANGED <<ppc, batch, stash, barrier>>

Collect ==
    /\ ppc \in {"collect", "accumulate"} /\ More
    /\ LET c == fifo[cur][cpu_head[cur] + 1]
       IN  Polls(c) /\ (TakeWrite(c) \/ TakeStash(c) \/ TakeBarrier(c) \/ TakeNothing(c))

\* The first loop ends when the FIFO is empty, the second when it has missed often
\* enough.
CollectEnds ==
    /\ ppc \in {"collect", "accumulate"} /\ ~(CanCollect /\ More)
    /\ UNCHANGED <<cfg, gpu, rings, loop, flow, inflight, epoch, hpc, nic, flag, sent>>
    /\ ppc' = IF ppc = "collect" THEN AfterCollect ELSE "post"

\* drain_cq and post_stage_barrier, from the gate or from inside the collection: a
\* WR for each peer on QP 0, each posted on its own.
BarrierDrain ==
    /\ ppc \in {"gate", "inline"} /\ DrainsCq
    /\ UNCHANGED <<cfg, gpu, rings, ppc, loop, flow, epoch, hpc, sent>>

BarrierCmd == IF ppc = "gate" THEN barrier[1] ELSE fifo[cur][cpu_head[cur]]
BarrierWrs == {Wr("barrier", [peer |-> p, for |-> BarrierCmd], 0, 0, 1) : p \in Peers}

PostStageBarrier ==
    /\ ppc \in {"gate", "inline"} /\ inflight <= 0
    /\ \E ok \in SUBSET BarrierWrs :
         /\ MayAccept(0, ok) /\ (ok # BarrierWrs => MayRefuse(0, BarrierWrs))
         /\ wire' = wire \cup ok /\ inflight' = inflight + Cardinality(ok)
    /\ IF ppc = "gate" THEN ppc' = "top" /\ barrier' = <<>>
                       ELSE ppc' = "collect" /\ UNCHANGED barrier
    /\ UNCHANGED <<cfg, gpu, rings, cur, batch, refused, pending_cpu_head, stash, pre_inflight,
                   sender_seq, flow, epoch, hpc, cq, landed, flag, sent>>

\* cpu_head is saved when a batch has been collected, not when it is replayed.
SavesHead == pending_cpu_head' = IF refused THEN pending_cpu_head ELSE cpu_head[cur]

\* The bug of keeping the batch to be replayed after it was posted.
PostBatchKept ==
    /\ ppc = "post" /\ batch # <<>> /\ MayAccept(LocalQp(batch[1]), BatchWrs(batch))
    /\ wire' = wire \cup BatchWrs(batch)
    /\ inflight' = inflight + Len(batch)
    /\ sender_seq' = SeqAfter(batch) /\ UNCHANGED refused /\ SavesHead
    /\ ppc' = "poll_posted"
    /\ UNCHANGED <<cfg, gpu, rings, cur, batch, stash, barrier, pre_inflight, flow, epoch,
                   hpc, cq, landed, flag, sent>>

\* ibv_wr_complete takes the batch ...
PostBatch ==
    /\ ppc = "post" /\ batch # <<>> /\ MayAccept(LocalQp(batch[1]), BatchWrs(batch))
    /\ wire' = wire \cup BatchWrs(batch)
    /\ inflight' = inflight + Len(batch)
    /\ sender_seq' = SeqAfter(batch) /\ refused' = FALSE /\ SavesHead
    /\ ppc' = "poll_posted"
    /\ UNCHANGED <<cfg, gpu, rings, cur, batch, stash, barrier, pre_inflight, flow, epoch,
                   hpc, cq, landed, flag, sent>>

\* ... or refuses it: the batch is saved, its arrival slots are spent.
BatchRefused ==
    /\ ppc = "post" /\ batch # <<>> /\ MayRefuse(LocalQp(batch[1]), BatchWrs(batch))
    /\ sender_seq' = SeqAfter(batch) /\ refused' = TRUE /\ SavesHead
    /\ ppc' = "poll"
    /\ UNCHANGED <<cfg, gpu, rings, cur, batch, stash, barrier, pre_inflight, flow,
                   inflight, epoch, hpc, nic, flag, sent>>

PostNothing ==
    /\ ppc = "post" /\ batch = <<>>
    /\ ppc' = "poll"
    /\ UNCHANGED <<cfg, gpu, rings, loop, flow, inflight, epoch, hpc, nic, flag, sent>>

\* The bug of reading the CQ as drain_cq does.
PollCqDropsArrivals ==
    /\ ppc \in {"poll", "poll_posted"}
    /\ inflight' = inflight - Retired /\ cq' = {}
    /\ tail' = IF ppc = "poll_posted" THEN [tail EXCEPT ![cur] = pending_cpu_head] ELSE tail
    /\ ppc' = "top"
    /\ UNCHANGED <<cfg, gpu, cpu_head, tail_cache, loop, flow, epoch, hpc, wire, landed, flag,
                   sent>>

\* Poll the CQ: a receive completion sets the flag of its tile to the epoch of this
\* side.  The FIFO's tail moves only after a batch was posted, to the saved cpu_head: a
\* batch that was refused before commit_epoch moves it to one of the epoch before.
PollCq ==
    /\ ppc \in {"poll", "poll_posted"}
    /\ inflight' = inflight - Retired /\ cq' = {}
    /\ flag' = [t \in DOMAIN flag |-> IF t \in Arrivals THEN epoch ELSE flag[t]]
    /\ tail' = IF ppc = "poll_posted" THEN [tail EXCEPT ![cur] = pending_cpu_head] ELSE tail
    /\ ppc' = "top"
    /\ UNCHANGED <<cfg, gpu, cpu_head, tail_cache, loop, flow, epoch, hpc, wire, landed, sent>>

\* After the loop.
ExitDrain ==
    /\ ppc = "exit" /\ DrainsCq
    /\ UNCHANGED <<cfg, gpu, rings, ppc, loop, flow, epoch, hpc, sent>>

Exit ==
    /\ ppc = "exit" /\ inflight <= 0
    /\ ppc' = "ended"
    /\ UNCHANGED <<cfg, gpu, rings, loop, flow, inflight, epoch, hpc, nic, flag, sent>>

ProxyStep ==
    \/ Leave \/ Acknowledge \/ SpinEnds \/ Withdraw \/ OpenGate \/ Replay \/ StartBatch
    \/ Collect \/ CollectEnds \/ BarrierDrain \/ PostStageBarrier \/ PostBatch
    \/ BatchRefused \/ PostNothing \/ PollCq \/ ExitDrain \/ Exit

-----------------------------------------------------------------------------
\* The host thread and the kernel it launches.

Launch(k) ==
    /\ hpc = "idle"
    /\ todo' = {Of(c, epoch) : c \in k}
    /\ hpc' = "kernel"
    /\ UNCHANGED <<cfg, fifo, rings, ppc, loop, flow, inflight, epoch, nic, flag, sent>>

\* A kernel pushes its barrier last.  It goes by the tail alone: where the tail is ahead
\* of cpu_head, the command takes the slot of one that was not polled, and the proxy
\* finds it there in its place and nothing in the slot's next turn.
Push(c) ==
    LET f == FifoOf(c)
        n == Len(fifo[f]) + 1
        i == cpu_head[f] + 1 + ((Len(fifo[f]) - cpu_head[f]) % Capacity)
    IN  /\ c \in todo
        /\ IF n <= Capacity + tail_cache[f] THEN UNCHANGED tail_cache
           ELSE n <= Capacity + tail[f] /\ tail_cache' = [tail_cache EXCEPT ![f] = tail[f]]
        /\ c.type = "BARRIER_NOTIFY" => \A d \in todo : d.type # "WRITE"
        /\ fifo' = [fifo EXCEPT ![f] = [Append(@, Empty) EXCEPT ![i] = c]]
        /\ todo' = todo \ {c}
        /\ UNCHANGED <<cfg, cpu_head, tail, ppc, loop, flow, inflight, epoch, hpc, nic, flag, sent>>

\* The kernel ends when it has pushed everything and seen every incoming tile.
KernelEnds ==
    /\ hpc = "kernel" /\ todo = {}
    /\ \A t \in DOMAIN flag : flag[t] = epoch
    /\ hpc' = "drain"
    /\ UNCHANGED <<cfg, gpu, rings, ppc, loop, flow, inflight, epoch, nic, flag, sent>>

\* The bug of looking at the completions only.
DrainProxyInflightOnly ==
    /\ hpc = "drain" /\ inflight = 0
    /\ hpc' = IF cfg.fast THEN "prepared" ELSE "drained"
    /\ UNCHANGED <<cfg, gpu, rings, ppc, loop, flow, inflight, epoch, nic, flag, sent>>

\* drain_proxy looks at the FIFO of each proxy thread's own number, FIFO 0 here, and
\* goes on after five seconds.  MKERNEL_PREP_EPOCH_FAST = 2 ends prepare_epoch with it.
DrainProxy ==
    /\ hpc = "drain"
    /\ DrainMayTimeOut \/ (cpu_head[0] >= Len(fifo[0]) /\ inflight = 0)
    /\ hpc' = IF cfg.fast THEN "prepared" ELSE "drained"
    /\ UNCHANGED <<cfg, gpu, rings, ppc, loop, flow, inflight, epoch, nic, flag, sent>>

Pause ==
    /\ hpc = "drained" /\ paused' = TRUE
    /\ hpc' = "pausing"
    /\ UNCHANGED <<cfg, gpu, rings, ppc, loop, running, ack_paused, inflight, epoch,
                   nic, flag, sent>>

PauseReturns ==
    /\ hpc = "pausing" /\ ack_paused
    /\ hpc' = "drain_cq"
    /\ UNCHANGED <<cfg, gpu, rings, ppc, loop, flow, inflight, epoch, nic, flag, sent>>

HostDrainCq ==
    /\ hpc = "drain_cq" /\ DrainsCq
    /\ UNCHANGED <<cfg, gpu, rings, ppc, loop, flow, epoch, hpc, sent>>

\* reset_inflight also forgets a stashed barrier.
Prepared ==
    /\ hpc = "drain_cq" /\ inflight <= 0
    /\ inflight' = 0 /\ barrier' = <<>> /\ hpc' = "prepared"
    /\ UNCHANGED <<cfg, gpu, rings, ppc, cur, batch, refused, pending_cpu_head, stash, pre_inflight,
                   sender_seq, flow, epoch, nic, flag, sent>>

\* commit_epoch: the next epoch and arrival slots from 0; unless the reset is
\* skipped, clean flags and a clean FIFO for each proxy thread.
CommitEpoch ==
    /\ hpc = "prepared" /\ epoch < MaxEpoch
    /\ epoch' = epoch + 1
    /\ sender_seq' = [l \in QPs |-> 0]
    /\ IF cfg.skip_reset
         THEN UNCHANGED <<fifo, rings, flag>>
         ELSE /\ fifo' = [fifo EXCEPT ![0] = <<>>]
              /\ cpu_head' = [cpu_head EXCEPT ![0] = 0]
              /\ tail' = [tail EXCEPT ![0] = 0] /\ tail_cache' = [tail_cache EXCEPT ![0] = 0]
              /\ flag' = [t \in DOMAIN flag |-> 0]
    /\ hpc' = "resume"
    /\ UNCHANGED <<cfg, todo, ppc, cur, batch, refused, pending_cpu_head, stash, barrier,
                   pre_inflight, flow, inflight, nic, sent>>

ResumeAck ==
    /\ hpc = "resume" /\ ack_paused' = FALSE
    /\ hpc' = "resuming"
    /\ UNCHANGED <<cfg, gpu, rings, ppc, loop, running, paused, inflight, epoch, nic, flag, sent>>

Resume ==
    /\ hpc = "resuming" /\ paused' = FALSE
    /\ hpc' = "idle"
    /\ UNCHANGED <<cfg, gpu, rings, ppc, loop, running, ack_paused, inflight, epoch,
                   nic, flag, sent>>

\* destroy_session.
Stop ==
    /\ hpc = "drained" \/ (cfg.fast /\ hpc = "prepared")
    /\ running' = FALSE
    /\ hpc' = "join"
    /\ UNCHANGED <<cfg, gpu, rings, ppc, loop, paused, ack_paused, inflight, epoch,
                   nic, flag, sent>>

Join ==
    /\ hpc = "join" /\ ppc = "ended"
    /\ hpc' = "destroyed"
    /\ UNCHANGED <<cfg, gpu, rings, ppc, loop, flow, inflight, epoch, nic, flag, sent>>

HostStep ==
    \/ \E k \in cfg.kernels : Launch(k)
    \/ KernelEnds \/ DrainProxy \/ Pause \/ PauseReturns \/ HostDrainCq \/ Prepared
    \/ CommitEpoch \/ ResumeAck \/ Resume \/ Stop \/ Join

Finished ==
    /\ hpc = "destroyed" \/ (hpc = "prepared" /\ epoch = MaxEpoch)
    /\ UNCHANGED vars

Next ==
    \/ ProxyStep \/ HostStep
    \/ \E c \in todo : Push(c)
    \/ \E w \in wire : Execute(w)
    \/ \E t \in DOMAIN sent : PeerWrites(t)
    \/ Finished

Spec == Init /\ [][Next]_vars

\* Both threads are scheduled, the kernel's threads and the peer go on, and SRD,
\* though unordered, is reliable.
FairSpec ==
    /\ Spec
    /\ WF_vars(ProxyStep) /\ WF_vars(HostStep)
    /\ WF_vars(\E c \in todo : Push(c))
    /\ WF_vars(\E w \in wire : Execute(w))
    /\ WF_vars(\E t \in DOMAIN sent : PeerWrites(t))

-----------------------------------------------------------------------------
\* Properties.

Announces(w) == w.op \in {"imm", "flag"}
Pushed == UNION {{fifo[f][i] : i \in 1..Len(fifo[f])} : f \in Fifos}
Announced(c) == \E w \in landed : Announces(w) /\ w.cmd = c

\* However often a batch is refused, each of its commands is announced once, and in
\* the queue layout no two commands of an epoch share a slot of the receiver's queue.
AnnouncedOnce ==
    /\ wire \cap landed = {}
    /\ \A v, w \in wire \cup landed :
         Announces(v) /\ Announces(w) /\ v # w =>
           /\ v.cmd # w.cmd
           /\ UseArrivalQueue /\ ~WriteImm /\ v.epoch = w.epoch /\ v.qp = w.qp
                => v.slot # w.slot

\* The transfers ahead of barrier b in its FIFO.
AheadOf(b) ==
    UNION {LET at == {i \in 1..Len(fifo[f]) : fifo[f][i] = b}
           IN  {fifo[f][k] : k \in {h \in 1..Len(fifo[f]) :
                  fifo[f][h].type = "WRITE" /\ \E i \in at : h < i}}
           : f \in Fifos}

Barriers == {w \in wire \cup landed : w.op = "barrier"}

\* No arrival flag that precedes a barrier in the FIFO can land after the barrier: the
\* peer that sees the barrier clears its flags for good.  It holds where the flag is
\* the last WR of a command (no tails).
BarrierAfterFlags ==
    ~HasTail => \A w \in Barriers : \A c \in AheadOf(w.cmd.for) : Announced(c)

\* The same of all WRs that precede the barrier, the data too: what draining the CQ
\* to inflight_ = 0 is said to give.
BarrierAfterWrites ==
    \A w \in Barriers : \A v \in wire : v.cmd \notin AheadOf(w.cmd.for)

\* Nothing is kept where drain_proxy does not look: a stashed command or barrier, a
\* refused batch, a second FIFO, a data WR whose flag has completed; and drain_proxy does
\* not give up.
DrainsAll ==
    /\ ~DrainMayTimeOut
    /\ WriteImm /\ cfg.num_qps = 1 /\ ~cfg.refuses /\ cfg.max_inflight <= SqDepth
    /\ \A c, d \in UNION cfg.kernels : c.type # "BARRIER_NOTIFY" /\ c.dst = d.dst

\* Where that is so, prepare_epoch and destroy_session return with every transfer of
\* the epoch announced and no WR on the way.  The fast prepare_epoch promises less: it
\* does not stop a proxy that holds a batch.
QuiescentWhenPrepared ==
    DrainsAll /\ (hpc = "destroyed" \/ (hpc = "prepared" /\ ~cfg.fast)) =>
        wire = {} /\ \A c \in Pushed : c.type = "WRITE" => Announced(c)

\* A push waits while the ring is full and never takes the slot of a command that was not
\* polled: what the tail is for.
NothingOverwritten == \A f \in Fifos : \A i \in 1..Len(fifo[f]) : fifo[f][i].type # "EMPTY"

\* No arrival is lost between the peer's write and the kernel that waits for it, no
\* replay goes on for ever, no barrier blocks the loop: the session comes to its end.
SessionEnds == <>(hpc = "destroyed" \/ (hpc = "prepared" /\ epoch = MaxEpoch))

=============================================================================
